----------------------------- MODULE Connection -----------------------------
(***************************************************************************)
(* The web client's connection to its node: pj-web/src/node.rs and the     *)
(* part of pj-web/src/store.rs that recovers from an outage.               *)
(*                                                                         *)
(* Each handler of the page runs to its end before another starts, and the *)
(* microtask in which flush_outbox sends runs right after the handler that *)
(* scheduled it, so a handler and its flush are one step.                  *)
(*                                                                         *)
(* An edit has been applied to the local copy of the open board or task by *)
(* the time its request is queued.  A request is the set of edits in it: a *)
(* delta holds one, push_state all those of its contract, a get none.      *)
(***************************************************************************)
EXTENDS Naturals, Sequences, FiniteSets

CONSTANTS
  BoardEdit, TaskEdit, \* the edits the user makes to the open board, and task
  MaxSockets           \* bound: sockets opened, by failures and by Retry

Edit == BoardEdit \cup TaskEdit

ASSUME EditsAssumption ==
  BoardEdit \cap TaskEdit = {} /\ MaxSockets \in Nat \ {0}

MAX_BACKOFF_MS == 30000

VARIABLES
  sockets,    \* every socket so far: "connecting", "open", "broken", "closed"
  isOpen,     \* IS_OPEN
  attempt,    \* ATTEMPT
  outbox,     \* OUTBOX
  timers,     \* reconnect timers that have not fired
  connection, \* what the page shows: "Connecting", "Open" or "Reconnecting"
  in_ms,      \* and the wait it announces
  ready,      \* whether a board and a task are loaded, to be edited
  local,      \* the edits in the page's copies
  node        \* the edits the node has

connection_vars == <<sockets, isOpen, attempt, outbox, timers, connection, in_ms,
          ready, local, node>>

-----------------------------------------------------------------------------
(* Sending.                                                                *)

Socket == 1..Len(sockets)
InState(s) == {n \in Socket : sockets[n] = s}

\* API is replaced whenever a socket is made, and never otherwise.
Api == Len(sockets)

\* Everything waiting goes out, oldest first.  A socket whose connection has
\* gone takes requests and drops them; one that is still connecting refuses
\* the first, which is then lost, and the flush ends.
flush_outbox(queue, api) ==
  CASE api = "open" ->
         /\ outbox' = <<>>
         /\ node' = node \cup UNION {queue[i] : i \in DOMAIN queue}
         /\ isOpen' = TRUE
    [] api \in {"broken", "closed"} ->
         outbox' = <<>> /\ isOpen' = TRUE /\ UNCHANGED node
    [] api = "connecting" /\ queue # <<>> ->
         outbox' = Tail(queue) /\ isOpen' = FALSE /\ UNCHANGED node
    [] OTHER ->
         outbox' = queue /\ isOpen' = TRUE /\ UNCHANGED node

-----------------------------------------------------------------------------
(* Reconnecting.                                                           *)

\* What is yet to cost a socket: a timer, or a broken one nobody has noticed.
\* No failure or Retry is let happen that would take more than MaxSockets.
Spare == Len(sockets) + timers + Cardinality(InState("broken")) < MaxSockets

Least(a, b) == IF a < b THEN a ELSE b

Delay(n) == Least(1000 * 2 ^ Least(n, 5), MAX_BACKOFF_MS)

schedule_reconnect ==
  /\ attempt' = attempt + 1
  /\ in_ms' = Delay(attempt')
  /\ timers' = timers + 1

\* The previous socket is not closed, nor are its handlers taken off.
open_socket_now == sockets' = Append(sockets, "connecting")

\* A mutated form: what was missed is fetched, nothing is offered again.
ResyncFetching == <<{}, {}>>

\* The board's whole state and then a get for it, after the registry's get;
\* the profile and the organization open are treated as the board is.
resync ==
  IF local \cap BoardEdit = {}
  THEN <<{}, {}>>
  ELSE <<{}, local \cap BoardEdit, {}>>

\* The delegates are registered, and the registry and the page's route fetched.
FirstRequests == <<{}>>

on_connected == IF connection = "Connecting" THEN FirstRequests ELSE resync

-----------------------------------------------------------------------------

ConnectionInit ==
  /\ sockets = <<"connecting">>
  /\ isOpen = FALSE
  /\ attempt = 0
  /\ outbox = <<>>
  /\ timers = 0
  /\ connection = "Connecting"
  /\ in_ms = 0
  /\ ready = FALSE
  /\ local = {}
  /\ node = {}

\* The user edits the board or the task; dispatch queues the request.
Emit(e) ==
  /\ ready
  /\ e \notin local
  /\ local' = local \cup {e}
  /\ LET queue == Append(outbox, {e})
     IN  IF isOpen
         THEN flush_outbox(queue, sockets[Api])
         ELSE outbox' = queue /\ UNCHANGED <<isOpen, node>>
  /\ UNCHANGED <<sockets, attempt, timers, connection, in_ms, ready>>

\* on_open, of whichever socket; on_connected's requests queue behind the rest.
Opened(s) ==
  /\ sockets[s] = "connecting"
  /\ sockets' = [sockets EXCEPT ![s] = "open"]
  /\ attempt' = 0
  /\ flush_outbox(outbox \o on_connected, sockets'[Api])
  /\ connection' = "Open"
  /\ ready' = TRUE
  /\ UNCHANGED <<timers, in_ms, local>>

\* on_error with "closed", of whichever socket.
Closed(s) ==
  /\ sockets' = [sockets EXCEPT ![s] = "closed"]
  /\ isOpen' = FALSE
  /\ schedule_reconnect
  /\ connection' = "Reconnecting"
  /\ UNCHANGED <<outbox, ready, local, node>>

\* The page learns that a connection is gone.
Noticed(s) == sockets[s] = "broken" /\ Closed(s)

\* The node does not answer.
Refused(s) == sockets[s] = "connecting" /\ Spare /\ Closed(s)

\* A connection goes, and the page does not know yet.
Breaks(s) ==
  /\ sockets[s] = "open"
  /\ Spare
  /\ sockets' = [sockets EXCEPT ![s] = "broken"]
  /\ UNCHANGED <<isOpen, attempt, outbox, timers, connection, in_ms, ready,
                 local, node>>

TimerFires ==
  /\ timers > 0
  /\ timers' = timers - 1
  /\ open_socket_now
  /\ UNCHANGED <<isOpen, attempt, outbox, connection, in_ms, ready, local, node>>

\* A mutated form: Retry calls the waiting timers off.
RetryAlone ==
  /\ connection = "Reconnecting"
  /\ Spare
  /\ connection' = "Connecting"
  /\ attempt' = 0 /\ timers' = 0
  /\ open_socket_now
  /\ UNCHANGED <<isOpen, outbox, in_ms, ready, local, node>>

\* The Retry button, which is there while the page shows a lost connection.
retry_connection ==
  /\ connection = "Reconnecting"
  /\ Spare
  /\ connection' = "Connecting"
  /\ attempt' = 0
  /\ open_socket_now
  /\ UNCHANGED <<isOpen, outbox, timers, in_ms, ready, local, node>>

ConnectionNext ==
  \/ \E e \in Edit : Emit(e)
  \/ \E s \in Socket : Opened(s) \/ Noticed(s) \/ Refused(s) \/ Breaks(s)
  \/ TimerFires
  \/ retry_connection

ConnectionSpec == ConnectionInit /\ [][ConnectionNext]_connection_vars

\* Timers fire, a connection attempt ends one way or the other, and a broken
\* connection is noticed in the end: the browser's promises.
ConnectionFairness ==
  /\ WF_connection_vars(TimerFires)
  /\ WF_connection_vars(\E s \in Socket : Opened(s))
  /\ WF_connection_vars(\E s \in Socket : Noticed(s))

-----------------------------------------------------------------------------
(* Properties                                                              *)

ConnectionTypeOK ==
  /\ sockets \in Seq({"connecting", "open", "broken", "closed"})
  /\ Len(sockets) \in 1..MaxSockets
  /\ isOpen \in BOOLEAN
  /\ ready \in BOOLEAN
  /\ attempt \in Nat
  /\ timers \in Nat
  /\ outbox \in Seq(SUBSET Edit)
  /\ connection \in {"Connecting", "Open", "Reconnecting"}
  /\ in_ms \in 0..MAX_BACKOFF_MS
  /\ local \subseteq Edit
  /\ node \subseteq local

\* While the client knows it cannot send, something is on its way that will
\* change that without the user: a timer, a socket still connecting, or a
\* close yet to be noticed (schedule_reconnect is called for closes only, not
\* for the failed send of node.rs:316-317).
RecoveryUnderWay ==
  ~isOpen => timers > 0 \/ InState("connecting") \cup InState("broken") # {}

\* An edit the node has not got is queued, or the page will yet re-offer it:
\* a socket's opening is still to come, or the connection under it is known
\* or about to be known to be gone (store.rs:311-319).
NoEditAbandoned ==
  \A e \in (local \cap BoardEdit) \ node :
    \/ \E i \in DOMAIN outbox : e \in outbox[i]
    \/ timers > 0
    \/ InState("connecting") \cup InState("broken") # {}

\* Whatever breaks, is refused, or is retried by the user, the node gets every
\* edit to the open board once the connection holds: the outbox, the second
\* socket left by Retry and resync cover for one another (store.rs:311-354).
EditsReachNode == []<>(local \cap BoardEdit \subseteq node)

\* Once nothing breaks any more the client ends up sending on a working
\* socket, and nothing is left in the queue.
ConnectionSettles ==
  <>[](isOpen /\ sockets[Api] = "open" /\ outbox = <<>>)

-----------------------------------------------------------------------------
(* What comments say and the code does not do.                             *)

\* resync "re-offers the entire local state of everything open"
\* (store.rs:313-319): so an edit to the open task reaches the node too.
TaskEditsReachNode == \A e \in TaskEdit : e \in local ~> e \in node

\* "1s, 2s, 4s ... `attempt` is 1 on the first retry" (node.rs:221).
FirstRetryAfterOneSecond ==
  connection = "Reconnecting" /\ attempt = 1 => in_ms = 1000

=============================================================================
