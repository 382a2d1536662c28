----------------------------- MODULE OpenBoard ------------------------------
(***************************************************************************)
(* The board on screen, in the web client (pj-web/src/store.rs): creating, *)
(* opening and leaving boards while the node's answers to earlier          *)
(* questions are still arriving, and finding out whether a board that was  *)
(* created here has been stored.                                           *)
(*                                                                         *)
(* What a board contains does not matter here, only whose ops they are:    *)
(* the client's op set is the set of the boards it has ops of.  The node   *)
(* takes requests in any order and its answers arrive in any order.  Two   *)
(* identical requests or answers in flight count as one.                   *)
(***************************************************************************)
EXTENDS Naturals, Bags

CONSTANTS
  Mine,           \* boards this user may create
  Others,         \* boards the node already has
  None,           \* no board
  Attempts,       \* PUBLISH_CONFIRM_ATTEMPTS
  MaxTimers       \* bound: confirmations waiting when the user tries again

Board == Mine \cup Others

ASSUME BoardsAssumption == Mine \cap Others = {} /\ None \notin Board
ASSUME AttemptsAssumption ==
  /\ Attempts \in Nat \ {0}
  /\ MaxTimers \in Nat

VARIABLES
  contract_key,   \* the board edits are addressed to, or None
  pending_board,  \* the board last asked for, or None
  params,         \* the board edits are signed for; without one they are refused
  ops,            \* the boards whose ops are in the op set
  status,         \* BoardStatus, without the board it names
  publish,        \* Publish
  timers,         \* the bag of confirmations that wait for their timer
  requests,       \* what the node has yet to deal with
  answers,        \* what it has answered and the page has yet to see
  installed,      \* the boards the node has
  acknowledges,   \* whether this node says so when it has carried out a PUT
  created,        \* the boards created here so far
  asks            \* history: questions asked since the last store_board, up
                  \* to Attempts

client == <<contract_key, pending_board, params, ops, status, publish>>
network == <<requests, answers, installed, acknowledges>>
vars == <<client, timers, network, created, asks>>

Settled == [at |-> "Settled", board |-> None]
Storing(b) == [at |-> "Storing", board |-> b]
Unconfirmed(b) == [at |-> "Unconfirmed", board |-> b]

Get(b) == [ask |-> "Get", board |-> b]
Put(b) == [ask |-> "Put", board |-> b]
Answer(a, b) == [answer |-> a, board |-> b]

-----------------------------------------------------------------------------

Init ==
  /\ contract_key = None
  /\ pending_board = None
  /\ params = None
  /\ ops = {}
  /\ status = "Idle"
  /\ publish = Settled
  /\ timers = EmptyBag
  /\ requests = {}
  /\ answers = {}
  /\ installed = Others
  /\ acknowledges \in BOOLEAN
  /\ created = {}
  /\ asks = 0

OneMore(n) == IF n < Attempts THEN n + 1 ELSE n

store_board(b) ==
  /\ requests' = requests \cup {Put(b)}
  /\ asks' = 0
  /\ publish' = Storing(b)
  /\ timers' = timers (+) SetToBag({<<b, 1>>})

\* create and create_org_project: the genesis is at hand, so nothing is waited
\* for.
Create(b) ==
  /\ b \in Mine \ created
  /\ created' = created \cup {b}
  /\ params' = b
  /\ contract_key' = b
  /\ ops' = {b}
  /\ pending_board' = b
  /\ status' = "Ready"
  /\ store_board(b)
  /\ UNCHANGED <<answers, installed, acknowledges>>

\* A mutated form: what was held of another board is kept.
OpenKeeping(b) ==
  /\ pending_board' = b
  /\ status' = "Loading"
  /\ requests' = requests \cup {Get(b)}
  /\ UNCHANGED <<contract_key, params, ops, publish, timers, answers, installed,
                 acknowledges, created, asks>>

open(b) ==
  /\ IF contract_key # b
     THEN /\ params' = None
          /\ contract_key' = None
          /\ ops' = {}
          /\ publish' = Settled
     ELSE UNCHANGED <<params, contract_key, ops, publish>>
  /\ pending_board' = b
  /\ status' = "Loading"
  /\ requests' = requests \cup {Get(b)}
  /\ UNCHANGED <<timers, answers, installed, acknowledges, created, asks>>

\* A mutated form: the badge stays when its board is left.
BackWithBadge ==
  /\ pending_board' = None
  /\ status' = "Idle"
  /\ params' = None
  /\ contract_key' = None
  /\ ops' = {}
  /\ UNCHANGED <<publish, timers, network, created, asks>>

back ==
  /\ pending_board' = None
  /\ status' = "Idle"
  /\ params' = None
  /\ contract_key' = None
  /\ publish' = Settled
  /\ ops' = {}
  /\ UNCHANGED <<timers, network, created, asks>>

\* Offered while the badge says Unconfirmed; what it stores is the board that
\* params names.
retry_publish ==
  /\ publish.at = "Unconfirmed"
  /\ params # None
  /\ BagCardinality(timers) < MaxTimers
  /\ store_board(params)
  /\ UNCHANGED <<contract_key, pending_board, params, ops, status, answers,
                 installed, acknowledges, created>>

\* A mutated form: the chain is not continued.
ConfirmOnce(b, attempt) ==
  /\ BagIn(<<b, attempt>>, timers)
  /\ timers' = timers (-) SetToBag({<<b, attempt>>})
  /\ requests' = requests \cup {Get(b)}
  /\ asks' = OneMore(asks)
  /\ UNCHANGED <<client, answers, installed, acknowledges, created>>

\* The timer set by confirm_publish: stop, or ask again and wait again.
Confirm(b, attempt) ==
  /\ BagIn(<<b, attempt>>, timers)
  /\ LET rest == timers (-) SetToBag({<<b, attempt>>})
     IN  \/ /\ publish # Storing(b)
            /\ timers' = rest
            /\ UNCHANGED <<publish, requests, asks>>
         \/ /\ publish = Storing(b)
            /\ requests' = requests \cup {Get(b)}
            /\ asks' = OneMore(asks)
            /\ IF attempt + 1 > Attempts
               THEN publish' = Unconfirmed(b) /\ timers' = rest
               ELSE /\ timers' = rest (+) SetToBag({<<b, attempt + 1>>})
                    /\ UNCHANGED publish
  /\ UNCHANGED <<contract_key, pending_board, params, ops, status, answers,
                 installed, acknowledges, created>>

-----------------------------------------------------------------------------
(* The node's answers, as `handle` takes them.                             *)

awaiting_board(b) == b \in {pending_board, contract_key}

\* A mutated form: an answer about any board settles this one.
BoardStoredUnmatched(b) == publish' = Settled

board_stored(b) == publish' = IF publish.board = b THEN Settled ELSE publish

Takes(a, b) ==
  /\ Answer(a, b) \in answers
  /\ answers' = answers \ {Answer(a, b)}
  /\ UNCHANGED <<timers, requests, installed, acknowledges, created, asks>>

\* What came is read, with the parameters that came with it or else those at
\* hand; or it cannot be, or there are no parameters, and nothing is kept of it.
receive_board(b) ==
  \/ /\ params' \in {b, params} \ {None}
     /\ ops' = ops \cup {b}
     /\ status' = "Ready"
  \/ UNCHANGED <<params, ops, status>>

\* on_got: the board's address is taken before its state is read.
Got(b) ==
  /\ Takes("Got", b)
  /\ board_stored(b)
  /\ IF awaiting_board(b)
     THEN contract_key' = b /\ receive_board(b)
     ELSE UNCHANGED <<contract_key, params, ops, status>>
  /\ UNCHANGED pending_board

Missing(b) ==
  /\ Takes("Missing", b)
  /\ status' = IF publish = Storing(b) \/ ~awaiting_board(b)
               THEN status
               ELSE "Missing"
  /\ UNCHANGED <<contract_key, pending_board, params, ops, publish>>

Acknowledged(b) ==
  /\ Takes("Put", b)
  /\ board_stored(b)
  /\ contract_key' = b
  /\ status' = "Ready"
  /\ UNCHANGED <<pending_board, params, ops>>

\* An error, about this or about anything else.
Error ==
  /\ publish.at = "Storing"
  /\ publish' = Unconfirmed(publish.board)
  /\ UNCHANGED <<contract_key, pending_board, params, ops, status, timers,
                 network, created, asks>>

\* Somebody else's change to a board this node subscribes to.
Changed(b) ==
  /\ b \in installed
  /\ ops' = IF contract_key = b THEN ops \cup {b} ELSE ops
  /\ UNCHANGED <<contract_key, pending_board, params, status, publish, timers,
                 network, created, asks>>

-----------------------------------------------------------------------------
(* The node.                                                               *)

\* It carries out a PUT, or fails to; only some versions say so.
NodePuts(b) ==
  /\ Put(b) \in requests
  /\ requests' = requests \ {Put(b)}
  /\ \/ /\ installed' = installed \cup {b}
        /\ answers' = IF acknowledges
                      THEN answers \cup {Answer("Put", b)}
                      ELSE answers
     \/ UNCHANGED <<installed, answers>>
  /\ UNCHANGED <<client, timers, acknowledges, created, asks>>

NodeGets(b) ==
  /\ Get(b) \in requests
  /\ requests' = requests \ {Get(b)}
  /\ answers' =
       answers \cup {Answer(IF b \in installed THEN "Got" ELSE "Missing", b)}
  /\ UNCHANGED <<client, timers, installed, acknowledges, created, asks>>

Next ==
  \/ \E b \in Board :
       \/ Create(b) \/ open(b)
       \/ \E n \in 1..Attempts : Confirm(b, n)
       \/ Got(b) \/ Missing(b) \/ Acknowledged(b) \/ Changed(b)
       \/ NodePuts(b) \/ NodeGets(b)
  \/ back
  \/ retry_publish
  \/ Error

Spec == Init /\ [][Next]_vars

\* The browser fires timers.  Nothing is asked of the node.
FairSpec ==
  Spec /\ \A b \in Board, n \in 1..Attempts : WF_vars(Confirm(b, n))

-----------------------------------------------------------------------------
(* Properties                                                              *)

TypeOK ==
  /\ {contract_key, pending_board, params} \subseteq Board \cup {None}
  /\ ops \subseteq Board
  /\ status \in {"Idle", "Loading", "Ready", "Missing"}
  /\ publish \in {Settled} \cup {Storing(b) : b \in Mine}
                           \cup {Unconfirmed(b) : b \in Mine}
  /\ DOMAIN timers \subseteq Mine \X (1..Attempts)
  /\ requests \subseteq {Get(b) : b \in Board} \cup {Put(b) : b \in Mine}
  /\ Others \subseteq installed /\ installed \subseteq Board
  /\ acknowledges \in BOOLEAN
  /\ created \subseteq Mine
  /\ asks \in 0..Attempts

\* Whatever is asked, abandoned, answered late or sent unreadable, edits are
\* signed for the board they are sent to, or refused, and the op set holds nothing
\* of another one ("merging its ops into whatever is open now would corrupt the
\* wrong board", store.rs:508-513).  So it is with nodes that acknowledge no PUT,
\* as those of today; late acknowledgements refute it.
OneBoardAtATime ==
  ~acknowledges => ops \subseteq {contract_key} /\ params \in {None, contract_key}

\* The badge is about the board on screen, so that Retry stores that one
\* (store.rs:1954-1957), with the same exception.
BadgeIsAboutOpenBoard ==
  ~acknowledges /\ publish # Settled => publish.board = params

\* The badge goes away only when the node has the board, or with the board
\* (store.rs:2769-2780).
SettledMeansStored ==
  [][publish.at \in {"Storing", "Unconfirmed"} /\ publish' = Settled =>
       publish.board \in installed \/ params' # params]_vars

\* The user is not left watching a spinner: each publish is confirmed, given
\* up or left (store.rs:2746-2767).
StoringEnds ==
  \A b \in Mine : publish = Storing(b) ~> publish # Storing(b)

-----------------------------------------------------------------------------
(* What a comment says and the code does not do.                           *)

\* "How many times to ask before calling it unconfirmed" (store.rs:90): a
\* publish that times out has been asked about that many times.
AskedBeforeUnconfirmed ==
  [][\A b \in Mine :
       publish = Storing(b) /\ publish' = Unconfirmed(b) /\ timers' # timers =>
         asks' >= Attempts]_vars

=============================================================================
