------------------------------ MODULE MCSession ------------------------------
(* What a page does before any board is open: connect to its node          *)
(* (Connection), learn from the node's delegates who its user is (Identity),*)
(* and fetch the directory, to which it also adds (Directory).  What they   *)
(* have in common, that a lost connection takes answers with it, is a step  *)
(* of Identity (Reconnect) and of Directory (resync_registry), which need   *)
(* nothing more of how; TLC explores each with the others at rest.          *)
EXTENDS Connection, Identity, Directory

CONSTANTS b1, b2, t1, p, q, mallory

VARIABLE subject

vars == <<subject, connection_vars, identity_vars, directory_vars>>

\* A page that has long been online.
ConnectionAtRest ==
  /\ sockets = <<"open">> /\ isOpen = TRUE /\ connection = "Open"
  /\ attempt = 0 /\ timers = 0 /\ in_ms = 0
  /\ outbox = << >>
  /\ ready = FALSE
  /\ local = {} /\ node = {}

\* A page that has long had its identity.
IdentityAtRest ==
  /\ secret = [g \in Generation |-> IF g = 1 THEN 1 ELSE 0]
  /\ build = 1 /\ registered = {1} /\ pages = 1
  /\ identity = 1 /\ identity_requested = TRUE /\ migrating = FALSE
  /\ requests = << >> /\ answers = << >>
  /\ mine = 1 /\ spoiled = FALSE

\* Pages that know there is no directory.
DirectoryAtRest ==
  /\ now = 0
  /\ directory = [x \in Page |-> {}] /\ hosted = {}
  /\ registry = [x \in Page |-> {}]
  /\ presence = [x \in Page |-> "Absent"]
  /\ pending = [x \in Page |-> None]
  /\ subscribed = {} /\ to_nodes = {} /\ to_pages = {}
  /\ created = {} /\ faults = 0 /\ lost = {}

Init ==
  \/ /\ subject = "connection"
     /\ ConnectionInit /\ IdentityAtRest /\ DirectoryAtRest
  \/ /\ subject = "identity"
     /\ IdentityInit /\ ConnectionAtRest /\ DirectoryAtRest
  \/ /\ subject = "directory"
     /\ DirectoryInit /\ ConnectionAtRest /\ IdentityAtRest

Next ==
  /\ UNCHANGED subject
  /\ \/ /\ subject = "connection" /\ ConnectionNext
        /\ UNCHANGED <<identity_vars, directory_vars>>
     \/ /\ subject = "identity" /\ IdentityNext
        /\ UNCHANGED <<connection_vars, directory_vars>>
     \/ /\ subject = "directory" /\ DirectoryNext
        /\ UNCHANGED <<connection_vars, identity_vars>>

\* Of those at rest, nothing that is treated fairly can happen.
FairSpec ==
  /\ Init /\ [][Next]_vars
  /\ ConnectionFairness /\ IdentityFairness /\ DirectoryFairness

\* Two boards to create at one page; the other looks on.
Boards ==
  {[page |-> p, target |-> b1, name |-> "plans", id |-> 2],
   [page |-> p, target |-> b2, name |-> "plans", id |-> 3]}

Claim(board, name, day, hash, honest) ==
  [target |-> board, name |-> name, owner |-> mallory, created |-> day,
   id |-> hash, signed |-> honest]

\* A claim on somebody's board, from two days ahead.
FutureClaim == {Claim(b1, "garden", 2, 5, TRUE)}
Fakes == {Claim(b2, "plans", 0, 6, FALSE)}

=============================================================================
