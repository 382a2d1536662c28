---------------------------- MODULE GrowOnlySets ----------------------------
(***************************************************************************)
(* What the replicas of a contract promise, without signatures, policies   *)
(* or messages: every peer has a set, new elements enter at one peer, a      *)
(* whole batch at a time, and any other growth is by elements some peer    *)
(* already has.                                                            *)
(***************************************************************************)
CONSTANTS Peer, Batches

VARIABLE sets

Init == sets = [p \in Peer |-> {}]

Everything == UNION {sets[p] : p \in Peer}

\* A batch enters the system at p, all of it.
Add(p, batch) == sets' = [sets EXCEPT ![p] = @ \cup batch]

\* p catches up on elements that are already in the system.
CatchUp(p, old) ==
  /\ old \subseteq Everything
  /\ sets' = [sets EXCEPT ![p] = @ \cup old]

Next ==
  \E p \in Peer :
    \/ \E batch \in Batches : Add(p, batch)
    \/ \E old \in SUBSET Everything : CatchUp(p, old)

Spec == Init /\ [][Next]_sets

=============================================================================
