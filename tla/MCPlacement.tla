---------------------------- MODULE MCPlacement -----------------------------
(* Small instances of Placement for TLC. *)
EXTENDS Placement

CONSTANTS m1, m2, o1, b1, b2, l1, l2

\* One old card or two, on one of the boards.
FewOld ==
  {[b \in Board |-> IF b = b1 THEN s ELSE << >>] : s \in {<<l1>>, <<l1, l2>>}}
=============================================================================
