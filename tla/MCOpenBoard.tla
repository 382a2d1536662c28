---------------------------- MODULE MCOpenBoard -----------------------------
(* Small instances of OpenBoard for TLC. *)
EXTENDS OpenBoard

CONSTANTS m1, m2, o1
=============================================================================
