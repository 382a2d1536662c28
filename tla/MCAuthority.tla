---------------------------- MODULE MCAuthority -----------------------------
(* Small instances of Authority for TLC. *)
EXTENDS Authority, TLC

CONSTANTS o, a, b

Three == {o, a, b}

NoOrg == {}

\* A removal, a member's rights, those of an admin who may do less than a
\* member and bring others in, and everything: an admin who may appoint.
Requests == {NONE, {WRITE_TASKS, SET_NAME}, {SET_NAME, MAY_GRANT},
             {WRITE_TASKS, SET_NAME, MAY_GRANT, MAY_APPOINT}}

\* Nothing tells two keys apart that are not roots.
Symmetry == Permutations({a, b})

=============================================================================
