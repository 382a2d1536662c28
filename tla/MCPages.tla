------------------------------ MODULE MCPages --------------------------------
(* The pages of a browser: which of them is showing (Navigation), and what  *)
(* those of an organization and its project let people do (Membership).     *)
(* The two share no state, so that TLC explores each with the other at rest.*)
EXTENDS Navigation, Membership

CONSTANTS founder, ann, mel, b1, b2, g1, g2, t1

\* Somebody who founds an organization, and two more, one with a page open.
Three == {founder, ann, mel}
Two == {founder, ann}
Nobody == {}

\* Nobody's clock is ahead, or the founder's is.
SomeClocks == {{}, {founder}}

\* b1 is a project of g1, which is there; b2 is nobody's but its owner's.
Owners == (b1 :> g1) @@ (b2 :> None)

VARIABLE subject

vars == <<subject, nav_vars, members_vars>>

\* Nothing written, nothing known, nothing folded.
MembersAtRest ==
  /\ ahead = {}
  /\ log = [c \in Contract |-> << >>]
  /\ known = [p \in Page |-> [c \in Contract |-> {}]]
  /\ folded = << >>
  /\ last = Nothing

Init ==
  /\ NavInit
  /\ \/ subject = "pages" /\ MembersAtRest
     \/ subject = "members" /\ MembersInit /\ url = NoRoute

Next ==
  /\ UNCHANGED subject
  /\ \/ subject = "pages" /\ NavNext /\ UNCHANGED members_vars
     \/ subject = "members" /\ MembersNext /\ UNCHANGED nav_vars

Spec == Init /\ [][Next]_vars

=============================================================================
