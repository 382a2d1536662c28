------------------------------- MODULE MCViews -------------------------------
(* What a page keeps and shows: of a board and the other contracts,        *)
(* whatever ops there are (Views, for an owner, a member and one more key),*)
(* whatever build wrote them (LegacyOps), and in which order its columns   *)
(* and cards are (Ranks, on two pages); and of its user, the profile       *)
(* (Profile) and the settings (Preferences).  TLC explores each with the   *)
(* others at rest.                                                         *)
EXTENDS Views, Ranks, Profile, Preferences, MCLegacy

CONSTANTS o, m, d, b1, b2, g, t1, t2, me, restored, n1, tab, tab2

Three == {o, m, d}

NoOrg == {}

Authoritative(kind, author, target, rights) ==
  [key |-> 0, scope |-> Here, kind |-> kind, author |-> author, target |-> target,
   rights |-> rights, signed |-> TRUE, legible |-> TRUE, body |-> [op |-> "none"]]

Grants == {Authoritative("GRANT", o, m, MEMBER)}
Links == {Authoritative("LINK_DEVICE", m, d, NONE)}

\* What the author of an op says, declaring these rights.
Says(author, rights, body) ==
  [key |-> 0, scope |-> Here, kind |-> "APPLICATION", author |-> author,
   target |-> author, rights |-> rights, signed |-> TRUE, legible |-> TRUE,
   body |-> body]

Unknown(author) ==
  [Says(author, NONE, [op |-> "none"]) EXCEPT !.legible = FALSE]

Column(c, r) == [op |-> "SetColumn", column |-> c, rank |-> r]
Gone(c) == [op |-> "RemoveColumn", column |-> c]
Place(t, c) == [op |-> "Place", task |-> t, column |-> c]
Off(t) == [op |-> "Unplace", task |-> t]
Card(t, seen, title) ==
  [op |-> "Summarize", task |-> t, seen |-> seen, title |-> title]
Name(k) == [op |-> "SetMemberName", member |-> k]

BoardPool ==
  Grants \cup
  {Authoritative("GRANT", o, m, NONE),
   Says(o, {WRITE_COLUMNS}, Column(1, 1)), Says(o, {WRITE_COLUMNS}, Column(2, 1)),
   Says(m, {WRITE_COLUMNS}, Column(1, 2)),
   Says(o, {WRITE_COLUMNS}, Gone(1)),
   Says(o, {WRITE_TASKS}, Place(t1, 1)), Says(m, {WRITE_TASKS}, Place(t1, 2)),
   Says(o, {WRITE_TASKS}, Off(t1)),
   Says(o, {WRITE_TASKS}, Card(t1, 1, "old")),
   Says(m, {WRITE_TASKS}, Card(t1, 2, "new")),
   Says(o, {WRITE_TASKS}, Card(t1, 2, "newer")),
   Says(m, {SET_NAME}, Place(t1, 1)), Unknown(m)}

\* Names and the keys that act for somebody, on a board and in an organization.
Namings ==
  Grants \cup Links \cup
  {Authoritative("LINK_DEVICE", o, m, NONE),
   Authoritative("UNLINK_DEVICE", m, d, NONE),
   Says(o, {SET_NAME}, Name(o)), Says(o, {SET_NAME}, Name(m)),
   Says(m, {SET_NAME}, Name(m)), Says(m, {SET_NAME}, Name(o)),
   Says(d, {SET_NAME}, Name(m)), Says(d, {SET_NAME}, Name(o))}

TaskPool ==
  Grants \cup
  {Authoritative("GRANT", o, m, NONE),
   Says(o, {WRITE_TASKS}, [op |-> "SetTitle", text |-> "one"]),
   Says(m, {WRITE_TASKS}, [op |-> "SetTitle", text |-> "two"]),
   Says(m, {WRITE_TASKS}, [op |-> "SetAssignee", member |-> {m}]),
   Says(o, {WRITE_TASKS}, [op |-> "SetAssignee", member |-> {}]),
   Says(o, {LINK_TASKS}, [op |-> "Link", to |-> t2, link |-> "blocks"]),
   Says(m, {LINK_TASKS}, [op |-> "Link", to |-> t2, link |-> "relates"]),
   Says(o, {LINK_TASKS}, [op |-> "Unlink", to |-> t2]),
   Says(o, {WRITE_TASKS}, [op |-> "Attach", board |-> b1]),
   Says(m, {WRITE_TASKS}, [op |-> "Detach", board |-> b1]),
   Unknown(o)}

OrgPool ==
  Namings \cup
  {Says(o, {ADMINISTER}, [op |-> "AddProject", board |-> b1]),
   Says(o, {ADMINISTER}, [op |-> "RemoveProject", board |-> b1]),
   Says(d, {SET_NAME}, [op |-> "AddProject", board |-> b2]),
   Says(d, {ADMINISTER}, [op |-> "AddProject", board |-> b2]),
   Authoritative("LINK_DEVICE", o, d, NONE), Authoritative("LINK_DEVICE", m, o, NONE)}

UserPool ==
  {Authoritative("LINK_DEVICE", o, d, NONE), Authoritative("LINK_DEVICE", o, d, {"Other"}),
   Authoritative("UNLINK_DEVICE", o, d, NONE),
   Says(o, {ADMINISTER}, [op |-> "JoinedBoard", board |-> b1, org |-> {g}]),
   Says(d, {ADMINISTER}, [op |-> "JoinedBoard", board |-> b1, org |-> {}]),
   Says(d, {ADMINISTER}, [op |-> "JoinedBoard", board |-> b2, org |-> {g}]),
   Says(o, {ADMINISTER}, [op |-> "LeftBoard", board |-> b1]),
   Says(o, {ADMINISTER}, [op |-> "JoinedOrg", org |-> g]),
   Says(o, {ADMINISTER}, [op |-> "LeftOrg", org |-> g]),
   Says(d, {ADMINISTER}, [op |-> "LeftOrg", org |-> g]),
   Says(o, {ADMINISTER}, [op |-> "SetName", name |-> "N"]),
   Says(o, {ADMINISTER}, [op |-> "SetDeviceLabel", device |-> d])}

Pools ==
  [board |-> BoardPool \cup Namings, task |-> TaskPool, org |-> OrgPool,
   user |-> UserPool]

ASSUME DeclaredAssumption == DeclaresNeeds

AllKinds == {"board", "task", "org", "user"}
Boards == {"board"}
Users == {"user"}
Orgs == {"org"}

-----------------------------------------------------------------------------

Digit == 0..(BASE - 1)
\* Little to begin with and much to come, and the other way round.
SomeStarts ==
  {[columns |-> 1, cards |-> 2, writes |-> 3], [columns |-> 3, cards |-> 2, writes |-> 2]}

ShortRanks ==
  {r \in UNION {[1..n -> Digit] : n \in 1..3} : r[Len(r)] # 0}

ASSUME BetweenAssumption == BetweenIsBetween(ShortRanks)

VARIABLE subject

vars == <<subject, views_vars, ranks_vars, profile_vars, prefs_vars, legacy_vars>>

Init ==
  /\ subject \in {"views", "ranks", "profile", "settings", "old ops"}
  /\ ViewsInit /\ RanksInit /\ ProfileInit /\ PrefsInit /\ LegacyInit
  /\ subject # "views" => contract = "user"
  /\ subject # "ranks" => \A s \in SomeStarts : s.writes <= writes
  /\ subject # "profile" => stored = [p \in Person |-> None]
  /\ subject # "settings" => secret = Nothing /\ dark = [x \in Tab |-> FALSE]

Next ==
  /\ UNCHANGED subject
  /\ \/ /\ subject = "views" /\ ViewsNext
        /\ UNCHANGED <<ranks_vars, profile_vars, prefs_vars, legacy_vars>>
     \/ /\ subject = "ranks" /\ RanksNext
        /\ UNCHANGED <<views_vars, profile_vars, prefs_vars, legacy_vars>>
     \/ /\ subject = "profile" /\ ProfileNext
        /\ UNCHANGED <<views_vars, ranks_vars, prefs_vars, legacy_vars>>
     \/ /\ subject = "settings" /\ PrefsNext
        /\ UNCHANGED <<views_vars, ranks_vars, profile_vars, legacy_vars>>
     \/ /\ subject = "old ops" /\ LegacyNext
        /\ UNCHANGED <<views_vars, ranks_vars, profile_vars, prefs_vars>>

\* Of a profile at rest, nothing that is treated fairly can happen.
FairSpec == Init /\ [][Next]_vars /\ ProfileFairness

=============================================================================
