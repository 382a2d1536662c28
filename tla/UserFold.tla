------------------------------- MODULE UserFold ------------------------------
(***************************************************************************)
(* What a profile's ops amount to: UserProfile::from_state of              *)
(* pj-core/src/user.rs.  The bodies (UserOp) are                           *)
(*   [op |-> "SetName", name]         [op |-> "SetDeviceLabel", device]    *)
(*   [op |-> "JoinedBoard", board, org] (a set: {} is no organization)     *)
(*   [op |-> "LeftBoard", board]                                           *)
(*   [op |-> "JoinedOrg", org]        [op |-> "LeftOrg", org]              *)
(* The titles of boards and organizations travel with them.                *)
(***************************************************************************)
EXTENDS OpLog

IsBody(body) ==
  /\ body.op \in {"SetName", "SetDeviceLabel", "JoinedBoard", "LeftBoard",
                 "JoinedOrg", "LeftOrg"}
  /\ body.op = "JoinedBoard" => \A org \in body.org : body.org = {org}

needs(body) == {ADMINISTER}

Applied(log) ==
  LET a == authority(log)
  IN  {i \in application_ops(log) : Entitled(a, log[i].author, needs(log[i].body))}

Blank == [name |-> "none", labels |-> {}, boards |-> NoEntries, orgs |-> {}]

\* Projects of an organization that was left are not listed under it.
LeaveOrg(profile, org) ==
  [profile EXCEPT
     !.orgs = @ \ {org},
     !.boards = Without(@, {b \in DOMAIN @ : @[b] = {org}})]

Step(profile, body) ==
  CASE body.op = "SetName" -> [profile EXCEPT !.name = body.name]
    [] body.op = "SetDeviceLabel" -> [profile EXCEPT !.labels = @ \cup {body.device}]
    [] body.op = "JoinedBoard" ->
         [profile EXCEPT !.boards = Put(@, body.board, body.org)]
    [] body.op = "LeftBoard" ->
         [profile EXCEPT !.boards = Without(@, {body.board})]
    [] body.op = "JoinedOrg" -> [profile EXCEPT !.orgs = @ \cup {body.org}]
    [] body.op = "LeftOrg" -> LeaveOrg(profile, body.org)

\* The links that name a device, honoured or not.
LinksOf(log, device) ==
  {i \in DOMAIN log : /\ log[i].kind = "LINK_DEVICE"
                      /\ log[i].legible
                      /\ log[i].target = device}

\* The device list: when each was linked, 0 for the owner's own key.  The code
\* takes the first link that names a device.
devices(log) ==
  LET a == authority(log)
      linked == {k \in Key : person(a, k) # k} \ {Owner}
  IN  [k \in linked \cup {Owner} |->
         IF k = Owner THEN 0 ELSE Min(LinksOf(log, k))]

from_state(log) ==
  LET folded == FoldAt(log, Applied(log), Blank,
                       LAMBDA profile, op : Step(profile, op.body))
  IN  [name |-> folded.name, labels |-> folded.labels, boards |-> folded.boards,
       orgs |-> folded.orgs, devices |-> devices(log)]

\* What is listed under each organization, and what is listed on its own.
grouped(profile) ==
  [under |-> [org \in profile.orgs |->
                {b \in DOMAIN profile.boards : profile.boards[b] = {org}}],
   loose |-> {b \in DOMAIN profile.boards :
                profile.boards[b] \cap profile.orgs = {}}]

=============================================================================
