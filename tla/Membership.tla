----------------------------- MODULE Membership -----------------------------
(***************************************************************************)
(* The controls by which people are let in, promoted and put out: the      *)
(* organization's page (pj-web/src/ui/org.rs) and the sidebar of a project *)
(* it owns (ui/panels.rs), the handlers behind them (store.rs), and what   *)
(* the folds of pj-core make of the ops they write.                        *)
(*                                                                         *)
(* A page decides what to offer from the fold of the ops it has; whether a *)
(* click counts is decided by the same fold, here and on every other page, *)
(* whose ops may come before or after.  The founder's key owns both.       *)
(*                                                                         *)
(* An op has the fields of OpLog and `n`, which tells it from the others   *)
(* of its contract, and `lamport`.  Ops are ordered by lamport, then by    *)
(* the wall clock, then by hash: `ahead` are the keys whose clocks are.    *)
(***************************************************************************)
EXTENDS OpLog

CONSTANTS
  Page,       \* the keys somebody has a page open with
  Clocks,     \* the sets of keys whose clocks may be ahead of the others'
  MaxGrants   \* bound on the grants and links of both contracts

ASSUME PageAssumption ==
  /\ IsFiniteSet(Key) /\ Page \subseteq Key
  /\ OrgOwner \subseteq {Owner}  \* the founder's key owns both
  /\ Places >= 2                 \* there is room for an op and its proof

Board == INSTANCE BoardFold
Org == INSTANCE OrgFold

Contract == {"org", "board"}

VARIABLES
  ahead,  \* the keys whose clocks are ahead
  log,    \* for each contract, every op written to it, in their total order
  known,  \* for each page, named by its key, and contract, the ops it has
  folded,   \* for each page and contract, who may do what, going by those
  last    \* the last thing done, if that was a click

members_vars == <<ahead, log, known, folded, last>>

Nothing == [page |-> Owner, at |-> "org", what |-> "none", whom |-> Owner,
            batches |-> << >>]

-----------------------------------------------------------------------------
(* What a page has, and what it makes of it.                               *)

ops(p, c) ==
  FoldAt(log[c], {i \in DOMAIN log[c] : log[c][i].n \in known[p][c]}, << >>, Append)

\* Nothing is shown of a contract before its state has come.
Loaded(p, c) == known[p][c] # {}

seen(p, c) == folded[p][c]

members(a) == a.ever_members \cup {Owner}
active(a, k) == k \in members(a) /\ a.held[k] # NONE
is_admin_role(a, k) == MAY_GRANT \in a.held[k]

\* Of a member its own rights, of any other key those of whom it acts for.
person_of(a, k) == IF k \in members(a) THEN k ELSE person(a, k)
may(a, k, right) == active(a, person_of(a, k)) /\ right \in a.held[person_of(a, k)]

admins(a) == {k \in Key : active(a, k) /\ is_admin_role(a, k)}

is_org_admin(p) == Loaded(p, "org") /\ may(seen(p, "org"), p, MAY_GRANT)
is_org_founder(p) ==
  p = Owner \/ (Loaded(p, "org") /\ person_of(seen(p, "org"), p) = Owner)
is_org_member(p) ==
  LET a == seen(p, "org") IN Loaded(p, "org") /\ active(a, person_of(a, p))

-----------------------------------------------------------------------------
(* Writing.                                                                *)

\* A draft is what a write says before it has a clock.
Grant(member, rights) ==
  [kind |-> "GRANT", target |-> member, rights |-> rights, body |-> [op |-> "none"]]
Vouch(device) ==
  [kind |-> "LINK_DEVICE", target |-> device, rights |-> NONE, body |-> [op |-> "none"]]
Release(device) ==
  [kind |-> "UNLINK_DEVICE", target |-> device, rights |-> NONE, body |-> [op |-> "none"]]
Says(rights, body) ==
  [kind |-> "APPLICATION", target |-> Owner, rights |-> rights, body |-> body]
Name(member) == Says({SET_NAME}, [op |-> "SetMemberName", member |-> member])

\* The ops with these numbers.
Numbered(all, numbers) == {op \in Range(all) : op.n \in numbers}

Largest(S) == CHOOSE n \in S : \A m \in S : m <= n
next_lamport(held) == Largest({0} \cup {op.lamport : op \in held}) + 1

Signed(p, draft, n, lamport) ==
  [key |-> 0, scope |-> Here, kind |-> draft.kind, author |-> p,
   target |-> draft.target, rights |-> draft.rights, signed |-> TRUE,
   legible |-> TRUE, body |-> draft.body, n |-> n, lamport |-> lamport]

Precedes(x, y) ==
  \/ x.lamport < y.lamport
  \/ /\ x.lamport = y.lamport
     /\ \/ x.author \notin ahead /\ y.author \in ahead
        \/ (x.author \in ahead <=> y.author \in ahead) /\ x.n < y.n

\* Its place is after those that precede it.
Inserted(all, op) ==
  InsertAt(all, 1 + Cardinality({i \in DOMAIN all : Precedes(all[i], op)}), op)

\* A mutated form: any grant the root ever wrote to this key.
ProofsOfAnything(p, held) ==
  {op \in held : op.author = Owner /\ op.kind = "GRANT" /\ op.target = p}

\* The grants by the root itself that say this key may do something.
Proofs(p, held) ==
  {op \in held : /\ op.author = Owner /\ op.kind = "GRANT"
                 /\ op.target = p /\ op.rights # NONE}

\* One of them is sent along, other than by the root, who needs none.  Ops are
\* kept by hash and the first is taken, so it may be any.
authority_proofs(p, held) == IF p = Owner THEN {} ELSE Proofs(p, held)

\* One write: stamped past all the page has, kept, and sent with a proof.
Emit(p, acc, draft) ==
  LET held == Numbered(acc.log, acc.known)
      op == Signed(p, draft, Len(acc.log) + 1, next_lamport(held))
  IN  [log |-> Inserted(acc.log, op), known |-> acc.known \cup {op.n},
       batches |-> Append(acc.batches, [op |-> op, proofs |-> authority_proofs(p, held)])]

\* `refold`, of what a page has of a contract's ops.
refold(all, numbers) == authority_in({op \in Stamped(all) : op.n \in numbers})

\* Several writes, one after the other.
Emitted(p, c, drafts) ==
  LET after[i \in 0..Len(drafts)] ==
        IF i = 0
        THEN [log |-> log[c], known |-> known[p][c], batches |-> << >>]
        ELSE Emit(p, after[i - 1], drafts[i])
  IN  after[Len(drafts)]

\* For each of these keys a grant and a name.
Appointments(keys) ==
  LET row == SetToSeq(keys)
  IN  [i \in 1..(2 * Len(row)) |->
         IF i % 2 = 1 THEN Grant(row[(i + 1) \div 2], ADMIN) ELSE Name(row[i \div 2])]

-----------------------------------------------------------------------------
(* The organization's page.                                                *)

MayInvite(p) == is_org_admin(p)
MayInviteAdmin(p) == is_org_admin(p) /\ is_org_founder(p)
invite_to_org(member, rights) == <<Grant(member, rights), Name(member)>>

\* A mutated form: an administrator may be promoted by another.
CanPromoteByAdmins(p, k) ==
  LET a == seen(p, "org")
  IN  is_org_admin(p) /\ active(a, k) /\ ~is_admin_role(a, k)

can_promote(p, k) ==
  LET a == seen(p, "org")
  IN  is_org_founder(p) /\ active(a, k) /\ ~is_admin_role(a, k)
promote_in_org(member) == <<Grant(member, ADMIN)>>

\* A mutated form: no admin is unseated, by anybody.
CanRemoveMembersOnly(p, k) ==
  LET a == seen(p, "org")
  IN  /\ Loaded(p, "org") /\ active(a, k) /\ k # Owner
      /\ ~is_admin_role(a, k) /\ is_org_admin(p)

\* Admins remove members; an admin is removed by the founder.
can_remove(p, k) ==
  LET a == seen(p, "org")
  IN  /\ Loaded(p, "org") /\ active(a, k) /\ k # Owner
      /\ IF is_admin_role(a, k) THEN is_org_founder(p) ELSE is_org_admin(p)
remove_from_org(member) == <<Grant(member, NONE)>>

may_leave(p) == is_org_member(p) /\ ~is_org_founder(p)
leave_org(p) == <<Grant(p, NONE)>>

-----------------------------------------------------------------------------
(* A project's sidebar.                                                    *)

OnBoard(p, right) == Loaded(p, "board") /\ may(seen(p, "board"), p, right)

OfOrganization(p) ==
  /\ Loaded(p, "board") /\ Loaded(p, "org")
  /\ Board!from_state(ops(p, "board")).organization # "none"

may_invite(p) == OnBoard(p, MAY_GRANT)
invite(member) == <<Grant(member, MEMBER), Name(member)>>

removable(p, k) ==
  LET a == seen(p, "board") IN OnBoard(p, MAY_GRANT) /\ active(a, k) /\ k # Owner
remove(member) == <<Grant(member, NONE)>>

\* Nobody's rights are asked about.
assignable_from_org(p) ==
  IF ~OfOrganization(p) THEN {}
  ELSE {k \in Key : active(seen(p, "org"), k) /\ ~active(seen(p, "board"), k)}
assign_from_org(member) == <<Grant(member, MEMBER), Name(member)>>

may_sync(p) == OfOrganization(p) /\ OnBoard(p, MAY_GRANT)

\* Each admin of the organization who is not one of the board.
sync_org_admins(p) ==
  Appointments(admins(seen(p, "org")) \ admins(seen(p, "board")))

\* A key vouched for, or released, on the account page while the board is open.
\* What may be released is in one's own profile, to which any other key can have
\* been linked while no board was open.
may_link(p, device) == Loaded(p, "board") /\ device # p
link_device(device) == <<Vouch(device)>>
unlink_device(device) == <<Release(device)>>

-----------------------------------------------------------------------------

MembersInit ==
  /\ ahead \in Clocks
  /\ log = [c \in Contract |->
              IF c = "org" THEN <<Signed(Owner, Name(Owner), 1, 1)>> ELSE << >>]
  /\ known = [p \in Page |-> [c \in Contract |->
                IF c = "org" /\ p = Owner THEN {1} ELSE {}]]
  /\ folded = [p \in Page |-> [c \in Contract |-> refold(log[c], known[p][c])]]
  /\ last = Nothing

Granted ==
  Len(SelectSeq(log["org"], is_authority)) + Len(SelectSeq(log["board"], is_authority))

\* A control is used, and what it writes is sent.
Click(p, c, what, whom, drafts) ==
  LET done == Emitted(p, c, drafts)
  IN  /\ Granted < MaxGrants
      /\ log' = [log EXCEPT ![c] = done.log]
      /\ known' = [known EXCEPT ![p][c] = done.known]
      /\ folded' = [folded EXCEPT ![p][c] = refold(done.log, done.known)]
      /\ last' = [page |-> p, at |-> c, what |-> what, whom |-> whom,
                  batches |-> done.batches]
      /\ UNCHANGED ahead

ClickOrg(p, k) ==
  \/ MayInvite(p) /\ Click(p, "org", "invite", k, invite_to_org(k, MEMBER))
  \/ MayInviteAdmin(p) /\ Click(p, "org", "appoint", k, invite_to_org(k, ADMIN))
  \/ can_promote(p, k) /\ Click(p, "org", "appoint", k, promote_in_org(k))
  \/ can_remove(p, k) /\ Click(p, "org", "remove", k, remove_from_org(k))
  \/ k = p /\ may_leave(p) /\ Click(p, "org", "remove", p, leave_org(p))

ClickBoard(p, k) ==
  \/ may_invite(p) /\ Click(p, "board", "invite", k, invite(k))
  \/ removable(p, k) /\ Click(p, "board", "remove", k, remove(k))
  \/ /\ k \in assignable_from_org(p)
     /\ Click(p, "board", "assign", k, assign_from_org(k))
  \/ k = p /\ may_sync(p) /\ Click(p, "board", "sync", p, sync_org_admins(p))
  \/ may_link(p, k) /\ Click(p, "board", "link", k, link_device(k))
  \/ may_link(p, k) /\ Click(p, "board", "unlink", k, unlink_device(k))

\* The founder starts a project of the organization: its admins, as far as
\* the founder's page knows them, are written into its first state, in one
\* batch with consecutive lamports, and the organization is told.
FoundProject(p) ==
  LET drafts == <<Says({ADMINISTER}, [op |-> "SetOrganization", org |-> "org"])>>
                \o Appointments(admins(seen(p, "org")) \ {Owner})
      genesis == [i \in DOMAIN drafts |-> Signed(p, drafts[i], i, i)]
      told == Emitted(p, "org",
                <<Says({ADMINISTER}, [op |-> "AddProject", board |-> "board"])>>)
  IN  /\ is_org_founder(p) /\ p = Owner
      /\ log["board"] = << >>
      /\ log' = [c \in Contract |-> IF c = "org" THEN told.log ELSE genesis]
      /\ known' = [known EXCEPT ![p] =
                     [c \in Contract |->
                        IF c = "org" THEN told.known ELSE DOMAIN genesis]]
      /\ folded' = [folded EXCEPT ![p]["board"] = refold(genesis, DOMAIN genesis)]
      /\ last' = Nothing
      /\ UNCHANGED ahead

\* A page opens a contract, or its node has caught up with everybody's.  (How
\* updates travel, and which are refused, is in Replicas.)
Fetch(p, c) ==
  /\ log[c] # << >>
  /\ known' = [known EXCEPT ![p][c] = 1..Len(log[c])]
  /\ folded' = [folded EXCEPT ![p][c] = refold(log[c], 1..Len(log[c]))]
  /\ last' = Nothing
  /\ UNCHANGED <<ahead, log>>

MembersNext ==
  \E p \in Page :
    \/ \E k \in Key : ClickOrg(p, k) \/ ClickBoard(p, k)
    \/ FoundProject(p)
    \/ \E c \in Contract : Fetch(p, c)

MembersSpec == MembersInit /\ [][MembersNext]_members_vars

-----------------------------------------------------------------------------
(* Properties                                                              *)

\* What a click of this kind is for, as the page itself shows it afterwards.
Done(p, c, what, whom) ==
  LET a == seen(p, c)
      names == IF c = "org" THEN Org!from_state(ops(p, c)).names
               ELSE Board!from_state(ops(p, c)).names
  IN  CASE what \in {"invite", "assign"} ->
             /\ active(a, whom) /\ MEMBER \subseteq a.held[whom]
             /\ whom \in DOMAIN names /\ names[whom] = p
        [] what = "appoint" -> is_admin_role(a, whom)
        [] what = "remove" -> ~active(a, whom)
        [] what = "sync" -> admins(seen(p, "org")) \subseteq admins(a)
        [] OTHER -> TRUE

\* The person whose rights the controls of a project's sidebar go by is not the
\* one whose rights the fold judges the op by: a member asked about as such acts as
\* somebody's device; and what a device says of others is judged by the person
\* that its first person was first a device of.
ActsForAnother(a, p) == person(a, p) # person_of(a, p)
NamesForAnother(a, p) == ever_person(a, ever_person(a, p)) # person_of(a, p)

\* Clicks in a project's sidebar that do nothing, or half of what they say: those
\* of who acts for another, letting somebody in for who names for another; to
\* assign somebody, whoever may not invite; and to make or unmake an administrator,
\* other than the owner, who has no such button, whoever may not appoint.
InVain(p, c, what, whom) ==
  LET a == seen(p, c)
  IN  /\ c = "board"
      /\ \/ ActsForAnother(a, p)
         \/ what \in {"invite", "assign"} /\ NamesForAnother(a, p)
         \/ what = "assign" /\ ~may_invite(p)
         \/ /\ what = "sync" \/ (what = "remove" /\ is_admin_role(a, whom) /\ whom # Owner)
            /\ ~may(a, p, MAY_APPOINT)

\* Whatever a page of an organization offers counts when it is clicked: the
\* rules of the controls (ui/org.rs:275-286, 209, 231) and those of the fold
\* (envelope_state.rs:316-355) agree, whatever the page has seen so far.  Of
\* a project's sidebar (ui/panels.rs:445-448) the same, whoever was linked and
\* released as whose device, but for what InVain names.
OffersAreKept ==
  last.what # "none" /\ ~InVain(last.page, last.at, last.what, last.whom) =>
    Done(last.page, last.at, last.what, last.whom)

\* The other way round: whoever the fold would let a person put out of the
\* organization, or make an administrator of it, there is a control for it
\* (ui/org.rs:275-286, 231).
EveryPowerIsOffered ==
  \A p \in Page, k \in Key :
    LET a == seen(p, "org")
    IN  Loaded(p, "org") =>
          /\ active(a, k) /\ ~active(ApplyGrant(a, p, k, NONE), k) =>
               can_remove(p, k) \/ (k = p /\ may_leave(p))
          /\ active(a, k) /\ ~is_admin_role(a, k)
              /\ is_admin_role(ApplyGrant(a, p, k, ADMIN), k) =>
               can_promote(p, k)

\* Whether a node that has nothing of the contract takes the updates just sent,
\* whichever proofs went with them.
TakenByAnyNode ==
  \A i \in DOMAIN last.batches :
    LET batch == last.batches[i]
    IN  IF batch.proofs = {}
        THEN Valid(<<batch.op>>)
        ELSE \A proof \in batch.proofs : Valid(<<proof, batch.op>>)

\* A write of somebody the root itself let in needs nothing but what is sent
\* with it: a node that has heard nothing yet takes it (store.rs:1387-1393,
\* 2181-2183).
WritesStandAlone ==
  \/ last.page = Owner
  \/ \E i \in DOMAIN log[last.at] :
       LET op == log[last.at][i]
       IN  /\ op.n \in known[last.page][last.at]
           /\ op.kind = "GRANT" /\ op.author = Owner
           /\ op.target = last.page /\ MEMBER \subseteq op.rights
  => TakenByAnyNode

\* "the button would lie" (ui/panels.rs:445-448): no control of a project's
\* sidebar is offered that does nothing.
NoButtonLies ==
  last.what # "none" => Done(last.page, last.at, last.what, last.whom)

\* "A peer that has not yet seen our invite would reject this write, so the
\* invite rides along" (store.rs:2181-2183), whoever invited us.
InviteRidesAlong ==
  last.what # "none" /\ rights_of(seen(last.page, last.at), last.page) # NONE =>
    TakenByAnyNode

\* Letting somebody in takes nothing away from them.  The form does not ask who
\* the key belongs to (store.rs:1455-1470), and an administrator whose key is
\* entered as a member's is one no longer.
NothingTakenByInviting ==
  [][\A p \in Page, k \in Key, c \in Contract :
       /\ last'.what \in {"invite", "assign", "sync"}
       /\ last'.page = p /\ last'.at = c /\ last'.whom = k
       => seen(p, c).held[k] \subseteq (seen(p, c).held[k])']_members_vars

=============================================================================
