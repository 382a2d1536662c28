------------------------------- MODULE Profile -------------------------------
(***************************************************************************)
(* The profile of whoever the page acts as (pj-web/src/store.rs, ui/user.rs*)
(* and, on the node, pj-user-contract): where the boards that were opened, *)
(* the display name and the linked devices are written down.               *)
(*                                                                         *)
(* A profile is at an address made from its owner's key, so it can be asked*)
(* for, and written to, before it is known to exist.  What its ops amount  *)
(* to is in UserFold; here, that the latest about a thing decides.         *)
(*                                                                         *)
(* An organization is noted in it as a board is (remember_org), and what   *)
(* linking a device or taking a name writes to an open board or            *)
(* organization is left to their own modules.                              *)
(***************************************************************************)
EXTENDS Naturals, Sequences, FiniteSets

CONSTANTS
  Person,       \* the keys this page may act as: its own, and restored ones
  Openable,        \* boards all of them are members of
  Named,        \* names and devices the user may enter
  None,
  MaxWrites,    \* bound: ops written
  MaxBreaks,    \* bound: times the connection is lost
  MaxRequests   \* bound: requests waiting when another identity is restored

ASSUME ProfileAssumption ==
  /\ None \notin Person \cup Openable \cup Named
  /\ {MaxWrites, MaxBreaks, MaxRequests} \subseteq Nat

VARIABLES
  identity,          \* who the page acts as, or None; profile_key is theirs
  profile_ops,
  profile_presence,  \* Registry: "Unknown", "Absent" or "Present"
  contract_key,      \* the open board, or None
  online,
  outbox,            \* requests made while there is no connection
  wire,              \* requests the node has yet to take
  answers,           \* answers the page has yet to hear
  stored,            \* the profiles the network has, None where there is none
  spoken,            \* ops written so far
  breaks,            \* connections lost so far
  loaded,            \* whether an answer about this profile has been heard, and
                     \* no connection lost since with something on its way
  meant              \* what was last done about each board in this session, or
                     \* "in the dark"

page == <<identity, profile_ops, profile_presence, contract_key>>
network == <<online, outbox, wire, answers, stored, breaks>>
profile_vars == <<page, network, spoken, loaded, meant>>

-----------------------------------------------------------------------------
(* Ops.  `at` is the writer's clock, which never stands still.             *)

UserOp(by, says, of, lamport, at) ==
  [by |-> by, says |-> says, of |-> of, lamport |-> lamport, at |-> at]

Later(o, p) == o.lamport > p.lamport \/ (o.lamport = p.lamport /\ o.at > p.at)

BoardOps(ops) == {o \in ops : o.says \in {"JoinedBoard", "LeftBoard"}}

\* UserProfile.boards.
Listed(ops) ==
  {o.of : o \in {o \in BoardOps(ops) :
                   /\ o.says = "JoinedBoard"
                   /\ \A p \in BoardOps(ops) : p.of = o.of => ~Later(p, o)}}

\* A mutated form: a clock that goes by what was written here.
LamportOfSession(ops) == spoken + 1

next_user_lamport(ops) ==
  1 + CHOOSE n \in {0} \cup {o.lamport : o \in ops} :
        \A o \in ops : o.lamport <= n

-----------------------------------------------------------------------------
(* Requests.                                                               *)

Get(p) == [ask |-> "Get", of |-> p, ops |-> {}]
PutState(p, ops) == [ask |-> "Put", of |-> p, ops |-> ops]
Update(p, ops) == [ask |-> "Update", of |-> p, ops |-> ops]

dispatch(requests) ==
  IF online
  THEN wire' = wire \o requests /\ UNCHANGED outbox
  ELSE outbox' = outbox \o requests /\ UNCHANGED wire

-----------------------------------------------------------------------------

Session ==
  /\ identity = None
  /\ profile_ops = {}
  /\ profile_presence = "Unknown"
  /\ contract_key = None
  /\ outbox = <<>> /\ wire = <<>> /\ answers = <<>>
  /\ online = TRUE
  /\ loaded = FALSE
  /\ meant = [b \in Openable |-> "nothing"]

\* What earlier sessions left behind: nothing, or a board that was opened and
\* forgotten, or one that is listed.
ProfileInit ==
  /\ Session
  /\ stored \in
       [Person -> {None}
          \cup {{UserOp("before", "JoinedBoard", b, 1, 0)} : b \in Openable}
          \cup {{UserOp("before", "JoinedBoard", b, 1, 0),
                 UserOp("before", "LeftBoard", b, 2, 0)} : b \in Openable}]
  /\ spoken = 0
  /\ breaks = 0

-----------------------------------------------------------------------------
(* The identity.                                                           *)

\* A mutated form: the ops of whoever it was are kept.
LoadKeepingOps(p) ==
  /\ profile_presence' = "Unknown"
  /\ loaded' = FALSE
  /\ UNCHANGED profile_ops
  /\ dispatch(<<Get(p)>>)

load_profile(p) ==
  /\ profile_presence' = "Unknown"
  /\ profile_ops' = {}
  /\ loaded' = FALSE
  /\ dispatch(<<Get(p)>>)

\* The delegate's answer; a board may be open by then.
adopt(p) ==
  /\ identity = None
  /\ identity' = p
  /\ load_profile(p)
  /\ UNCHANGED <<contract_key, online, answers, stored, breaks, spoken, meant>>

restore_identity(p) ==
  /\ identity \notin {None, p}
  /\ Len(outbox) + Len(wire) + Len(answers) < MaxRequests
  /\ identity' = p
  /\ load_profile(p)
  /\ meant' = [b \in Openable |-> "nothing"]
  /\ UNCHANGED <<contract_key, online, answers, stored, breaks, spoken>>

-----------------------------------------------------------------------------
(* Writing.                                                                *)

\* A mutated form: of several ops the first is sent.
OnlyTheFirst(new) == <<PutState(identity, profile_ops \cup {new[1]})>>

\* The first op creates a profile not known to exist; the others update it.
requests_for(new) ==
  [i \in DOMAIN new |->
     IF i = 1 /\ profile_presence # "Present"
     THEN PutState(identity, profile_ops \cup {new[1]})
     ELSE Update(identity, {new[i]})]

\* profile_emit, once for each of what is said: signed, applied here and sent.
profile_emit(says) ==
  LET first == next_user_lamport(profile_ops)
      ops == [i \in DOMAIN says |->
                UserOp(identity, says[i][1], says[i][2], first + i - 1,
                       spoken + i)]
      all == {ops[i] : i \in DOMAIN ops}
  IN  /\ spoken + Len(says) <= MaxWrites
      /\ spoken' = spoken + Len(says)
      /\ profile_ops' = profile_ops \cup all
      /\ profile_presence' = "Present"
      /\ dispatch(requests_for(ops))

Settled ==
  /\ identity # None /\ loaded
  /\ wire = <<>> /\ answers = <<>> /\ outbox = <<>>

\* Ops about a board that this profile has, or will have, and the page has not.
Unheard(b) ==
  LET sent == {wire[i] : i \in DOMAIN wire} \cup {outbox[i] : i \in DOMAIN outbox}
      told == {answers[i] : i \in DOMAIN answers}
      there == (IF stored[identity] = None THEN {} ELSE stored[identity])
                 \cup (UNION {r.ops : r \in {r \in sent : r.of = identity}})
                 \cup (UNION {a.has : a \in {a \in told : /\ a.of = identity
                                                          /\ a.has # None}})
  IN  {o \in BoardOps(there) : o.of = b} \ profile_ops

\* What is done about a board counts, unless something about it has yet to be
\* heard and the user does not wait for the profile; and an open board is in no
\* list before there is an identity.
Done(b, what) ==
  IF identity # None /\ (Settled \/ Unheard(b) = {}) THEN what ELSE "in the dark"

\* remember_board: not before there is an identity, nor twice.
remember_board(b) ==
  IF identity = None \/ b \in Listed(profile_ops)
  THEN UNCHANGED <<profile_ops, profile_presence, outbox, wire, spoken>>
  ELSE profile_emit(<<<<"JoinedBoard", b>>>>)

\* receive_board, of a board just opened or created, or of the open one when
\* resync asks for it again.
receive_board(b, opened) ==
  /\ online
  /\ opened \/ b = contract_key
  /\ contract_key' = b
  /\ remember_board(b)
  /\ meant' =
       CASE opened -> [meant EXCEPT ![b] = Done(b, "opened")]
         [] ~opened /\ meant[b] = "forgotten" -> [meant EXCEPT ![b] = "brought back"]
         [] OTHER -> meant
  /\ UNCHANGED <<loaded, identity, online, answers, stored, breaks>>

leave_board_bookmark(b) ==
  /\ identity # None /\ b \in Listed(profile_ops)
  /\ profile_emit(<<<<"LeftBoard", b>>>>)
  /\ meant' = [meant EXCEPT ![b] = Done(b, "forgotten")]
  /\ UNCHANGED <<loaded, identity, contract_key, online, answers, stored, breaks>>

Writes(says) ==
  /\ identity # None
  /\ profile_emit(says)
  /\ UNCHANGED <<loaded, identity, contract_key, online, answers, stored, breaks, meant>>

set_display_name(name) == Writes(<<<<"SetName", name>>>>)

\* The link is authority and the label is presentation: two ops.
link_device(device) ==
  Writes(<<<<"LinkDevice", device>>, <<"SetDeviceLabel", device>>>>)
unlink_device(device) == Writes(<<<<"UnlinkDevice", device>>>>)

-----------------------------------------------------------------------------
(* The node.  A Put makes a contract or merges into it; an Update of what  *)
(* it does not have is refused.                                            *)

NodeTakes ==
  /\ online /\ wire # <<>>
  /\ wire' = Tail(wire)
  /\ LET r == Head(wire)
     IN  CASE r.ask = "Get" ->
                /\ answers' = Append(answers, [of |-> r.of, has |-> stored[r.of]])
                /\ UNCHANGED stored
           [] r.ask = "Put" ->
                /\ stored' = [stored EXCEPT ![r.of] =
                                IF @ = None THEN r.ops ELSE @ \cup r.ops]
                /\ UNCHANGED answers
           [] r.ask = "Update" ->
                /\ stored' = [stored EXCEPT ![r.of] =
                                IF @ = None THEN None ELSE @ \cup r.ops]
                /\ UNCHANGED answers
  /\ UNCHANGED <<loaded, page, online, outbox, breaks, spoken, meant>>

\* kind_of: by the address of the profile; what is not known is a board's.
AboutMe(answer) == answer.of = identity

\* on_got and receive_profile, and Missing.
Hear ==
  /\ online /\ answers # <<>>
  /\ answers' = Tail(answers)
  /\ loaded' = (loaded \/ AboutMe(Head(answers)))
  /\ LET answer == Head(answers)
     IN  IF ~AboutMe(answer)
         THEN UNCHANGED <<profile_ops, profile_presence>>
         ELSE IF answer.has = None
         THEN profile_presence' = "Absent" /\ UNCHANGED profile_ops
         ELSE /\ profile_presence' = "Present"
              /\ profile_ops' = profile_ops \cup answer.has
  /\ UNCHANGED <<identity, contract_key, online, outbox, wire, stored, breaks, spoken,
                 meant>>

Breaks ==
  /\ online /\ breaks < MaxBreaks
  /\ breaks' = breaks + 1
  /\ online' = FALSE
  /\ wire' = <<>> /\ answers' = <<>>
  /\ loaded' = (loaded /\ wire = <<>> /\ answers = <<>>)
  /\ UNCHANGED <<page, outbox, stored, spoken, meant>>

resync ==
  IF identity = None
  THEN <<>>
  ELSE (IF profile_ops = {} THEN <<>> ELSE <<Update(identity, profile_ops)>>)
         \o <<Get(identity)>>

Reconnects ==
  /\ ~online
  /\ online' = TRUE
  /\ wire' = outbox \o resync
  /\ outbox' = <<>>
  /\ UNCHANGED <<loaded, page, answers, stored, breaks, spoken, meant>>

\* The page is loaded again: Store::new, boot.
Reloads ==
  /\ breaks < MaxBreaks
  /\ breaks' = breaks + 1
  /\ identity' = None
  /\ profile_ops' = {}
  /\ profile_presence' = "Unknown"
  /\ contract_key' = None
  /\ outbox' = <<>> /\ wire' = <<>> /\ answers' = <<>>
  /\ online' = TRUE
  /\ loaded' = FALSE
  /\ meant' = [b \in Openable |-> "nothing"]
  /\ UNCHANGED <<stored, spoken>>

ProfileNext ==
  \/ \E p \in Person : adopt(p) \/ restore_identity(p)
  \/ \E b \in Openable :
       leave_board_bookmark(b) \/ \E opened \in BOOLEAN : receive_board(b, opened)
  \/ \E n \in Named : set_display_name(n) \/ link_device(n) \/ unlink_device(n)
  \/ NodeTakes \/ Hear \/ Breaks \/ Reconnects \/ Reloads

\* The node takes what it is sent and answers, and the client never gives up
\* connecting (see Connection).
ProfileFairness ==
  /\ WF_profile_vars(NodeTakes)
  /\ WF_profile_vars(Hear)
  /\ WF_profile_vars(Reconnects)

ProfileSpec ==
  ProfileInit /\ [][ProfileNext]_profile_vars /\ ProfileFairness

-----------------------------------------------------------------------------
(* Correctness.                                                            *)

\* A restored identity has a profile of its own (store.rs:705), and an answer
\* about the one before, still on its way, adds nothing to it: what the page
\* shows, and sends out signed, is of whoever it acts as.
OwnProfile ==
  \A o \in profile_ops : o.by \in {identity, "before"}

\* "Recorded as you open things you belong to" (ui/user.rs:475): of what was
\* last done about a board, opening it or forgetting it, the list says so,
\* whatever earlier sessions wrote and whatever the user does meanwhile.  What is
\* done before the profile has come counts as well, if nothing about that board
\* was in it (Done).
ListSaysWhatWasDone ==
  \A b \in Openable :
    /\ meant[b] = "opened" => b \in Listed(profile_ops)
    /\ meant[b] = "forgotten" => b \notin Listed(profile_ops)

\* "the client does not need to know which writes got through. It re-offers
\* everything" (node.rs:362-364): whatever is lost with the connection, what the
\* page has written gets to a profile that exists.
WritesAreStored ==
  []<>(\/ identity = None
       \/ stored[identity] = None
       \/ profile_ops \subseteq stored[identity])

-----------------------------------------------------------------------------
(* Said of the program, and not so.                                        *)

\* "pushing all of it is idempotent, and that is exactly what makes this simple
\* enough to trust" (store.rs:316-319): of a profile that has yet to be made,
\* too.
NewProfilesAreStored ==
  []<>(\/ identity = None
       \/ stored[identity] # None /\ profile_ops \subseteq stored[identity])

\* What is done about a board in this session is what the list says (ui/user.rs:
\* 475).  Before the profile has come, next_user_lamport begins below its clock;
\* boot itself opens the board of the address then.
EarlyActsCount == \A b \in Openable : meant[b] # "in the dark"

\* "Remove from this list" (ui/user.rs:564): for as long as the user does not
\* open the board again.
ForgottenStaysForgotten == \A b \in Openable : meant[b] # "brought back"

=============================================================================
