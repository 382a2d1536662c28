--------------------------- MODULE AuthorityFold ----------------------------
(***************************************************************************)
(* What one authority op does to an Authority: the body of the loop of     *)
(* `fold_authority` in pj-core/src/envelope_state.rs.                      *)
(*                                                                         *)
(* A map of the code (BTreeMap) is a total function here: a key absent     *)
(* from held or ever_held is mapped to NONE, and a key absent from         *)
(* person_of or ever_person_of to itself.  The second loses nothing        *)
(* because the fold never points a device at itself.  The first would: a   *)
(* key that was granted nothing is in both maps, which is how it comes to  *)
(* be in the list of members.  `ever_members` is the keys in these maps,   *)
(* which are always the same.                                              *)
(***************************************************************************)
EXTENDS Rights

CONSTANTS
  Key,        \* every public key: owner, members, their devices, strangers
  Owner,      \* from the contract's parameters
  OrgOwner    \* the organization's founder as a set: {} outside an org

ASSUME KeysAssumption == Owner \in Key /\ OrgOwner \subseteq Key

Roots == {Owner} \cup OrgOwner

Authorities ==
  [held : [Key -> SUBSET ALL], ever_held : [Key -> SUBSET ALL],
   person_of : [Key -> Key], ever_person_of : [Key -> Key],
   ever_members : SUBSET Key]

Empty ==
  LET roots == [k \in Key |-> IF k \in Roots THEN ALL ELSE NONE]
      nobody == [k \in Key |-> k]
  IN  [held |-> roots, ever_held |-> roots,
       person_of |-> nobody, ever_person_of |-> nobody,
       ever_members |-> Roots]

-----------------------------------------------------------------------------
(* Questions put to an Authority.                                          *)

person(a, k) == a.person_of[k]
rights_of(a, k) == a.held[person(a, k)]
ever_person(a, k) == a.ever_person_of[k]
ever_rights_of(a, k) == a.ever_held[ever_person(a, k)]

-----------------------------------------------------------------------------
(* The fold, one kind of op at a time.  `author` is the key that signed.   *)

Resigning(a, author, member, rights) ==
  member = person(a, author) /\ rights = NONE

\* A mutated form: admins may cut back one another.
MayGrantToAnyAdmin(a, author, member) == MAY_GRANT \in rights_of(a, author)

\* Cutting back an admin is the same power as making one.
MayGrantTo(a, author, member) ==
  /\ MAY_GRANT \in rights_of(a, author)
  /\ MAY_GRANT \in a.held[member] => MAY_APPOINT \in rights_of(a, author)

GrantHonoured(a, author, member, rights) ==
  /\ member \notin Roots
  /\ Resigning(a, author, member, rights) \/ MayGrantTo(a, author, member)

\* Mutated forms: rights not capped, or only capped.
ConferredUncapped(a, author, rights) ==
  IF MAY_APPOINT \in rights_of(a, author)
  THEN rights
  ELSE rights \ {MAY_GRANT, MAY_APPOINT}
ConferredInFull(a, author, rights) == rights \cap rights_of(a, author)

\* Capped at what the granter holds, and without the power to grant or to
\* appoint unless the granter may appoint.
Conferred(a, author, rights) ==
  LET asked == rights \cap rights_of(a, author)
  IN  IF MAY_APPOINT \in rights_of(a, author)
      THEN asked
      ELSE asked \ {MAY_GRANT, MAY_APPOINT}

ApplyGrant(a, author, member, rights) ==
  IF GrantHonoured(a, author, member, rights)
  THEN LET conferred == Conferred(a, author, rights)
       IN  [held |-> [a.held EXCEPT ![member] = conferred],
            ever_held |-> [a.ever_held EXCEPT ![member] = @ \cup conferred],
            person_of |-> a.person_of,
            ever_person_of |-> a.ever_person_of,
            ever_members |-> a.ever_members \cup {member}]
  ELSE a

LinkHonoured(a, author, device) ==
  /\ rights_of(a, author) # NONE
  /\ device # person(a, author)
  /\ person(a, device) = device

ApplyLink(a, author, device) ==
  IF LinkHonoured(a, author, device)
  THEN [held |-> a.held,
        ever_held |-> a.ever_held,
        person_of |-> [a.person_of EXCEPT ![device] = person(a, author)],
        ever_person_of |->
          [a.ever_person_of EXCEPT
             ![device] = IF @ = device THEN person(a, author) ELSE @],
        ever_members |-> a.ever_members]
  ELSE a

\* The voucher's word, or the device's own.
UnlinkHonoured(a, author, device) ==
  person(a, device) = person(a, author) \/ author = device

ApplyUnlink(a, author, device) ==
  IF UnlinkHonoured(a, author, device)
  THEN [held |-> a.held,
        ever_held |-> a.ever_held,
        person_of |-> [a.person_of EXCEPT ![device] = device],
        ever_person_of |-> a.ever_person_of,
        ever_members |-> a.ever_members]
  ELSE a

=============================================================================
