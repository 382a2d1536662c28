-------------------------- MODULE AuthorityProofs ---------------------------
(***************************************************************************)
(* Theorems about Authority, for every set of keys, every set of requests  *)
(* and with or without an organization.                                    *)
(*                                                                         *)
(* The inductive invariant is the conjunction IInv of the invariants TLC   *)
(* checks.  None is inductive alone: TwoTiers needs NoForgedRight (an      *)
(* admin without MAY_APPOINT confers no MAY_GRANT, and nobody but a root   *)
(* has MAY_APPOINT unless a root issued it), which needs HeldWasHeld (what *)
(* the granter holds now bounds what it confers), and VouchersHadStanding  *)
(* needs HeldWasHeld (the guard of a link is about held, the invariant     *)
(* about ever_held).                                                       *)
(***************************************************************************)
EXTENDS Authority, TLAPS

IInv ==
  /\ TypeOK
  /\ RootsKeepAll
  /\ HeldWasHeld
  /\ NoForgedRight
  /\ TwoTiers
  /\ VouchersHadStanding

-----------------------------------------------------------------------------
(* What one op does to an Authority.                                       *)

\* A conferred set is part of what was asked for and of what the granter
\* holds.
LEMMA ConferredIsCapped ==
  ASSUME NEW a \in Authorities, NEW author \in Key, NEW rights \in SUBSET ALL
  PROVE  /\ Conferred(a, author, rights) \subseteq rights
         /\ Conferred(a, author, rights) \subseteq rights_of(a, author)
         /\ MAY_APPOINT \notin rights_of(a, author) =>
              MAY_GRANT \notin Conferred(a, author, rights)
BY DEF Conferred

\* A grant changes nothing but what its member holds and has held.
LEMMA GrantEffect ==
  ASSUME NEW a \in Authorities, NEW author \in Key, NEW member \in Key,
         NEW rights \in SUBSET ALL
  PROVE  LET after == ApplyGrant(a, author, member, rights)
             given == Conferred(a, author, rights)
         IN  /\ after \in Authorities
             /\ after.person_of = a.person_of
             /\ after.ever_person_of = a.ever_person_of
             /\ \A k \in Key : k # member =>
                  after.held[k] = a.held[k] /\ after.ever_held[k] = a.ever_held[k]
             /\ GrantHonoured(a, author, member, rights) =>
                  /\ after.held[member] = given
                  /\ after.ever_held[member] = a.ever_held[member] \cup given
             /\ ~GrantHonoured(a, author, member, rights) => after = a
<1>1. Conferred(a, author, rights) \in SUBSET ALL
  BY ConferredIsCapped
<1>2. QED
  BY <1>1 DEF ApplyGrant, Authorities

\* An unlink changes nothing but whom one device acts for.
LEMMA UnlinkEffect ==
  ASSUME NEW a \in Authorities, NEW author \in Key, NEW device \in Key
  PROVE  LET after == ApplyUnlink(a, author, device)
         IN  /\ after \in Authorities
             /\ after.held = a.held
             /\ after.ever_held = a.ever_held
             /\ after.ever_person_of = a.ever_person_of
             /\ \A k \in Key :
                  after.person_of[k] = a.person_of[k]
                  \/ (k = device /\ after.person_of[k] = device)
BY DEF ApplyUnlink, Authorities, person

-----------------------------------------------------------------------------
(* The invariant.                                                          *)

\* An authority nobody has written to keeps the invariant.
LEMMA InitIInv == Init => IInv
<1> SUFFICES ASSUME Init PROVE IInv
  OBVIOUS
<1> USE KeysAssumption
<1>1. TypeOK
  BY DEF Init, Empty, TypeOK, Authorities, NONE, Roots
<1>2. RootsKeepAll /\ HeldWasHeld /\ NoForgedRight /\ TwoTiers
  BY DEF Init, Empty, Roots, RootsKeepAll, HeldWasHeld, NoForgedRight, TwoTiers,
         NONE
<1>3. VouchersHadStanding
  BY DEF Init, Empty, VouchersHadStanding, person, ever_person
<1>4. QED
  BY <1>1, <1>2, <1>3 DEF IInv

\* A grant, honoured or not, resignation or not, by any key.
LEMMA GrantKeepsIInv ==
  ASSUME IInv, NEW author \in Key, NEW member \in Key, NEW rights \in Request,
         Grant(author, member, rights)
  PROVE  IInv'
<1> DEFINE acting == person(authority, author)
           given == Conferred(authority, author, rights)
           honoured == GrantHonoured(authority, author, member, rights)
<1>1. /\ authority \in Authorities
      /\ issued \in [Key -> SUBSET ALL]
      /\ rights \in SUBSET ALL
      /\ acting \in Key
  BY RequestAssumption DEF IInv, TypeOK, Authorities, person
<1>2. /\ authority' \in Authorities
      /\ authority'.person_of = authority.person_of
      /\ authority'.ever_person_of = authority.ever_person_of
      /\ \A k \in Key : k # member =>
           /\ authority'.held[k] = authority.held[k]
           /\ authority'.ever_held[k] = authority.ever_held[k]
      /\ honoured =>
           /\ authority'.held[member] = given
           /\ authority'.ever_held[member] = authority.ever_held[member] \cup given
      /\ ~honoured => authority' = authority
  BY <1>1, GrantEffect DEF Grant
<1>3. /\ given \subseteq rights
      /\ given \subseteq authority.held[acting]
      /\ MAY_APPOINT \notin authority.held[acting] => MAY_GRANT \notin given
  BY <1>1, ConferredIsCapped DEF rights_of
<1>4. /\ issued' \in [Key -> SUBSET ALL]
      /\ \A k \in Key : issued[k] \subseteq issued'[k]
      /\ acting \in Roots => rights \subseteq issued'[member]
  BY <1>1 DEF Grant
<1>5. honoured => member \notin Roots
  BY DEF GrantHonoured
<1>6. TypeOK'
  BY <1>2, <1>4 DEF TypeOK, Grant
<1>7. RootsKeepAll'
  <2>1. Roots \subseteq Key
    BY KeysAssumption DEF Roots
  <2>2. QED
    BY <1>2, <1>5, <2>1 DEF IInv, RootsKeepAll
<1>8. HeldWasHeld'
  BY <1>2 DEF IInv, HeldWasHeld
<1>9. NoForgedRight'
  <2> SUFFICES ASSUME NEW k \in Key \ Roots, NEW r \in authority'.ever_held[k]
               PROVE  \E j \in Key : r \in issued'[j]
    BY DEF NoForgedRight
  <2>1. CASE r \in authority.ever_held[k]
    BY <2>1, <1>4 DEF IInv, NoForgedRight
  <2>2. CASE r \notin authority.ever_held[k]
    <3>1. k = member /\ r \in given
      BY <2>2, <1>2
    <3>2. CASE acting \in Roots
      BY <3>1, <3>2, <1>3, <1>4
    <3>3. CASE acting \notin Roots
      <4>1. r \in authority.ever_held[acting]
        BY <3>1, <1>1, <1>3 DEF IInv, HeldWasHeld
      <4>2. QED
        BY <4>1, <3>3, <1>1, <1>4 DEF IInv, NoForgedRight
    <3>4. QED
      BY <3>2, <3>3
  <2>3. QED
    BY <2>1, <2>2
<1>10. TwoTiers'
  <2> SUFFICES ASSUME \A j \in Key : MAY_APPOINT \notin issued'[j],
                      NEW k \in Key \ Roots,
                      MAY_GRANT \in authority'.ever_held[k]
               PROVE  MAY_GRANT \in issued'[k]
    BY DEF TwoTiers
  <2>1. \A j \in Key : MAY_APPOINT \notin issued[j]
    BY <1>4
  <2>2. CASE MAY_GRANT \in authority.ever_held[k]
    BY <2>1, <2>2, <1>4 DEF IInv, TwoTiers
  <2>3. CASE MAY_GRANT \notin authority.ever_held[k]
    <3>1. k = member /\ MAY_GRANT \in given
      BY <2>3, <1>2
    <3>2. acting \in Roots
      <4>1. MAY_APPOINT \in authority.ever_held[acting]
        BY <3>1, <1>1, <1>3 DEF IInv, HeldWasHeld
      <4>2. QED
        BY <4>1, <2>1, <1>1 DEF IInv, NoForgedRight
    <3>3. QED
      BY <3>1, <3>2, <1>3, <1>4
  <2>4. QED
    BY <2>2, <2>3
<1>11. VouchersHadStanding'
  <2>1. \A k \in Key : authority.ever_held[k] \subseteq authority'.ever_held[k]
    BY <1>2
  <2>2. authority.ever_person_of \in [Key -> Key]
    BY <1>1 DEF Authorities
  <2>3. QED
    BY <2>1, <2>2, <1>2
    DEF IInv, VouchersHadStanding, person, ever_person, NONE
<1>12. QED
  BY <1>6, <1>7, <1>8, <1>9, <1>10, <1>11 DEF IInv

\* A link: only the part about vouchers is at stake.
LEMMA LinkKeepsIInv ==
  ASSUME IInv, NEW author \in Key, NEW device \in Key, LinkDevice(author, device)
  PROVE  IInv'
<1> DEFINE acting == person(authority, author)
           honoured == LinkHonoured(authority, author, device)
<1>1. /\ authority \in Authorities
      /\ acting \in Key
  BY DEF IInv, TypeOK, Authorities, person
<1>2. /\ authority' \in Authorities
      /\ authority'.held = authority.held
      /\ authority'.ever_held = authority.ever_held
      /\ \A k \in Key : k # device =>
           /\ authority'.person_of[k] = authority.person_of[k]
           /\ authority'.ever_person_of[k] = authority.ever_person_of[k]
      /\ honoured =>
           /\ authority'.person_of[device] = acting
           /\ \/ authority'.ever_person_of[device] = acting
              \/ /\ authority.ever_person_of[device] # device
                 /\ authority'.ever_person_of[device] =
                      authority.ever_person_of[device]
      /\ ~honoured => authority' = authority
  BY <1>1 DEF LinkDevice, ApplyLink, Authorities, person
<1>3. UNCHANGED issued /\ signer' \in Key
  BY DEF LinkDevice
<1>4. /\ TypeOK' /\ RootsKeepAll' /\ HeldWasHeld'
      /\ NoForgedRight' /\ TwoTiers'
  BY <1>2, <1>3
  DEF IInv, TypeOK, RootsKeepAll, HeldWasHeld, NoForgedRight, TwoTiers
<1>5. VouchersHadStanding'
  <2>1. CASE honoured
    <3>1. authority.ever_held[acting] # NONE /\ device # acting
      <4>1. authority.held[acting] \subseteq authority.ever_held[acting]
        BY <1>1 DEF IInv, HeldWasHeld
      <4>2. QED
        BY <4>1, <2>1 DEF LinkHonoured, rights_of, NONE
    <3>2. QED
      BY <3>1, <2>1, <1>2 DEF IInv, VouchersHadStanding, person, ever_person
  <2>2. CASE ~honoured
    BY <2>2, <1>2 DEF IInv, VouchersHadStanding
  <2>3. QED
    BY <2>1, <2>2
<1>6. QED
  BY <1>4, <1>5 DEF IInv

\* Unlinking a device keeps the invariant.
LEMMA UnlinkKeepsIInv ==
  ASSUME IInv, NEW author \in Key, NEW device \in Key,
         UnlinkDevice(author, device)
  PROVE  IInv'
<1>1. authority \in Authorities
  BY DEF IInv, TypeOK
<1>2. /\ authority' \in Authorities
      /\ authority'.held = authority.held
      /\ authority'.ever_held = authority.ever_held
      /\ authority'.ever_person_of = authority.ever_person_of
      /\ \A k \in Key :
           authority'.person_of[k] = authority.person_of[k]
           \/ (k = device /\ authority'.person_of[k] = device)
  BY <1>1, UnlinkEffect DEF UnlinkDevice
<1>3. UNCHANGED issued /\ signer' \in Key
  BY DEF UnlinkDevice
<1>4. /\ TypeOK' /\ RootsKeepAll' /\ HeldWasHeld'
      /\ NoForgedRight' /\ TwoTiers'
  BY <1>2, <1>3
  DEF IInv, TypeOK, RootsKeepAll, HeldWasHeld, NoForgedRight, TwoTiers
<1>5. VouchersHadStanding'
  BY <1>2 DEF IInv, VouchersHadStanding, person, ever_person
<1>6. QED
  BY <1>4, <1>5 DEF IInv

\* So does every step.
LEMMA NextKeepsIInv == IInv /\ [Next]_vars => IInv'
<1> SUFFICES ASSUME IInv, [Next]_vars PROVE IInv'
  OBVIOUS
<1>1. CASE Next
  <2> PICK author \in Key, target \in Key :
        \/ \E rights \in Request : Grant(author, target, rights)
        \/ LinkDevice(author, target)
        \/ UnlinkDevice(author, target)
    BY <1>1 DEF Next
  <2>1. CASE \E rights \in Request : Grant(author, target, rights)
    BY <2>1, GrantKeepsIInv
  <2>2. CASE LinkDevice(author, target)
    BY <2>2, LinkKeepsIInv
  <2>3. CASE UnlinkDevice(author, target)
    BY <2>3, UnlinkKeepsIInv
  <2>4. QED
    BY <2>1, <2>2, <2>3
<1>2. CASE UNCHANGED vars
  BY <1>2
  DEF vars, IInv, TypeOK, RootsKeepAll, HeldWasHeld, NoForgedRight, TwoTiers,
      VouchersHadStanding, person, ever_person
<1>3. QED
  BY <1>1, <1>2

\* Every state of every fold satisfies the whole invariant.
THEOREM Safety == Spec => []IInv
<1>1. QED
  BY InitIInv, NextKeepsIInv, PTL DEF Spec

-----------------------------------------------------------------------------
(* The parts a reader asks for by name.                                    *)

\* The fold keeps its maps total and of their types.
THEOREM TypeCorrect == Spec => []TypeOK
<1>1. IInv => TypeOK
  BY DEF IInv
<1>2. QED
  BY <1>1, Safety, PTL

\* Neither the owner nor an organization's founder can be demoted.
THEOREM RootsCannotBeDemoted == Spec => []RootsKeepAll
<1>1. IInv => RootsKeepAll
  BY DEF IInv
<1>2. QED
  BY <1>1, Safety, PTL

\* Judging by ever_held never refuses a right a person holds now.
THEOREM CurrentRightsWereHeld == Spec => []HeldWasHeld
<1>1. IInv => HeldWasHeld
  BY DEF IInv
<1>2. QED
  BY <1>1, Safety, PTL

\* Nobody ever holds a right that no root's grant named.
THEOREM NoEscalation == Spec => []NoForgedRight
<1>1. IInv => NoForgedRight
  BY DEF IInv
<1>2. QED
  BY <1>1, Safety, PTL

\* Admins come from a root's own grant unless a root gave away MAY_APPOINT.
THEOREM AdminsComeFromRoots == Spec => []TwoTiers
<1>1. IInv => TwoTiers
  BY DEF IInv
<1>2. QED
  BY <1>1, Safety, PTL

\* No key has a device link without a person of standing behind it.
THEOREM DevicesHaveVouchers == Spec => []VouchersHadStanding
<1>1. IInv => VouchersHadStanding
  BY DEF IInv
<1>2. QED
  BY <1>1, Safety, PTL

-----------------------------------------------------------------------------
(* What no step may do.                                                    *)

\* What a key ever held only grows.
LEMMA StepGrowsEverHeld ==
  ASSUME TypeOK, Next, NEW k \in Key
  PROVE  authority.ever_held[k] \subseteq authority'.ever_held[k]
<1>1. authority \in Authorities
  BY DEF TypeOK
<1>2. PICK author \in Key, target \in Key :
        \/ \E rights \in Request : Grant(author, target, rights)
        \/ LinkDevice(author, target)
        \/ UnlinkDevice(author, target)
  BY DEF Next
<1>3. CASE \E rights \in Request : Grant(author, target, rights)
  BY <1>1, <1>3, GrantEffect, RequestAssumption DEF Grant
<1>4. CASE LinkDevice(author, target)
  BY <1>4 DEF LinkDevice, ApplyLink
<1>5. CASE UnlinkDevice(author, target)
  BY <1>1, <1>5, UnlinkEffect DEF UnlinkDevice
<1>6. QED
  BY <1>2, <1>3, <1>4, <1>5

\* A later op takes nothing away from what anyone was ever entitled to.
THEOREM EverHeldOnlyGrows == Spec => EverHeldGrows
<1>1. TypeOK /\ [Next]_vars =>
        [\A k \in Key :
           authority.ever_held[k] \subseteq authority'.ever_held[k]]_vars
  BY StepGrowsEverHeld
<1>2. QED
  BY <1>1, TypeCorrect, PTL DEF Spec, EverHeldGrows

\* A device that is claimed is not claimed by another.
LEMMA StepRepointsNobody ==
  ASSUME TypeOK, Next, NEW d \in Key
  PROVE  /\ person(authority, d) # d =>
              person(authority', d) \in {person(authority, d), d}
         /\ ever_person(authority, d) # d =>
              ever_person(authority', d) = ever_person(authority, d)
<1>1. authority \in Authorities
  BY DEF TypeOK
<1>2. PICK author \in Key, target \in Key :
        \/ \E rights \in Request : Grant(author, target, rights)
        \/ LinkDevice(author, target)
        \/ UnlinkDevice(author, target)
  BY DEF Next
<1>3. CASE \E rights \in Request : Grant(author, target, rights)
  BY <1>1, <1>3, GrantEffect, RequestAssumption DEF Grant, person, ever_person
<1>4. CASE LinkDevice(author, target)
  BY <1>1, <1>4
  DEF LinkDevice, ApplyLink, LinkHonoured, person, ever_person, Authorities
<1>5. CASE UnlinkDevice(author, target)
  BY <1>1, <1>5 DEF UnlinkDevice, ApplyUnlink, person, ever_person, Authorities
<1>6. QED
  BY <1>2, <1>3, <1>4, <1>5

\* A claimed device is never handed from one person straight to another.
THEOREM DevicesNeverRepointed == Spec => NeverRepointed
<1>1. TypeOK /\ [Next]_vars =>
        [\A d \in Key :
           /\ person(authority, d) # d =>
                person(authority', d) \in {person(authority, d), d}
           /\ ever_person(authority, d) # d =>
                ever_person(authority', d) = ever_person(authority, d)]_vars
  BY StepRepointsNobody
<1>2. QED
  BY <1>1, TypeCorrect, PTL DEF Spec, NeverRepointed

\* Whoever signs the op that takes away an admin's power to grant is that admin,
\* or one of its devices, or may appoint admins.
LEMMA StepUnmakesAdmins ==
  ASSUME TypeOK, Next, NEW k \in Key, MAY_GRANT \in authority.held[k] \ authority'.held[k]
  PROVE  \/ person(authority, signer') = k
         \/ MAY_APPOINT \in rights_of(authority, signer')
<1>1. authority \in Authorities
  BY DEF TypeOK
<1>2. PICK author \in Key, target \in Key :
        \/ \E rights \in Request : Grant(author, target, rights)
        \/ LinkDevice(author, target)
        \/ UnlinkDevice(author, target)
  BY DEF Next
<1>3. ~LinkDevice(author, target)
  BY DEF LinkDevice, ApplyLink
<1>4. ~UnlinkDevice(author, target)
  <2>1. ApplyUnlink(authority, author, target).held = authority.held
    BY <1>1, UnlinkEffect
  <2> QED
    BY <2>1 DEF UnlinkDevice
<1>5. PICK rights \in Request : Grant(author, target, rights)
  BY <1>2, <1>3, <1>4
<1>6. /\ authority' = ApplyGrant(authority, author, target, rights)
      /\ rights \in SUBSET ALL
      /\ signer' = author
  BY <1>5, RequestAssumption DEF Grant
<1>7. target = k /\ GrantHonoured(authority, author, target, rights)
  <2>1. /\ \A j \in Key : j # target => authority'.held[j] = authority.held[j]
        /\ ~GrantHonoured(authority, author, target, rights) => authority' = authority
    BY <1>1, <1>6, GrantEffect
  <2> QED
    BY <2>1
<1> QED
  BY <1>6, <1>7 DEF GrantHonoured, Resigning, MayGrantTo

\* An admin is unmade by its own word or by somebody who may appoint admins,
\* never by another admin nor by a link.
THEOREM AdminsUnmadeOnlyByAppointers == Spec => AdminsUnmadeByAppointers
<1>1. TypeOK /\ [Next]_vars =>
        [\A k \in Key :
           MAY_GRANT \in authority.held[k] \ authority'.held[k] =>
             \/ person(authority, signer') = k
             \/ MAY_APPOINT \in rights_of(authority, signer')]_vars
  BY StepUnmakesAdmins
<1> QED
  BY <1>1, TypeCorrect, PTL DEF Spec, AdminsUnmadeByAppointers

=============================================================================
