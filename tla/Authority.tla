----------------------------- MODULE Authority ------------------------------
(***************************************************************************)
(* Who may do what on one contract: `fold_authority` of                    *)
(* pj-core/src/envelope_state.rs, one step per authority op.               *)
(*                                                                         *)
(* The ops of a contract are folded in one total order.  Nothing a         *)
(* contract can check limits what that order contains, so a behaviour of   *)
(* this module is the fold over an arbitrary sequence of authority ops:    *)
(* any key may author a grant, a link or an unlink of any key, and the     *)
(* fold must cope with it.  Unauthorised ops are kept in the set and       *)
(* ignored by the fold: all they change is who signed last.                *)
(***************************************************************************)
EXTENDS AuthorityFold

CONSTANT Request   \* the rights a grant may name

ASSUME RequestAssumption == Request \subseteq SUBSET ALL

VARIABLES
  authority,  \* the Authority under construction
  issued,     \* history: for each key, the rights a root's grants asked for it
  signer      \* history: who signed the op folded last, at first the owner

vars == <<authority, issued, signer>>

-----------------------------------------------------------------------------

Init ==
  /\ authority = Empty
  /\ issued = [k \in Key |-> NONE]
  /\ signer = Owner

Grant(author, member, rights) ==
  /\ authority' = ApplyGrant(authority, author, member, rights)
  /\ issued' = IF person(authority, author) \in Roots
               THEN [issued EXCEPT ![member] = @ \cup rights]
               ELSE issued
  /\ signer' = author

LinkDevice(author, device) ==
  /\ authority' = ApplyLink(authority, author, device)
  /\ signer' = author
  /\ UNCHANGED issued

UnlinkDevice(author, device) ==
  /\ authority' = ApplyUnlink(authority, author, device)
  /\ signer' = author
  /\ UNCHANGED issued

Next ==
  \E author, target \in Key :
    \/ \E rights \in Request : Grant(author, target, rights)
    \/ LinkDevice(author, target)
    \/ UnlinkDevice(author, target)

Spec == Init /\ [][Next]_vars

-----------------------------------------------------------------------------
(* Properties                                                              *)

TypeOK ==
  /\ authority \in Authorities
  /\ issued \in [Key -> SUBSET ALL]
  /\ signer \in Key

\* A root of trust named by the parameters keeps every right whatever is
\* folded: no grant, resignation or link changes what it holds as a person
\* (envelope_state.rs:313-316).
RootsKeepAll == \A r \in Roots : authority.held[r] = ALL

\* Whatever a person may do now it was once allowed to do, so judging
\* history by ever_held never refuses a person's own current right
\* (envelope_state.rs:126-131).
HeldWasHeld ==
  \A k \in Key : authority.held[k] \subseteq authority.ever_held[k]

\* No chain of grants by admins, resignations and device links gives anyone
\* a right that no root's own grant ever named (rights are capped at the
\* granter's, envelope_state.rs:343-346).
NoForgedRight ==
  \A k \in Key \ Roots :
    authority.ever_held[k] \subseteq UNION {issued[j] : j \in Key}

\* Two tiers: as long as no root has handed out the power to appoint, the
\* only admins there have ever been are those a root's grant made so by name
\* (envelope_state.rs:347-355, org.rs:15-19).
TwoTiers ==
  (\A j \in Key : MAY_APPOINT \notin issued[j]) =>
    \A k \in Key \ Roots :
      MAY_GRANT \in authority.ever_held[k] => MAY_GRANT \in issued[k]

\* Behind every device, linked now or once, is a person who has had standing,
\* so no key becomes an acceptable author without a grant somewhere behind it
\* (the check at envelope_state.rs:364, relied on by validate_in).
VouchersHadStanding ==
  \A d \in Key :
    /\ ever_person(authority, d) # d =>
         authority.ever_held[ever_person(authority, d)] # NONE
    /\ person(authority, d) # d => ever_person(authority, d) # d

\* A claimed device is released before anyone else may claim it, and the
\* person its past ops are judged by never changes once set
\* (envelope_state.rs:370-377).
NeverRepointed ==
  [][\A d \in Key :
       /\ person(authority, d) # d =>
            person(authority', d) \in {person(authority, d), d}
       /\ ever_person(authority, d) # d =>
            ever_person(authority', d) = ever_person(authority, d)]_vars

\* What a person was ever entitled to only grows along the fold, so a later
\* op disowns nothing written under an earlier grant (the note on Authority,
\* envelope_state.rs:122-131).
EverHeldGrows ==
  [][\A k \in Key :
       authority.ever_held[k] \subseteq authority'.ever_held[k]]_vars

\* An admin stops being one only by its own word (a device's counts) or by that
\* of somebody who may appoint admins: whoever signed the op that does it, and
\* with whichever of their keys, an admin does not purge a peer, though it is
\* within anybody's cap to grant nothing (envelope_state.rs:324-341).
AdminsUnmadeByAppointers ==
  [][\A k \in Key :
       MAY_GRANT \in authority.held[k] \ authority'.held[k] =>
         \/ person(authority, signer') = k
         \/ MAY_APPOINT \in rights_of(authority, signer')]_vars

-----------------------------------------------------------------------------
(* What comments in the code say of an Authority, and the fold does not    *)
(* establish; each is the property of a run expected to be violated.       *)

\* "an owner is never short of a permission" (envelope_state.rs:252-255):
\* the owner's key acts with every right.
OwnerNeverShort == rights_of(authority, Owner) = ALL

\* "already resolved to a person ... no chain left to walk" (board.rs:179):
\* the person behind a key is not itself a device of someone.
NoDeviceChain ==
  \A k \in Key :
    person(authority, person(authority, k)) = person(authority, k)

\* "A device acts with exactly its owner's rights" (envelope_state.rs:292-293):
\* what a linked device may do now is never beyond what validation, which
\* asks for what the key was ever entitled to, will accept from it.
DeviceActsInFull ==
  \A k \in Key :
    person(authority, k) # k =>
      rights_of(authority, k) \subseteq ever_rights_of(authority, k)

=============================================================================
