--------------------------- MODULE EnvelopeState ----------------------------
(***************************************************************************)
(* The state of every contract but the registry (pj-core/src/              *)
(* envelope_state.rs) is a set of signed ops.  This module says what such  *)
(* a set means: who may do what, and whether a contract accepts it.        *)
(*                                                                         *)
(* An op is a record                                                       *)
(*   key     its place in the total order (order_key ends with the content *)
(*           hash, so it is also its OpId)                                 *)
(*   scope   the contract it was signed for                                *)
(*   kind    "GRANT", "LINK_DEVICE", "UNLINK_DEVICE" or "APPLICATION"      *)
(*   author  the key it names as its author                                *)
(*   target  the member of a grant, the device of a link                   *)
(*   rights  what a grant names, or the rights an application op needs     *)
(*   signed  whether its signature verifies                                *)
(*   legible whether the body of an authority op decodes                   *)
(* The key does not cover the signature, so a genuine op and a forged copy *)
(* of it have the same key.                                                *)
(***************************************************************************)
EXTENDS AuthorityFold, Naturals

CONSTANTS
  Here,     \* this contract's scope
  OrgScope, \* the scope of the organization's contract as a set
  Places    \* the total order has the places 1..Places

ASSUME PlacesAssumption == Places \in Nat

-----------------------------------------------------------------------------
(* The fold over a whole set.                                              *)

is_authority(op) == op.kind # "APPLICATION"

\* An authority op whose body does not decode is skipped.
Fold(a, op) ==
  IF ~is_authority(op) \/ ~op.legible
  THEN a
  ELSE CASE op.kind = "GRANT" -> ApplyGrant(a, op.author, op.target, op.rights)
         [] op.kind = "LINK_DEVICE" -> ApplyLink(a, op.author, op.target)
         [] op.kind = "UNLINK_DEVICE" -> ApplyUnlink(a, op.author, op.target)
         [] OTHER -> a

\* No two ops of a state have the same place, and not every place is taken.
FoldPlace(ops, a, n) ==
  IF n \in {op.key : op \in ops}
  THEN Fold(a, CHOOSE op \in ops : op.key = n)
  ELSE a

\* The ops are folded in the order of their places.
authority_in(ops) ==
  LET upto[n \in 0..Places] ==
        IF n = 0 THEN Empty ELSE FoldPlace(ops, upto[n - 1], n)
  IN  upto[Places]

-----------------------------------------------------------------------------
(* The policy of a contract.                                               *)

admits(op) == op.scope = Here \/ (op.kind = "GRANT" /\ op.scope \in OrgScope)

\* A mutated form: only authority ops are judged.
PermittedAllWork(a, op) ==
  is_authority(op) => ever_rights_of(a, op.author) # NONE

\* A mutated form: judging by present rights.
PermittedNow(a, op) ==
  LET entitled == rights_of(a, op.author)
  IN  IF is_authority(op) THEN entitled # NONE ELSE op.rights \subseteq entitled

\* An authority op needs an author who was ever anybody, an application op
\* one who was ever entitled to it.
Permitted(a, op) ==
  LET entitled == ever_rights_of(a, op.author)
  IN  IF is_authority(op) THEN entitled # NONE ELSE op.rights \subseteq entitled

validate_in(ops) ==
  /\ \A op \in ops : admits(op) /\ op.signed
  /\ LET a == authority_in(ops) IN \A op \in ops : Permitted(a, op)

=============================================================================
