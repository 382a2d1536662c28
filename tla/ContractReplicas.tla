-------------------------- MODULE ContractReplicas --------------------------
(***************************************************************************)
(* Replicas of a contract whose policy is that of EnvelopeState, for a     *)
(* given small history of ops.  Only finitely many sets of ops can occur,  *)
(* so which of them the policy accepts is worked out once.                 *)
(***************************************************************************)
EXTENDS EnvelopeState, Replicas

Written == UNION (Batches \cup Forged)

ValidStates == {ops \in SUBSET Written : validate_in(ops)}

Policy(ops) == ops \in ValidStates

\* An op names keys and rights there are, and has a place in the order.
ASSUME WrittenAssumption ==
  \A op \in Written :
    /\ op.key \in 1..Places
    /\ {op.author, op.target} \subseteq Key
    /\ op.rights \subseteq ALL

\* What the replicas ask of a set of ops is this policy.
ASSUME PolicyAssumption ==
  \A ops \in SUBSET Written : Accepts(ops) <=> Policy(ops)

-----------------------------------------------------------------------------
(* The certificates there are for an op.                                   *)

\* The key itself, whoever linked it, whoever linked that, and so on.
Behind(ops, key) ==
  {k \in Key :
     \A S \in SUBSET Key :
       /\ key \in S
       /\ \A link \in ops : link.kind = "LINK_DEVICE" /\ link.legible
                            /\ link.target \in S => link.author \in S
       => k \in S}

\* The roots, and whom a grant names the right for by somebody who has it, or
\* by a key with such a person behind it.
Vouched(ops, right) ==
  {k \in Key :
     \A S \in SUBSET Key :
       /\ Roots \subseteq S
       /\ \A grant \in ops : grant.kind = "GRANT" /\ grant.legible
                             /\ right \in grant.rights
                             /\ Behind(ops, grant.author) \cap S # {}
                               => grant.target \in S
       => k \in S}

\* Every application op a peer holds was signed, was written for this
\* contract, and has in the same state a chain of grants from a root, and one
\* of links, to its author for each right it needs: no order of arrival lets
\* work in before or without the certificates for it
\* (validate_in, envelope_state.rs:410-449).
WorkIsVouchedFor ==
  \A p \in Peer : \A op \in state[p] :
    ~is_authority(op) =>
      /\ op.signed /\ op.scope = Here
      /\ \E k \in Behind(state[p], op.author) :
           \A right \in op.rights : k \in Vouched(state[p], right)

=============================================================================
