------------------------------ MODULE Replicas ------------------------------
(***************************************************************************)
(* The copies of one contract's state that Freenet peers keep, how a set   *)
(* of ops is taken into one (accept_in and delta_since of pj-core/src/     *)
(* envelope_state.rs), and the contract functions a node calls on them     *)
(* (pj-board-contract/src/lib.rs; the task, org and user contracts are the *)
(* same code with other parameters).  What makes a set of ops acceptable   *)
(* is the parameter Accepts.                                               *)
(*                                                                         *)
(* The network holds a few parts of updates and a few summaries; receiving *)
(* one does not use it up, and it may be dropped at any time: a node may   *)
(* see one late, twice, out of order or never.  One call of update_state   *)
(* is handed one part or two: a State or a Delta is one, a StateAndDelta   *)
(* is two, and so is a list of two deltas.  (A list may be longer: every   *)
(* further part is taken like the second.)                                 *)
(***************************************************************************)
EXTENDS Naturals, FiniteSets

CONSTANTS
  Accepts(_),     \* the contract's policy: whether it accepts a set of ops
  Peer,
  Batches,        \* the sets of ops clients submit in one update
  Forged,         \* parts with an op in them that nobody wrote
  Capacity        \* how many parts, and how many summaries, the network holds

\* The ops that can be written; nobody else's signature makes another.
Ops == UNION Batches

\* An OpId is a hash of what was signed.
ASSUME ContentAddressed == \A a, b \in Ops : a.key = b.key => a = b

\* A new contract's state is acceptable to it.
ASSUME AcceptsNothing == Accepts({})

\* No policy accepts an op nobody wrote.
ASSUME Unforgeable ==
  \A ops \in SUBSET (Ops \cup UNION Forged) : Accepts(ops) => ops \subseteq Ops

VARIABLES
  state,      \* state[p]: the ops peer p holds for this contract
  parts,      \* the parts of updates in the network
  summaries   \* the summaries in the network

vars == <<state, parts, summaries>>

-----------------------------------------------------------------------------
(* Sets of ops.  `key` stands for the OpId, a hash of what was signed: an  *)
(* op and a copy of it with another signature have the same one.           *)

ids(ops) == {op.key : op \in ops}

\* or_insert: what is already held under an id stays.
merge(ops, other) == ops \cup {op \in other : op.key \notin ids(ops)}

\* A mutated form: validating before the merge instead of after it.
AcceptableBefore(ops, incoming) == Accepts(ops)

Acceptable(ops, incoming) == Accepts(merge(ops, incoming))

\* A mutated form: those of the ops that are acceptable on their own.
AcceptSome(ops, incoming) ==
  merge(ops, {op \in incoming : Acceptable(ops, {op})})

\* All of it or none of it.
accept_in(ops, incoming) ==
  IF Acceptable(ops, incoming) THEN merge(ops, incoming) ELSE ops

summary(ops) == ids(ops)

\* A mutated form: the test the wrong way round.
DeltaInverted(ops, seen) == {op \in ops : op.key \in seen}

delta_since(ops, seen) == {op \in ops : op.key \notin seen}

-----------------------------------------------------------------------------
(* The contract interface.                                                 *)

\* Each part is merged into what the one before it left; an error in either
\* discards the whole update.
update_state(ops, first, second) ==
  LET between == accept_in(ops, first)
  IN  IF Acceptable(ops, first) /\ Acceptable(between, second)
      THEN accept_in(between, second)
      ELSE ops

summarize_state(ops) == summary(ops)
get_state_delta(ops, seen) == delta_since(ops, seen)

-----------------------------------------------------------------------------

Init ==
  /\ state = [p \in Peer |-> {}]
  /\ parts = {}
  /\ summaries = {}

\* A network with no room left loses what it is given.
Carry(network, message) ==
  IF Cardinality(network) < Capacity THEN network \cup {message} ELSE network

\* The node of p calls update_state and stores what it returns.
Updated(p, first, second) ==
  [state EXCEPT ![p] = update_state(@, first, second)]

\* A client's update reaches its node, and goes on to the others as it is.
Submit(p, batch) ==
  /\ Acceptable(state[p], batch)
  /\ state' = Updated(p, batch, {})
  /\ parts' = Carry(parts, batch)
  /\ UNCHANGED summaries

Summarize(p) ==
  /\ summaries' = Carry(summaries, summarize_state(state[p]))
  /\ UNCHANGED <<state, parts>>

\* What p holds and the author of some summary, perhaps an old one, did not;
\* against nothing, its whole state.
Offer(p, seen) ==
  /\ parts' = Carry(parts, get_state_delta(state[p], seen))
  /\ UNCHANGED <<state, summaries>>

Receive(p, first, second) ==
  /\ state' = Updated(p, first, second)
  /\ UNCHANGED <<parts, summaries>>

Drop ==
  /\ \/ \E x \in parts : parts' = parts \ {x} /\ UNCHANGED summaries
     \/ \E seen \in summaries : summaries' = summaries \ {seen} /\ UNCHANGED parts
  /\ UNCHANGED state

Everything == UNION {state[p] : p \in Peer}

\* A genuine op in a forged part was copied from somewhere.
Available == parts \cup {x \in Forged : x \cap Ops \subseteq Everything}

\* Two connected peers complete a round of synchronisation: q sends the
\* summary it has now, p answers with what it holds now, and q gets that.
Exchange(p, q) ==
  /\ state' =
       Updated(q, get_state_delta(state[p], summarize_state(state[q])), {})
  /\ UNCHANGED <<parts, summaries>>

Next ==
  \/ \E p \in Peer, batch \in Batches : Submit(p, batch)
  \/ \E p \in Peer : Summarize(p)
  \/ \E p \in Peer, seen \in summaries \cup {{}} : Offer(p, seen)
  \/ \E p \in Peer, first \in Available, second \in Available \cup {{}} :
       Receive(p, first, second)
  \/ Drop
  \/ \E p, q \in Peer : Exchange(p, q)

Spec == Init /\ [][Next]_vars

\* Peers go on synchronising, which is the network's promise, not this code's.
FairSpec == Spec /\ \A p, q \in Peer : WF_vars(Exchange(p, q))

-----------------------------------------------------------------------------
(* Properties                                                              *)

TypeOK ==
  /\ state \in [Peer -> SUBSET Ops]
  /\ parts \subseteq SUBSET Ops
  /\ summaries \subseteq SUBSET ids(Ops)

\* Whatever arrives, a peer never holds a state its own contract would
\* refuse from another peer (accept_in, envelope_state.rs:466-473).
StatesStayValid == \A p \in Peer : Accepts(state[p])

\* What travels between peers is what one of them has: no op reaches a peer
\* that none had before (delta_since, envelope_state.rs:495-504).
PartsAreCopies == \A x \in parts : x \subseteq Everything

\* A peer never forgets an op, whatever it is sent (a removal included).
NothingForgotten == [][\A p \in Peer : state[p] \subseteq state'[p]]_vars

\* "merging is a union, so arrival order cannot change the result"
\* (pj-board-contract/src/lib.rs:58-60), and "a state a peer accepted cannot
\* later be rejected" (envelope_state.rs:430): what two peers each accepted
\* can be merged, so neither refuses the other for ever.
PeersCanMerge == \A p, q \in Peer : Acceptable(state[p], state[q])

\* Every op a peer has accepted reaches every peer, so peers that keep
\* exchanging end up equal (README.md:60-63).
WritesReachEveryone ==
  \A op \in Ops :
    (\E p \in Peer : op \in state[p]) ~> (\A p \in Peer : op \in state[p])

\* The abstract specification: sets that only grow, by whole batches submitted
\* to one of them and by what some other already has.
GrowOnly == INSTANCE GrowOnlySets WITH sets <- state

\* A contract's replicas are such sets, whatever the network and whoever
\* writes to it do (README.md:60-63: state is a set and merging is union).
ImplementsGrowOnlySets == GrowOnly!Spec

=============================================================================
