--------------------------- MODULE ReplicasProofs ---------------------------
(***************************************************************************)
(* Theorems about Replicas, for every number of peers, every set of        *)
(* batches and forgeries, and a network of any capacity: first for every   *)
(* policy there may be, then for the one of EnvelopeState, for any keys    *)
(* and any length of the history.                                          *)
(***************************************************************************)
EXTENDS ContractReplicas, TLAPS, WellFoundedInduction

-----------------------------------------------------------------------------
(* Taking a set of ops in.                                                 *)

\* A delta computed against a summary completes the state it summarises:
\* together they hold an op for every id either side has, and nothing else.
LEMMA DeltaCompletes ==
  ASSUME NEW ops, NEW other
  PROVE  /\ merge(ops, delta_since(other, summary(ops))) = merge(ops, other)
         /\ ids(merge(ops, other)) = ids(ops) \cup ids(other)
BY DEF merge, delta_since, summary, ids

LEMMA MergeIsUnion ==
  ASSUME NEW ops, NEW other
  PROVE  /\ ops \subseteq merge(ops, other)
         /\ merge(ops, other) \subseteq ops \cup other
BY DEF merge

\* An update keeps all that was there, adds nothing that was not in it, and
\* leaves an acceptable state acceptable.
LEMMA UpdateEffect ==
  ASSUME NEW ops, NEW first, NEW second
  PROVE  /\ ops \subseteq update_state(ops, first, second)
         /\ update_state(ops, first, second) \subseteq ops \cup first \cup second
         /\ Accepts(ops) => Accepts(update_state(ops, first, second))
<1>1. \A s, t : /\ s \subseteq accept_in(s, t)
                /\ accept_in(s, t) \subseteq s \cup t
                /\ Acceptable(s, t) => Accepts(accept_in(s, t))
  BY MergeIsUnion DEF accept_in, Acceptable
<1>2. CASE Acceptable(ops, first) /\ Acceptable(accept_in(ops, first), second)
  BY <1>1, <1>2 DEF update_state
<1>3. CASE ~(Acceptable(ops, first) /\ Acceptable(accept_in(ops, first), second))
  BY <1>3 DEF update_state
<1>4. QED
  BY <1>2, <1>3

-----------------------------------------------------------------------------
(* The invariant.                                                          *)

RInv ==
  /\ TypeOK
  /\ StatesStayValid
  /\ PartsAreCopies

LEMMA InitRInv == Init => RInv
BY AcceptsNothing DEF Init, RInv, TypeOK, StatesStayValid, PartsAreCopies

\* A network only ever holds what it held and what it was just given.
LEMMA CarryEffect ==
  ASSUME NEW network, NEW message
  PROVE  Carry(network, message) \subseteq network \cup {message}
BY DEF Carry

\* One peer takes an update of genuine ops in; everybody else is as before.
LEMMA PeerUpdate ==
  ASSUME RInv, NEW p \in Peer, NEW first, NEW second,
         first \cup second \subseteq Ops \cup UNION Forged,
         state' = Updated(p, first, second)
  PROVE  /\ state' \in [Peer -> SUBSET Ops]
         /\ StatesStayValid'
         /\ \A q \in Peer : state[q] \subseteq state'[q]
         /\ \A q \in Peer : q # p => state'[q] = state[q]
         /\ state'[p] \subseteq state[p] \cup ((first \cup second) \cap Ops)
<1> DEFINE after == update_state(state[p], first, second)
<1>1. /\ state \in [Peer -> SUBSET Ops]
      /\ Accepts(state[p])
  BY DEF RInv, TypeOK, StatesStayValid
<1>2. /\ state[p] \subseteq after
      /\ after \subseteq state[p] \cup first \cup second
      /\ Accepts(after)
  BY <1>1, UpdateEffect
<1>3. after \subseteq Ops
  <2>1. after \in SUBSET (Ops \cup UNION Forged)
    BY <1>1, <1>2
  <2>2. QED
    BY <2>1, <1>2, Unforgeable
<1>4. /\ state'[p] = after
      /\ \A q \in Peer : q # p => state'[q] = state[q]
      /\ state' \in [Peer -> SUBSET Ops]
  BY <1>1, <1>3 DEF Updated
<1> HIDE DEF after
<1>5. StatesStayValid'
  BY <1>2, <1>4 DEF RInv, StatesStayValid
<1>6. QED
  BY <1>2, <1>3, <1>4, <1>5

LEMMA EverythingGrows ==
  ASSUME \A q \in Peer : state[q] \subseteq state'[q]
  PROVE  Everything \subseteq Everything'
BY DEF Everything

\* An op that is acceptable is taken in; nothing but a copy under the same id
\* can stand in its way, and genuine ops have no such copies.
LEMMA AcceptedIsHeld ==
  ASSUME NEW ops \in SUBSET Ops, NEW batch \in SUBSET Ops,
         Acceptable(ops, batch)
  PROVE  update_state(ops, batch, {}) = ops \cup batch
<1>1. merge(ops, batch) = ops \cup batch
  BY ContentAddressed DEF merge, ids
<1>2. \A s : merge(s, {}) = s
  BY DEF merge
<1>3. QED
  BY <1>1, <1>2 DEF update_state, accept_in, Acceptable

LEMMA SubmitKeepsRInv ==
  ASSUME RInv, NEW p \in Peer, NEW batch \in Batches, Submit(p, batch)
  PROVE  RInv'
<1>1. batch \subseteq Ops /\ batch \cup {} \subseteq Ops \cup UNION Forged
  BY DEF Ops
<1>2. state' = Updated(p, batch, {})
  BY DEF Submit
<1>3. /\ state' \in [Peer -> SUBSET Ops]
      /\ StatesStayValid'
      /\ \A q \in Peer : state[q] \subseteq state'[q]
  BY <1>1, <1>2, PeerUpdate
<1>4. parts' \subseteq parts \cup {batch} /\ summaries' = summaries
  BY CarryEffect DEF Submit
<1>5. TypeOK'
  BY <1>1, <1>3, <1>4 DEF RInv, TypeOK
<1>6. batch \subseteq Everything'
  <2>1. state \in [Peer -> SUBSET Ops]
    BY DEF RInv, TypeOK
  <2>2. state'[p] = state[p] \cup batch
    BY <1>1, <1>2, <2>1, AcceptedIsHeld DEF Submit, Updated
  <2>3. QED
    BY <2>2 DEF Everything
<1>7. PartsAreCopies'
  <2>1. Everything \subseteq Everything'
    BY <1>3, EverythingGrows
  <2>2. QED
    BY <1>4, <1>6, <2>1 DEF RInv, PartsAreCopies
<1>8. QED
  BY <1>3, <1>5, <1>7 DEF RInv

LEMMA SummarizeKeepsRInv ==
  ASSUME RInv, NEW p \in Peer, Summarize(p)
  PROVE  RInv'
<1>1. /\ summaries' \subseteq summaries \cup {ids(state[p])}
      /\ UNCHANGED <<state, parts>>
  BY CarryEffect DEF Summarize, summarize_state, summary
<1>2. ids(state[p]) \subseteq ids(Ops)
  BY DEF RInv, TypeOK, ids
<1>3. QED
  BY <1>1, <1>2
  DEF RInv, TypeOK, StatesStayValid, PartsAreCopies, Everything

LEMMA OfferKeepsRInv ==
  ASSUME RInv, NEW p \in Peer, NEW seen, Offer(p, seen)
  PROVE  RInv'
<1>1. /\ parts' \subseteq parts \cup {get_state_delta(state[p], seen)}
      /\ UNCHANGED <<state, summaries>>
  BY CarryEffect DEF Offer
<1>2. get_state_delta(state[p], seen) \subseteq state[p]
  BY DEF get_state_delta, delta_since
<1>3. state[p] \subseteq Ops /\ state[p] \subseteq Everything
  BY DEF RInv, TypeOK, Everything
<1>4. Everything' = Everything
  BY <1>1 DEF Everything
<1>5. QED
  BY <1>1, <1>2, <1>3, <1>4 DEF RInv, TypeOK, StatesStayValid, PartsAreCopies

\* What may be received is genuine, and then held by somebody, or forged.
LEMMA AvailableIsKnown ==
  ASSUME RInv, NEW x \in Available \cup {{}}
  PROVE  x \subseteq Ops \cup UNION Forged /\ x \cap Ops \subseteq Everything
BY DEF RInv, TypeOK, PartsAreCopies, Available

LEMMA ReceiveKeepsRInv ==
  ASSUME RInv, NEW p \in Peer, NEW first \in Available,
         NEW second \in Available \cup {{}}, Receive(p, first, second)
  PROVE  RInv'
<1>1. first \cup second \subseteq Ops \cup UNION Forged
  BY AvailableIsKnown
<1>2. state' = Updated(p, first, second)
  BY DEF Receive
<1>3. /\ state' \in [Peer -> SUBSET Ops]
      /\ StatesStayValid'
      /\ \A q \in Peer : state[q] \subseteq state'[q]
  BY <1>1, <1>2, PeerUpdate
<1>4. UNCHANGED <<parts, summaries>>
  BY DEF Receive
<1>5. Everything \subseteq Everything'
  BY <1>3, EverythingGrows
<1>6. QED
  BY <1>3, <1>4, <1>5 DEF RInv, TypeOK, PartsAreCopies

LEMMA ExchangeKeepsRInv ==
  ASSUME RInv, NEW p \in Peer, NEW q \in Peer, Exchange(p, q)
  PROVE  RInv'
<1> DEFINE delta == get_state_delta(state[p], summarize_state(state[q]))
<1>1. delta \cup {} \subseteq Ops \cup UNION Forged
  BY DEF RInv, TypeOK, get_state_delta, delta_since
<1>2. state' = Updated(q, delta, {})
  BY DEF Exchange
<1> HIDE DEF delta
<1>3. /\ state' \in [Peer -> SUBSET Ops]
      /\ StatesStayValid'
      /\ \A r \in Peer : state[r] \subseteq state'[r]
  BY <1>1, <1>2, PeerUpdate
<1>4. UNCHANGED <<parts, summaries>>
  BY DEF Exchange
<1>5. Everything \subseteq Everything'
  BY <1>3, EverythingGrows
<1>6. QED
  BY <1>3, <1>4, <1>5 DEF RInv, TypeOK, PartsAreCopies

LEMMA DropKeepsRInv == RInv /\ Drop => RInv'
<1> SUFFICES ASSUME RInv, Drop PROVE RInv'
  OBVIOUS
<1>1. state' = state
  BY DEF Drop
<1>2. Everything' = Everything /\ StatesStayValid'
  BY <1>1 DEF Everything, RInv, StatesStayValid
<1>3. QED
  BY <1>1, <1>2 DEF Drop, RInv, TypeOK, PartsAreCopies

LEMMA NextKeepsRInv == RInv /\ [Next]_vars => RInv'
<1> SUFFICES ASSUME RInv, [Next]_vars PROVE RInv'
  OBVIOUS
<1>1. CASE \E p \in Peer, batch \in Batches : Submit(p, batch)
  BY <1>1, SubmitKeepsRInv
<1>2. CASE \E p \in Peer : Summarize(p)
  BY <1>2, SummarizeKeepsRInv
<1>3. CASE \E p \in Peer, seen \in summaries \cup {{}} : Offer(p, seen)
  BY <1>3, OfferKeepsRInv
<1>4. CASE \E p \in Peer, first \in Available, second \in Available \cup {{}} :
             Receive(p, first, second)
  BY <1>4, ReceiveKeepsRInv
<1>5. CASE Drop
  BY <1>5, DropKeepsRInv
<1>6. CASE \E p, q \in Peer : Exchange(p, q)
  BY <1>6, ExchangeKeepsRInv
<1>7. CASE UNCHANGED vars
  BY <1>7
  DEF vars, RInv, TypeOK, StatesStayValid, PartsAreCopies, Everything
<1>8. QED
  BY <1>1, <1>2, <1>3, <1>4, <1>5, <1>6, <1>7 DEF Next

\* Every reachable state satisfies the invariant.
THEOREM Safety == Spec => []RInv
<1>1. QED
  BY InitRInv, NextKeepsRInv, PTL DEF Spec

-----------------------------------------------------------------------------
(* The parts a reader asks for by name.                                    *)

\* The sets peers hold, and what travels, are made of ops that were written.
THEOREM TypeCorrect == Spec => []TypeOK
<1>1. RInv => TypeOK
  BY DEF RInv
<1>2. QED
  BY <1>1, Safety, PTL

\* No peer ever holds a state its contract would refuse.
THEOREM PeersStayValid == Spec => []StatesStayValid
<1>1. RInv => StatesStayValid
  BY DEF RInv
<1>2. QED
  BY <1>1, Safety, PTL

\* Nothing travels that no peer has.
THEOREM NothingInvented == Spec => []PartsAreCopies
<1>1. RInv => PartsAreCopies
  BY DEF RInv
<1>2. QED
  BY <1>1, Safety, PTL

-----------------------------------------------------------------------------
(* Steps of the replicas are steps of grow-only sets.                      *)

\* What an update adds at one peer is in the system already, unless it is a
\* batch being submitted.
LEMMA StepsAreGrowth ==
  ASSUME RInv, Next
  PROVE  \/ UNCHANGED state
         \/ \E p \in Peer : \E new \in SUBSET Ops :
              state' = [state EXCEPT ![p] = @ \cup new]
              /\ (new \subseteq Everything \/ \E b \in Batches : new = b)
<1> USE DEF RInv, TypeOK
<1>1. CASE \E p \in Peer, batch \in Batches : Submit(p, batch)
  <2>1. PICK p \in Peer, batch \in Batches : Submit(p, batch)
    BY <1>1
  <2>2. batch \in SUBSET Ops
    BY DEF Ops
  <2>3. state' = [state EXCEPT ![p] = state[p] \cup batch]
    BY <2>1, <2>2, AcceptedIsHeld DEF Submit, Updated
  <2>4. QED
    BY <2>2, <2>3
<1>2. CASE \E p \in Peer, first \in Available, second \in Available \cup {{}} :
             Receive(p, first, second)
  <2>1. PICK p \in Peer, first \in Available, second \in Available \cup {{}} :
               Receive(p, first, second)
    BY <1>2
  <2> DEFINE new == (first \cup second) \cap state'[p]
  <2>2. /\ first \cup second \subseteq Ops \cup UNION Forged
        /\ (first \cup second) \cap Ops \subseteq Everything
    BY AvailableIsKnown
  <2>3. state' = Updated(p, first, second)
    BY <2>1 DEF Receive
  <2>4. /\ state' \in [Peer -> SUBSET Ops]
        /\ state[p] \subseteq state'[p]
        /\ \A q \in Peer : q # p => state'[q] = state[q]
        /\ state'[p] \subseteq state[p] \cup ((first \cup second) \cap Ops)
    BY <2>2, <2>3, PeerUpdate
  <2>5. new \in SUBSET Ops /\ new \subseteq Everything
    BY <2>2, <2>4
  <2>6. state'[p] = state[p] \cup new
    BY <2>4
  <2>7. state' = [state EXCEPT ![p] = @ \cup new]
    BY <2>4, <2>6
  <2>8. QED
    BY <2>5, <2>7
<1>3. CASE \E p, q \in Peer : Exchange(p, q)
  <2>1. PICK r \in Peer, p \in Peer : Exchange(r, p)
    BY <1>3
  <2> DEFINE delta == get_state_delta(state[r], summarize_state(state[p]))
             new == delta \cap state'[p]
  <2>2. /\ delta \cup {} \subseteq Ops \cup UNION Forged
        /\ delta \subseteq Everything
    BY DEF get_state_delta, delta_since, Everything
  <2>3. state' = Updated(p, delta, {})
    BY <2>1 DEF Exchange
  <2> HIDE DEF delta
  <2>4. /\ state' \in [Peer -> SUBSET Ops]
        /\ state[p] \subseteq state'[p]
        /\ \A q \in Peer : q # p => state'[q] = state[q]
        /\ state'[p] \subseteq state[p] \cup ((delta \cup {}) \cap Ops)
    BY <2>2, <2>3, PeerUpdate
  <2>5. new \in SUBSET Ops /\ new \subseteq Everything
    BY <2>2, <2>4
  <2>6. state'[p] = state[p] \cup new
    BY <2>4
  <2>7. state' = [state EXCEPT ![p] = @ \cup new]
    BY <2>4, <2>6
  <2>8. QED
    BY <2>5, <2>7
<1>4. CASE (\E p \in Peer : Summarize(p)) \/ Drop
           \/ \E p \in Peer, seen \in summaries \cup {{}} : Offer(p, seen)
  BY <1>4 DEF Summarize, Drop, Offer
<1>5. QED
  BY <1>1, <1>2, <1>3, <1>4 DEF Next

\* A peer's set only grows, whatever it receives.
THEOREM StatesOnlyGrow == Spec => NothingForgotten
<1>1. RInv /\ [Next]_vars =>
        [\A p \in Peer : state[p] \subseteq state'[p]]_vars
  BY StepsAreGrowth DEF RInv, TypeOK
<1>2. QED
  BY <1>1, Safety, PTL DEF Spec, NothingForgotten

\* The replicas of a contract implement grow-only sets.
THEOREM Implements == Spec => ImplementsGrowOnlySets
<1>1. Init => GrowOnly!Init
  BY DEF Init, GrowOnly!Init
<1>2. RInv /\ [Next]_vars => [GrowOnly!Next]_state
  <2> SUFFICES ASSUME RInv, [Next]_vars
               PROVE  GrowOnly!Next \/ UNCHANGED state
    OBVIOUS
  <2>1. CASE UNCHANGED vars
    BY <2>1 DEF vars
  <2>2. CASE \E p \in Peer : \E new \in SUBSET Ops :
               /\ state' = [state EXCEPT ![p] = @ \cup new]
               /\ new \subseteq Everything \/ \E b \in Batches : new = b
    <3>1. PICK p \in Peer, new \in SUBSET Ops :
            /\ state' = [state EXCEPT ![p] = @ \cup new]
            /\ new \subseteq Everything \/ \E b \in Batches : new = b
      BY <2>2
    <3>2. CASE new \subseteq Everything
      <4>1. new \in SUBSET GrowOnly!Everything
        BY <3>2 DEF Everything, GrowOnly!Everything
      <4>2. GrowOnly!CatchUp(p, new)
        BY <3>1, <4>1 DEF GrowOnly!CatchUp
      <4>3. QED
        BY <4>1, <4>2 DEF GrowOnly!Next
    <3>3. CASE new \in Batches
      <4>1. GrowOnly!Add(p, new)
        BY <3>1 DEF GrowOnly!Add
      <4>2. QED
        BY <3>3, <4>1 DEF GrowOnly!Next
    <3>4. QED
      BY <3>1, <3>2, <3>3
  <2>3. QED
    BY <2>1, <2>2, StepsAreGrowth
<1>3. QED
  BY <1>1, <1>2, Safety, PTL DEF Spec, ImplementsGrowOnlySets, GrowOnly!Spec

-----------------------------------------------------------------------------
(* The fold over a whole set of ops, for any number of places.             *)

\* What holds of 0, and of every number up to N with the one before, holds up
\* to N.
LEMMA UpTo ==
  ASSUME NEW S, NEW N \in Nat, 0 \in S, \A n \in 1..N : n - 1 \in S => n \in S
  PROVE  0..N \subseteq S
<1> DEFINE T == (0..N) \ S
           R == OpToRel(<, Nat)
<1> SUFFICES ASSUME T # {} PROVE FALSE
  OBVIOUS
<1>1. T \subseteq Nat
  OBVIOUS
<1>2. PICK x \in T : \A y \in T : ~(<<y, x>> \in R)
  BY <1>1, NatLessThanWellFounded, WFMin
<1>3. x \in 1..N /\ x - 1 \in 0..N /\ x - 1 < x
  OBVIOUS
<1>4. <<x - 1, x>> \in R
  BY <1>3 DEF OpToRel
<1>5. x - 1 \in S
  BY <1>2, <1>3, <1>4
<1> QED
  BY <1>3, <1>5

\* What the ops of a contract look like.
WellFormed(ops) ==
  \A op \in ops : /\ op.author \in Key /\ op.target \in Key
                  /\ op.rights \subseteq ALL

\* f is what the recursion says, at place n.
FoldsTo(ops, f, n) == f[n] = IF n = 0 THEN Empty ELSE FoldPlace(ops, f[n - 1], n)

\* An op turns an Authority into an Authority.
LEMMA FoldTyped ==
  ASSUME NEW a \in Authorities, NEW op,
         op.author \in Key, op.target \in Key, op.rights \subseteq ALL
  PROVE  Fold(a, op) \in Authorities
<1>1. ApplyGrant(a, op.author, op.target, op.rights) \in Authorities
  <2>1. Conferred(a, op.author, op.rights) \in SUBSET ALL
    BY DEF Conferred
  <2> QED
    BY <2>1 DEF ApplyGrant, Authorities
<1>2. ApplyLink(a, op.author, op.target) \in Authorities
  BY DEF ApplyLink, Authorities, person
<1>3. ApplyUnlink(a, op.author, op.target) \in Authorities
  BY DEF ApplyUnlink, Authorities
<1> QED
  BY <1>1, <1>2, <1>3 DEF Fold

\* An op with place n, if there is one.
LEMMA PlaceTyped ==
  ASSUME NEW ops, WellFormed(ops), NEW a \in Authorities, NEW n
  PROVE  FoldPlace(ops, a, n) \in Authorities
<1>1. CASE n \in {op.key : op \in ops}
  <2>1. (CHOOSE op \in ops : op.key = n) \in ops
    BY <1>1
  <2> QED
    BY <1>1, <2>1, FoldTyped DEF FoldPlace, WellFormed
<1> QED
  BY <1>1 DEF FoldPlace

\* The fold starts from an Authority.
LEMMA EmptyTyped == Empty \in Authorities
BY KeysAssumption DEF Empty, Authorities, NONE, ALL, Roots

\* The recursion that authority_in is defined by has a solution, which is what
\* authority_in reads its result from.
LEMMA FoldExists ==
  ASSUME NEW ops, WellFormed(ops)
  PROVE  \E f \in [0..Places -> Authorities] :
           /\ \A n \in 0..Places : FoldsTo(ops, f, n)
           /\ authority_in(ops) = f[Places]
<1> DEFINE F == [0..Places -> Authorities]
           upto == CHOOSE f : f = [n \in 0..Places |->
                     IF n = 0 THEN Empty ELSE FoldPlace(ops, f[n - 1], n)]
<1>1. authority_in(ops) = upto[Places]
  BY DEF authority_in
<1>2. Places \in Nat
  BY PlacesAssumption
<1> DEFINE S == {m \in 0..Places : \E f \in F : \A n \in 0..m : FoldsTo(ops, f, n)}
<1>3. 0 \in S
  <2> DEFINE f == [n \in 0..Places |-> Empty]
  <2>1. f \in F
    BY EmptyTyped
  <2>2. \A n \in 0..0 : FoldsTo(ops, f, n)
    BY <1>2 DEF FoldsTo
  <2> QED
    BY <1>2, <2>1, <2>2
<1>4. ASSUME NEW m \in 1..Places, m - 1 \in S PROVE m \in S
  <2>1. PICK f \in F : \A n \in 0..(m - 1) : FoldsTo(ops, f, n)
    BY <1>4
  <2>2. m \in 0..Places /\ m - 1 \in 0..Places /\ m # m - 1 /\ m # 0
    BY <1>2
  <2> DEFINE g == [f EXCEPT ![m] = FoldPlace(ops, f[m - 1], m)]
  <2>3. g \in F
    BY <2>1, <2>2, PlaceTyped
  <2>4. ASSUME NEW n \in 0..m PROVE FoldsTo(ops, g, n)
    <3>1. CASE n = m
      BY <2>1, <2>2, <3>1 DEF FoldsTo
    <3>2. CASE n # m
      <4>1. n \in 0..(m - 1) /\ n \in 0..Places /\ (n # 0 => n - 1 \in 0..Places /\ n - 1 # m)
        BY <1>2, <2>2, <3>2
      <4>2. \A i \in 0..Places : i # m => g[i] = f[i]
        BY <2>1
      <4>3. g[n] = f[n] /\ (n # 0 => g[n - 1] = f[n - 1])
        <5> HIDE DEF g
        <5> QED
          BY <3>2, <4>1, <4>2
      <4> HIDE DEF g
      <4> QED
        BY <2>1, <4>1, <4>3 DEF FoldsTo
    <3> QED
      BY <3>1, <3>2
  <2> HIDE DEF g, F
  <2> QED
    BY <2>2, <2>3, <2>4
<1>5. Places \in S
  <2> HIDE DEF S
  <2> QED
    BY <1>2, <1>3, <1>4, UpTo
<1>6. PICK f \in F : \A n \in 0..Places : FoldsTo(ops, f, n)
  BY <1>5
<1>7. f = [n \in 0..Places |-> IF n = 0 THEN Empty ELSE FoldPlace(ops, f[n - 1], n)]
  BY <1>6 DEF FoldsTo
<1>8. upto = [n \in 0..Places |-> IF n = 0 THEN Empty ELSE FoldPlace(ops, upto[n - 1], n)]
  BY <1>7
<1>9. \A n \in 0..Places : FoldsTo(ops, upto, n)
  <2> HIDE DEF upto
  <2> QED
    BY <1>8 DEF FoldsTo
<1>10. upto \in F
  <2> HIDE DEF upto
  <2> DEFINE Q == {n \in 0..Places : upto[n] \in Authorities}
  <2>1. 0 \in Q
    BY <1>2, <1>9, EmptyTyped DEF FoldsTo
  <2>2. ASSUME NEW n \in 1..Places, n - 1 \in Q PROVE n \in Q
    <3>1. n \in 0..Places /\ n # 0
      OBVIOUS
    <3>2. upto[n] = FoldPlace(ops, upto[n - 1], n)
      BY <1>9, <3>1 DEF FoldsTo
    <3> QED
      BY <2>2, <3>1, <3>2, PlaceTyped
  <2>3. 0..Places \subseteq Q
    <3> HIDE DEF Q
    <3> QED
      BY <1>2, <2>1, <2>2, UpTo
  <2> QED
    BY <1>8, <2>3
<1> QED
  BY <1>1, <1>9, <1>10

-----------------------------------------------------------------------------
(* What an accepted set of ops certifies.                                  *)

\* A key is behind itself.
LEMMA BehindItself ==
  ASSUME NEW ops, NEW k \in Key
  PROVE  k \in Behind(ops, k)
BY DEF Behind

\* Who is behind the author of a link is behind its device.
LEMMA BehindLink ==
  ASSUME NEW ops, NEW link \in ops, link.kind = "LINK_DEVICE", link.legible,
         NEW k \in Behind(ops, link.author)
  PROVE  k \in Behind(ops, link.target)
BY DEF Behind

\* A root needs no certificate.
LEMMA RootsVouched ==
  ASSUME NEW ops, NEW right, NEW k \in Roots
  PROVE  k \in Vouched(ops, right)
BY KeysAssumption DEF Vouched, Roots

\* A grant by somebody who has the right is a certificate for it.
LEMMA GrantVouches ==
  ASSUME NEW ops, NEW grant \in ops, grant.kind = "GRANT", grant.legible,
         grant.target \in Key, NEW right \in grant.rights,
         NEW k \in Behind(ops, grant.author), k \in Vouched(ops, right)
  PROVE  grant.target \in Vouched(ops, right)
<1> SUFFICES ASSUME NEW S \in SUBSET Key,
                    Roots \subseteq S,
                    \A g \in ops : g.kind = "GRANT" /\ g.legible
                                   /\ right \in g.rights
                                   /\ Behind(ops, g.author) \cap S # {}
                                     => g.target \in S
             PROVE  grant.target \in S
  BY DEF Vouched
<1>1. k \in S
  BY DEF Vouched
<1> QED
  BY <1>1

\* What an Authority says is certified by the ops.
Certified(ops, a) ==
  /\ a \in Authorities
  /\ \A k \in Key : /\ person(a, k) \in Behind(ops, k)
                    /\ ever_person(a, k) \in Behind(ops, k)
                    /\ a.held[k] \subseteq a.ever_held[k]
                    /\ \A right \in a.ever_held[k] : k \in Vouched(ops, right)

\* Before the first op there is nothing to certify but the roots.
LEMMA EmptyCertified ==
  ASSUME NEW ops
  PROVE  Certified(ops, Empty)
<1>1. Empty \in Authorities
  BY EmptyTyped
<1>2. ASSUME NEW k \in Key
      PROVE  /\ person(Empty, k) = k /\ ever_person(Empty, k) = k
             /\ Empty.held[k] = Empty.ever_held[k]
             /\ k \notin Roots => Empty.ever_held[k] = {}
  BY DEF Empty, person, ever_person, NONE
<1> QED
  BY <1>1, <1>2, BehindItself, RootsVouched DEF Certified

\* An op adds what it certifies, and no more.
LEMMA FoldCertified ==
  ASSUME NEW ops, WellFormed(ops), NEW a, Certified(ops, a), NEW op \in ops
  PROVE  Certified(ops, Fold(a, op))
<1>1. /\ op.author \in Key /\ op.target \in Key /\ op.rights \subseteq ALL
      /\ a \in Authorities
  BY DEF WellFormed, Certified
<1>2. Fold(a, op) \in Authorities
  BY <1>1, FoldTyped
<1>3. CASE op.kind = "GRANT" /\ op.legible
  <2> DEFINE b == ApplyGrant(a, op.author, op.target, op.rights)
             given == Conferred(a, op.author, op.rights)
  <2>1. Fold(a, op) = b
    BY <1>3 DEF Fold, is_authority
  <2>2. CASE ~GrantHonoured(a, op.author, op.target, op.rights)
    BY <2>1, <2>2 DEF ApplyGrant
  <2>3. CASE GrantHonoured(a, op.author, op.target, op.rights)
    <3>1. /\ given \subseteq op.rights
          /\ given \subseteq a.held[person(a, op.author)]
      BY DEF Conferred, rights_of
    <3>2. person(a, op.author) \in Key
      BY <1>1 DEF Authorities, person
    <3>3. \A right \in given : op.target \in Vouched(ops, right)
      <4> TAKE right \in given
      <4>1. /\ right \in op.rights
            /\ person(a, op.author) \in Behind(ops, op.author)
            /\ person(a, op.author) \in Vouched(ops, right)
        BY <1>1, <3>1, <3>2 DEF Certified
      <4> QED
        BY <1>1, <1>3, <4>1, GrantVouches
    <3>4. /\ b.person_of = a.person_of /\ b.ever_person_of = a.ever_person_of
          /\ b.held = [a.held EXCEPT ![op.target] = given]
          /\ b.ever_held = [a.ever_held EXCEPT ![op.target] = @ \cup given]
      BY <2>3 DEF ApplyGrant
    <3>5. /\ a.held \in [Key -> SUBSET ALL] /\ a.ever_held \in [Key -> SUBSET ALL]
      BY <1>1 DEF Authorities
    <3> HIDE DEF b, given
    <3>6. ASSUME NEW k \in Key
          PROVE  /\ person(b, k) \in Behind(ops, k)
                 /\ ever_person(b, k) \in Behind(ops, k)
      BY <3>4 DEF Certified, person, ever_person
    <3>7. ASSUME NEW k \in Key
          PROVE  /\ b.held[k] \subseteq b.ever_held[k]
                 /\ \A right \in b.ever_held[k] : k \in Vouched(ops, right)
      <4>1. CASE k = op.target
        <5>1. b.held[k] = given /\ b.ever_held[k] = a.ever_held[k] \cup given
          BY <3>4, <3>5, <4>1
        <5> QED
          BY <3>3, <4>1, <5>1 DEF Certified
      <4>2. CASE k # op.target
        <5>1. b.held[k] = a.held[k] /\ b.ever_held[k] = a.ever_held[k]
          BY <3>4, <3>5, <4>2
        <5> QED
          BY <5>1 DEF Certified
      <4> QED
        BY <4>1, <4>2
    <3> QED
      BY <1>2, <2>1, <3>6, <3>7 DEF Certified
  <2> QED
    BY <2>2, <2>3
<1>4. CASE op.kind = "LINK_DEVICE" /\ op.legible
  <2> DEFINE b == ApplyLink(a, op.author, op.target)
             p == person(a, op.author)
  <2>1. Fold(a, op) = b
    BY <1>4 DEF Fold, is_authority
  <2>2. CASE ~LinkHonoured(a, op.author, op.target)
    BY <2>1, <2>2 DEF ApplyLink
  <2>3. CASE LinkHonoured(a, op.author, op.target)
    <3>1. p \in Behind(ops, op.target)
      BY <1>1, <1>4, BehindLink DEF Certified
    <3>2. /\ b.held = a.held /\ b.ever_held = a.ever_held
          /\ b.person_of = [a.person_of EXCEPT ![op.target] = p]
          /\ b.ever_person_of =
               [a.ever_person_of EXCEPT ![op.target] = IF @ = op.target THEN p ELSE @]
      BY <2>3 DEF ApplyLink
    <3>3. /\ a.person_of \in [Key -> Key] /\ a.ever_person_of \in [Key -> Key]
      BY <1>1 DEF Authorities
    <3> HIDE DEF b, p
    <3>4. ASSUME NEW k \in Key
          PROVE  /\ b.person_of[k] \in {a.person_of[k], p}
                 /\ b.ever_person_of[k] \in {a.ever_person_of[k], p}
                 /\ k # op.target => /\ b.person_of[k] = a.person_of[k]
                                     /\ b.ever_person_of[k] = a.ever_person_of[k]
      BY <3>2, <3>3
    <3>5. ASSUME NEW k \in Key
          PROVE  /\ person(b, k) \in Behind(ops, k)
                 /\ ever_person(b, k) \in Behind(ops, k)
      BY <3>1, <3>4 DEF Certified, person, ever_person
    <3> QED
      BY <1>2, <2>1, <3>2, <3>5 DEF Certified
  <2> QED
    BY <2>2, <2>3
<1>5. CASE op.kind = "UNLINK_DEVICE" /\ op.legible
  <2> DEFINE b == ApplyUnlink(a, op.author, op.target)
  <2>1. Fold(a, op) = b
    BY <1>5 DEF Fold, is_authority
  <2>2. CASE ~UnlinkHonoured(a, op.author, op.target)
    BY <2>1, <2>2 DEF ApplyUnlink
  <2>3. CASE UnlinkHonoured(a, op.author, op.target)
    <3>1. /\ b.held = a.held /\ b.ever_held = a.ever_held
          /\ b.person_of = [a.person_of EXCEPT ![op.target] = op.target]
          /\ b.ever_person_of = a.ever_person_of
      BY <2>3 DEF ApplyUnlink
    <3>2. a.person_of \in [Key -> Key]
      BY <1>1 DEF Authorities
    <3> HIDE DEF b
    <3>4. ASSUME NEW k \in Key
          PROVE  /\ b.person_of[k] \in {a.person_of[k], k}
                 /\ b.ever_person_of[k] = a.ever_person_of[k]
      BY <3>1, <3>2
    <3>3. ASSUME NEW k \in Key
          PROVE  /\ person(b, k) \in Behind(ops, k)
                 /\ ever_person(b, k) \in Behind(ops, k)
      BY <3>4, BehindItself DEF Certified, person, ever_person
    <3> QED
      BY <1>2, <2>1, <3>1, <3>3 DEF Certified
  <2> QED
    BY <2>2, <2>3
<1>6. CASE ~op.legible
  <2>1. Fold(a, op) = a
    BY <1>6 DEF Fold
  <2> QED
    BY <2>1
<1>7. CASE op.legible /\ op.kind \notin {"GRANT", "LINK_DEVICE", "UNLINK_DEVICE"}
  <2>1. Fold(a, op) = a
    BY <1>7 DEF Fold, is_authority
  <2> QED
    BY <2>1
<1> QED
  BY <1>3, <1>4, <1>5, <1>6, <1>7

\* So the whole fold says nothing the ops do not certify.
LEMMA AuthorityCertified ==
  ASSUME NEW ops, WellFormed(ops)
  PROVE  Certified(ops, authority_in(ops))
<1>1. PICK f \in [0..Places -> Authorities] :
        /\ \A n \in 0..Places : FoldsTo(ops, f, n)
        /\ authority_in(ops) = f[Places]
  BY FoldExists
<1> DEFINE S == {n \in 0..Places : Certified(ops, f[n])}
<1>2. Places \in Nat
  BY PlacesAssumption
<1>3. 0 \in S
  BY <1>1, <1>2, EmptyCertified DEF FoldsTo
<1>4. ASSUME NEW n \in 1..Places, n - 1 \in S PROVE n \in S
  <2>1. n \in 0..Places /\ n # 0
    OBVIOUS
  <2>2. f[n] = FoldPlace(ops, f[n - 1], n)
    BY <1>1, <2>1 DEF FoldsTo
  <2>3. CASE n \in {op.key : op \in ops}
    <3>1. (CHOOSE op \in ops : op.key = n) \in ops
      BY <2>3
    <3> QED
      BY <1>4, <2>1, <2>2, <2>3, <3>1, FoldCertified DEF FoldPlace
  <2> QED
    BY <1>4, <2>1, <2>2, <2>3 DEF FoldPlace
<1>5. Places \in S
  <2> HIDE DEF S
  <2> QED
    BY <1>2, <1>3, <1>4, UpTo
<1> QED
  BY <1>1, <1>5

\* In any set of ops the policy accepts, every application op is vouched for.
LEMMA AcceptedIsVouchedFor ==
  ASSUME NEW ops \in SUBSET Written, Accepts(ops), NEW op \in ops, ~is_authority(op)
  PROVE  /\ op.signed /\ op.scope = Here
         /\ \E k \in Behind(ops, op.author) :
              \A right \in op.rights : k \in Vouched(ops, right)
<1> DEFINE a == authority_in(ops)
<1>1. validate_in(ops)
  BY PolicyAssumption DEF Policy, ValidStates
<1>2. WellFormed(ops) /\ op.author \in Key
  BY WrittenAssumption DEF WellFormed
<1>3. Certified(ops, a)
  BY <1>2, AuthorityCertified
<1>4. /\ op.signed /\ op.scope = Here
      /\ op.rights \subseteq a.ever_held[ever_person(a, op.author)]
  BY <1>1 DEF validate_in, admits, Permitted, is_authority, ever_rights_of
<1> HIDE DEF a
<1>5. ever_person(a, op.author) \in Key
  BY <1>2, <1>3 DEF Certified, Authorities, ever_person
<1> QED
  BY <1>2, <1>3, <1>4, <1>5 DEF Certified

\* Whatever arrives in whatever order, every application op a peer holds has
\* its certificates beside it (validate_in, envelope_state.rs:410-449).
THEOREM WorkVouchedForAlways == Spec => []WorkIsVouchedFor
<1>1. RInv => WorkIsVouchedFor
  <2> SUFFICES ASSUME RInv, NEW p \in Peer, NEW op \in state[p], ~is_authority(op)
               PROVE  /\ op.signed /\ op.scope = Here
                      /\ \E k \in Behind(state[p], op.author) :
                           \A right \in op.rights : k \in Vouched(state[p], right)
    BY DEF WorkIsVouchedFor
  <2>1. state[p] \in SUBSET Written
    BY DEF RInv, TypeOK, Ops, Written
  <2>2. Accepts(state[p])
    BY DEF RInv, StatesStayValid
  <2> QED
    BY <2>1, <2>2, AcceptedIsVouchedFor
<1> QED
  BY <1>1, Safety, PTL

-----------------------------------------------------------------------------
(* Where merging is a union.                                               *)

\* Nobody but the roots of trust grants anything, and nobody links a device.
RootsGrant(ops) ==
  \A op \in ops : is_authority(op) /\ op.legible =>
    op.kind = "GRANT" /\ (op.author \in Roots \/ op.rights = NONE)

\* What the roots' grants in the first n places name for k.
GrantedUpTo(ops, k, n) ==
  {right \in ALL : \E op \in ops :
     /\ op.kind = "GRANT" /\ op.legible /\ op.author \in Roots
     /\ op.target = k /\ right \in op.rights /\ op.key \in 1..n}

\* Then an Authority holds no more than what those grants say, whatever their
\* order.
Plain(ops, a, n) ==
  /\ a \in Authorities
  /\ \A k \in Key : person(a, k) = k /\ ever_person(a, k) = k
  /\ \A k \in Roots : a.held[k] = ALL /\ a.ever_held[k] = ALL
  /\ \A k \in Key \ Roots : a.ever_held[k] = GrantedUpTo(ops, k, n)

\* One op at its place.
LEMMA PlainPlace ==
  ASSUME NEW ops, WellFormed(ops), RootsGrant(ops),
         \A o, p \in ops : o.key = p.key => o = p,
         NEW n \in Nat \ {0}, NEW a, Plain(ops, a, n - 1)
  PROVE  Plain(ops, FoldPlace(ops, a, n), n)
<1> DEFINE b == FoldPlace(ops, a, n)
<1>1. b \in Authorities /\ a \in Authorities
  BY PlaceTyped DEF Plain
<1>2. CASE \A op \in ops : op.key = n => ~is_authority(op) \/ ~op.legible
  <2>1. b = a
    BY <1>2 DEF FoldPlace, Fold
  <2>2. \A k : GrantedUpTo(ops, k, n) = GrantedUpTo(ops, k, n - 1)
    <3>1. \A op \in ops : op.kind = "GRANT" /\ op.legible /\ op.key \in 1..n
                            => op.key \in 1..(n - 1)
      BY <1>2 DEF is_authority
    <3>2. \A op \in ops : op.key \in 1..(n - 1) => op.key \in 1..n
      OBVIOUS
    <3> QED
      BY <3>1, <3>2 DEF GrantedUpTo
  <2> QED
    BY <2>1, <2>2 DEF Plain
<1>3. CASE \E op \in ops : op.key = n /\ is_authority(op) /\ op.legible
  <2>1. PICK op \in ops : op.key = n /\ is_authority(op) /\ op.legible
    BY <1>3
  <2>2. /\ op.kind = "GRANT" /\ (op.author \in Roots \/ op.rights = NONE)
        /\ op.author \in Key /\ op.target \in Key /\ op.rights \subseteq ALL
    BY <2>1 DEF RootsGrant, WellFormed
  <2>3. b = ApplyGrant(a, op.author, op.target, op.rights)
    <3>1. (CHOOSE o \in ops : o.key = n) = op
      BY <2>1
    <3>2. b = Fold(a, op)
      BY <2>1, <3>1 DEF FoldPlace
    <3> QED
      BY <2>1, <2>2, <3>2 DEF Fold
  <2>4. \A k \in Key : GrantedUpTo(ops, k, n) =
                         IF k = op.target /\ op.author \in Roots
                         THEN GrantedUpTo(ops, k, n - 1) \cup op.rights
                         ELSE GrantedUpTo(ops, k, n - 1)
    <3>1. \A o \in ops : o.key \in 1..n <=> o.key \in 1..(n - 1) \/ o = op
      BY <2>1
    <3> QED
      BY <2>1, <2>2, <3>1 DEF GrantedUpTo
  <2>5. /\ b.person_of = a.person_of /\ b.ever_person_of = a.ever_person_of
        /\ \A k \in Roots : b.held[k] = a.held[k] /\ b.ever_held[k] = a.ever_held[k]
        /\ \A k \in Key \ Roots :
             b.ever_held[k] = IF k = op.target /\ op.author \in Roots
                              THEN a.ever_held[k] \cup op.rights
                              ELSE a.ever_held[k]
    <3>1. /\ a.held \in [Key -> SUBSET ALL] /\ a.ever_held \in [Key -> SUBSET ALL]
          /\ Roots \subseteq Key
      BY <1>1, KeysAssumption DEF Authorities, Roots
    <3>2. CASE ~GrantHonoured(a, op.author, op.target, op.rights)
      <4>1. b = a
        BY <2>3, <3>2 DEF ApplyGrant
      <4>2. ~(op.author \in Roots /\ op.target \notin Roots)
        <5> SUFFICES ASSUME op.author \in Roots PROVE op.target \in Roots
          OBVIOUS
        <5>1. rights_of(a, op.author) = ALL
          BY <2>2 DEF Plain, rights_of
        <5>2. MAY_GRANT \in ALL /\ MAY_APPOINT \in ALL
          BY DEF ALL, ADMIN
        <5> QED
          BY <3>2, <5>1, <5>2 DEF GrantHonoured, MayGrantTo
      <4> QED
        BY <4>1, <4>2
    <3>3. CASE GrantHonoured(a, op.author, op.target, op.rights)
      <4> DEFINE c == Conferred(a, op.author, op.rights)
      <4>1. /\ b.person_of = a.person_of /\ b.ever_person_of = a.ever_person_of
            /\ b.held = [a.held EXCEPT ![op.target] = c]
            /\ b.ever_held = [a.ever_held EXCEPT ![op.target] = @ \cup c]
            /\ op.target \notin Roots
        BY <2>3, <3>3 DEF ApplyGrant, GrantHonoured
      <4>2. c = IF op.author \in Roots THEN op.rights ELSE {}
        <5>1. CASE op.author \in Roots
          <6>1. rights_of(a, op.author) = ALL /\ MAY_APPOINT \in ALL
            BY <2>2, <5>1 DEF Plain, rights_of, ALL
          <6> QED
            BY <2>2, <5>1, <6>1 DEF Conferred
        <5>2. CASE op.author \notin Roots
          BY <2>2, <5>2 DEF Conferred, NONE
        <5> QED
          BY <5>1, <5>2
      <4> HIDE DEF c, b
      <4>3. \A k \in Roots : b.held[k] = a.held[k] /\ b.ever_held[k] = a.ever_held[k]
        BY <3>1, <4>1
      <4>4. \A k \in Key : b.ever_held[k] = IF k = op.target
                                            THEN a.ever_held[k] \cup c
                                            ELSE a.ever_held[k]
        BY <3>1, <4>1
      <4>5. ASSUME NEW k \in Key \ Roots
            PROVE  b.ever_held[k] = IF k = op.target /\ op.author \in Roots
                                    THEN a.ever_held[k] \cup op.rights
                                    ELSE a.ever_held[k]
        BY <4>2, <4>4
      <4> QED
        BY <4>1, <4>3, <4>5
    <3> QED
      BY <3>2, <3>3
  <2> HIDE DEF b
  <2>6. \A k \in Key : person(b, k) = k /\ ever_person(b, k) = k
    BY <2>5 DEF Plain, person, ever_person
  <2>7. \A k \in Roots : b.held[k] = ALL /\ b.ever_held[k] = ALL
    BY <2>5 DEF Plain
  <2>8. ASSUME NEW k \in Key \ Roots PROVE b.ever_held[k] = GrantedUpTo(ops, k, n)
    <3>1. a.ever_held[k] = GrantedUpTo(ops, k, n - 1)
      BY DEF Plain
    <3> QED
      BY <2>4, <2>5, <3>1
  <2> QED
    BY <1>1, <2>6, <2>7, <2>8 DEF Plain, b
<1> QED
  BY <1>2, <1>3

\* The whole fold.
LEMMA PlainAuthority ==
  ASSUME NEW ops, WellFormed(ops), RootsGrant(ops),
         \A o, p \in ops : o.key = p.key => o = p
  PROVE  Plain(ops, authority_in(ops), Places)
<1>1. PICK f \in [0..Places -> Authorities] :
        /\ \A n \in 0..Places : FoldsTo(ops, f, n)
        /\ authority_in(ops) = f[Places]
  BY FoldExists
<1> DEFINE S == {n \in 0..Places : Plain(ops, f[n], n)}
<1>2. Places \in Nat
  BY PlacesAssumption
<1>3. 0 \in S
  <2>1. f[0] = Empty
    BY <1>1, <1>2 DEF FoldsTo
  <2>2. \A k : GrantedUpTo(ops, k, 0) = {}
    BY DEF GrantedUpTo
  <2>3. /\ \A k \in Key : person(Empty, k) = k /\ ever_person(Empty, k) = k
        /\ \A k \in Roots : Empty.held[k] = ALL /\ Empty.ever_held[k] = ALL
        /\ \A k \in Key \ Roots : Empty.ever_held[k] = {}
    BY KeysAssumption DEF Empty, person, ever_person, NONE, Roots
  <2>4. Plain(ops, Empty, 0)
    BY <2>2, <2>3, EmptyTyped DEF Plain
  <2> QED
    BY <1>2, <2>1, <2>4
<1>4. ASSUME NEW n \in 1..Places, n - 1 \in S PROVE n \in S
  <2>1. n \in 0..Places /\ n \in Nat \ {0}
    OBVIOUS
  <2>2. f[n] = FoldPlace(ops, f[n - 1], n)
    BY <1>1, <2>1 DEF FoldsTo
  <2> QED
    BY <1>4, <2>1, <2>2, PlainPlace
<1>5. Places \in S
  <2> HIDE DEF S
  <2> QED
    BY <1>2, <1>3, <1>4, UpTo
<1> QED
  BY <1>1, <1>5

\* More ops entitle nobody to less.
LEMMA UnionIsAccepted ==
  ASSUME RootsGrant(Ops), NEW s \in SUBSET Ops, NEW t \in SUBSET Ops,
         Accepts(s), Accepts(t)
  PROVE  Accepts(s \cup t)
<1> DEFINE u == s \cup t
<1>1. Ops \subseteq Written
  BY DEF Ops, Written
<1>2. /\ validate_in(s) /\ validate_in(t)
      /\ Accepts(u) <=> validate_in(u)
  BY <1>1, PolicyAssumption DEF Policy, ValidStates
<1>3. ASSUME NEW ops \in SUBSET Ops
      PROVE  /\ WellFormed(ops) /\ RootsGrant(ops)
             /\ Plain(ops, authority_in(ops), Places)
  <2>1. WellFormed(ops)
    BY <1>1, WrittenAssumption DEF WellFormed
  <2>2. RootsGrant(ops)
    BY DEF RootsGrant
  <2> QED
    BY <2>1, <2>2, ContentAddressed, PlainAuthority
<1>4. ASSUME NEW ops \in SUBSET Ops, ops \subseteq u, NEW op \in ops,
             Permitted(authority_in(ops), op)
      PROVE  Permitted(authority_in(u), op)
  <2>1. op.author \in Key
    BY <1>3 DEF WellFormed
  <2>2. Plain(ops, authority_in(ops), Places) /\ Plain(u, authority_in(u), Places)
    BY <1>3
  <2>3. GrantedUpTo(ops, op.author, Places) \subseteq GrantedUpTo(u, op.author, Places)
    BY <1>4 DEF GrantedUpTo
  <2>4. ever_rights_of(authority_in(ops), op.author)
          \subseteq ever_rights_of(authority_in(u), op.author)
    BY <2>1, <2>2, <2>3 DEF Plain, ever_rights_of
  <2> QED
    BY <1>4, <2>4 DEF Permitted, NONE
<1>5. \A op \in u : admits(op) /\ op.signed
  BY <1>2 DEF validate_in
<1>6. \A op \in u : Permitted(authority_in(u), op)
  <2>1. \A op \in s : Permitted(authority_in(s), op)
    BY <1>2 DEF validate_in
  <2>2. \A op \in t : Permitted(authority_in(t), op)
    BY <1>2 DEF validate_in
  <2> HIDE DEF u
  <2> QED
    BY <1>4, <2>1, <2>2 DEF u
<1> QED
  BY <1>2, <1>5, <1>6 DEF validate_in

\* "Merging is a union, so arrival order cannot change the result"
\* (pj-board-contract/src/lib.rs:58-60) where only the roots of trust grant and
\* no device is linked; an administrator's grants can be taken back, and then
\* it does not hold.
THEOREM PeersCanMergeUnderRoots ==
  ASSUME RootsGrant(Ops)
  PROVE  Spec => []PeersCanMerge
<1>1. RInv => PeersCanMerge
  <2> SUFFICES ASSUME RInv, NEW p \in Peer, NEW q \in Peer
               PROVE  Acceptable(state[p], state[q])
    BY DEF PeersCanMerge
  <2>1. /\ state[p] \in SUBSET Ops /\ state[q] \in SUBSET Ops
        /\ Accepts(state[p]) /\ Accepts(state[q])
    BY DEF RInv, TypeOK, StatesStayValid
  <2>2. merge(state[p], state[q]) = state[p] \cup state[q]
    BY <2>1, ContentAddressed DEF merge, ids
  <2> QED
    BY <2>1, <2>2, UnionIsAccepted DEF Acceptable
<1> QED
  BY <1>1, Safety, PTL

=============================================================================
