-------------------------- MODULE PlacementProofs ---------------------------
(***************************************************************************)
(* Theorems about Placement, for any tasks, boards, old cards and number   *)
(* of attempts, and a patient user.                                        *)
(***************************************************************************)
EXTENDS Placement, TLAPS, WellFoundedInduction, SequenceTheorems

-----------------------------------------------------------------------------
(* Old cards.                                                              *)

\* What holds of 0, and of every number up to N with the one before, holds up
\* to N.
LEMMA UpTo ==
  ASSUME NEW S, NEW N \in Nat, 0 \in S, \A n \in 1..N : n - 1 \in S => n \in S
  PROVE  0..N \subseteq S
<1> DEFINE T == (0..N) \ S
           R == OpToRel(<, Nat)
<1> SUFFICES ASSUME T # {} PROVE FALSE
  OBVIOUS
<1>1. T \subseteq Nat
  OBVIOUS
<1>2. PICK x \in T : \A y \in T : ~(<<y, x>> \in R)
  BY <1>1, NatLessThanWellFounded, WFMin
<1>3. x \in 1..N /\ x - 1 \in 0..N /\ x - 1 < x
  OBVIOUS
<1>4. <<x - 1, x>> \in R
  BY <1>3 DEF OpToRel
<1>5. x - 1 \in S
  BY <1>2, <1>3, <1>4
<1> QED
  BY <1>3, <1>5

\* The old cards of b that are not retired there.
Left(b, tombs) == {l \in ToSet(old[b]) : <<l, b>> \notin tombs}

\* One more is looked at.
Kept(b, tombs, before, n) ==
  IF <<old[b][n], b>> \in tombs THEN before ELSE Append(before, old[b][n])

\* What is kept after one more is of those left, and grows by one at most.
LEMMA KeptTyped ==
  ASSUME NEW b, NEW tombs, NEW N \in Nat, N = Len(old[b]),
         old[b] \in Seq(OldCards), NEW n \in 1..N,
         NEW before \in Seq(Left(b, tombs)), Len(before) <= n - 1
  PROVE  /\ Kept(b, tombs, before, n) \in Seq(Left(b, tombs))
         /\ Len(Kept(b, tombs, before, n)) <= n
<1>1. CASE <<old[b][n], b>> \in tombs
  BY <1>1 DEF Kept
<1>2. CASE <<old[b][n], b>> \notin tombs
  <2>1. old[b][n] \in Left(b, tombs)
    BY <1>2 DEF Left, ToSet
  <2>2. Kept(b, tombs, before, n) = Append(before, old[b][n])
    BY <1>2 DEF Kept
  <2> QED
    BY <2>1, <2>2
<1> QED
  BY <1>1, <1>2

\* What is offered for conversion is what is left, and no longer than what
\* there was.
LEMMA RecoveredIsLeft ==
  ASSUME NEW b, NEW tombs, old[b] \in Seq(OldCards)
  PROVE  /\ Recovered(b, tombs) \in Seq(Left(b, tombs))
         /\ Len(Recovered(b, tombs)) <= Len(old[b])
<1> DEFINE N == Len(old[b])
           V == Seq(Left(b, tombs))
           Is(f, n) == f[n] = IF n = 0 THEN << >> ELSE Kept(b, tombs, f[n - 1], n)
           Good(f, n) == Is(f, n) /\ f[n] \in V /\ Len(f[n]) <= n
           upto == CHOOSE f : f = [n \in 0..N |->
                     IF n = 0 THEN << >>
                     ELSE IF <<old[b][n], b>> \in tombs THEN f[n - 1]
                     ELSE Append(f[n - 1], old[b][n])]
<1>1. Recovered(b, tombs) = upto[N]
  BY DEF Recovered
<1>2. N \in Nat
  OBVIOUS
<1> DEFINE S == {m \in 0..N : \E f \in [0..N -> V] : \A n \in 0..m : Good(f, n)}
<1>3. 0 \in S
  <2> DEFINE f == [n \in 0..N |-> << >>]
  <2>2. << >> \in V /\ Len(<< >>) = 0
    OBVIOUS
  <2>1. f \in [0..N -> V]
    BY <2>2
  <2>3. f[0] = << >>
    BY <1>2
  <2>4. \A n \in 0..0 : Good(f, n)
    BY <2>2, <2>3
  <2> QED
    BY <1>2, <2>1, <2>4
<1>4. ASSUME NEW m \in 1..N, m - 1 \in S PROVE m \in S
  <2>1. PICK f \in [0..N -> V] : \A n \in 0..(m - 1) : Good(f, n)
    BY <1>4
  <2>2. m \in 0..N /\ m - 1 \in 0..(m - 1) /\ m # m - 1 /\ m # 0
    BY <1>2
  <2> DEFINE now == Kept(b, tombs, f[m - 1], m)
             g == [n \in 0..N |-> IF n = m THEN now ELSE f[n]]
  <2>3. now \in V /\ Len(now) <= m
    <3>1. f[m - 1] \in V /\ Len(f[m - 1]) <= m - 1
      BY <2>1, <2>2
    <3> QED
      BY <1>2, <3>1, KeptTyped
  <2>4. g \in [0..N -> V]
    <3> HIDE DEF V, now
    <3> QED
      BY <2>3
  <2>5. \A n \in 0..N : g[n] = IF n = m THEN now ELSE f[n]
    OBVIOUS
  <2> HIDE DEF g, V
  <2>6. ASSUME NEW n \in 0..m PROVE Good(g, n)
    <3>1. CASE n = m
      <4>1. g[n] = now /\ g[n - 1] = f[n - 1] /\ n # 0
        BY <1>2, <2>2, <2>5, <3>1
      <4> QED
        BY <2>3, <3>1, <4>1
    <3>2. CASE n # m
      <4> HIDE DEF now, N
      <4>1. /\ n \in 0..(m - 1) /\ n \in 0..N
            /\ n # 0 => n - 1 \in 0..N /\ n - 1 # m
        BY <1>2, <2>2, <3>2
      <4>2. g[n] = f[n] /\ (n # 0 => g[n - 1] = f[n - 1])
        BY <2>5, <3>2, <4>1
      <4> QED
        BY <2>1, <4>1, <4>2
    <3> QED
      BY <3>1, <3>2
  <2> QED
    BY <2>2, <2>4, <2>6
<1>5. N \in S
  <2> HIDE DEF S, N
  <2>1. \A n \in 1..N : n - 1 \in S => n \in S
    BY <1>4
  <2>2. 0..N \subseteq S
    BY <1>2, <1>3, <2>1, UpTo
  <2> QED
    BY <1>2, <2>2
<1>6. PICK f \in [0..N -> V] : \A n \in 0..N : Good(f, n)
  BY <1>5
<1>7. ASSUME NEW h, DOMAIN h = 0..N, \A n \in 0..N : Is(h, n)
      PROVE  \A n \in 0..N : Good(h, n)
  <2> DEFINE Q == {n \in 0..N : Good(h, n)}
  <2>1. 0 \in Q
    <3>1. << >> \in V /\ Len(<< >>) = 0
      OBVIOUS
    <3>2. 0 \in 0..N /\ h[0] = << >>
      BY <1>2, <1>7
    <3> HIDE DEF V
    <3> QED
      BY <3>1, <3>2
  <2>2. ASSUME NEW n \in 1..N, n - 1 \in Q PROVE n \in Q
    <3>1. n \in 0..N /\ n # 0
      OBVIOUS
    <3>2. h[n] = Kept(b, tombs, h[n - 1], n)
      BY <1>7, <3>1
    <3> QED
      BY <1>2, <1>7, <2>2, <3>1, <3>2, KeptTyped
  <2>3. 0..N \subseteq Q
    <3> HIDE DEF Q, N
    <3> QED
      BY <1>2, <2>1, <2>2, UpTo
  <2> QED
    BY <2>3
<1>8. upto = [n \in 0..N |->
                IF n = 0 THEN << >>
                ELSE IF <<old[b][n], b>> \in tombs THEN upto[n - 1]
                ELSE Append(upto[n - 1], old[b][n])]
  <2> DEFINE Body(h, n) == IF n = 0 THEN << >>
                           ELSE IF <<old[b][n], b>> \in tombs THEN h[n - 1]
                           ELSE Append(h[n - 1], old[b][n])
  <2>1. \A n \in 0..N : f[n] = Body(f, n)
    BY <1>6 DEF Kept
  <2> HIDE DEF Body, N, V
  <2>3. f = [n \in 0..N |-> Body(f, n)]
    BY <2>1
  <2> QED
    BY <2>3 DEF Body
<1>9. DOMAIN upto = 0..N /\ \A n \in 0..N : Is(upto, n)
  <2> HIDE DEF upto
  <2> QED
    BY <1>8 DEF Kept
<1>10. Good(upto, N)
  <2> HIDE DEF upto, Good, Is, N
  <2> QED
    BY <1>2, <1>7, <1>9
<1> QED
  <2> HIDE DEF upto
  <2> QED
    BY <1>1, <1>10

-----------------------------------------------------------------------------
(* Bags and sequences.                                                     *)

\* Parking sets the one timer and no other.
LEMMA TimersParked ==
  ASSUME NEW t, NEW n, Park(t, n, timers)
  PROVE  DOMAIN timers' = DOMAIN timers \cup {<<t, n>>}
BY DEF Park, (+), SetToBag

\* A timer that rings was set, and sets the next one at most.
LEMMA TimerRings ==
  ASSUME NEW t, NEW n, PlaceWhenStored(t, n)
  PROVE  /\ <<t, n>> \in DOMAIN timers
         /\ \A w \in DOMAIN timers' :
              w \in DOMAIN timers \/ (w = <<t, n + 1>> /\ ~(n + 1 > Attempts))
<1> DEFINE others == timers (-) SetToBag({<<t, n>>})
<1>1. <<t, n>> \in DOMAIN timers
  BY DEF PlaceWhenStored, BagIn, BagToSet
<1>2. DOMAIN others \subseteq DOMAIN timers
  BY DEF (-)
<1>3. \/ timers' = others
      \/ timers' = others (+) SetToBag({<<t, n + 1>>}) /\ ~(n + 1 > Attempts)
  BY DEF PlaceWhenStored, Park
<1> HIDE DEF others
<1>4. DOMAIN (others (+) SetToBag({<<t, n + 1>>})) = DOMAIN others \cup {<<t, n + 1>>}
  BY DEF (+), SetToBag
<1> QED
  BY <1>1, <1>2, <1>3, <1>4

\* The empty bag has no timer.
LEMMA NoTimers == DOMAIN EmptyBag = {}
BY DEF EmptyBag, SetToBag

\* The last of a queue, and the rest of it.
LEMMA LastAndRest ==
  ASSUME NEW S, NEW q \in Seq(S), q # << >>
  PROVE  /\ q[Len(q)] \in ToSet(q)
         /\ q[Len(q)] \in S
         /\ SubSeq(q, 1, Len(q) - 1) \in Seq(S)
         /\ ToSet(SubSeq(q, 1, Len(q) - 1)) \subseteq ToSet(q)
         /\ Len(q) <= 1 => SubSeq(q, 1, Len(q) - 1) = << >>
<1>1. Len(q) \in Nat \ {0} /\ Len(q) \in DOMAIN q
  OBVIOUS
<1>2. q[Len(q)] \in ToSet(q) /\ q[Len(q)] \in S
  BY <1>1 DEF ToSet
<1> DEFINE r == SubSeq(q, 1, Len(q) - 1)
<1>3. r \in Seq(S) /\ Len(r) = Len(q) - 1 /\ \A i \in 1..Len(r) : r[i] = q[i]
  <2>1. Len(q) - 1 \in Int /\ \A i \in 1..(Len(q) - 1) : q[i] \in S
    BY <1>1
  <2>2. /\ r \in Seq(S)
        /\ Len(r) = IF 1 <= Len(q) - 1 THEN Len(q) - 1 - 1 + 1 ELSE 0
        /\ \A i \in 1..(Len(q) - 1 - 1 + 1) : r[i] = q[1 + i - 1]
    BY <2>1, SubSeqProperties
  <2> HIDE DEF r
  <2>3. Len(r) = Len(q) - 1
    <3> DEFINE n == Len(q)
    <3>1. n \in Nat \ {0} /\ Len(r) = IF 1 <= n - 1 THEN n - 1 - 1 + 1 ELSE 0
      BY <1>1, <2>2
    <3> HIDE DEF n
    <3>2. Len(r) = n - 1
      <4>1. CASE 1 <= n - 1
        BY <3>1, <4>1
      <4>2. CASE ~(1 <= n - 1)
        BY <3>1, <4>2
      <4> QED
        BY <4>1, <4>2
    <3> QED
      BY <3>2 DEF n
  <2> QED
    BY <1>1, <2>2, <2>3
<1>4. ToSet(r) \subseteq ToSet(q)
  BY <1>1, <1>3 DEF ToSet
<1>5. Len(q) <= 1 => r = << >>
  BY <1>1, <1>3
<1> QED
  BY <1>2, <1>3, <1>4, <1>5

-----------------------------------------------------------------------------
(* The types.                                                              *)

Typed ==
  /\ TypeOK
  /\ pending_placement \in Mine \cup {None}
  /\ old \in Old
  /\ legacy_tasks \in Seq(OldCards)
  /\ legacy_queue \in Seq(OldCards)
  /\ converting \in OldCards \cup {None}
  /\ replaces \subseteq Mine \X OldCards
  /\ retired \subseteq OldCards \X Board

\* A board's old cards are old cards.
LEMMA OldIsTyped ==
  ASSUME Typed, NEW b \in Board
  PROVE  old[b] \in Seq(OldCards) /\ ToSet(old[b]) \subseteq OldCards
<1>1. old[b] \in Seq(OldCards)
  BY OldAssumption DEF Typed
<1> QED
  BY <1>1 DEF ToSet

\* What is detected is a queue of old cards.
LEMMA DetectedIsTyped ==
  ASSUME Typed, NEW b \in Board \cup {None}, NEW queue, NEW tombs
  PROVE  Detected(b, queue, tombs) \in Seq(OldCards)
<1>1. CASE b = None \/ queue # << >>
  BY <1>1 DEF Detected, Typed
<1>2. CASE b # None /\ queue = << >>
  <2>1. Recovered(b, tombs) \in Seq(Left(b, tombs))
    BY <1>2, OldIsTyped, RecoveredIsLeft
  <2>2. Left(b, tombs) \subseteq OldCards
    BY <1>2, OldIsTyped DEF Left
  <2>3. Recovered(b, tombs) \in Seq(OldCards)
    BY <2>1, <2>2
  <2> QED
    BY <1>2, <2>3 DEF Detected
<1> QED
  BY <1>1, <1>2

\* The first state is typed.
LEMMA TypedInit == Init => Typed
<1> SUFFICES ASSUME Init PROVE Typed
  OBVIOUS
<1>1. old[board] \in Seq(OldCards) /\ << >> \in Seq(OldCards)
  BY OldAssumption DEF Init
<1>2. DOMAIN timers = {}
  BY NoTimers DEF Init
<1> QED
  BY <1>1, <1>2, TasksAssumption DEF Init, Typed, TypeOK, Task

\* Every step keeps the types, whatever the user does.
LEMMA TypedStep == Typed /\ [Next]_vars => Typed'
<1> SUFFICES ASSUME Typed, [Next]_vars PROVE Typed'
  OBVIOUS
<1> USE TasksAssumption DEF Task
<1> DEFINE Sent(rs) == rs \subseteq {Get(t) : t \in Task} \cup {Put(t) : t \in Mine}
           Timed(ts) == DOMAIN ts \subseteq Mine \X (1..Attempts)
<1>1. ASSUME NEW t \in Task, Select(t) PROVE Typed'
  BY <1>1 DEF Typed, TypeOK, Select, drop_task, legacy, written, history, task
<1>2. ASSUME NEW t \in Task, create_task(t) PROVE Typed'
  <2>1. t \in Mine /\ 1 \in 1..Attempts
    BY <1>2 DEF create_task, Unused
  <2>2. Timed(timers)'
    <3>1. DOMAIN timers' = DOMAIN timers \cup {<<t, 1>>}
      BY <1>2, TimersParked DEF create_task
    <3> QED
      BY <2>1, <3>1 DEF Typed, TypeOK
  <2>3. Sent(requests)'
    BY <1>2, <2>1 DEF create_task, Typed, TypeOK
  <2>4. pending_placement' = t /\ pending_fetch' = t
    BY <1>2 DEF create_task, Park
  <2>5. wanted' \subseteq Mine \X (Board \cup {None})
    BY <1>2, <2>1 DEF create_task, Typed, TypeOK
  <2> QED
    BY <1>2, <2>1, <2>2, <2>3, <2>4, <2>5
    DEF create_task, Typed, TypeOK, legacy, written
<1>3. ASSUME NEW t \in Task, migrate_legacy(t) PROVE Typed'
  <2>1. t \in Mine /\ 1 \in 1..Attempts /\ board \in Board
    BY <1>3 DEF migrate_legacy, Unused, Typed, TypeOK
  <2>2. Timed(timers)'
    <3>1. DOMAIN timers' = DOMAIN timers \cup {<<t, 1>>}
      BY <1>3, TimersParked DEF migrate_legacy, MigrateNext
    <3> QED
      BY <2>1, <3>1 DEF Typed, TypeOK
  <2>3. legacy_tasks' \in Seq(OldCards)
    BY <1>3, <2>1, DetectedIsTyped DEF migrate_legacy, Typed
  <2>4. /\ legacy_queue' \in Seq(OldCards)
        /\ converting' \in OldCards
        /\ replaces' = replaces \cup {<<t, converting'>>}
    BY <1>3, LastAndRest DEF migrate_legacy, MigrateNext, Typed
  <2>5. Sent(requests)'
    BY <1>3, <2>1 DEF migrate_legacy, MigrateNext, Typed, TypeOK
  <2>6. pending_placement' = t /\ pending_fetch' = t
    BY <1>3 DEF migrate_legacy, MigrateNext, Park
  <2>7. wanted' \subseteq Mine \X (Board \cup {None})
    BY <1>3, <2>1 DEF migrate_legacy, MigrateNext, Typed, TypeOK
  <2> QED
    BY <1>3, <2>1, <2>2, <2>3, <2>4, <2>5, <2>6, <2>7
    DEF migrate_legacy, Typed, TypeOK, written
<1>4. ASSUME NEW t \in Task, NEW n \in 1..Attempts, PlaceWhenStored(t, n) PROVE Typed'
  <2>1. t \in Mine
    <3>1. <<t, n>> \in DOMAIN timers
      BY <1>4, TimerRings
    <3> QED
      BY <3>1 DEF Typed, TypeOK
  <2>2. Timed(timers)'
    <3>1. ~(n + 1 > Attempts) => <<t, n + 1>> \in Mine \X (1..Attempts)
      BY <2>1
    <3>2. \A w \in DOMAIN timers' :
            w \in DOMAIN timers \/ (w = <<t, n + 1>> /\ ~(n + 1 > Attempts))
      BY <1>4, TimerRings
    <3> QED
      BY <3>1, <3>2 DEF Typed, TypeOK
  <2> QED
    BY <1>4, <2>1, <2>2
    DEF PlaceWhenStored, Park, Typed, TypeOK, legacy, written
<1>5. ASSUME NEW t \in Task, Got(t) PROVE Typed'
  <2>1. CASE ~IsOpenTask(t)
    BY <1>5, <2>1 DEF Got, Takes, Typed, TypeOK, task, legacy, written
  <2>2. CASE IsOpenTask(t)
    <3>1. board' = board /\ old' = old /\ selected' = selected /\ installed' = installed
      BY <1>5 DEF Got
    <3>2. task_key' = t /\ task_params' = t /\ task_ops' = task_ops \cup {t}
      BY <1>5, <2>2 DEF Got
    <3>3. answers' \subseteq answers
      BY <1>5 DEF Got, Takes
    <3>4. FinishPlacement(None)
      BY <1>5, <2>2 DEF Got
    <3>5. cards' \subseteq Task \X Board /\ told' \subseteq Mine
      BY <3>4 DEF FinishPlacement, Written, Typed, TypeOK
    <3>6. retired' \subseteq OldCards \X Board
      BY <3>4 DEF FinishPlacement, Retired, Written, Typed, TypeOK
    <3>7. legacy_tasks' \in Seq(OldCards)
      BY <3>4, DetectedIsTyped DEF FinishPlacement, Typed, TypeOK
    <3>8. summaries' \subseteq Task \X Task
      BY <1>5, <2>2 DEF Got, Reconciled, Typed, TypeOK
    <3>9. CASE \E u \in Unused : MigrateNext(u, legacy_queue, timers, requests) /\ legacy_queue # << >>
      <4>1. PICK u \in Unused : MigrateNext(u, legacy_queue, timers, requests)
        BY <3>9
      <4>2. u \in Mine /\ 1 \in 1..Attempts
        BY DEF Unused
      <4>3. Timed(timers)'
        <5>1. DOMAIN timers' = DOMAIN timers \cup {<<u, 1>>}
          BY <4>1, TimersParked DEF MigrateNext
        <5> QED
          BY <4>2, <5>1 DEF Typed, TypeOK
      <4>4. /\ legacy_queue' \in Seq(OldCards)
            /\ converting' \in OldCards
            /\ replaces' = replaces \cup {<<u, converting'>>}
        BY <3>9, <4>1, LastAndRest DEF MigrateNext, Typed
      <4>5. Sent(requests)'
        BY <4>1, <4>2 DEF MigrateNext, Typed, TypeOK
      <4>6. pending_placement' = u /\ pending_fetch' = u
        BY <4>1 DEF MigrateNext, Park
      <4>7. wanted' \subseteq Mine \X (Board \cup {None})
        BY <4>1, <4>2 DEF MigrateNext, Typed, TypeOK
      <4> QED
        BY <3>1, <3>2, <3>3, <3>5, <3>6, <3>7, <3>8, <4>2, <4>3, <4>4, <4>5,
           <4>6, <4>7
        DEF Typed, TypeOK
    <3>10. CASE /\ pending_fetch' = None /\ pending_placement' = None
                /\ converting' \in {converting, None}
                /\ UNCHANGED <<legacy_queue, timers, requests, wanted, replaces>>
      BY <3>1, <3>2, <3>3, <3>5, <3>6, <3>7, <3>8, <3>10 DEF Typed, TypeOK
    <3> QED
      BY <3>4, <3>9, <3>10 DEF FinishPlacement
  <2> QED
    BY <2>1, <2>2
<1>6. ASSUME NEW t \in Task, Missing(t) PROVE Typed'
  <2>1. pending_fetch' \in {pending_fetch, None} /\ answers' \subseteq answers
    BY <1>6 DEF Missing, Takes
  <2> QED
    BY <1>6, <2>1 DEF Missing, Typed, TypeOK, legacy, written, history
<1>7. ASSUME NEW t \in Task, Changed(t) PROVE Typed'
  <2>1. summaries' \subseteq Task \X Task
    BY <1>7 DEF Changed, Reconciled, Typed, TypeOK
  <2> QED
    BY <1>7, <2>1 DEF Changed, Typed, TypeOK, network, legacy, history
<1>8. ASSUME NEW t \in Task, NodePuts(t) \/ NodeGets(t) PROVE Typed'
  <2>1. UNCHANGED <<board, selected, task, pending_placement, timers, legacy, written, history>>
    BY <1>8 DEF NodePuts, NodeGets
  <2>2. Sent(requests)'
    BY <1>8 DEF NodePuts, NodeGets, Typed, TypeOK
  <2>3. answers' \subseteq {Answer(a, u) : a \in {"Got", "Missing"}, u \in Task}
    <3>1. CASE NodePuts(t)
      BY <3>1 DEF NodePuts, Typed, TypeOK
    <3>2. CASE NodeGets(t)
      <4>1. \/ answers' = answers \cup {Answer("Got", t)}
            \/ answers' = answers \cup {Answer("Missing", t)}
        BY <3>2 DEF NodeGets
      <4> QED
        BY <4>1 DEF Typed, TypeOK
    <3> QED
      BY <1>8, <3>1, <3>2
  <2>4. Others \subseteq installed' /\ installed' \subseteq Task
    BY <1>8 DEF NodePuts, NodeGets, Typed, TypeOK
  <2> QED
    BY <2>1, <2>2, <2>3, <2>4 DEF Typed, TypeOK, task, legacy, written, history
<1>9. ASSUME close_task PROVE Typed'
  BY <1>9 DEF close_task, drop_task, Typed, TypeOK, network, legacy, written, history
<1>10. ASSUME Reload PROVE Typed'
  <2>1. legacy_tasks' \in Seq(OldCards) /\ << >> \in Seq(OldCards)
    <3>1. board # None => Detected(board, << >>, retired) = Recovered(board, retired)
      BY DEF Detected
    <3>2. << >> \in Seq(OldCards)
      OBVIOUS
    <3> QED
      BY <1>10, <3>1, <3>2, DetectedIsTyped DEF Reload, Typed, TypeOK
  <2>2. DOMAIN timers' = {}
    BY <1>10, NoTimers DEF Reload
  <2> QED
    BY <1>10, <2>1, <2>2 DEF Reload, drop_task, Typed, TypeOK, written, history
<1>11. ASSUME BoardChanged PROVE Typed'
  <2>1. summaries' \subseteq Task \X Task
    BY <1>11 DEF BoardChanged, Reconciled, Typed, TypeOK
  <2>2. legacy_tasks' \in Seq(OldCards)
    <3>1. board \in Board \cup {None} /\ legacy_tasks' = Detected(board, legacy_queue, retired)
      BY <1>11 DEF BoardChanged, Typed, TypeOK
    <3> QED
      BY <3>1, DetectedIsTyped
  <2> QED
    BY <1>11, <2>1, <2>2 DEF BoardChanged, Typed, TypeOK, task, network, history
<1>12. ASSUME NEW b \in Board \cup {None}, Visit(b) PROVE Typed'
  <2>1. legacy_tasks' \in Seq(OldCards)
    BY <1>12, DetectedIsTyped DEF Visit
  <2> QED
    BY <1>12, <2>1 DEF Visit, Typed, TypeOK, task, network, written, history
<1>13. ASSUME UNCHANGED vars PROVE Typed'
  BY <1>13 DEF vars, Typed, TypeOK, task, network, legacy, written, history
<1> QED
  BY <1>1, <1>2, <1>3, <1>4, <1>5, <1>6, <1>7, <1>8, <1>9, <1>10, <1>11,
     <1>12, <1>13 DEF Next

-----------------------------------------------------------------------------
(* Where old cards are while they are converted, with a patient user.      *)

Made(l) == \E p \in replaces : p[2] = l

\* A card is owed to the open board; whatever is offered, waits or is being
\* converted is an old card of that board; what is retired is an old card of
\* the board it is retired on; and a task was made of whatever is being
\* converted or is retired.
Places ==
  /\ pending_placement # None => board # None
  /\ pending_placement = None => converting = None /\ legacy_queue = << >>
  /\ board # None =>
       ToSet(legacy_tasks) \cup ToSet(legacy_queue) \cup ({converting} \ {None})
         \subseteq ToSet(old[board])
  /\ converting # None => Made(converting)
  /\ \A r \in retired : r[1] \in ToSet(old[r[2]]) /\ Made(r[1])

\* What is detected stays what it was while the queue is worked off; otherwise it is
\* what is left on the board.
LEMMA DetectedIsLeft ==
  ASSUME Typed, NEW b \in Board, NEW queue, NEW tombs
  PROVE  \/ queue # << >> /\ Detected(b, queue, tombs) = legacy_tasks
         \/ /\ ToSet(Detected(b, queue, tombs)) \subseteq Left(b, tombs)
            /\ Len(Detected(b, queue, tombs)) <= Len(old[b])
<1>1. b # None
  BY TasksAssumption
<1>2. CASE queue # << >>
  BY <1>2 DEF Detected
<1>3. CASE queue = << >>
  <2>1. Recovered(b, tombs) \in Seq(Left(b, tombs)) /\ Len(Recovered(b, tombs)) <= Len(old[b])
    BY OldIsTyped, RecoveredIsLeft
  <2>2. ToSet(Recovered(b, tombs)) \subseteq Left(b, tombs)
    BY <2>1 DEF ToSet
  <2> QED
    BY <1>1, <1>3, <2>1, <2>2 DEF Detected
<1> QED
  BY <1>2, <1>3

\* What the open board offers when it is folded again.
LEMMA OfferedIsThere ==
  ASSUME Typed, Places, board # None, NEW tombs
  PROVE  ToSet(Detected(board, legacy_queue, tombs)) \subseteq ToSet(old[board])
<1>1. board \in Board
  BY DEF Typed, TypeOK
<1>2. ToSet(legacy_tasks) \subseteq ToSet(old[board])
  BY DEF Places
<1>3. Left(board, tombs) \subseteq ToSet(old[board])
  BY DEF Left
<1> QED
  BY <1>1, <1>2, <1>3, DetectedIsLeft

\* Nothing is anywhere at first but what the board shows.
LEMMA PlacesInit == Init => Places
<1> SUFFICES ASSUME Init PROVE Places
  OBVIOUS
<1>1. ToSet(<< >>) = {}
  BY DEF ToSet
<1> QED
  BY <1>1, TasksAssumption DEF Init, Places

\* A patient user's steps keep what is being converted on its own board.
LEMMA PlacesStep ==
  ASSUME Patient, Typed, Places, [Next]_vars
  PROVE  Places'
<1> USE TasksAssumption
<1>0. ToSet(<< >>) = {} /\ None \notin OldCards
  BY OldAssumption DEF ToSet
<1>1. ASSUME UNCHANGED <<board, pending_placement, legacy_tasks, legacy_queue,
                         converting, retired, replaces, old>>
      PROVE  Places'
  BY <1>1 DEF Places, Made
<1>2. ASSUME NEW t \in Task, create_task(t) PROVE Places'
  <2>1. board # None /\ pending_placement' # None /\ converting = None
    BY <1>2 DEF create_task, Park, Free, Places, Task, Unused
  <2> QED
    BY <1>2, <2>1 DEF create_task, Places, Made, legacy, written
<1>3. ASSUME NEW t \in Task, migrate_legacy(t) PROVE Places'
  <2>1. /\ board # None /\ pending_placement' = t /\ t # None
        /\ board' = board /\ old' = old /\ retired' = retired
    BY <1>3 DEF migrate_legacy, MigrateNext, Park, Task, written
  <2>2. legacy_tasks # << >> /\ legacy_tasks \in Seq(OldCards)
    BY <1>3 DEF migrate_legacy, Typed
  <2>3. /\ legacy_queue' = SubSeq(legacy_tasks, 1, Len(legacy_tasks) - 1)
        /\ converting' = legacy_tasks[Len(legacy_tasks)]
        /\ replaces' = replaces \cup {<<t, converting'>>}
    BY <1>3 DEF migrate_legacy, MigrateNext
  <2>4. ToSet(legacy_queue') \cup {converting'} \subseteq ToSet(old[board])
    BY <2>1, <2>2, <2>3, LastAndRest DEF Places
  <2>5. ToSet(legacy_tasks') \subseteq ToSet(old[board])
    BY <1>3, <2>1, OfferedIsThere DEF migrate_legacy, Places
  <2>6. \A r \in retired' : r[1] \in ToSet(old'[r[2]]) /\ Made(r[1])'
    BY <2>1, <2>3 DEF Places, Made
  <2>7. Made(converting)'
    <3>1. <<t, converting'>> \in replaces' /\ <<t, converting'>>[2] = converting'
      BY <2>3
    <3> QED
      BY <3>1 DEF Made
  <2> QED
    BY <2>1, <2>4, <2>5, <2>6, <2>7 DEF Places
<1>4. ASSUME NEW t \in Task, NEW n \in 1..Attempts, PlaceWhenStored(t, n) PROVE Places'
  <2>1. \/ pending_placement' = pending_placement
        \/ pending_placement # None /\ pending_placement' = t /\ t # None
    BY <1>4 DEF PlaceWhenStored, Park, Task
  <2> QED
    BY <1>4, <2>1 DEF PlaceWhenStored, Places, Made, legacy, written
<1>5. ASSUME NEW t \in Task, Got(t) PROVE Places'
  <2>1. CASE ~IsOpenTask(t)
    BY <1>1, <1>5, <2>1 DEF Got, legacy, written
  <2>2. CASE IsOpenTask(t)
    <3>1. board' = board /\ old' = old /\ FinishPlacement(None)
      BY <1>5, <2>2 DEF Got
    <3>2. \A r \in retired' :
             r \in retired \/ (r = <<converting, board>> /\ converting # None /\ board # None)
      BY <3>1 DEF FinishPlacement, Retired, Written
    <3>3. replaces \subseteq replaces'
      BY <3>1 DEF FinishPlacement, MigrateNext
    <3>4. \A r \in retired' : r[1] \in ToSet(old'[r[2]]) /\ Made(r[1])'
      BY <3>1, <3>2, <3>3 DEF Places, Made
    <3>5. board # None => ToSet(legacy_tasks') \subseteq ToSet(old[board])
      BY <3>1, OfferedIsThere DEF FinishPlacement, Places
    <3>6. CASE legacy_queue # << >> /\ \E u \in Unused : MigrateNext(u, legacy_queue, timers, requests)
      <4>1. PICK u \in Unused : MigrateNext(u, legacy_queue, timers, requests)
        BY <3>6
      <4>2. u # None /\ pending_placement' = u /\ board # None
        BY <3>6, <4>1 DEF Unused, MigrateNext, Park, Task, Places
      <4>3. /\ legacy_queue' = SubSeq(legacy_queue, 1, Len(legacy_queue) - 1)
            /\ converting' = legacy_queue[Len(legacy_queue)]
            /\ replaces' = replaces \cup {<<u, converting'>>}
        BY <4>1 DEF MigrateNext
      <4>4. ToSet(legacy_queue') \cup {converting'} \subseteq ToSet(old[board])
        BY <3>6, <4>2, <4>3, LastAndRest DEF Places, Typed
      <4>5. Made(converting)'
        <5>1. <<u, converting'>> \in replaces' /\ <<u, converting'>>[2] = converting'
          BY <4>3
        <5> QED
          BY <5>1 DEF Made
      <4> QED
        BY <3>1, <3>4, <3>5, <4>2, <4>4, <4>5 DEF Places
    <3>7. CASE /\ pending_placement' = None
               /\ legacy_queue' = legacy_queue
               /\ pending_placement = None \/ legacy_queue = << >>
               /\ converting' = IF pending_placement = None THEN converting ELSE None
      BY <3>1, <3>4, <3>5, <3>7 DEF Places
    <3> QED
      BY <3>1, <3>6, <3>7 DEF FinishPlacement
  <2> QED
    BY <2>1, <2>2
<1>6. ASSUME Reload PROVE Places'
  <2>1. board # None => ToSet(Recovered(board, retired)) \subseteq ToSet(old[board])
    <3>1. board # None => Detected(board, << >>, retired) = Recovered(board, retired)
      BY DEF Detected
    <3>2. ASSUME board # None
          PROVE  ToSet(Detected(board, << >>, retired)) \subseteq Left(board, retired)
      <4>1. board \in Board
        BY <3>2 DEF Typed, TypeOK
      <4> QED
        BY <4>1, DetectedIsLeft
    <3> QED
      BY <3>1, <3>2 DEF Left
  <2> QED
    BY <1>0, <1>6, <2>1 DEF Reload, Places, Made, written, history
<1>7. ASSUME BoardChanged PROVE Places'
  <2>1. ToSet(legacy_tasks') \subseteq ToSet(old[board])
    BY <1>7, OfferedIsThere DEF BoardChanged
  <2> QED
    BY <1>7, <2>1 DEF BoardChanged, Places, Made, history
<1>8. ASSUME NEW b \in Board \cup {None}, Visit(b) PROVE Places'
  <2>1. pending_placement = None /\ converting = None /\ legacy_queue = << >>
    BY <1>8 DEF Visit, Free, Places
  <2>2. b # None => ToSet(legacy_tasks') \subseteq ToSet(old[b])
    BY <1>8, <2>1, DetectedIsLeft DEF Visit, Left
  <2> QED
    BY <1>0, <1>8, <2>1, <2>2 DEF Visit, Places, Made, written, history
<1> QED
  <2>1. ASSUME NEW t \in Task,
               Select(t) \/ Missing(t) \/ Changed(t) \/ NodePuts(t) \/ NodeGets(t)
        PROVE  Places'
    BY <1>1, <2>1
    DEF Select, Missing, Changed, NodePuts, NodeGets, legacy, written, history
  <2>2. ASSUME close_task \/ UNCHANGED vars PROVE Places'
    BY <1>1, <2>2 DEF close_task, vars, legacy, written, history
  <2> QED
    BY <1>2, <1>3, <1>4, <1>5, <1>6, <1>7, <1>8, <2>1, <2>2 DEF Next

-----------------------------------------------------------------------------
(* One placement at a time, when every board has one old card at most.     *)

Created == {w[1] : w \in wanted}

InTurn == legacy_queue = << >> /\ Len(legacy_tasks) <= 1

\* There is one task in hand: the one that is open, or is asked for, or whose
\* card is owed; and a card that is owed excludes an open task.
InHand ==
  /\ task_params = task_key
  /\ task_key # None => pending_fetch = None /\ pending_placement = None
  /\ selected # None =>
       {task_key, pending_fetch} \subseteq {None, selected} /\ pending_placement = None
  /\ pending_placement # None =>
       /\ pending_fetch \in {None, pending_placement}
       /\ pending_placement \in Created
       /\ \A w \in DOMAIN timers : w[1] = pending_placement

\* What the node served, and what a card is for, is stored; no card is for a
\* task that is yet to be created; and a card shows its own task.
Truthful ==
  /\ \A t \in Task : Answer("Got", t) \in answers => t \in installed
  /\ \A c \in cards : c[1] \in installed /\ c[1] \in Others \cup Created
  /\ \A s \in summaries : s[1] = s[2]

Single == InTurn /\ InHand /\ Truthful

\* Where boards have one old card at most, they are converted one at a time.
LEMMA InTurnStep ==
  ASSUME Patient, Typed, Places, Alone, InTurn, [Next]_vars
  PROVE  InTurn'
<1>1. ASSUME NEW b \in Board \cup {None}, NEW tombs
      PROVE  Len(Detected(b, legacy_queue, tombs)) <= 1
  <2>1. CASE b = None
    BY <2>1 DEF Detected, InTurn
  <2>2. CASE b # None
    <3>1. b \in Board /\ Len(old[b]) <= 1 /\ legacy_queue = << >>
      BY <2>2 DEF Alone, InTurn
    <3>2. Len(Detected(b, legacy_queue, tombs)) <= Len(old[b])
      BY <3>1, DetectedIsLeft
    <3>3. Len(old[b]) \in Nat /\ Len(Detected(b, legacy_queue, tombs)) \in Nat
      BY <3>1, OldIsTyped, DetectedIsTyped
    <3> QED
      BY <3>1, <3>2, <3>3
  <2> QED
    BY <2>1, <2>2
<1>2. board \in Board \cup {None} /\ Len(legacy_tasks) <= 1 /\ legacy_queue = << >>
  BY DEF Typed, TypeOK, InTurn
<1>3. ASSUME UNCHANGED <<legacy_queue, legacy_tasks>> PROVE InTurn'
  BY <1>3 DEF InTurn
<1>4. ASSUME NEW t \in Task, migrate_legacy(t) PROVE InTurn'
  <2>1. Len(legacy_tasks') <= 1
    BY <1>1, <1>2, <1>4 DEF migrate_legacy
  <2>2. legacy_tasks # << >> /\ legacy_tasks \in Seq(OldCards)
    BY <1>4 DEF migrate_legacy, Typed
  <2>3. legacy_queue' = SubSeq(legacy_tasks, 1, Len(legacy_tasks) - 1)
    BY <1>4 DEF migrate_legacy, MigrateNext
  <2>4. legacy_queue' = << >>
    BY <1>2, <2>2, <2>3, LastAndRest
  <2> QED
    BY <2>1, <2>4 DEF InTurn
<1>5. ASSUME NEW t \in Task, Got(t) PROVE InTurn'
  <2>1. CASE ~IsOpenTask(t)
    BY <1>3, <1>5, <2>1 DEF Got, legacy
  <2>2. CASE IsOpenTask(t)
    BY <1>1, <1>2, <1>5, <2>2 DEF Got, FinishPlacement, InTurn
  <2> QED
    BY <2>1, <2>2
<1>6. ASSUME Reload PROVE InTurn'
  <2>1. board # None => Recovered(board, retired) = Detected(board, legacy_queue, retired)
    BY <1>2 DEF Detected
  <2>2. Len(<< >>) <= 1
    OBVIOUS
  <2> QED
    BY <1>1, <1>2, <1>6, <2>1, <2>2 DEF Reload, InTurn
<1>7. ASSUME BoardChanged PROVE InTurn'
  BY <1>1, <1>2, <1>7 DEF BoardChanged, InTurn
<1>8. ASSUME NEW b \in Board \cup {None}, Visit(b) PROVE InTurn'
  BY <1>1, <1>2, <1>8 DEF Visit, InTurn
<1> QED
  <2>1. ASSUME NEW t \in Task, NEW n \in 1..Attempts,
               \/ Select(t) \/ Missing(t) \/ Changed(t) \/ NodePuts(t) \/ NodeGets(t)
               \/ create_task(t) \/ PlaceWhenStored(t, n)
        PROVE  InTurn'
    BY <1>3, <2>1
    DEF Select, Missing, Changed, NodePuts, NodeGets, create_task,
        PlaceWhenStored, legacy
  <2>2. ASSUME close_task \/ UNCHANGED vars PROVE InTurn'
    BY <1>3, <2>2 DEF close_task, vars, legacy
  <2>3. 1 \in 1..Attempts
    BY TasksAssumption
  <2> QED
    BY <1>4, <1>5, <1>6, <1>7, <1>8, <2>1, <2>2, <2>3 DEF Next

\* What it does when the task in hand has come.
LEMMA GotInHand ==
  ASSUME Typed, Places, Single, NEW t \in Task, Got(t), IsOpenTask(t)
  PROVE  /\ t \in installed
         /\ pending_placement # None => t = pending_placement /\ board # None
         /\ selected # None => t = selected
         /\ task_key' = t /\ task_params' = t
         /\ pending_fetch' = None /\ pending_placement' = None /\ converting' = None
         /\ UNCHANGED <<board, selected, installed, old, legacy_queue, timers,
                        requests, wanted, replaces>>
         /\ answers' \subseteq answers
         /\ cards' = cards \cup (IF pending_placement = None THEN {}
                                 ELSE {<<pending_placement, board>>})
         /\ retired' = retired \cup (IF converting = None THEN {}
                                     ELSE {<<converting, board>>})
         /\ legacy_tasks' = IF pending_placement = None THEN legacy_tasks
                            ELSE Detected(board, legacy_queue, retired')
         /\ summaries' = Reconciled(t, cards')
<1>1. t # None
  BY TasksAssumption
<1>2. t \in installed
  BY DEF Got, Takes, Single, Truthful
<1>3. pending_placement # None => t = pending_placement /\ board # None
  BY <1>1 DEF IsOpenTask, Single, InHand, Places
<1>4. selected # None => t = selected
  BY <1>1 DEF IsOpenTask, Single, InHand
<1>5. FinishPlacement(None)
  BY DEF Got
<1>6. /\ pending_fetch' = None /\ pending_placement' = None
      /\ converting' = IF pending_placement = None THEN converting ELSE None
      /\ UNCHANGED <<legacy_queue, timers, requests, wanted, replaces>>
  BY <1>5 DEF FinishPlacement, Single, InTurn
<1>7. converting' = None
  BY <1>6 DEF Places
<1>8. cards' = cards \cup (IF pending_placement = None THEN {}
                          ELSE {<<pending_placement, board>>})
  BY <1>3, <1>5 DEF FinishPlacement, Written
<1>9. retired' = retired \cup (IF converting = None THEN {}
                              ELSE {<<converting, board>>})
  <2>1. CASE pending_placement = None
    BY <1>5, <2>1 DEF FinishPlacement, Retired, Places
  <2>2. CASE pending_placement # None
    BY <1>3, <1>5, <2>2 DEF FinishPlacement, Retired, Written
  <2> QED
    BY <2>1, <2>2
<1>10. legacy_tasks' = IF pending_placement = None THEN legacy_tasks
                       ELSE Detected(board, legacy_queue, retired')
  BY <1>5 DEF FinishPlacement
<1> QED
  BY <1>2, <1>3, <1>4, <1>6, <1>7, <1>8, <1>9, <1>10 DEF Got, Takes

\* A task that is made only now has no card and was owed none.
LEMMA UnusedIsNew ==
  ASSUME Typed, Single, NEW t \in Unused
  PROVE  /\ t \in Mine /\ t # None
         /\ t \notin Created
         /\ \A c \in cards : c[1] # t
BY TasksAssumption DEF Unused, Created, Single, Truthful, Task

\* The task in hand is the only one with anything on its way to being placed.
LEMMA InHandStep ==
  ASSUME Patient, Typed, Places, Single, [Next]_vars
  PROVE  InHand'
<1> USE TasksAssumption
<1>0. InHand
  BY DEF Single
<1>1. ASSUME UNCHANGED <<selected, task_key, task_params, pending_fetch,
                         pending_placement, timers, wanted>>
      PROVE  InHand'
  BY <1>0, <1>1 DEF InHand, Created
<1>2. ASSUME NEW t \in Task, Select(t) PROVE InHand'
  <2>1. pending_placement = None /\ pending_placement' = None /\ selected' = t /\ t # None
    BY <1>2 DEF Select, Free
  <2>2. CASE task_key = t
    BY <1>0, <1>2, <2>1, <2>2 DEF Select, InHand, task
  <2>3. CASE task_key # t
    BY <1>2, <2>1, <2>3 DEF Select, drop_task, InHand
  <2> QED
    BY <2>2, <2>3
<1>3. ASSUME NEW t \in Task, create_task(t) \/ migrate_legacy(t) PROVE InHand'
  <2>1. /\ selected = None /\ task_key = None /\ timers = EmptyBag
        /\ UNCHANGED <<selected, task_key, task_params>>
    BY <1>3 DEF create_task, migrate_legacy, Free
  <2>2. Park(t, 1, timers) /\ wanted' = wanted \cup {<<t, board>>}
    BY <1>3 DEF create_task, migrate_legacy, MigrateNext
  <2>3. \A w \in DOMAIN timers' : w[1] = t
    <3>1. DOMAIN timers' = {<<t, 1>>}
      BY <2>1, <2>2, TimersParked, NoTimers
    <3> QED
      BY <3>1
  <2>4. t \in Created'
    <3>1. <<t, board>> \in wanted' /\ <<t, board>>[1] = t
      BY <2>2
    <3> QED
      BY <3>1 DEF Created
  <2>5. pending_fetch' = t /\ pending_placement' = t
    BY <2>2 DEF Park
  <2> QED
    BY <1>0, <2>1, <2>3, <2>4, <2>5 DEF InHand
<1>4. ASSUME NEW t \in Task, NEW n \in 1..Attempts, PlaceWhenStored(t, n) PROVE InHand'
  <2>1. UNCHANGED <<selected, task_key, task_params, wanted>>
    BY <1>4 DEF PlaceWhenStored
  <2>2. <<t, n>> \in DOMAIN timers
    BY <1>4, TimerRings
  <2>3. \A w \in DOMAIN timers' : w \in DOMAIN timers \/ w = <<t, n + 1>>
    BY <1>4, TimerRings
  <2>4. pending_placement # None => t = pending_placement
    BY <1>0, <2>2 DEF InHand
  <2>5. /\ pending_placement' = pending_placement
        /\ \/ pending_fetch' = pending_fetch
           \/ pending_fetch' = pending_placement /\ pending_placement # None
    BY <1>4, <2>4 DEF PlaceWhenStored, Park
  <2>6. pending_placement # None => \A w \in DOMAIN timers' : w[1] = pending_placement
    BY <1>0, <2>3, <2>4 DEF InHand
  <2> QED
    BY <1>0, <2>1, <2>5, <2>6 DEF InHand, Created
<1>5. ASSUME NEW t \in Task, Got(t) PROVE InHand'
  <2>1. CASE ~IsOpenTask(t)
    BY <1>1, <1>5, <2>1 DEF Got, task
  <2>2. CASE IsOpenTask(t)
    BY <1>5, <2>2, GotInHand DEF InHand
  <2> QED
    BY <2>1, <2>2
<1>6. ASSUME NEW t \in Task, Missing(t) PROVE InHand'
  BY <1>0, <1>6 DEF Missing, InHand, Created, history
<1>7. ASSUME close_task \/ Reload PROVE InHand'
  <2>1. selected' = None /\ drop_task /\ pending_fetch' = None
    BY <1>7 DEF close_task, Reload
  <2>2. \/ pending_placement' = None
        \/ UNCHANGED <<pending_placement, timers, wanted>>
    BY <1>7 DEF close_task, Reload, history
  <2> QED
    BY <1>0, <2>1, <2>2 DEF drop_task, InHand, Created
<1>8. ASSUME NEW b \in Board \cup {None}, Visit(b) PROVE InHand'
  BY <1>0, <1>8 DEF Visit, InHand, Created, task, history
<1> QED
  <2>1. ASSUME NEW t \in Task, Changed(t) \/ NodePuts(t) \/ NodeGets(t) PROVE InHand'
    BY <1>1, <2>1 DEF Changed, NodePuts, NodeGets, task, history
  <2>2. ASSUME BoardChanged \/ UNCHANGED vars PROVE InHand'
    BY <1>1, <2>2 DEF BoardChanged, vars, task, history
  <2> QED
    BY <1>2, <1>3, <1>4, <1>5, <1>6, <1>7, <1>8, <2>1, <2>2 DEF Next

\* A card is written of a task that is stored, with that task's title.
LEMMA TruthfulStep ==
  ASSUME Patient, Typed, Places, Single, [Next]_vars
  PROVE  Truthful'
<1> USE TasksAssumption
<1>0. Truthful /\ InHand
  BY DEF Single
<1>1. ASSUME answers' \subseteq answers, installed \subseteq installed',
             wanted \subseteq wanted', cards' = cards,
             \A s \in summaries' : s[1] = s[2]
      PROVE  Truthful'
  BY <1>0, <1>1 DEF Truthful, Created
<1>2. \A s \in Reconciled(task_params, cards) : s[1] = s[2]
  BY <1>0 DEF Reconciled, Truthful, InHand
<1>3. \A s \in summaries : s[1] = s[2]
  BY <1>0 DEF Truthful
<1>4. ASSUME NEW t \in Task, Got(t) PROVE Truthful'
  <2>1. CASE ~IsOpenTask(t)
    BY <1>1, <1>3, <1>4, <2>1 DEF Got, Takes, written
  <2>2. CASE IsOpenTask(t)
    <3>1. /\ t \in installed /\ installed' = installed
          /\ wanted' = wanted /\ answers' \subseteq answers
          /\ selected # None => t = selected
      BY <1>4, <2>2, GotInHand
    <3>2. \A c \in cards' : c \in cards \/ (c[1] = t /\ t = pending_placement /\ t # None)
      BY <1>4, <2>2, GotInHand
    <3>3. \A c \in cards' : c[1] \in installed' /\ c[1] \in Others \cup Created'
      BY <1>0, <3>1, <3>2 DEF Truthful, InHand, Created
    <3>4. summaries' = Reconciled(t, cards')
      BY <1>4, <2>2, GotInHand
    <3>5. \A s \in summaries' : s[1] = s[2]
      BY <1>3, <3>1, <3>4 DEF Reconciled
    <3> QED
      BY <1>0, <3>1, <3>3, <3>5 DEF Truthful
  <2> QED
    BY <2>1, <2>2
<1>5. ASSUME NEW t \in Task, NodeGets(t) PROVE Truthful'
  <2>1. \A u \in Task : Answer("Got", u) \in answers' => u \in installed
    BY <1>0, <1>5 DEF NodeGets, Truthful, Answer
  <2> QED
    BY <1>0, <1>5, <2>1 DEF NodeGets, Truthful, Created, written, history
<1>6. ASSUME NEW t \in Task, Changed(t) PROVE Truthful'
  BY <1>1, <1>2, <1>6 DEF Changed, network, history
<1>7. ASSUME BoardChanged PROVE Truthful'
  BY <1>1, <1>2, <1>7 DEF BoardChanged, network, history
<1> QED
  <2>1. ASSUME NEW t \in Task,
               Select(t) \/ create_task(t) \/ migrate_legacy(t) \/ Missing(t) \/ NodePuts(t)
        PROVE  Truthful'
    BY <1>1, <1>3, <2>1
    DEF Select, create_task, migrate_legacy, MigrateNext, Missing, Takes, NodePuts,
        written, history
  <2>2. ASSUME NEW t \in Task, NEW n \in 1..Attempts, PlaceWhenStored(t, n) PROVE Truthful'
    BY <1>1, <1>3, <2>2 DEF PlaceWhenStored, written
  <2>3. ASSUME close_task \/ Reload \/ UNCHANGED vars PROVE Truthful'
    BY <1>1, <1>3, <2>3 DEF close_task, Reload, vars, network, written, history
  <2>4. ASSUME NEW b \in Board \cup {None}, Visit(b) PROVE Truthful'
    BY <1>1, <1>3, <2>4 DEF Visit, network, written, history
  <2> QED
    BY <1>4, <1>5, <1>6, <1>7, <2>1, <2>2, <2>3, <2>4 DEF Next

-----------------------------------------------------------------------------
(* The tasks old cards become, when every board has one of them at most.   *)

Carded == {c[1] : c \in cards}

\* Every task is made of one old card; the task whose card is owed is made of
\* the one that is being converted, which is not retired, nor is what the page
\* offers; and an old card is retired when a task made of it gets its card.
Conversions ==
  /\ \A p \in replaces : p[1] \in Created
  /\ \A p, q \in replaces : p[1] = q[1] => p = q
  /\ \A p \in replaces : p[1] = pending_placement => p[2] = converting
  /\ converting # None =>
       /\ <<pending_placement, converting>> \in replaces
       /\ <<converting, board>> \notin retired
  /\ \A p \in replaces : p[1] \in Carded => \E b \in Board : <<p[2], b>> \in retired
  /\ board # None => \A l \in ToSet(legacy_tasks) : <<l, board>> \notin retired
  /\ RetiredWhenReplaced

OneCardEach ==
  \A p, q \in replaces :
    p[2] = q[2] /\ {p[1], q[1]} \subseteq Carded => p = q

\* An old card is on one board only.
LEMMA BoardsApart ==
  ASSUME Typed, NEW b \in Board, NEW c \in Board, NEW l,
         l \in ToSet(old[b]), l \in ToSet(old[c])
  PROVE  b = c
BY OldAssumption DEF Typed

\* What is offered is not retired.
LEMMA OfferedIsLeft ==
  ASSUME Typed, InTurn, NEW b \in Board, NEW tombs
  PROVE  \A l \in ToSet(Detected(b, legacy_queue, tombs)) : <<l, b>> \notin tombs
BY DetectedIsLeft DEF InTurn, Left

\* A card that comes back is retired where it was, and not before.
LEMMA ConversionsStep ==
  ASSUME Patient, Typed, Places, Single, Conversions, [Next]_vars
  PROVE  Conversions'
<1> USE TasksAssumption
<1>0. Single /\ InTurn /\ InHand /\ Truthful
  BY DEF Single
<1>t. board \in Board \cup {None}
  BY DEF Typed, TypeOK
\* What the page offers may change, and nothing else is disturbed.
<1>1. ASSUME UNCHANGED <<board, retired, cards, replaces>>,
             wanted \subseteq wanted', installed \subseteq installed',
             \/ UNCHANGED <<converting, pending_placement>>
             \/ converting' = None /\ \A p \in replaces : p[1] # pending_placement',
             board # None => \A l \in ToSet(legacy_tasks') : <<l, board>> \notin retired
      PROVE  Conversions'
  <2>1. \A p \in replaces' : p[1] \in Created'
    BY <1>1 DEF Conversions, Created
  <2>2. RetiredWhenReplaced'
    BY <1>1 DEF Conversions, RetiredWhenReplaced
  <2>3. Carded' = Carded
    BY <1>1 DEF Carded
  <2>4. \A p \in replaces' : p[1] = pending_placement' => p[2] = converting'
    BY <1>1 DEF Conversions
  <2> QED
    BY <1>1, <2>1, <2>2, <2>3, <2>4 DEF Conversions
<1>2. board # None => \A l \in ToSet(legacy_tasks) : <<l, board>> \notin retired
  BY DEF Conversions
<1>3. board # None =>
        \A l \in ToSet(Detected(board, legacy_queue, retired)) : <<l, board>> \notin retired
  BY <1>0, <1>t, OfferedIsLeft
<1>4. \A p \in replaces : p[1] # None
  BY DEF Typed, Task
<1>5. ASSUME NEW t \in Task, create_task(t) PROVE Conversions'
  <2>1. /\ UNCHANGED <<board, retired, cards, replaces, installed, legacy_tasks>>
        /\ wanted \subseteq wanted'
        /\ pending_placement' = t /\ converting' = converting
    BY <1>5 DEF create_task, Park, legacy, written
  <2>2. converting = None
    BY <1>5 DEF create_task, Free, Places
  <2>3. t \notin Created
    BY <1>0, <1>5, UnusedIsNew DEF create_task
  <2>4. \A p \in replaces : p[1] # t
    BY <2>3 DEF Conversions
  <2> QED
    BY <1>1, <1>2, <2>1, <2>2, <2>4
<1>6. ASSUME NEW t \in Task, migrate_legacy(t) PROVE Conversions'
  <2> DEFINE l == legacy_tasks[Len(legacy_tasks)]
  <2>1. /\ UNCHANGED <<board, retired, cards, installed>>
        /\ wanted' = wanted \cup {<<t, board>>}
        /\ pending_placement' = t /\ converting' = l
        /\ replaces' = replaces \cup {<<t, l>>}
        /\ board # None
    BY <1>6 DEF migrate_legacy, MigrateNext, Park, written
  <2>2. legacy_tasks # << >> /\ legacy_tasks \in Seq(OldCards)
    BY <1>6 DEF migrate_legacy, Typed
  <2>3. l \in ToSet(legacy_tasks)
    BY <2>2, LastAndRest
  <2>4. <<l, board>> \notin retired
    BY <1>2, <2>1, <2>3
  <2> HIDE DEF l
  <2>5. t \notin Created /\ \A c \in cards : c[1] # t
    BY <1>0, <1>6, UnusedIsNew DEF migrate_legacy
  <2>6. \A p \in replaces : p[1] # t
    BY <2>5 DEF Conversions
  <2>7. \A p \in replaces' : p \in replaces \/ (p[1] = t /\ p[2] = l)
    BY <2>1
  <2>8. \A p \in replaces' : p[1] \in Created'
    <3>1. \A w \in wanted : w[1] \in Created'
      BY <2>1 DEF Created
    <3>2. <<t, board>> \in wanted' /\ <<t, board>>[1] = t
      BY <2>1
    <3>3. t \in Created' /\ Created \subseteq Created'
      BY <3>1, <3>2 DEF Created
    <3> QED
      BY <2>7, <3>3 DEF Conversions
  <2>9. \A p, q \in replaces' : p[1] = q[1] => p = q
    BY <2>1, <2>6 DEF Conversions
  <2>10. \A p \in replaces' : p[1] = pending_placement' => p[2] = converting'
    BY <2>1, <2>6, <2>7
  <2>11. /\ <<pending_placement', converting'>> \in replaces'
         /\ <<converting', board'>> \notin retired'
    BY <2>1, <2>4
  <2>12. \A p \in replaces' : p[1] \in Carded' => \E b \in Board : <<p[2], b>> \in retired'
    <3>1. Carded' = Carded /\ t \notin Carded
      BY <2>1, <2>5 DEF Carded
    <3> QED
      BY <2>1, <2>7, <3>1 DEF Conversions
  <2>13. \A k \in ToSet(legacy_tasks') : <<k, board'>> \notin retired'
    BY <1>2, <1>3, <1>6, <2>1 DEF migrate_legacy
  <2>14. RetiredWhenReplaced'
    BY <2>1 DEF Conversions, RetiredWhenReplaced
  <2> QED
    BY <2>8, <2>9, <2>10, <2>11, <2>12, <2>13, <2>14 DEF Conversions
<1>7. ASSUME NEW t \in Task, NEW n \in 1..Attempts, PlaceWhenStored(t, n)
      PROVE  Conversions'
  <2>1. UNCHANGED <<board, installed, legacy, written, wanted, replaces>>
    BY <1>7 DEF PlaceWhenStored
  <2>2. <<t, n>> \in DOMAIN timers
    BY <1>7, TimerRings
  <2>3. pending_placement # None => t = pending_placement
    BY <1>0, <2>2 DEF InHand
  <2>4. pending_placement' = pending_placement
    BY <1>7, <2>3 DEF PlaceWhenStored, Park
  <2> QED
    BY <1>1, <1>2, <2>1, <2>4 DEF legacy, written
<1>8. ASSUME NEW t \in Task, Got(t) PROVE Conversions'
  <2>1. CASE ~IsOpenTask(t)
    BY <1>1, <1>2, <1>8, <2>1 DEF Got, legacy, written
  <2>2. CASE IsOpenTask(t)
    <3>1. /\ t \in installed
          /\ UNCHANGED <<board, installed, wanted, replaces>>
          /\ pending_placement' = None /\ converting' = None
          /\ pending_placement # None => t = pending_placement /\ board # None
      BY <1>0, <1>8, <2>2, GotInHand
    <3>2. cards' = cards \cup (IF pending_placement = None THEN {}
                              ELSE {<<pending_placement, board>>})
      BY <1>0, <1>8, <2>2, GotInHand
    <3>3. retired' = retired \cup (IF converting = None THEN {}
                                  ELSE {<<converting, board>>})
      BY <1>0, <1>8, <2>2, GotInHand
    <3>4. legacy_tasks' = IF pending_placement = None THEN legacy_tasks
                          ELSE Detected(board, legacy_queue, retired')
      BY <1>0, <1>8, <2>2, GotInHand
    <3>5. \A u \in Carded' : u \in Carded \/ u = pending_placement
      <4>1. \A c \in cards' : c \in cards \/ c[1] = pending_placement
        BY <3>2
      <4> QED
        BY <4>1 DEF Carded
    <3>6. \A p \in replaces' : p[1] \in Created'
      BY <3>1 DEF Conversions, Created
    <3>7. \A p \in replaces' : p[1] \in Carded' => \E b \in Board : <<p[2], b>> \in retired'
      <4> SUFFICES ASSUME NEW p \in replaces, p[1] \in Carded'
                   PROVE  \E b \in Board : <<p[2], b>> \in retired'
        BY <3>1
      <4>1. CASE p[1] \in Carded
        BY <3>3, <4>1 DEF Conversions
      <4>2. CASE p[1] = pending_placement
        <5>1. pending_placement # None /\ p[2] = converting /\ converting # None
          BY <1>4, <4>2, OldAssumption DEF Conversions, Typed
        <5>2. board \in Board /\ <<p[2], board>> \in retired'
          BY <1>t, <3>1, <3>3, <5>1
        <5> QED
          BY <5>2
      <4> QED
        BY <3>5, <4>1, <4>2
    <3>8. board # None => \A l \in ToSet(legacy_tasks') : <<l, board>> \notin retired'
      <4>1. CASE pending_placement = None
        <5>1. retired' = retired /\ legacy_tasks' = legacy_tasks
          BY <3>3, <3>4, <4>1 DEF Places
        <5> QED
          BY <1>2, <5>1
      <4>2. CASE pending_placement # None
        BY <1>0, <1>t, <3>4, <4>2, OfferedIsLeft
      <4> QED
        BY <4>1, <4>2
    <3>9. RetiredWhenReplaced'
      <4>1. \A r \in retired' : r \in retired \/ (r = <<converting, board>> /\ converting # None)
        BY <3>3
      <4> SUFFICES ASSUME NEW r \in retired'
                   PROVE  \E u \in installed : <<u, r[1]>> \in replaces /\ \E c \in cards' : c[1] = u
        BY <3>1 DEF RetiredWhenReplaced
      <4>2. CASE r \in retired
        BY <3>2, <4>2 DEF Conversions, RetiredWhenReplaced
      <4>3. CASE r = <<converting, board>> /\ converting # None
        <5>1. pending_placement # None /\ <<pending_placement, converting>> \in replaces
          BY <4>3 DEF Conversions, Places
        <5>2. <<pending_placement, board>> \in cards' /\ <<pending_placement, board>>[1] = pending_placement
          BY <3>2, <5>1
        <5>3. pending_placement \in installed /\ r[1] = converting
          BY <3>1, <4>3, <5>1
        <5> QED
          BY <5>1, <5>2, <5>3
      <4> QED
        BY <4>1, <4>2, <4>3
    <3> QED
      BY <1>4, <3>1, <3>6, <3>7, <3>8, <3>9 DEF Conversions
  <2> QED
    BY <2>1, <2>2
<1>9. ASSUME Reload PROVE Conversions'
  <2>1. /\ UNCHANGED <<board, retired, cards, replaces, wanted, installed>>
        /\ converting' = None /\ pending_placement' = None
        /\ legacy_tasks' = IF board = None THEN << >> ELSE Recovered(board, retired)
    BY <1>9 DEF Reload, written, history
  <2>2. board # None => Recovered(board, retired) = Detected(board, legacy_queue, retired)
    BY <1>0 DEF Detected, InTurn
  <2> QED
    BY <1>1, <1>3, <1>4, <2>1, <2>2
<1>10. ASSUME BoardChanged PROVE Conversions'
  BY <1>1, <1>3, <1>10 DEF BoardChanged, network, history
<1>11. ASSUME NEW b \in Board \cup {None}, Visit(b) PROVE Conversions'
  <2>1. /\ board' = b /\ UNCHANGED <<retired, cards, replaces, wanted, installed>>
        /\ converting' = None /\ converting = None /\ pending_placement' = None
        /\ legacy_tasks' = Detected(b, legacy_queue, retired)
    BY <1>11 DEF Visit, Free, Places, network, written, history
  <2>2. b # None => \A l \in ToSet(legacy_tasks') : <<l, b>> \notin retired
    BY <1>0, <2>1, OfferedIsLeft
  <2>3. Created' = Created /\ Carded' = Carded
    BY <2>1 DEF Created, Carded
  <2>4. RetiredWhenReplaced'
    BY <2>1 DEF Conversions, RetiredWhenReplaced
  <2> QED
    BY <1>4, <2>1, <2>2, <2>3, <2>4 DEF Conversions
<1> QED
  <2>1. ASSUME NEW t \in Task,
               Select(t) \/ Missing(t) \/ Changed(t) \/ NodePuts(t) \/ NodeGets(t)
        PROVE  Conversions'
    BY <1>1, <1>2, <2>1
    DEF Select, Missing, Changed, NodePuts, NodeGets, network, legacy, written,
        history
  <2>2. ASSUME close_task \/ UNCHANGED vars PROVE Conversions'
    BY <1>1, <1>2, <2>2 DEF close_task, vars, network, legacy, written, history
  <2> QED
    BY <1>5, <1>6, <1>7, <1>8, <1>9, <1>10, <1>11, <2>1, <2>2 DEF Next

\* No second card is written of an old one.
LEMMA OneCardEachStep ==
  ASSUME Patient, Typed, Places, Single, Conversions, OneCardEach, [Next]_vars
  PROVE  OneCardEach'
<1> USE TasksAssumption
<1>0. Single /\ InTurn /\ InHand
  BY DEF Single
<1>1. ASSUME UNCHANGED <<cards, replaces>> PROVE OneCardEach'
  BY <1>1 DEF OneCardEach, Carded
<1>2. ASSUME NEW t \in Task, migrate_legacy(t) PROVE OneCardEach'
  <2>1. /\ cards' = cards /\ t \in Unused
        /\ \A p \in replaces' : p \in replaces \/ p[1] = t
    BY <1>2 DEF migrate_legacy, MigrateNext, written
  <2>2. Carded' = Carded /\ t \notin Carded
    BY <1>0, <2>1, UnusedIsNew DEF Carded
  <2> QED
    BY <2>1, <2>2 DEF OneCardEach
<1>3. ASSUME NEW t \in Task, Got(t) PROVE OneCardEach'
  <2>1. CASE ~IsOpenTask(t) \/ pending_placement = None
    BY <1>0, <1>1, <1>3, <2>1, GotInHand DEF Got, written
  <2>2. CASE IsOpenTask(t) /\ pending_placement # None
    <3>1. /\ replaces' = replaces
          /\ \A c \in cards' : c \in cards \/ c[1] = pending_placement
      BY <1>0, <1>3, <2>2, GotInHand
    <3>2. \A u \in Carded' : u \in Carded \/ u = pending_placement
      BY <3>1 DEF Carded
    \* An old card with a card already is retired on its own board, which is
    \* not so of the one that is being converted.
    <3>3. ASSUME NEW p \in replaces, NEW q \in replaces, p[2] = q[2],
                 p[1] = pending_placement, q[1] \in Carded
          PROVE  FALSE
      <4>1. p[2] = converting /\ converting # None /\ board \in Board
        BY <2>2, <3>3, OldAssumption DEF Conversions, Places, Typed, TypeOK
      <4>2. PICK b \in Board : <<converting, b>> \in retired
        BY <3>3, <4>1 DEF Conversions
      <4>3. <<converting, b>>[1] = converting /\ <<converting, b>>[2] = b
        OBVIOUS
      <4>4. converting \in ToSet(old[b]) /\ converting \in ToSet(old[board])
        BY <2>2, <4>1, <4>2, <4>3 DEF Places
      <4>5. b = board
        BY <4>1, <4>4, BoardsApart
      <4> QED
        BY <4>1, <4>2, <4>5 DEF Conversions
    <3> SUFFICES ASSUME NEW p \in replaces, NEW q \in replaces, p[2] = q[2],
                        {p[1], q[1]} \subseteq Carded'
                 PROVE  p = q
      BY <3>1 DEF OneCardEach
    <3>4. CASE p[1] = q[1]
      BY <3>4 DEF Conversions
    <3>5. CASE p[1] # q[1]
      BY <3>2, <3>3, <3>5 DEF OneCardEach
    <3> QED
      BY <3>4, <3>5
  <2> QED
    BY <2>1, <2>2
<1> QED
  <2>1. ASSUME NEW t \in Task, NEW n \in 1..Attempts,
               \/ Select(t) \/ create_task(t) \/ Missing(t) \/ Changed(t)
               \/ NodePuts(t) \/ NodeGets(t) \/ PlaceWhenStored(t, n)
        PROVE  OneCardEach'
    BY <1>1, <2>1
    DEF Select, create_task, Missing, Changed, NodePuts, NodeGets,
        PlaceWhenStored, written, history
  <2>2. ASSUME NEW b \in Board \cup {None},
               close_task \/ Reload \/ BoardChanged \/ Visit(b) \/ UNCHANGED vars
        PROVE  OneCardEach'
    BY <1>1, <2>2
    DEF close_task, Reload, BoardChanged, Visit, vars, written, history
  <2>3. 1 \in 1..Attempts
    OBVIOUS
  <2> QED
    BY <1>2, <1>3, <2>1, <2>2, <2>3 DEF Next

-----------------------------------------------------------------------------
(* The theorems.                                                           *)

IInv ==
  /\ Typed
  /\ Places
  /\ Alone => Single /\ Conversions /\ OneCardEach

\* The inductive invariant holds at first.
LEMMA IInvInit == Init => IInv
<1> SUFFICES ASSUME Init PROVE IInv
  OBVIOUS
<1>1. Typed /\ Places
  BY TypedInit, PlacesInit
<1>2. ASSUME Alone PROVE InTurn
  <2>1. board \in Board /\ Len(old[board]) <= 1
    BY <1>2 DEF Init, Alone
  <2> QED
    BY <2>1 DEF Init, InTurn
<1>3. InHand
  BY NoTimers DEF Init, InHand
<1>4. Truthful
  BY DEF Init, Truthful
<1>5. Conversions /\ OneCardEach
  BY DEF Init, Conversions, OneCardEach, RetiredWhenReplaced
<1> QED
  BY <1>1, <1>2, <1>3, <1>4, <1>5 DEF IInv, Single

\* Every step of a patient user keeps the inductive invariant.
LEMMA IInvStep ==
  ASSUME Patient, IInv, [Next]_vars
  PROVE  IInv'
<1>1. Typed' /\ Places'
  BY TypedStep, PlacesStep DEF IInv
<1>2. Alone' => Alone
  <2>1. old' = old
    BY DEF Next, Select, create_task, migrate_legacy, PlaceWhenStored, Got, Missing,
           Changed, NodePuts, NodeGets, close_task, Reload, BoardChanged, Visit, vars,
           history
  <2> QED
    BY <2>1 DEF Alone
<1>3. ASSUME Alone PROVE Single' /\ Conversions' /\ OneCardEach'
  <2>1. Single /\ Conversions /\ OneCardEach /\ Typed /\ Places
    BY <1>3 DEF IInv
  <2>2. InTurn' /\ InHand' /\ Truthful'
    BY <1>3, <2>1, InTurnStep, InHandStep, TruthfulStep DEF Single
  <2> QED
    BY <2>1, <2>2, ConversionsStep, OneCardEachStep DEF Single
<1> QED
  BY <1>1, <1>2, <1>3 DEF IInv

\* The inductive invariant holds always, if the user is patient.
LEMMA PlacementSafety ==
  ASSUME Patient
  PROVE  Spec => []IInv
<1>1. Init => IInv
  BY IInvInit
<1>2. IInv /\ [Next]_vars => IInv'
  BY IInvStep
<1> QED
  BY <1>1, <1>2, PTL DEF Spec

\* The type invariant holds whatever the user does.
THEOREM PlacementTypesHold == Spec => []TypeOK
<1>1. Init => Typed
  BY TypedInit
<1>2. Typed /\ [Next]_vars => Typed'
  BY TypedStep
<1>3. Typed => TypeOK
  BY DEF Typed
<1> QED
  BY <1>1, <1>2, <1>3, PTL DEF Spec

\* A patient user never sees a card that opens onto nothing, nor one with
\* another task's title, where old cards are converted one at a time at most
\* (finish_placement and reconcile_summary).
THEOREM CardsAreTrueAlways ==
  ASSUME Patient
  PROVE  Spec => []CardsAreTrue
<1>1. IInv => CardsAreTrue
  BY DEF IInv, Single, Truthful, CardsAreTrue
<1> QED
  BY <1>1, PlacementSafety, PTL

\* However often a patient user's conversions fail and are begun again, an old
\* card is retired on its own board, after a task was made of it; and the only
\* one of a board comes back as one card, before it is retired (migrate_next
\* and finish_placement).
THEOREM OldCardsComeBackOnceAlways ==
  ASSUME Patient
  PROVE  Spec => []OldCardsComeBackOnce
<1>1. IInv => OldCardsComeBackOnce
  <2> SUFFICES ASSUME IInv PROVE OldCardsComeBackOnce
    OBVIOUS
  <2>1. \A r \in retired :
          r[1] \in ToSet(old[r[2]]) /\ \E p \in replaces : p[2] = r[1]
    BY DEF IInv, Places, Made
  <2>2. Alone => RetiredWhenReplaced /\ OneCardEach
    BY DEF IInv, Conversions
  <2> QED
    BY <2>1, <2>2 DEF OldCardsComeBackOnce, OneCardEach, Carded
<1> QED
  BY <1>1, PlacementSafety, PTL
=============================================================================
