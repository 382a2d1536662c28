---------------------------- MODULE ViewsProofs -----------------------------
(***************************************************************************)
(* Theorems about Views, for any keys and any ops in any order.            *)
(*                                                                         *)
(* Each fold takes one op at a time; what a reader says of a log speaks of *)
(* the last op of a kind, or the last but for another.  The lemmas show by *)
(* induction along the log that the two come to the same at every place.   *)
(***************************************************************************)
EXTENDS Views, TLAPS, WellFoundedInduction

-----------------------------------------------------------------------------
(* Along a log.                                                            *)

\* What holds of 0, and of every number up to N with the one before, holds up
\* to N.
LEMMA UpTo ==
  ASSUME NEW S, NEW N \in Nat, 0 \in S, \A n \in 1..N : n - 1 \in S => n \in S
  PROVE  0..N \subseteq S
<1> DEFINE T == (0..N) \ S
           R == OpToRel(<, Nat)
<1> SUFFICES ASSUME T # {} PROVE FALSE
  OBVIOUS
<1>1. T \subseteq Nat
  OBVIOUS
<1>2. PICK x \in T : \A y \in T : ~(<<y, x>> \in R)
  BY <1>1, NatLessThanWellFounded, WFMin
<1>3. x \in 1..N /\ x - 1 \in 0..N /\ x - 1 < x
  OBVIOUS
<1>4. <<x - 1, x>> \in R
  BY <1>3 DEF OpToRel
<1>5. x - 1 \in S
  BY <1>2, <1>3, <1>4
<1> QED
  BY <1>3, <1>5

\* Two that start alike and go on alike are alike.
LEMMA SameUpTo ==
  ASSUME NEW f, NEW g, NEW N \in Nat, f[0] = g[0],
         \A n \in 1..N : f[n - 1] = g[n - 1] => f[n] = g[n]
  PROVE  f[N] = g[N]
<1> DEFINE S == {n \in 0..N : f[n] = g[n]}
<1>1. 0 \in S /\ \A n \in 1..N : n - 1 \in S => n \in S
  OBVIOUS
<1>2. 0..N \subseteq S
  <2> HIDE DEF S
  <2> QED
    BY <1>1, UpTo
<1> QED
  BY <1>2

\* Those of some places that are among the first n.
Till(S, n) == {i \in S : i <= n}

\* What the last of some places is.
LEMMA LastIs ==
  ASSUME NEW S, NEW m \in Nat, S \subseteq Nat,
         m \in S \cup {0}, \A i \in S : i <= m
  PROVE  Latest(S) = m
<1> DEFINE A == S \cup {0}
           Top(x) == \A y \in A : x >= y
<1>1. m \in A /\ Top(m)
  OBVIOUS
<1>2. \A x \in A : Top(x) => x = m
  <2> SUFFICES ASSUME NEW x \in A, Top(x) PROVE x = m
    OBVIOUS
  <2>1. x >= m /\ m >= x /\ x \in Nat
    BY <1>1
  <2> QED
    BY <2>1
<1> HIDE DEF Top
<1>3. (CHOOSE x \in A : Top(x)) = m
  BY <1>1, <1>2
<1> QED
  BY <1>3 DEF Latest, Max, Top

\* There is a last of the places of a log, among the first n of them; one more
\* is the last of them itself, or changes nothing.
LEMMA LastTill ==
  ASSUME NEW N \in Nat, NEW S \in SUBSET (1..N)
  PROVE  /\ Latest(Till(S, 0)) = 0
         /\ \A n \in 1..N : Latest(Till(S, n)) = IF n \in S THEN n ELSE Latest(Till(S, n - 1))
         /\ \A n \in 0..N : /\ Latest(Till(S, n)) \in Till(S, n) \cup {0}
                            /\ \A i \in Till(S, n) : i <= Latest(Till(S, n))
         /\ Till(S, N) = S
         /\ \A n \in 0..N : \A i : i \in Till(S, n) <=> i \in S /\ i \in 1..n
<1> DEFINE Is(n) == /\ Latest(Till(S, n)) \in Till(S, n) \cup {0}
                    /\ \A i \in Till(S, n) : i <= Latest(Till(S, n))
           T == {n \in 0..N : Is(n)}
<1>1. ASSUME NEW n \in 0..N, NEW i
      PROVE  i \in Till(S, n) <=> i \in S /\ i \in 1..n
  <2>1. CASE i \in S
    <3>1. i \in 1..N
      BY <2>1
    <3> QED
      BY <2>1, <3>1 DEF Till
  <2>2. CASE i \notin S
    BY <2>2 DEF Till
  <2> QED
    BY <2>1, <2>2
<1>2. Till(S, 0) = {} /\ \A n \in 0..N : Till(S, n) \subseteq Nat
  BY <1>1
<1>3. Latest(Till(S, 0)) = 0
  BY <1>2, LastIs
<1>4. 0 \in T
  BY <1>2, <1>3
<1>5. ASSUME NEW n \in 1..N, n \in S
      PROVE  Latest(Till(S, n)) = n /\ n \in T
  <2>1. n \in Till(S, n) /\ \A i \in Till(S, n) : i <= n
    BY <1>1, <1>5
  <2>2. Latest(Till(S, n)) = n
    BY <1>2, <2>1, LastIs
  <2> QED
    BY <2>1, <2>2
<1>6. ASSUME NEW n \in 1..N, n \notin S
      PROVE  Till(S, n) = Till(S, n - 1)
  BY <1>1, <1>6
<1>7. 0..N \subseteq T
  <2>1. ASSUME NEW n \in 1..N, n - 1 \in T PROVE n \in T
    <3>1. CASE n \in S
      BY <1>5, <3>1
    <3>2. CASE n \notin S
      BY <1>6, <2>1, <3>2
    <3> QED
      BY <3>1, <3>2
  <2> HIDE DEF T
  <2> QED
    BY <1>4, <2>1, UpTo
<1>8. \A n \in 1..N : Latest(Till(S, n)) = IF n \in S THEN n ELSE Latest(Till(S, n - 1))
  BY <1>5, <1>6
<1>9. Till(S, N) = S
  <2>1. N \in 0..N /\ \A i \in S : i \in 1..N
    OBVIOUS
  <2>2. \A i : i \in Till(S, N) <=> i \in S
    BY <1>1, <2>1
  <2> QED
    BY <2>2
<1> QED
  BY <1>1, <1>3, <1>7, <1>8, <1>9

\* The places of those that say something of one kind, and of those that say it
\* of one thing.
Of(ops, P, kind) == {i \in P : ops[i].body.op = kind}
On(ops, P, kind, field, value) ==
  {i \in Of(ops, P, kind) : ops[i].body[field] = value}

LastOf(ops, P, kind, n) == Latest(Till(Of(ops, P, kind), n))
LastOn(ops, P, kind, field, value, n) == Latest(Till(On(ops, P, kind, field, value), n))

\* How the last of a kind moves along a log.
LEMMA LastOfMoves ==
  ASSUME NEW ops, NEW N \in Nat, NEW P \in SUBSET (1..N), NEW kind
  PROVE  /\ LastOf(ops, P, kind, 0) = 0
         /\ \A n \in 1..N : LastOf(ops, P, kind, n) =
              IF n \in P /\ ops[n].body.op = kind THEN n ELSE LastOf(ops, P, kind, n - 1)
         /\ \A n \in 0..N : LastOf(ops, P, kind, n) \in 0..n
         /\ LastOf(ops, P, kind, N) = Latest(Of(ops, P, kind))
<1> DEFINE S == Of(ops, P, kind)
<1>1. S \in SUBSET (1..N) /\ \A n : n \in S <=> n \in P /\ ops[n].body.op = kind
  BY DEF Of
<1> HIDE DEF S
<1>2. /\ Latest(Till(S, 0)) = 0
      /\ \A n \in 1..N : Latest(Till(S, n)) = IF n \in S THEN n ELSE Latest(Till(S, n - 1))
      /\ \A n \in 0..N : Latest(Till(S, n)) \in Till(S, n) \cup {0}
      /\ Till(S, N) = S
      /\ \A n \in 0..N : \A i : i \in Till(S, n) <=> i \in S /\ i \in 1..n
  BY <1>1, LastTill
<1>3. \A n \in 0..N : Latest(Till(S, n)) \in 0..n
  BY <1>2
<1> QED
  BY <1>1, <1>2, <1>3 DEF LastOf, S

\* Likewise of those about one thing.
OnMoves(ops, N, P, kind, field, value) ==
  /\ LastOn(ops, P, kind, field, value, 0) = 0
  /\ \A n \in 1..N : LastOn(ops, P, kind, field, value, n) =
       IF n \in P /\ ops[n].body.op = kind /\ ops[n].body[field] = value
       THEN n
       ELSE LastOn(ops, P, kind, field, value, n - 1)
  /\ \A n \in 0..N : LastOn(ops, P, kind, field, value, n) \in 0..n
  /\ \A n \in 0..N : LastOn(ops, P, kind, field, value, n) # 0 =>
       LastOn(ops, P, kind, field, value, n) \in On(ops, P, kind, field, value)
  /\ LastOn(ops, P, kind, field, value, N) = Latest(On(ops, P, kind, field, value))

\* The last of a kind about something moves to the op that is one of them.
LEMMA LastOnMoves ==
  ASSUME NEW ops, NEW N \in Nat, NEW P \in SUBSET (1..N), NEW kind, NEW field, NEW value
  PROVE  OnMoves(ops, N, P, kind, field, value)
<1> DEFINE S == On(ops, P, kind, field, value)
<1>1. /\ S \in SUBSET (1..N)
      /\ \A n : n \in S <=> n \in P /\ ops[n].body.op = kind /\ ops[n].body[field] = value
  BY DEF Of, On
<1> HIDE DEF S
<1>2. /\ Latest(Till(S, 0)) = 0
      /\ \A n \in 1..N : Latest(Till(S, n)) = IF n \in S THEN n ELSE Latest(Till(S, n - 1))
      /\ \A n \in 0..N : Latest(Till(S, n)) \in Till(S, n) \cup {0}
      /\ Till(S, N) = S
      /\ \A n \in 0..N : \A i : i \in Till(S, n) <=> i \in S /\ i \in 1..n
  BY <1>1, LastTill
<1>3. \A n \in 0..N : /\ Latest(Till(S, n)) \in 0..n
                      /\ Latest(Till(S, n)) # 0 => Latest(Till(S, n)) \in S
  BY <1>2
<1> QED
  BY <1>1, <1>2, <1>3 DEF LastOn, OnMoves, S

-----------------------------------------------------------------------------
(* Tasks.                                                                  *)

TaskOps == {"SetTitle", "SetDescription", "SetAssignee", "Link", "Unlink", "Attach", "Detach"}

\* What a field was last said to be, by one of the first n.
LastSaid(ops, P, kind, field, blank, n) ==
  IF LastOf(ops, P, kind, n) = 0 THEN blank ELSE ops[LastOf(ops, P, kind, n)].body[field]

\* The things done since they were last undone, by one of the first n.
Standing(ops, P, does, undoes, field, n) ==
  {v \in {ops[i].body[field] : i \in Of(ops, P, does)} :
     LastOn(ops, P, does, field, v, n) > LastOn(ops, P, undoes, field, v, n)}

\* How what was last said moves along a log.
SaidMoves(ops, N, P, kind, field, blank) ==
  /\ LastSaid(ops, P, kind, field, blank, 0) = blank
  /\ \A n \in 1..N : LastSaid(ops, P, kind, field, blank, n) =
       IF n \in P /\ ops[n].body.op = kind
       THEN ops[n].body[field]
       ELSE LastSaid(ops, P, kind, field, blank, n - 1)

\* What was last said is what the last op of the kind says.
LEMMA LastSaidMoves ==
  ASSUME NEW ops, NEW N \in Nat, NEW P \in SUBSET (1..N), NEW kind, NEW field, NEW blank
  PROVE  SaidMoves(ops, N, P, kind, field, blank)
<1> QED
  BY LastOfMoves DEF LastSaid, SaidMoves

\* How what stands moves along a log.
StandMoves(ops, N, P, does, undoes, field) ==
  LET at(n) == Standing(ops, P, does, undoes, field, n)
  IN  /\ at(0) = {}
      /\ \A n \in 1..N : at(n) =
           IF n \in P /\ ops[n].body.op = does
           THEN at(n - 1) \cup {ops[n].body[field]}
           ELSE IF n \in P /\ ops[n].body.op = undoes
           THEN at(n - 1) \ {ops[n].body[field]}
           ELSE at(n - 1)

\* What stands gains what an op does and loses what one undoes.
LEMMA StandingMoves ==
  ASSUME NEW ops, NEW N \in Nat, NEW P \in SUBSET (1..N), NEW field,
         NEW does, NEW undoes, does # undoes
  PROVE  StandMoves(ops, N, P, does, undoes, field)
<1> DEFINE at(n) == Standing(ops, P, does, undoes, field, n)
           done(v, n) == LastOn(ops, P, does, field, v, n)
           undone(v, n) == LastOn(ops, P, undoes, field, v, n)
           All == {ops[i].body[field] : i \in Of(ops, P, does)}
<1>1. \A n, v : v \in at(n) <=> v \in All /\ done(v, n) > undone(v, n)
  BY DEF Standing
<1>2. \A v : done(v, 0) = 0 /\ undone(v, 0) = 0
  BY LastOnMoves DEF OnMoves
<1>3. \A v : \A n \in 1..N :
        /\ done(v, n) = IF n \in P /\ ops[n].body.op = does /\ ops[n].body[field] = v
                        THEN n ELSE done(v, n - 1)
        /\ undone(v, n) = IF n \in P /\ ops[n].body.op = undoes /\ ops[n].body[field] = v
                          THEN n ELSE undone(v, n - 1)
        /\ done(v, n - 1) \in 0..(n - 1)
        /\ undone(v, n - 1) \in 0..(n - 1)
  <2> SUFFICES ASSUME NEW v, NEW n \in 1..N
      PROVE /\ done(v, n) = IF n \in P /\ ops[n].body.op = does /\ ops[n].body[field] = v
                            THEN n ELSE done(v, n - 1)
            /\ undone(v, n) = IF n \in P /\ ops[n].body.op = undoes /\ ops[n].body[field] = v
                              THEN n ELSE undone(v, n - 1)
            /\ done(v, n - 1) \in 0..(n - 1)
            /\ undone(v, n - 1) \in 0..(n - 1)
    OBVIOUS
  <2>1. n - 1 \in 0..N
    OBVIOUS
  <2>2. OnMoves(ops, N, P, does, field, v) /\ OnMoves(ops, N, P, undoes, field, v)
    BY LastOnMoves
  <2>3. /\ \A m \in 1..N : done(v, m) =
             IF m \in P /\ ops[m].body.op = does /\ ops[m].body[field] = v
             THEN m ELSE done(v, m - 1)
        /\ \A m \in 0..N : done(v, m) \in 0..m
    BY <2>2 DEF OnMoves
  <2>4. /\ \A m \in 1..N : undone(v, m) =
             IF m \in P /\ ops[m].body.op = undoes /\ ops[m].body[field] = v
             THEN m ELSE undone(v, m - 1)
        /\ \A m \in 0..N : undone(v, m) \in 0..m
    BY <2>2 DEF OnMoves
  <2> HIDE DEF done, undone
  <2> QED
    BY <2>1, <2>3, <2>4
<1>4. \A n \in 1..N : n \in P /\ ops[n].body.op = does => ops[n].body[field] \in All
  BY DEF Of
<1> HIDE DEF at, done, undone, All
<1>5. at(0) = {}
  BY <1>1, <1>2
<1>6. ASSUME NEW n \in 1..N, n \in P, ops[n].body.op = does
      PROVE  at(n) = at(n - 1) \cup {ops[n].body[field]}
  <2>1. ASSUME NEW v PROVE v \in at(n) <=> v \in at(n - 1) \/ v = ops[n].body[field]
    <3>1. CASE v = ops[n].body[field]
      <4>1. done(v, n) = n /\ undone(v, n) \in 0..(n - 1) /\ v \in All
        BY <1>3, <1>4, <1>6, <3>1
      <4> QED
        BY <1>1, <3>1, <4>1
    <3>2. CASE v # ops[n].body[field]
      <4>1. done(v, n) = done(v, n - 1) /\ undone(v, n) = undone(v, n - 1)
        BY <1>3, <1>6, <3>2
      <4> QED
        BY <1>1, <3>2, <4>1
    <3> QED
      BY <3>1, <3>2
  <2> QED
    BY <2>1
<1>7. ASSUME NEW n \in 1..N, n \in P, ops[n].body.op = undoes
      PROVE  at(n) = at(n - 1) \ {ops[n].body[field]}
  <2>1. ASSUME NEW v PROVE v \in at(n) <=> v \in at(n - 1) /\ v # ops[n].body[field]
    <3>1. CASE v = ops[n].body[field]
      <4>1. undone(v, n) = n /\ done(v, n) \in 0..(n - 1)
        BY <1>3, <1>7, <3>1
      <4> QED
        BY <1>1, <3>1, <4>1
    <3>2. CASE v # ops[n].body[field]
      <4>1. done(v, n) = done(v, n - 1) /\ undone(v, n) = undone(v, n - 1)
        BY <1>3, <1>7, <3>2
      <4> QED
        BY <1>1, <3>2, <4>1
    <3> QED
      BY <3>1, <3>2
  <2> QED
    BY <2>1
<1>8. ASSUME NEW n \in 1..N, ~(n \in P /\ ops[n].body.op \in {does, undoes})
      PROVE  at(n) = at(n - 1)
  <2>1. \A v : done(v, n) = done(v, n - 1) /\ undone(v, n) = undone(v, n - 1)
    BY <1>3, <1>8
  <2> QED
    BY <1>1, <2>1
<1>9. ASSUME NEW n \in 1..N
      PROVE  at(n) = IF n \in P /\ ops[n].body.op = does
                     THEN at(n - 1) \cup {ops[n].body[field]}
                     ELSE IF n \in P /\ ops[n].body.op = undoes
                     THEN at(n - 1) \ {ops[n].body[field]}
                     ELSE at(n - 1)
  BY <1>6, <1>7, <1>8
<1> QED
  BY <1>5, <1>9 DEF StandMoves, at

\* What is kept of each thing that stands: what was said when it was last done.
Kept(ops, P, does, undoes, field, says, n) ==
  [t \in Standing(ops, P, does, undoes, field, n) |->
     ops[LastOn(ops, P, does, field, t, n)].body[says]]

\* How a map of what stands moves along a log.
KeepMoves(ops, N, P, does, undoes, field, says) ==
  LET at(n) == Kept(ops, P, does, undoes, field, says, n)
  IN  /\ at(0) = NoEntries
      /\ \A n \in 1..N : at(n) =
           IF n \in P /\ ops[n].body.op = does
           THEN Put(at(n - 1), ops[n].body[field], ops[n].body[says])
           ELSE IF n \in P /\ ops[n].body.op = undoes
           THEN Without(at(n - 1), {ops[n].body[field]})
           ELSE at(n - 1)

\* What is kept of what stands is what the last op about it says.
LEMMA KeptMoves ==
  ASSUME NEW ops, NEW N \in Nat, NEW P \in SUBSET (1..N), NEW field, NEW says,
         NEW does, NEW undoes, does # undoes
  PROVE  KeepMoves(ops, N, P, does, undoes, field, says)
<1> DEFINE at(n) == Kept(ops, P, does, undoes, field, says, n)
           all(n) == Standing(ops, P, does, undoes, field, n)
           last(t, n) == LastOn(ops, P, does, field, t, n)
<1>1. /\ all(0) = {}
      /\ \A n \in 1..N : all(n) =
           IF n \in P /\ ops[n].body.op = does
           THEN all(n - 1) \cup {ops[n].body[field]}
           ELSE IF n \in P /\ ops[n].body.op = undoes
           THEN all(n - 1) \ {ops[n].body[field]}
           ELSE all(n - 1)
  <2>1. StandMoves(ops, N, P, does, undoes, field)
    BY StandingMoves
  <2> QED
    BY <2>1 DEF StandMoves
<1>2. ASSUME NEW t, NEW n \in 1..N
      PROVE  last(t, n) = IF n \in P /\ ops[n].body.op = does /\ ops[n].body[field] = t
                          THEN n ELSE last(t, n - 1)
  <2>1. OnMoves(ops, N, P, does, field, t)
    BY LastOnMoves
  <2> QED
    BY <2>1 DEF OnMoves
<1>3. \A n : at(n) = [t \in all(n) |-> ops[last(t, n)].body[says]]
  BY DEF Kept
<1> HIDE DEF at, all, last
<1>4. at(0) = NoEntries
  BY <1>1, <1>3 DEF NoEntries
<1>5. ASSUME NEW n \in 1..N, n \in P, ops[n].body.op = does
      PROVE  at(n) = Put(at(n - 1), ops[n].body[field], ops[n].body[says])
  <2>1. all(n) = all(n - 1) \cup {ops[n].body[field]}
    BY <1>1, <1>5
  <2>2. \A t \in all(n) : last(t, n) = IF t = ops[n].body[field] THEN n ELSE last(t, n - 1)
    BY <1>2, <1>5
  <2>3. at(n) = [t \in all(n - 1) \cup {ops[n].body[field]} |->
                   IF t = ops[n].body[field] THEN ops[n].body[says]
                   ELSE ops[last(t, n - 1)].body[says]]
    BY <1>3, <2>1, <2>2
  <2>4. at(n - 1) = [t \in all(n - 1) |-> ops[last(t, n - 1)].body[says]]
    BY <1>3
  <2> QED
    BY <2>3, <2>4 DEF Put
<1>6. ASSUME NEW n \in 1..N, n \in P, ops[n].body.op = undoes
      PROVE  at(n) = Without(at(n - 1), {ops[n].body[field]})
  <2>1. all(n) = all(n - 1) \ {ops[n].body[field]}
    BY <1>1, <1>6
  <2>2. \A t : last(t, n) = last(t, n - 1)
    BY <1>2, <1>6
  <2>3. at(n) = [t \in all(n - 1) \ {ops[n].body[field]} |->
                   ops[last(t, n - 1)].body[says]]
    BY <1>3, <2>1, <2>2
  <2>4. at(n - 1) = [t \in all(n - 1) |-> ops[last(t, n - 1)].body[says]]
    BY <1>3
  <2> QED
    BY <2>3, <2>4 DEF Without
<1>7. ASSUME NEW n \in 1..N, ~(n \in P /\ ops[n].body.op \in {does, undoes})
      PROVE  at(n) = at(n - 1)
  <2>1. all(n) = all(n - 1)
    BY <1>1, <1>7
  <2>2. \A t : last(t, n) = last(t, n - 1)
    BY <1>2, <1>7
  <2> QED
    BY <1>3, <2>1, <2>2
<1>8. ASSUME NEW n \in 1..N
      PROVE  at(n) = IF n \in P /\ ops[n].body.op = does
                     THEN Put(at(n - 1), ops[n].body[field], ops[n].body[says])
                     ELSE IF n \in P /\ ops[n].body.op = undoes
                     THEN Without(at(n - 1), {ops[n].body[field]})
                     ELSE at(n - 1)
  BY <1>5, <1>6, <1>7
<1> QED
  BY <1>4, <1>8 DEF KeepMoves, at

\* What a reader of the first n would say of the task.
TaskAt(ops, P, n) ==
  [title |-> LastSaid(ops, P, "SetTitle", "text", "", n),
   description |-> LastSaid(ops, P, "SetDescription", "text", "", n),
   assignee |-> LastSaid(ops, P, "SetAssignee", "member", {}, n),
   links |-> Kept(ops, P, "Link", "Unlink", "to", "link", n),
   boards |-> Standing(ops, P, "Attach", "Detach", "board", n)]

\* One more op moves a task as the fold does.
LEMMA TaskMoves ==
  ASSUME NEW ops, NEW N \in Nat, NEW P \in SUBSET (1..N),
         \A i \in P : ops[i].body.op \in TaskOps
  PROVE  /\ TaskAt(ops, P, 0) = Task!Blank
         /\ \A n \in 1..N : TaskAt(ops, P, n) =
              IF n \in P THEN Task!Step(TaskAt(ops, P, n - 1), ops[n].body)
              ELSE TaskAt(ops, P, n - 1)
<1> DEFINE title(n) == LastSaid(ops, P, "SetTitle", "text", "", n)
           description(n) == LastSaid(ops, P, "SetDescription", "text", "", n)
           assignee(n) == LastSaid(ops, P, "SetAssignee", "member", {}, n)
           links(n) == Kept(ops, P, "Link", "Unlink", "to", "link", n)
           boards(n) == Standing(ops, P, "Attach", "Detach", "board", n)
<1>1. /\ title(0) = ""
      /\ \A n \in 1..N : title(n) =
           IF n \in P /\ ops[n].body.op = "SetTitle" THEN ops[n].body.text ELSE title(n - 1)
  <2>1. SaidMoves(ops, N, P, "SetTitle", "text", "")
    BY LastSaidMoves
  <2> QED
    BY <2>1 DEF SaidMoves
<1>2. /\ description(0) = ""
      /\ \A n \in 1..N : description(n) =
           IF n \in P /\ ops[n].body.op = "SetDescription" THEN ops[n].body.text
           ELSE description(n - 1)
  <2>1. SaidMoves(ops, N, P, "SetDescription", "text", "")
    BY LastSaidMoves
  <2> QED
    BY <2>1 DEF SaidMoves
<1>3. /\ assignee(0) = {}
      /\ \A n \in 1..N : assignee(n) =
           IF n \in P /\ ops[n].body.op = "SetAssignee" THEN ops[n].body.member
           ELSE assignee(n - 1)
  <2>1. SaidMoves(ops, N, P, "SetAssignee", "member", {})
    BY LastSaidMoves
  <2> QED
    BY <2>1 DEF SaidMoves
<1>4. /\ links(0) = NoEntries
      /\ \A n \in 1..N : links(n) =
           IF n \in P /\ ops[n].body.op = "Link"
           THEN Put(links(n - 1), ops[n].body.to, ops[n].body.link)
           ELSE IF n \in P /\ ops[n].body.op = "Unlink"
           THEN Without(links(n - 1), {ops[n].body.to})
           ELSE links(n - 1)
  <2>1. KeepMoves(ops, N, P, "Link", "Unlink", "to", "link")
    BY KeptMoves
  <2> QED
    BY <2>1 DEF KeepMoves
<1>5. /\ boards(0) = {}
      /\ \A n \in 1..N : boards(n) =
           IF n \in P /\ ops[n].body.op = "Attach"
           THEN boards(n - 1) \cup {ops[n].body.board}
           ELSE IF n \in P /\ ops[n].body.op = "Detach"
           THEN boards(n - 1) \ {ops[n].body.board}
           ELSE boards(n - 1)
  <2>1. StandMoves(ops, N, P, "Attach", "Detach", "board")
    BY StandingMoves
  <2> QED
    BY <2>1 DEF StandMoves
<1>6. \A n : TaskAt(ops, P, n) = [title |-> title(n), description |-> description(n),
                                  assignee |-> assignee(n), links |-> links(n),
                                  boards |-> boards(n)]
  BY DEF TaskAt
<1> HIDE DEF title, description, assignee, links, boards
<1>7. TaskAt(ops, P, 0) = Task!Blank
  BY <1>1, <1>2, <1>3, <1>4, <1>5, <1>6 DEF Task!Blank, Task!NoEntries, NoEntries
<1>8. ASSUME NEW n \in 1..N, n \notin P
      PROVE  TaskAt(ops, P, n) = TaskAt(ops, P, n - 1)
  BY <1>1, <1>2, <1>3, <1>4, <1>5, <1>6, <1>8
<1>9. ASSUME NEW n \in 1..N, n \in P
      PROVE  TaskAt(ops, P, n) = Task!Step(TaskAt(ops, P, n - 1), ops[n].body)
  <2> DEFINE body == ops[n].body
  <2>1. body.op \in TaskOps
    BY <1>9
  <2>2. \A map, key, value : Task!Put(map, key, value) = Put(map, key, value)
    BY DEF Task!Put, Put
  <2>3. \A map, keys : Task!Without(map, keys) = Without(map, keys)
    BY DEF Task!Without, Without
  <2> DEFINE was == TaskAt(ops, P, n - 1)
  <2>4. was = [title |-> title(n - 1), description |-> description(n - 1),
                assignee |-> assignee(n - 1), links |-> links(n - 1),
                boards |-> boards(n - 1)]
    BY <1>6
  <2>5. CASE body.op = "SetTitle"
    <3>1. Task!Step(was, body) = [was EXCEPT !.title = body.text]
      BY <2>2, <2>3, <2>5 DEF Task!Step
    <3>2. /\ title(n) = body.text
          /\ description(n) = description(n - 1)
          /\ assignee(n) = assignee(n - 1)
          /\ links(n) = links(n - 1)
          /\ boards(n) = boards(n - 1)
      BY <1>1, <1>2, <1>3, <1>4, <1>5, <1>9, <2>5
    <3>3. Task!Step(was, body) = [title |-> title(n), description |-> description(n),
                                  assignee |-> assignee(n), links |-> links(n),
                                  boards |-> boards(n)]
      BY <2>4, <3>1, <3>2
    <3> QED
      BY <1>6, <3>3
  <2>6. CASE body.op = "SetDescription"
    <3>1. Task!Step(was, body) = [was EXCEPT !.description = body.text]
      BY <2>2, <2>3, <2>6 DEF Task!Step
    <3>2. /\ title(n) = title(n - 1)
          /\ description(n) = body.text
          /\ assignee(n) = assignee(n - 1)
          /\ links(n) = links(n - 1)
          /\ boards(n) = boards(n - 1)
      BY <1>1, <1>2, <1>3, <1>4, <1>5, <1>9, <2>6
    <3>3. Task!Step(was, body) = [title |-> title(n), description |-> description(n),
                                  assignee |-> assignee(n), links |-> links(n),
                                  boards |-> boards(n)]
      BY <2>4, <3>1, <3>2
    <3> QED
      BY <1>6, <3>3
  <2>7. CASE body.op = "SetAssignee"
    <3>1. Task!Step(was, body) = [was EXCEPT !.assignee = body.member]
      BY <2>2, <2>3, <2>7 DEF Task!Step
    <3>2. /\ title(n) = title(n - 1)
          /\ description(n) = description(n - 1)
          /\ assignee(n) = body.member
          /\ links(n) = links(n - 1)
          /\ boards(n) = boards(n - 1)
      BY <1>1, <1>2, <1>3, <1>4, <1>5, <1>9, <2>7
    <3>3. Task!Step(was, body) = [title |-> title(n), description |-> description(n),
                                  assignee |-> assignee(n), links |-> links(n),
                                  boards |-> boards(n)]
      BY <2>4, <3>1, <3>2
    <3> QED
      BY <1>6, <3>3
  <2>8. CASE body.op = "Link"
    <3>1. Task!Step(was, body) = [was EXCEPT !.links = Put(@, body.to, body.link)]
      BY <2>2, <2>3, <2>8 DEF Task!Step
    <3>2. /\ title(n) = title(n - 1)
          /\ description(n) = description(n - 1)
          /\ assignee(n) = assignee(n - 1)
          /\ links(n) = Put(links(n - 1), body.to, body.link)
          /\ boards(n) = boards(n - 1)
      BY <1>1, <1>2, <1>3, <1>4, <1>5, <1>9, <2>8
    <3>3. Task!Step(was, body) = [title |-> title(n), description |-> description(n),
                                  assignee |-> assignee(n), links |-> links(n),
                                  boards |-> boards(n)]
      BY <2>4, <3>1, <3>2
    <3> QED
      BY <1>6, <3>3
  <2>9. CASE body.op = "Unlink"
    <3>1. Task!Step(was, body) = [was EXCEPT !.links = Without(@, {body.to})]
      BY <2>2, <2>3, <2>9 DEF Task!Step
    <3>2. /\ title(n) = title(n - 1)
          /\ description(n) = description(n - 1)
          /\ assignee(n) = assignee(n - 1)
          /\ links(n) = Without(links(n - 1), {body.to})
          /\ boards(n) = boards(n - 1)
      BY <1>1, <1>2, <1>3, <1>4, <1>5, <1>9, <2>9
    <3>3. Task!Step(was, body) = [title |-> title(n), description |-> description(n),
                                  assignee |-> assignee(n), links |-> links(n),
                                  boards |-> boards(n)]
      BY <2>4, <3>1, <3>2
    <3> QED
      BY <1>6, <3>3
  <2>10. CASE body.op = "Attach"
    <3>1. Task!Step(was, body) = [was EXCEPT !.boards = was.boards \cup {body.board}]
      BY <2>2, <2>3, <2>10 DEF Task!Step
    <3>2. /\ title(n) = title(n - 1)
          /\ description(n) = description(n - 1)
          /\ assignee(n) = assignee(n - 1)
          /\ links(n) = links(n - 1)
          /\ boards(n) = boards(n - 1) \cup {body.board}
      BY <1>1, <1>2, <1>3, <1>4, <1>5, <1>9, <2>10
    <3>3. was.boards \cup {body.board} = boards(n)
      BY <2>4, <3>2
    <3>4. Task!Step(was, body) = [title |-> title(n), description |-> description(n),
                                  assignee |-> assignee(n), links |-> links(n),
                                  boards |-> boards(n)]
      <4> DEFINE new == was.boards \cup {body.board}
      <4>1. Task!Step(was, body) = [was EXCEPT !.boards = new]
        BY <3>1
      <4> HIDE DEF new, was
      <4>2. [was EXCEPT !.boards = new]
              = [title |-> title(n - 1), description |-> description(n - 1),
                 assignee |-> assignee(n - 1), links |-> links(n - 1), boards |-> new]
        BY <2>4
      <4> QED
        BY <3>2, <3>3, <4>1, <4>2 DEF new
    <3> QED
      BY <1>6, <3>4
  <2>11. CASE body.op = "Detach"
    <3>1. Task!Step(was, body) = [was EXCEPT !.boards = was.boards \ {body.board}]
      BY <2>2, <2>3, <2>11 DEF Task!Step
    <3>2. /\ title(n) = title(n - 1)
          /\ description(n) = description(n - 1)
          /\ assignee(n) = assignee(n - 1)
          /\ links(n) = links(n - 1)
          /\ boards(n) = boards(n - 1) \ {body.board}
      BY <1>1, <1>2, <1>3, <1>4, <1>5, <1>9, <2>11
    <3>3. was.boards \ {body.board} = boards(n)
      BY <2>4, <3>2
    <3>4. Task!Step(was, body) = [title |-> title(n), description |-> description(n),
                                  assignee |-> assignee(n), links |-> links(n),
                                  boards |-> boards(n)]
      <4> DEFINE new == was.boards \ {body.board}
      <4>1. Task!Step(was, body) = [was EXCEPT !.boards = new]
        BY <3>1
      <4> HIDE DEF new, was
      <4>2. [was EXCEPT !.boards = new]
              = [title |-> title(n - 1), description |-> description(n - 1),
                 assignee |-> assignee(n - 1), links |-> links(n - 1), boards |-> new]
        BY <2>4
      <4> QED
        BY <3>2, <3>3, <4>1, <4>2 DEF new
    <3> QED
      BY <1>6, <3>4
  <2> QED
    BY <2>1, <2>5, <2>6, <2>7, <2>8, <2>9, <2>10, <2>11 DEF TaskOps
<1> QED
  BY <1>7, <1>8, <1>9

\* The fold says of a task what a reader would.
LEMMA TaskFolded ==
  ASSUME NEW ops, NEW N \in Nat, Len(ops) = N, Task!Applied(ops) \in SUBSET (1..N),
         \A i \in Task!Applied(ops) : ops[i].body.op \in TaskOps
  PROVE  Task!from_state(ops) = TaskAt(ops, Task!Applied(ops), N)
<1> DEFINE P == Task!Applied(ops)
           f == [n \in 0..N |-> TaskAt(ops, P, n)]
           Body(g, n) == IF n = 0 THEN Task!Blank
                         ELSE IF n \in P THEN Task!Step(g[n - 1], ops[n].body)
                         ELSE g[n - 1]
           upto == CHOOSE g : g = [n \in 0..N |-> Body(g, n)]
<1>1. Task!from_state(ops) = upto[N]
  BY DEF Task!from_state, Task!FoldAt
<1>2. /\ TaskAt(ops, P, 0) = Task!Blank
      /\ \A n \in 1..N : TaskAt(ops, P, n) =
           IF n \in P THEN Task!Step(TaskAt(ops, P, n - 1), ops[n].body)
           ELSE TaskAt(ops, P, n - 1)
  <2> HIDE DEF P
  <2> QED
    BY TaskMoves DEF P
<1>3. f = [n \in 0..N |-> Body(f, n)]
  <2> HIDE DEF P
  <2>1. \A n \in 0..N : TaskAt(ops, P, n) = Body(f, n)
    BY <1>2
  <2> QED
    BY <2>1
<1>4. upto = [n \in 0..N |-> Body(upto, n)]
  <2> HIDE DEF f, Body
  <2> QED
    BY <1>3
<1>5. upto[0] = f[0] /\ \A n \in 1..N : upto[n - 1] = f[n - 1] => upto[n] = f[n]
  <2> HIDE DEF f, upto, P
  <2> QED
    BY <1>3, <1>4
<1>6. upto[N] = f[N]
  <2> HIDE DEF f, upto
  <2> QED
    BY <1>5, SameUpTo
<1> QED
  BY <1>1, <1>6

-----------------------------------------------------------------------------
(* Who counts.                                                             *)

\* The folds ask the same authority as the contract.
LEMMA SameAuthority ==
  ASSUME NEW ops
  PROVE  /\ Board!authority(ops) = authority(ops)
         /\ Task!authority(ops) = authority(ops)
         /\ Org!authority(ops) = authority(ops)
         /\ User!authority(ops) = authority(ops)
<1> USE DEF authority, authority_in, Stamped, FoldPlace, Fold, Empty, is_authority,
            ApplyGrant, GrantHonoured, Resigning, MayGrantTo, Conferred,
            ApplyLink, LinkHonoured, ApplyUnlink, UnlinkHonoured,
            person, rights_of, Roots, NONE, ALL, ADMIN, MEMBER,
            MAY_GRANT, MAY_APPOINT, WRITE_TASKS, WRITE_COLUMNS,
            LINK_TASKS, ADMINISTER, SET_NAME
<1>1. Board!authority(ops) = authority(ops)
  BY Zenon DEF Board!authority, Board!authority_in, Board!Stamped,
    Board!FoldPlace, Board!Fold, Board!Empty, Board!is_authority,
    Board!ApplyGrant, Board!GrantHonoured, Board!Resigning,
    Board!MayGrantTo, Board!Conferred, Board!ApplyLink, Board!LinkHonoured,
    Board!ApplyUnlink, Board!UnlinkHonoured, Board!person, Board!rights_of,
    Board!Roots, Board!NONE, Board!ALL, Board!ADMIN, Board!MEMBER,
    Board!MAY_GRANT, Board!MAY_APPOINT, Board!WRITE_TASKS,
    Board!WRITE_COLUMNS, Board!LINK_TASKS, Board!ADMINISTER, Board!SET_NAME
<1>2. Task!authority(ops) = authority(ops)
  BY Zenon DEF Task!authority, Task!authority_in, Task!Stamped,
    Task!FoldPlace, Task!Fold, Task!Empty, Task!is_authority,
    Task!ApplyGrant, Task!GrantHonoured, Task!Resigning, Task!MayGrantTo,
    Task!Conferred, Task!ApplyLink, Task!LinkHonoured, Task!ApplyUnlink,
    Task!UnlinkHonoured, Task!person, Task!rights_of, Task!Roots, Task!NONE,
    Task!ALL, Task!ADMIN, Task!MEMBER, Task!MAY_GRANT, Task!MAY_APPOINT,
    Task!WRITE_TASKS, Task!WRITE_COLUMNS, Task!LINK_TASKS, Task!ADMINISTER,
    Task!SET_NAME
<1>3. Org!authority(ops) = authority(ops)
  BY Zenon DEF Org!authority, Org!authority_in, Org!Stamped, Org!FoldPlace,
    Org!Fold, Org!Empty, Org!is_authority, Org!ApplyGrant,
    Org!GrantHonoured, Org!Resigning, Org!MayGrantTo, Org!Conferred,
    Org!ApplyLink, Org!LinkHonoured, Org!ApplyUnlink, Org!UnlinkHonoured,
    Org!person, Org!rights_of, Org!Roots, Org!NONE, Org!ALL, Org!ADMIN,
    Org!MEMBER, Org!MAY_GRANT, Org!MAY_APPOINT, Org!WRITE_TASKS,
    Org!WRITE_COLUMNS, Org!LINK_TASKS, Org!ADMINISTER, Org!SET_NAME
<1>4. User!authority(ops) = authority(ops)
  BY Zenon DEF User!authority, User!authority_in, User!Stamped,
    User!FoldPlace, User!Fold, User!Empty, User!is_authority,
    User!ApplyGrant, User!GrantHonoured, User!Resigning, User!MayGrantTo,
    User!Conferred, User!ApplyLink, User!LinkHonoured, User!ApplyUnlink,
    User!UnlinkHonoured, User!person, User!rights_of, User!Roots, User!NONE,
    User!ALL, User!ADMIN, User!MEMBER, User!MAY_GRANT, User!MAY_APPOINT,
    User!WRITE_TASKS, User!WRITE_COLUMNS, User!LINK_TASKS, User!ADMINISTER,
    User!SET_NAME
<1> QED
  BY <1>1, <1>2, <1>3, <1>4

\* The places that can count.
Readable(ops) == {i \in DOMAIN ops : ops[i].kind = "APPLICATION" /\ ops[i].legible}

\* What counts in each fold, in the words of Views.
LEMMA AppliedAre ==
  ASSUME NEW ops
  PROVE  LET a == authority(ops)
         IN  /\ Board!Applied(ops) = {i \in Readable(ops) :
                  Board!needs(ops[i].body) \subseteq ever_rights_of(a, ops[i].author)}
             /\ Task!Applied(ops) = {i \in Readable(ops) :
                  Task!needs(ops[i].body) \subseteq ever_rights_of(a, ops[i].author)}
             /\ Org!Applied(ops) = {i \in Readable(ops) :
                  Org!needs(ops[i].body)
                    \subseteq ever_rights_of(a, ever_person(a, ops[i].author))}
             /\ User!Applied(ops) = {i \in Readable(ops) :
                  User!needs(ops[i].body) \subseteq ever_rights_of(a, ops[i].author)}
<1> USE SameAuthority DEF Readable, ever_rights_of, ever_person
<1>1. Board!Applied(ops) = {i \in Readable(ops) :
        Board!needs(ops[i].body) \subseteq ever_rights_of(authority(ops), ops[i].author)}
  BY DEF Board!Applied, Board!application_ops, Board!Entitled, Board!ever_rights_of,
         Board!ever_person
<1>2. Task!Applied(ops) = {i \in Readable(ops) :
        Task!needs(ops[i].body) \subseteq ever_rights_of(authority(ops), ops[i].author)}
  BY DEF Task!Applied, Task!application_ops, Task!Entitled, Task!ever_rights_of,
         Task!ever_person
<1>3. Org!Applied(ops) = {i \in Readable(ops) :
        Org!needs(ops[i].body) \subseteq
          ever_rights_of(authority(ops), ever_person(authority(ops), ops[i].author))}
  BY DEF Org!Applied, Org!application_ops, Org!Entitled, Org!ever_rights_of,
         Org!ever_person
<1>4. User!Applied(ops) = {i \in Readable(ops) :
        User!needs(ops[i].body) \subseteq ever_rights_of(authority(ops), ops[i].author)}
  BY DEF User!Applied, User!application_ops, User!Entitled, User!ever_rights_of,
         User!ever_person
<1> QED
  BY <1>1, <1>2, <1>3, <1>4

-----------------------------------------------------------------------------
(* Everything that is reached.                                             *)

\* The state is of ops that can be written, in an order the contract accepts,
\* and what is shown is what it folds to.
ViewsInv ==
  /\ contract \in Contracts
  /\ log \in Seq(Pool[contract])
  /\ log = << >> \/ Valid(log)
  /\ view = Folded(contract, log)

\* An op that arrives goes among ops that can be written.
LEMMA Inserted ==
  ASSUME NEW S, NEW s \in Seq(S), NEW op \in S, NEW place \in 1..(Len(s) + 1)
  PROVE  /\ InsertAt(s, place, op) \in Seq(S)
         /\ Len(InsertAt(s, place, op)) = Len(s) + 1
         /\ \A i \in 1..(Len(s) + 1) : InsertAt(s, place, op)[i] =
              IF i < place THEN s[i] ELSE IF i = place THEN op ELSE s[i - 1]
<1> DEFINE before == SubSeq(s, 1, place - 1)
           after == SubSeq(s, place, Len(s))
<1>1. /\ before \in Seq(S) /\ Len(before) = place - 1
      /\ \A i \in 1..(place - 1) : before[i] = s[i]
  OBVIOUS
<1>2. /\ after \in Seq(S) /\ Len(after) = Len(s) + 1 - place
      /\ \A i \in 1..(Len(s) + 1 - place) : after[i] = s[place + i - 1]
  OBVIOUS
<1>3. InsertAt(s, place, op) = before \o <<op>> \o after
  BY DEF InsertAt
<1> HIDE DEF before, after
<1> DEFINE head == before \o <<op>>
<1>4. /\ head \in Seq(S) /\ Len(head) = place
      /\ \A i \in 1..place : head[i] = IF i < place THEN s[i] ELSE op
  BY <1>1
<1>5. InsertAt(s, place, op) = head \o after
  BY <1>3
<1> HIDE DEF head
<1>6. head \o after \in Seq(S) /\ Len(head \o after) = Len(s) + 1
  BY <1>2, <1>4
<1>7. ASSUME NEW i \in 1..(Len(s) + 1)
      PROVE  (head \o after)[i] = IF i <= place THEN head[i] ELSE after[i - place]
  BY <1>2, <1>4
<1>8. ASSUME NEW i \in 1..(Len(s) + 1), ~(i <= place)
      PROVE  after[i - place] = s[i - 1]
  BY <1>2, <1>8
<1> QED
  BY <1>4, <1>5, <1>6, <1>7, <1>8

\* What is shown is the fold of a valid log, and the log has what the pool has.
LEMMA ViewsInvHolds == ViewsSpec => []ViewsInv
<1>1. ViewsInit => ViewsInv
  BY DEF ViewsInit, ViewsInv
<1>2. ViewsInv /\ [ViewsNext]_views_vars => ViewsInv'
  <2> SUFFICES ASSUME ViewsInv, [ViewsNext]_views_vars PROVE ViewsInv'
    OBVIOUS
  <2>1. CASE UNCHANGED views_vars
    BY <2>1 DEF ViewsInv, views_vars
  <2>2. CASE ViewsNext
    <3>1. PICK op \in Pool[contract], place \in 1..(Len(log) + 1) : Receive(op, place)
      BY <2>2 DEF ViewsNext
    <3>2. InsertAt(log, place, op) \in Seq(Pool[contract])
      BY Inserted DEF ViewsInv
    <3> QED
      BY <3>1, <3>2 DEF ViewsInv, Receive
  <2> QED
    BY <2>1, <2>2
<1> QED
  BY <1>1, <1>2, PTL DEF ViewsSpec

\* Everything a state's ops declare, their authors were ever entitled to.
LEMMA DeclaredWasHeld ==
  ASSUME ViewsInv, NEW i \in Readable(log)
  PROVE  /\ log[i] \in Pool[contract]
         /\ log[i].author \in Key
         /\ IsBody(contract, log[i].body)
         /\ log[i].rights \subseteq ever_rights_of(authority(log), log[i].author)
<1>1. i \in DOMAIN log /\ log[i] \in Pool[contract] /\ Valid(log)
  BY DEF ViewsInv, Readable
<1>2. /\ log[i] \in [key : Nat, scope : {Here} \cup OrgScope,
                     kind : {"GRANT", "LINK_DEVICE", "UNLINK_DEVICE", "APPLICATION"},
                     author : Key, target : Key, rights : SUBSET ALL,
                     signed : BOOLEAN, legible : BOOLEAN, body : {log[i].body}]
      /\ IsBody(contract, log[i].body)
  BY <1>1, ViewsAssumption DEF ViewsInv, PoolAssumption, Readable
<1> DEFINE stamped == [log[i] EXCEPT !.key = i]
<1>3. /\ stamped.kind = "APPLICATION" /\ stamped.author = log[i].author
      /\ stamped.rights = log[i].rights
  BY <1>2 DEF Readable
<1>4. Permitted(authority(log), stamped)
  BY <1>1 DEF Valid, validate_in, Stamped, authority
<1> HIDE DEF stamped
<1> QED
  BY <1>1, <1>2, <1>3, <1>4 DEF Permitted, is_authority

\* Nothing that was accepted and says what it needs is left out, of any number
\* of ops, written by whoever, in whatever order they came.
THEOREM AcceptedWorkIsAlwaysShown == ViewsSpec => []AcceptedWorkIsShown
<1>1. ViewsInv => AcceptedWorkIsShown
  <2> SUFFICES ASSUME ViewsInv, contract = "org" => Plain(log),
                      NEW i \in Readable(log),
                      needs(log[i].body) \subseteq log[i].rights
               PROVE  i \in Applied
    BY DEF AcceptedWorkIsShown, WorkIsShown, Readable
  <2> DEFINE a == authority(log)
  <2>1. /\ log[i].author \in Key
        /\ needs(log[i].body) \subseteq ever_rights_of(a, log[i].author)
    BY DeclaredWasHeld
  <2>2. CASE contract = "board"
    BY <2>1, <2>2, AppliedAre DEF Applied, needs
  <2>3. CASE contract = "task"
    BY <2>1, <2>3, AppliedAre DEF Applied, needs
  <2>4. CASE contract = "org"
    <3>1. ever_person(a, ever_person(a, log[i].author)) = ever_person(a, log[i].author)
      BY <2>1, <2>4 DEF Plain
    <3> QED
      BY <2>1, <2>4, <3>1, AppliedAre DEF Applied, needs, ever_rights_of
  <2>5. CASE contract = "user"
    BY <2>1, <2>5, AppliedAre DEF Applied, needs
  <2> QED
    BY <2>2, <2>3, <2>4, <2>5, ViewsAssumption DEF ViewsInv
<1> QED
  BY <1>1, ViewsInvHolds, PTL

-----------------------------------------------------------------------------
(* Profiles.                                                               *)

\* All that was ever said in a field, by the first n.
Ever(ops, P, kind, field, n) == {ops[i].body[field] : i \in Till(Of(ops, P, kind), n)}

EverMoves(ops, N, P, kind, field) ==
  LET at(n) == Ever(ops, P, kind, field, n)
  IN  /\ at(0) = {}
      /\ \A n \in 1..N : at(n) = IF n \in P /\ ops[n].body.op = kind
                                 THEN at(n - 1) \cup {ops[n].body[field]}
                                 ELSE at(n - 1)

\* What was ever named gains what an op of the kind names.
LEMMA EverGrows ==
  ASSUME NEW ops, NEW N \in Nat, NEW P \in SUBSET (1..N), NEW kind, NEW field
  PROVE  EverMoves(ops, N, P, kind, field)
<1> DEFINE S == Of(ops, P, kind)
           at(n) == Ever(ops, P, kind, field, n)
<1>1. S \in SUBSET (1..N) /\ \A n : n \in S <=> n \in P /\ ops[n].body.op = kind
  BY DEF Of
<1>2. \A n : at(n) = {ops[i].body[field] : i \in Till(S, n)}
  BY DEF Ever
<1> HIDE DEF S, at
<1>3. \A n \in 0..N : \A i : i \in Till(S, n) <=> i \in S /\ i \in 1..n
  BY <1>1, LastTill
<1>4. at(0) = {}
  BY <1>2, <1>3
<1>5. ASSUME NEW n \in 1..N, n \in S
      PROVE  at(n) = at(n - 1) \cup {ops[n].body[field]}
  <2>1. Till(S, n) = Till(S, n - 1) \cup {n}
    BY <1>3, <1>5
  <2> QED
    BY <1>2, <2>1
<1>6. ASSUME NEW n \in 1..N, n \notin S
      PROVE  at(n) = at(n - 1)
  <2>1. \A i : i \in Till(S, n) <=> i \in Till(S, n - 1)
    <3>1. n \in 0..N /\ n - 1 \in 0..N /\ \A i \in 1..n : i = n \/ i \in 1..(n - 1)
      OBVIOUS
    <3> QED
      BY <1>3, <1>6, <3>1
  <2> QED
    BY <1>2, <2>1
<1> QED
  BY <1>1, <1>4, <1>5, <1>6 DEF EverMoves, at

\* A bookmark stands, among the first n, if it was made after both it and the
\* organization it was made under were last left.
Bookmarked(ops, P, b, n) ==
  LET joined == LastOn(ops, P, "JoinedBoard", "board", b, n)
  IN  /\ joined > LastOn(ops, P, "LeftBoard", "board", b, n)
      /\ \A org \in ops[joined].body.org : joined > LastOn(ops, P, "LeftOrg", "org", org, n)

Bookmarks(ops, P, n) ==
  [b \in {b \in {ops[i].body.board : i \in Of(ops, P, "JoinedBoard")} :
            Bookmarked(ops, P, b, n)} |->
     ops[LastOn(ops, P, "JoinedBoard", "board", b, n)].body.org]

UserOps == {"SetName", "SetDeviceLabel", "JoinedBoard", "LeftBoard", "JoinedOrg", "LeftOrg"}

\* One more op changes the bookmarks as the fold does.
BookmarksMove(ops, N, P) ==
  LET at(n) == Bookmarks(ops, P, n)
  IN  /\ at(0) = NoEntries
      /\ \A n \in 1..N :
           /\ n \in P /\ ops[n].body.op = "JoinedBoard" =>
                at(n) = Put(at(n - 1), ops[n].body.board, ops[n].body.org)
           /\ n \in P /\ ops[n].body.op = "LeftBoard" =>
                at(n) = Without(at(n - 1), {ops[n].body.board})
           /\ n \in P /\ ops[n].body.op = "LeftOrg" =>
                at(n) = Without(at(n - 1),
                          {b \in DOMAIN at(n - 1) : at(n - 1)[b] = {ops[n].body.org}})
           /\ ~(n \in P /\ ops[n].body.op \in {"JoinedBoard", "LeftBoard", "LeftOrg"}) =>
                at(n) = at(n - 1)

\* The bookmarks of a user, at every place, move as the fold moves them.
LEMMA BookmarksAre ==
  ASSUME NEW ops, NEW N \in Nat, NEW P \in SUBSET (1..N),
         \A i \in P : ops[i].body.op = "JoinedBoard" =>
           \A org \in ops[i].body.org : ops[i].body.org = {org}
  PROVE  BookmarksMove(ops, N, P)
<1> DEFINE at(n) == Bookmarks(ops, P, n)
           All == {ops[i].body.board : i \in Of(ops, P, "JoinedBoard")}
           joined(b, n) == LastOn(ops, P, "JoinedBoard", "board", b, n)
           left(b, n) == LastOn(ops, P, "LeftBoard", "board", b, n)
           quit(o, n) == LastOn(ops, P, "LeftOrg", "org", o, n)
           under(b, n) == ops[joined(b, n)].body.org
           all(n) == {b \in All : Bookmarked(ops, P, b, n)}
<1>1. \A n, b : b \in all(n) <=> /\ b \in All
                                 /\ joined(b, n) > left(b, n)
                                 /\ \A org \in under(b, n) : joined(b, n) > quit(org, n)
  BY DEF Bookmarked
<1>2. \A n : at(n) = [b \in all(n) |-> under(b, n)]
  BY DEF Bookmarks
<1>3. ASSUME NEW b, NEW n \in 1..N
      PROVE  /\ joined(b, n) = IF n \in P /\ ops[n].body.op = "JoinedBoard"
                                    /\ ops[n].body.board = b
                               THEN n ELSE joined(b, n - 1)
             /\ joined(b, n - 1) \in 0..(n - 1)
             /\ joined(b, n - 1) # 0 => /\ joined(b, n - 1) \in P
                                        /\ ops[joined(b, n - 1)].body.op = "JoinedBoard"
  <2>1. OnMoves(ops, N, P, "JoinedBoard", "board", b)
    BY LastOnMoves
  <2>2. n - 1 \in 0..N
    OBVIOUS
  <2> QED
    BY <2>1, <2>2 DEF OnMoves, On, Of
<1>4. ASSUME NEW b, NEW n \in 1..N
      PROVE  /\ left(b, n) = IF n \in P /\ ops[n].body.op = "LeftBoard"
                                  /\ ops[n].body.board = b
                             THEN n ELSE left(b, n - 1)
             /\ left(b, n - 1) \in 0..(n - 1)
  <2>1. OnMoves(ops, N, P, "LeftBoard", "board", b)
    BY LastOnMoves
  <2>2. n - 1 \in 0..N
    OBVIOUS
  <2> QED
    BY <2>1, <2>2 DEF OnMoves
<1>5. ASSUME NEW org, NEW n \in 1..N
      PROVE  /\ quit(org, n) = IF n \in P /\ ops[n].body.op = "LeftOrg"
                                    /\ ops[n].body.org = org
                               THEN n ELSE quit(org, n - 1)
             /\ quit(org, n - 1) \in 0..(n - 1)
  <2>1. OnMoves(ops, N, P, "LeftOrg", "org", org)
    BY LastOnMoves
  <2>2. n - 1 \in 0..N
    OBVIOUS
  <2> QED
    BY <2>1, <2>2 DEF OnMoves
<1>6. \A b : joined(b, 0) = 0 /\ left(b, 0) = 0
  <2> TAKE b
  <2>1. /\ OnMoves(ops, N, P, "JoinedBoard", "board", b)
        /\ OnMoves(ops, N, P, "LeftBoard", "board", b)
    BY LastOnMoves
  <2> QED
    BY <2>1 DEF OnMoves
<1>7. \A n \in P : ops[n].body.op = "JoinedBoard" => ops[n].body.board \in All
  BY DEF Of
<1> HIDE DEF at, All, joined, left, quit, all
<1>8. at(0) = NoEntries
  <2>1. all(0) = {}
    BY <1>1, <1>6
  <2> QED
    BY <1>2, <2>1 DEF NoEntries
<1>9. ASSUME NEW n \in 1..N, n \in P, ops[n].body.op = "JoinedBoard"
      PROVE  at(n) = Put(at(n - 1), ops[n].body.board, ops[n].body.org)
  <2> DEFINE board == ops[n].body.board
  <2>1. joined(board, n) = n /\ under(board, n) = ops[n].body.org
    BY <1>3, <1>9
  <2>2. board \in all(n)
    <3>1. left(board, n) \in 0..(n - 1) /\ \A org : quit(org, n) \in 0..(n - 1)
      BY <1>4, <1>5, <1>9
    <3> QED
      BY <1>1, <1>7, <1>9, <2>1, <3>1
  <2>3. \A b : b # board => joined(b, n) = joined(b, n - 1)
    BY <1>3
  <2>4. \A b : left(b, n) = left(b, n - 1) /\ quit(b, n) = quit(b, n - 1)
    BY <1>4, <1>5, <1>9
  <2> HIDE DEF board
  <2>5. all(n) = all(n - 1) \cup {board}
    BY <1>1, <2>2, <2>3, <2>4
  <2>6. at(n) = [b \in all(n - 1) \cup {board} |->
                   IF b = board THEN ops[n].body.org ELSE under(b, n - 1)]
    BY <1>2, <2>1, <2>3, <2>5
  <2>7. at(n - 1) = [b \in all(n - 1) |-> under(b, n - 1)]
    BY <1>2
  <2> QED
    BY <2>6, <2>7 DEF Put, board
<1>10. ASSUME NEW n \in 1..N, n \in P, ops[n].body.op = "LeftBoard"
       PROVE  at(n) = Without(at(n - 1), {ops[n].body.board})
  <2> DEFINE board == ops[n].body.board
  <2>1. \A b : joined(b, n) = joined(b, n - 1) /\ quit(b, n) = quit(b, n - 1)
    BY <1>3, <1>5, <1>10
  <2>2. \A b : b # board => left(b, n) = left(b, n - 1)
    BY <1>4
  <2>3. left(board, n) = n /\ joined(board, n) \in 0..(n - 1)
    BY <1>3, <1>4, <1>10
  <2> HIDE DEF board
  <2>4. all(n) = all(n - 1) \ {board}
    BY <1>1, <2>1, <2>2, <2>3
  <2>5. at(n) = [b \in all(n - 1) \ {board} |-> under(b, n - 1)]
    BY <1>2, <2>1, <2>4
  <2>6. at(n - 1) = [b \in all(n - 1) |-> under(b, n - 1)]
    BY <1>2
  <2> QED
    BY <2>5, <2>6 DEF Without, board
<1>11. ASSUME NEW n \in 1..N, n \in P, ops[n].body.op = "LeftOrg"
       PROVE  at(n) = Without(at(n - 1),
                        {b \in DOMAIN at(n - 1) : at(n - 1)[b] = {ops[n].body.org}})
  <2> DEFINE gone == ops[n].body.org
  <2>1. \A b : joined(b, n) = joined(b, n - 1) /\ left(b, n) = left(b, n - 1)
    BY <1>3, <1>4, <1>11
  <2>2. \A org : org # gone => quit(org, n) = quit(org, n - 1)
    BY <1>5
  <2>3. quit(gone, n) = n /\ \A b : joined(b, n) \in 0..(n - 1)
    BY <1>3, <1>5, <1>11
  <2>4. \A b \in all(n - 1) : gone \in under(b, n - 1) => under(b, n - 1) = {gone}
    <3> SUFFICES ASSUME NEW b \in all(n - 1), gone \in under(b, n - 1)
                 PROVE  under(b, n - 1) = {gone}
      OBVIOUS
    <3>1. joined(b, n - 1) \in 0..(n - 1) /\ left(b, n - 1) \in 0..(n - 1)
          /\ joined(b, n - 1) > left(b, n - 1)
      BY <1>1, <1>3, <1>4
    <3>2. joined(b, n - 1) \in P /\ ops[joined(b, n - 1)].body.op = "JoinedBoard"
      BY <1>3, <3>1
    <3> QED
      BY <3>2
  <2> HIDE DEF gone
  <2>5. \A b : b \in all(n) <=> b \in all(n - 1) /\ under(b, n - 1) # {gone}
    <3> TAKE b
    <3>1. CASE gone \in under(b, n - 1)
      <4>1. b \notin all(n)
        BY <1>1, <2>1, <2>3, <3>1
      <4> QED
        BY <2>4, <3>1, <4>1
    <3>2. CASE gone \notin under(b, n - 1)
      <4>1. \A org \in under(b, n - 1) : quit(org, n) = quit(org, n - 1)
        BY <2>2, <3>2
      <4> QED
        BY <1>1, <2>1, <3>2, <4>1
    <3> QED
      BY <3>1, <3>2
  <2>6. at(n - 1) = [b \in all(n - 1) |-> under(b, n - 1)]
    BY <1>2
  <2>7. all(n) = all(n - 1) \ {b \in DOMAIN at(n - 1) : at(n - 1)[b] = {gone}}
    BY <2>5, <2>6
  <2>8. at(n) = [b \in all(n) |-> under(b, n - 1)]
    BY <1>2, <2>1
  <2>9. Without(at(n - 1), {b \in DOMAIN at(n - 1) : at(n - 1)[b] = {gone}})
          = [b \in all(n) |-> at(n - 1)[b]]
    BY <2>6, <2>7 DEF Without
  <2>10. \A b \in all(n) : at(n - 1)[b] = under(b, n - 1)
    BY <2>5, <2>6
  <2> QED
    BY <2>8, <2>9, <2>10 DEF gone
<1>12. ASSUME NEW n \in 1..N,
              ~(n \in P /\ ops[n].body.op \in {"JoinedBoard", "LeftBoard", "LeftOrg"})
       PROVE  at(n) = at(n - 1)
  <2>1. \A b : /\ joined(b, n) = joined(b, n - 1)
               /\ left(b, n) = left(b, n - 1)
               /\ quit(b, n) = quit(b, n - 1)
    BY <1>3, <1>4, <1>5, <1>12
  <2>2. all(n) = all(n - 1)
    <3>1. ASSUME NEW b PROVE b \in all(n) <=> b \in all(n - 1)
      <4>1. under(b, n) = under(b, n - 1)
        BY <2>1
      <4> HIDE DEF under
      <4> QED
        BY <1>1, <2>1, <4>1
    <3> QED
      BY <3>1
  <2> QED
    BY <1>2, <2>1, <2>2
<1> QED
  BY <1>8, <1>9, <1>10, <1>11, <1>12 DEF BookmarksMove, at

\* What a reader of the first n would say of the profile.
UserAt(ops, P, n) ==
  [name |-> LastSaid(ops, P, "SetName", "name", "none", n),
   labels |-> Ever(ops, P, "SetDeviceLabel", "device", n),
   boards |-> Bookmarks(ops, P, n),
   orgs |-> Standing(ops, P, "JoinedOrg", "LeftOrg", "org", n)]

\* One more op moves a profile as the fold does.
LEMMA UserMoves ==
  ASSUME NEW ops, NEW N \in Nat, NEW P \in SUBSET (1..N),
         \A i \in P : User!IsBody(ops[i].body)
  PROVE  /\ UserAt(ops, P, 0) = User!Blank
         /\ \A n \in 1..N : UserAt(ops, P, n) =
              IF n \in P THEN User!Step(UserAt(ops, P, n - 1), ops[n].body)
              ELSE UserAt(ops, P, n - 1)
<1> DEFINE name(n) == LastSaid(ops, P, "SetName", "name", "none", n)
           labels(n) == Ever(ops, P, "SetDeviceLabel", "device", n)
           boards(n) == Bookmarks(ops, P, n)
           orgs(n) == Standing(ops, P, "JoinedOrg", "LeftOrg", "org", n)
<1>1. /\ name(0) = "none"
      /\ \A n \in 1..N : name(n) =
           IF n \in P /\ ops[n].body.op = "SetName" THEN ops[n].body.name ELSE name(n - 1)
  <2>1. SaidMoves(ops, N, P, "SetName", "name", "none")
    BY LastSaidMoves
  <2> QED
    BY <2>1 DEF SaidMoves
<1>2. /\ labels(0) = {}
      /\ \A n \in 1..N : labels(n) =
           IF n \in P /\ ops[n].body.op = "SetDeviceLabel"
           THEN labels(n - 1) \cup {ops[n].body.device}
           ELSE labels(n - 1)
  <2>1. EverMoves(ops, N, P, "SetDeviceLabel", "device")
    BY EverGrows
  <2> QED
    BY <2>1 DEF EverMoves
<1>3. BookmarksMove(ops, N, P)
  BY BookmarksAre DEF User!IsBody
<1>4. /\ orgs(0) = {}
      /\ \A n \in 1..N : orgs(n) =
           IF n \in P /\ ops[n].body.op = "JoinedOrg"
           THEN orgs(n - 1) \cup {ops[n].body.org}
           ELSE IF n \in P /\ ops[n].body.op = "LeftOrg"
           THEN orgs(n - 1) \ {ops[n].body.org}
           ELSE orgs(n - 1)
  <2>1. StandMoves(ops, N, P, "JoinedOrg", "LeftOrg", "org")
    BY StandingMoves
  <2> QED
    BY <2>1 DEF StandMoves
<1>5. /\ boards(0) = NoEntries
      /\ \A n \in 1..N :
           /\ n \in P /\ ops[n].body.op = "JoinedBoard" =>
                boards(n) = Put(boards(n - 1), ops[n].body.board, ops[n].body.org)
           /\ n \in P /\ ops[n].body.op = "LeftBoard" =>
                boards(n) = Without(boards(n - 1), {ops[n].body.board})
           /\ n \in P /\ ops[n].body.op = "LeftOrg" =>
                boards(n) = Without(boards(n - 1),
                  {b \in DOMAIN boards(n - 1) : boards(n - 1)[b] = {ops[n].body.org}})
           /\ ~(n \in P /\ ops[n].body.op \in {"JoinedBoard", "LeftBoard", "LeftOrg"}) =>
                boards(n) = boards(n - 1)
  BY <1>3 DEF BookmarksMove
<1>6. \A n : UserAt(ops, P, n) = [name |-> name(n), labels |-> labels(n),
                                  boards |-> boards(n), orgs |-> orgs(n)]
  BY DEF UserAt
<1> HIDE DEF name, labels, boards, orgs
<1>7. UserAt(ops, P, 0) = User!Blank
  BY <1>1, <1>2, <1>4, <1>5, <1>6 DEF User!Blank, User!NoEntries, NoEntries
<1>8. ASSUME NEW n \in 1..N, n \notin P
      PROVE  UserAt(ops, P, n) = UserAt(ops, P, n - 1)
  BY <1>1, <1>2, <1>4, <1>5, <1>6, <1>8
<1>9. ASSUME NEW n \in 1..N, n \in P
      PROVE  UserAt(ops, P, n) = User!Step(UserAt(ops, P, n - 1), ops[n].body)
  <2> DEFINE body == ops[n].body
             was == UserAt(ops, P, n - 1)
  <2>1. body.op \in UserOps
    BY <1>9 DEF User!IsBody, UserOps
  <2>2. \A map, key, value : User!Put(map, key, value) = Put(map, key, value)
    BY DEF User!Put, Put
  <2>3. \A map, keys : User!Without(map, keys) = Without(map, keys)
    BY DEF User!Without, Without
  <2>4. was = [name |-> name(n - 1), labels |-> labels(n - 1),
               boards |-> boards(n - 1), orgs |-> orgs(n - 1)]
    BY <1>6
  <2>5. CASE body.op = "SetName"
    <3> DEFINE new == body.name
    <3>1. /\ name(n) = new
          /\ labels(n) = labels(n - 1)
          /\ boards(n) = boards(n - 1)
          /\ orgs(n) = orgs(n - 1)
      BY <1>1, <1>2, <1>4, <1>5, <1>9, <2>5
    <3>2. User!Step(was, body) = [was EXCEPT !.name = body.name]
      BY <2>2, <2>3, <2>5 DEF User!Step
    <3>3. body.name = new
      OBVIOUS
    <3>4. User!Step(was, body) = [was EXCEPT !.name = new]
      BY <3>2, <3>3
    <3> HIDE DEF new, was
    <3>5. [was EXCEPT !.name = new]
            = [name |-> new, labels |-> labels(n - 1),
               boards |-> boards(n - 1), orgs |-> orgs(n - 1)]
      BY <2>4
    <3> QED
      BY <1>6, <3>1, <3>4, <3>5 DEF was
  <2>6. CASE body.op = "SetDeviceLabel"
    <3> DEFINE new == labels(n - 1) \cup {body.device}
    <3>1. /\ name(n) = name(n - 1)
          /\ labels(n) = new
          /\ boards(n) = boards(n - 1)
          /\ orgs(n) = orgs(n - 1)
      BY <1>1, <1>2, <1>4, <1>5, <1>9, <2>6
    <3>2. User!Step(was, body) = [was EXCEPT !.labels = was.labels \cup {body.device}]
      BY <2>2, <2>3, <2>6 DEF User!Step
    <3>3. was.labels \cup {body.device} = new
      BY <2>4
    <3>4. User!Step(was, body) = [was EXCEPT !.labels = new]
      BY <3>2, <3>3
    <3> HIDE DEF new, was
    <3>5. [was EXCEPT !.labels = new]
            = [name |-> name(n - 1), labels |-> new,
               boards |-> boards(n - 1), orgs |-> orgs(n - 1)]
      BY <2>4
    <3> QED
      BY <1>6, <3>1, <3>4, <3>5 DEF was
  <2>7. CASE body.op = "JoinedBoard"
    <3> DEFINE new == Put(boards(n - 1), body.board, body.org)
    <3>1. /\ name(n) = name(n - 1)
          /\ labels(n) = labels(n - 1)
          /\ boards(n) = new
          /\ orgs(n) = orgs(n - 1)
      BY <1>1, <1>2, <1>4, <1>5, <1>9, <2>7
    <3>2. User!Step(was, body) = [was EXCEPT !.boards = Put(was.boards, body.board, body.org)]
      BY <2>2, <2>3, <2>7 DEF User!Step
    <3>3. Put(was.boards, body.board, body.org) = new
      BY <2>4
    <3>4. User!Step(was, body) = [was EXCEPT !.boards = new]
      BY <3>2, <3>3
    <3> HIDE DEF new, was
    <3>5. [was EXCEPT !.boards = new]
            = [name |-> name(n - 1), labels |-> labels(n - 1),
               boards |-> new, orgs |-> orgs(n - 1)]
      BY <2>4
    <3> QED
      BY <1>6, <3>1, <3>4, <3>5 DEF was
  <2>8. CASE body.op = "LeftBoard"
    <3> DEFINE new == Without(boards(n - 1), {body.board})
    <3>1. /\ name(n) = name(n - 1)
          /\ labels(n) = labels(n - 1)
          /\ boards(n) = new
          /\ orgs(n) = orgs(n - 1)
      BY <1>1, <1>2, <1>4, <1>5, <1>9, <2>8
    <3>2. User!Step(was, body) = [was EXCEPT !.boards = Without(was.boards, {body.board})]
      BY <2>2, <2>3, <2>8 DEF User!Step
    <3>3. Without(was.boards, {body.board}) = new
      BY <2>4
    <3>4. User!Step(was, body) = [was EXCEPT !.boards = new]
      BY <3>2, <3>3
    <3> HIDE DEF new, was
    <3>5. [was EXCEPT !.boards = new]
            = [name |-> name(n - 1), labels |-> labels(n - 1),
               boards |-> new, orgs |-> orgs(n - 1)]
      BY <2>4
    <3> QED
      BY <1>6, <3>1, <3>4, <3>5 DEF was
  <2>9. CASE body.op = "JoinedOrg"
    <3> DEFINE new == orgs(n - 1) \cup {body.org}
    <3>1. /\ name(n) = name(n - 1)
          /\ labels(n) = labels(n - 1)
          /\ boards(n) = boards(n - 1)
          /\ orgs(n) = new
      BY <1>1, <1>2, <1>4, <1>5, <1>9, <2>9
    <3>2. User!Step(was, body) = [was EXCEPT !.orgs = was.orgs \cup {body.org}]
      BY <2>2, <2>3, <2>9 DEF User!Step
    <3>3. was.orgs \cup {body.org} = new
      BY <2>4
    <3>4. User!Step(was, body) = [was EXCEPT !.orgs = new]
      BY <3>2, <3>3
    <3> HIDE DEF new, was
    <3>5. [was EXCEPT !.orgs = new]
            = [name |-> name(n - 1), labels |-> labels(n - 1),
               boards |-> boards(n - 1), orgs |-> new]
      BY <2>4
    <3> QED
      BY <1>6, <3>1, <3>4, <3>5 DEF was
  <2>10. CASE body.op = "LeftOrg"
    <3> DEFINE fewer == orgs(n - 1) \ {body.org}
               new == Without(boards(n - 1),
                        {b \in DOMAIN boards(n - 1) : boards(n - 1)[b] = {body.org}})
               old == Without(was.boards,
                        {b \in DOMAIN was.boards : was.boards[b] = {body.org}})
    <3>1. /\ name(n) = name(n - 1)
          /\ labels(n) = labels(n - 1)
          /\ boards(n) = new
          /\ orgs(n) = fewer
      BY <1>1, <1>2, <1>4, <1>5, <1>9, <2>10
    <3>2. User!Step(was, body) =
            [was EXCEPT !.orgs = was.orgs \ {body.org}, !.boards = old]
      BY <2>2, <2>3, <2>10 DEF User!Step, User!LeaveOrg
    <3>3. was.orgs = orgs(n - 1) /\ was.boards = boards(n - 1)
      BY <2>4
    <3> HIDE DEF was
    <3>4. was.orgs \ {body.org} = fewer
      BY <3>3
    <3>5. old = new
      BY <3>3
    <3> HIDE DEF new, fewer, old
    <3>6. User!Step(was, body) = [was EXCEPT !.orgs = fewer, !.boards = new]
      BY <3>2, <3>4, <3>5
    <3>7. [was EXCEPT !.orgs = fewer, !.boards = new]
            = [name |-> name(n - 1), labels |-> labels(n - 1),
               boards |-> new, orgs |-> fewer]
      <4> DEFINE half == [was EXCEPT !.orgs = fewer]
      <4>1. half = [name |-> name(n - 1), labels |-> labels(n - 1),
                    boards |-> boards(n - 1), orgs |-> fewer]
        BY <2>4
      <4> HIDE DEF half
      <4>2. [half EXCEPT !.boards = new]
              = [name |-> name(n - 1), labels |-> labels(n - 1),
                 boards |-> new, orgs |-> fewer]
        BY <4>1
      <4> QED
        BY <4>2 DEF half
    <3> QED
      BY <1>6, <3>1, <3>6, <3>7 DEF was
  <2> QED
    BY <2>1, <2>5, <2>6, <2>7, <2>8, <2>9, <2>10 DEF UserOps
<1> QED
  BY <1>7, <1>8, <1>9

\* The fold says of a profile what a reader would.
LEMMA UserFolded ==
  ASSUME NEW ops, NEW N \in Nat, Len(ops) = N, User!Applied(ops) \in SUBSET (1..N),
         \A i \in User!Applied(ops) : User!IsBody(ops[i].body)
  PROVE  LET folded == UserAt(ops, User!Applied(ops), N)
         IN  User!from_state(ops) =
               [name |-> folded.name, labels |-> folded.labels, boards |-> folded.boards,
                orgs |-> folded.orgs, devices |-> User!devices(ops)]
<1> DEFINE P == User!Applied(ops)
           f == [n \in 0..N |-> UserAt(ops, P, n)]
           Body(g, n) == IF n = 0 THEN User!Blank
                         ELSE IF n \in P THEN User!Step(g[n - 1], ops[n].body)
                         ELSE g[n - 1]
           upto == CHOOSE g : g = [n \in 0..N |-> Body(g, n)]
<1>1. User!from_state(ops) =
        [name |-> upto[N].name, labels |-> upto[N].labels, boards |-> upto[N].boards,
         orgs |-> upto[N].orgs, devices |-> User!devices(ops)]
  BY DEF User!from_state, User!FoldAt
<1>2. /\ UserAt(ops, P, 0) = User!Blank
      /\ \A n \in 1..N : UserAt(ops, P, n) =
           IF n \in P THEN User!Step(UserAt(ops, P, n - 1), ops[n].body)
           ELSE UserAt(ops, P, n - 1)
  <2> HIDE DEF P
  <2> QED
    BY UserMoves DEF P
<1>3. f = [n \in 0..N |-> Body(f, n)]
  <2> HIDE DEF P
  <2>1. \A n \in 0..N : UserAt(ops, P, n) = Body(f, n)
    BY <1>2
  <2> QED
    BY <2>1
<1>4. upto = [n \in 0..N |-> Body(upto, n)]
  <2> HIDE DEF f, Body
  <2> QED
    BY <1>3
<1>5. upto[0] = f[0] /\ \A n \in 1..N : upto[n - 1] = f[n - 1] => upto[n] = f[n]
  <2> HIDE DEF f, upto, P
  <2> QED
    BY <1>3, <1>4
<1>6. upto[N] = f[N]
  <2> HIDE DEF f, upto
  <2> QED
    BY <1>5, SameUpTo
<1>7. upto[N] = UserAt(ops, P, N)
  BY <1>6
<1> HIDE DEF upto
<1> QED
  BY <1>1, <1>7

-----------------------------------------------------------------------------
(* What is shown of tasks and of profiles.                                 *)

\* What counts, in a fold, is what Views says counts.
LEMMA SaidAre ==
  ASSUME ViewsInv, contract = "org" => Plain(log)
  PROVE  /\ \A kind : Said(kind) = Of(log, Applied, kind)
         /\ \A kind, field, value :
              About(kind, field, value) = On(log, Applied, kind, field, value)
         /\ Len(log) \in Nat
         /\ Applied \in SUBSET (1..Len(log))
         /\ Applied \subseteq Readable(log)
         /\ \A i \in Applied : log[i].author \in Key /\ IsBody(contract, log[i].body)
<1> DEFINE a == authority(log)
           Counts(i) == needs(log[i].body) \subseteq ever_rights_of(a, log[i].author)
<1>1. Len(log) \in Nat /\ DOMAIN log = 1..Len(log)
  BY DEF ViewsInv
<1>2. Applied = {i \in Readable(log) : Counts(i)}
  <2>1. CASE contract = "board"
    BY <2>1, AppliedAre DEF Applied, needs
  <2>2. CASE contract = "task"
    BY <2>2, AppliedAre DEF Applied, needs
  <2>3. CASE contract = "org"
    <3>1. \A i \in Readable(log) :
            ever_rights_of(a, ever_person(a, log[i].author)) = ever_rights_of(a, log[i].author)
      BY <2>3, DeclaredWasHeld DEF Plain, ever_rights_of
    <3> HIDE DEF a
    <3>2. Org!Applied(log) = {i \in Readable(log) :
                                Org!needs(log[i].body)
                                  \subseteq ever_rights_of(a, ever_person(a, log[i].author))}
      BY AppliedAre DEF a
    <3> QED
      BY <2>3, <3>1, <3>2 DEF Applied, needs
  <2>4. CASE contract = "user"
    BY <2>4, AppliedAre DEF Applied, needs
  <2> QED
    BY <2>1, <2>2, <2>3, <2>4, ViewsAssumption DEF ViewsInv
<1>3. \A kind : Said(kind) = Of(log, Applied, kind)
  BY <1>2 DEF Said, Of, Readable
<1>4. \A kind, field, value :
        About(kind, field, value) = On(log, Applied, kind, field, value)
  BY <1>3 DEF About, On
<1>5. Applied \subseteq Readable(log) /\ Readable(log) \subseteq 1..Len(log)
  BY <1>1, <1>2 DEF Readable
<1>6. \A i \in Applied : log[i].author \in Key /\ IsBody(contract, log[i].body)
  BY <1>5, DeclaredWasHeld
<1> QED
  BY <1>1, <1>3, <1>4, <1>5, <1>6

\* The last that is said of something is the last of a fold's ops.
LEMMA LatestIsLast ==
  ASSUME ViewsInv, contract = "org" => Plain(log)
  PROVE  /\ \A kind : Latest(Said(kind)) = LastOf(log, Applied, kind, Len(log))
         /\ \A kind, field, value :
              Latest(About(kind, field, value))
                = LastOn(log, Applied, kind, field, value, Len(log))
<1>1. ASSUME NEW kind PROVE Latest(Said(kind)) = LastOf(log, Applied, kind, Len(log))
  BY SaidAre, LastOfMoves
<1>2. ASSUME NEW kind, NEW field, NEW value
      PROVE  Latest(About(kind, field, value))
               = LastOn(log, Applied, kind, field, value, Len(log))
  <2>1. OnMoves(log, Len(log), Applied, kind, field, value)
    BY SaidAre, LastOnMoves
  <2> QED
    BY <2>1, SaidAre DEF OnMoves
<1> QED
  BY <1>1, <1>2

\* A task says what was last said of it.
LEMMA TaskIsShown == ViewsInv => TaskSaysLast
<1> SUFFICES ASSUME ViewsInv, contract = "task" PROVE TaskSaysLast
  BY DEF TaskSaysLast
<1> DEFINE N == Len(log)
           P == Applied
           title == Latest(Said("SetTitle"))
           assignee == Latest(Said("SetAssignee"))
           on(b) == Latest(About("Attach", "board", b)) > Latest(About("Detach", "board", b))
           tied(t) == Latest(About("Link", "to", t)) > Latest(About("Unlink", "to", t))
<1>1. P = Task!Applied(log)
  BY DEF Applied
<1>2. /\ N \in Nat /\ P \in SUBSET (1..N)
      /\ \A i \in P : log[i].body.op \in TaskOps
  BY SaidAre DEF IsBody, Task!IsBody, TaskOps
<1>3. view = TaskAt(log, P, N)
  BY <1>1, <1>2, TaskFolded DEF ViewsInv, Folded
<1>4. /\ title = LastOf(log, P, "SetTitle", N)
      /\ assignee = LastOf(log, P, "SetAssignee", N)
      /\ \A b : on(b) <=> LastOn(log, P, "Attach", "board", b, N)
                            > LastOn(log, P, "Detach", "board", b, N)
      /\ \A t : tied(t) <=> LastOn(log, P, "Link", "to", t, N)
                              > LastOn(log, P, "Unlink", "to", t, N)
      /\ \A t : Latest(About("Link", "to", t)) = LastOn(log, P, "Link", "to", t, N)
  BY LatestIsLast
<1>5. /\ Everything("Attach", "board") = {log[i].body["board"] : i \in Of(log, P, "Attach")}
      /\ Everything("Link", "to") = {log[i].body["to"] : i \in Of(log, P, "Link")}
  BY SaidAre DEF Everything
<1>6. view.title = IF title = 0 THEN "" ELSE log[title].body.text
  BY <1>3, <1>4 DEF TaskAt, LastSaid
<1>7. view.assignee = IF assignee = 0 THEN {} ELSE log[assignee].body.member
  BY <1>3, <1>4 DEF TaskAt, LastSaid
<1>8. view.boards = {b \in Everything("Attach", "board") : on(b)}
  <2>1. view.boards = Standing(log, P, "Attach", "Detach", "board", N)
    BY <1>3 DEF TaskAt
  <2> HIDE DEF on
  <2> QED
    BY <1>4, <1>5, <2>1 DEF Standing
<1>9. /\ DOMAIN view.links = {t \in Everything("Link", "to") : tied(t)}
      /\ \A t \in DOMAIN view.links :
           view.links[t] = log[Latest(About("Link", "to", t))].body.link
  <2>1. view.links = [t \in Standing(log, P, "Link", "Unlink", "to", N) |->
                        log[LastOn(log, P, "Link", "to", t, N)].body["link"]]
    BY <1>3 DEF TaskAt, Kept
  <2>2. Standing(log, P, "Link", "Unlink", "to", N) = {t \in Everything("Link", "to") : tied(t)}
    <3> HIDE DEF tied
    <3> QED
      BY <1>4, <1>5 DEF Standing
  <2> QED
    BY <1>4, <2>1, <2>2
<1> QED
  BY <1>6, <1>7, <1>8, <1>9 DEF TaskSaysLast

\* Before a place is the last of some places, if each of them is.
LEMMA BeforeAll ==
  ASSUME NEW N \in Nat, NEW S \in SUBSET (1..N), NEW m \in Nat
  PROVE  m > Latest(S) <=> m > 0 /\ \A i \in S : m > i
<1>1. /\ Till(S, N) = S
      /\ \A n \in 0..N : /\ Latest(Till(S, n)) \in Till(S, n) \cup {0}
                         /\ \A i \in Till(S, n) : i <= Latest(Till(S, n))
  BY LastTill
<1> DEFINE last == Latest(S)
<1>2. last \in S \cup {0} /\ \A i \in S : i <= last
  BY <1>1
<1>3. \A i \in S : i \in Nat
  OBVIOUS
<1> HIDE DEF last
<1>4. last \in Nat
  BY <1>2, <1>3
<1>5. m > last => m > 0 /\ \A i \in S : m > i
  BY <1>2, <1>4, <1>3
<1>6. m > 0 /\ (\A i \in S : m > i) => m > last
  BY <1>2
<1> QED
  BY <1>5, <1>6 DEF last

\* A profile has the bookmarks that were joined and not left.
LEMMA ProfileIsShown == ViewsInv => BookmarksAsJoined
<1> SUFFICES ASSUME ViewsInv, contract = "user" PROVE BookmarksAsJoined
  BY DEF BookmarksAsJoined
<1> DEFINE N == Len(log)
           P == Applied
           joined(b) == Latest(About("JoinedBoard", "board", b))
           under(b) == log[joined(b)].body.org
           left(b) == Latest(About("LeftBoard", "board", b)
                             \cup UNION {About("LeftOrg", "org", o) : o \in under(b)})
           listed == {b \in Everything("JoinedBoard", "board") : joined(b) > left(b)}
           groups == User!grouped(view)
<1>1. P = User!Applied(log)
  BY DEF Applied
<1>2. /\ N \in Nat /\ P \in SUBSET (1..N)
      /\ \A i \in P : User!IsBody(log[i].body)
  BY SaidAre DEF IsBody
<1>3. /\ view.boards = Bookmarks(log, P, N)
      /\ view.orgs = Standing(log, P, "JoinedOrg", "LeftOrg", "org", N)
  <2>1. view = User!from_state(log)
    BY DEF ViewsInv, Folded
  <2> QED
    BY <1>1, <1>2, <2>1, UserFolded DEF UserAt
<1>4. \A b : joined(b) = LastOn(log, P, "JoinedBoard", "board", b, N)
  BY LatestIsLast
<1>5. ASSUME NEW b
      PROVE  joined(b) > left(b) <=> Bookmarked(log, P, b, N)
  <2> DEFINE offs == About("LeftBoard", "board", b)
             quits(o) == About("LeftOrg", "org", o)
  <2>1. /\ joined(b) \in Nat
        /\ offs \in SUBSET (1..N)
        /\ \A o : quits(o) \in SUBSET (1..N)
    <3>1. OnMoves(log, N, P, "JoinedBoard", "board", b)
      BY <1>2, LastOnMoves
    <3>2. joined(b) \in 0..N
      BY <1>2, <1>4, <3>1 DEF OnMoves
    <3>3. \A kind, field, value : About(kind, field, value) \subseteq P
      BY SaidAre DEF On, Of
    <3> HIDE DEF joined
    <3>4. offs \subseteq P /\ \A o : quits(o) \subseteq P
      BY <3>3
    <3> HIDE DEF offs, quits, P, N
    <3>5. joined(b) \in Nat
      BY <1>2, <3>2
    <3>6. offs \subseteq 1..N /\ \A o : quits(o) \subseteq 1..N
      BY <1>2, <3>4
    <3> QED
      BY <3>5, <3>6
  <2>2. joined(b) > left(b) <=> /\ joined(b) > 0
                                /\ \A i \in offs : joined(b) > i
                                /\ \A o \in under(b) : \A i \in quits(o) : joined(b) > i
    <3> DEFINE all == offs \cup UNION {quits(o) : o \in under(b)}
    <3>1. all \in SUBSET (1..N)
      BY <2>1
    <3>2. joined(b) > left(b) <=> joined(b) > 0 /\ \A i \in all : joined(b) > i
      <4> HIDE DEF joined
      <4> HIDE DEF all
      <4>1. joined(b) > Latest(all) <=> joined(b) > 0 /\ \A i \in all : joined(b) > i
        BY <1>2, <2>1, <3>1, BeforeAll
      <4> QED
        BY <4>1 DEF all
    <3> HIDE DEF joined, left, offs, quits
    <3> QED
      BY <3>2
  <2>3. joined(b) > Latest(offs) <=> joined(b) > 0 /\ \A i \in offs : joined(b) > i
    <3> HIDE DEF joined, offs
    <3> QED
      BY <1>2, <2>1, BeforeAll
  <2>4. \A o : joined(b) > Latest(quits(o))
                 <=> joined(b) > 0 /\ \A i \in quits(o) : joined(b) > i
    <3> HIDE DEF joined, quits
    <3> QED
      BY <1>2, <2>1, BeforeAll
  <2>5. Bookmarked(log, P, b, N) <=>
          /\ joined(b) > Latest(offs)
          /\ \A o \in under(b) : joined(b) > Latest(quits(o))
    BY <1>4, LatestIsLast DEF Bookmarked
  <2> HIDE DEF joined, left, offs, quits
  <2> QED
    BY <2>2, <2>3, <2>4, <2>5
<1>6. Everything("JoinedBoard", "board")
        = {log[i].body["board"] : i \in Of(log, P, "JoinedBoard")}
  BY SaidAre DEF Everything
<1>7. view.boards = [b \in listed |-> under(b)]
  <2>1. listed = {b \in {log[i].body["board"] : i \in Of(log, P, "JoinedBoard")} :
                    Bookmarked(log, P, b, N)}
    <3> HIDE DEF joined, left
    <3> QED
      BY <1>5, <1>6
  <2> QED
    BY <1>3, <1>4, <2>1 DEF Bookmarks
<1>8. \A b \in listed : \A o \in under(b) : under(b) = {o}
  <2> SUFFICES ASSUME NEW b \in listed PROVE \A o \in under(b) : under(b) = {o}
    OBVIOUS
  <2>1. Bookmarked(log, P, b, N)
    BY <1>5
  <2>2. /\ OnMoves(log, N, P, "JoinedBoard", "board", b)
        /\ OnMoves(log, N, P, "LeftBoard", "board", b)
    BY <1>2, LastOnMoves
  <2>3. joined(b) # 0
    BY <1>2, <1>4, <2>1, <2>2 DEF Bookmarked, OnMoves
  <2>4. joined(b) \in P /\ log[joined(b)].body.op = "JoinedBoard"
    BY <1>2, <1>4, <2>2, <2>3 DEF OnMoves, On, Of
  <2> HIDE DEF joined
  <2> QED
    BY <1>2, <2>4 DEF User!IsBody
<1>9. groups.loose \cup UNION {groups.under[o] : o \in view.orgs} = listed
  <2> HIDE DEF listed, joined
  <2>1. /\ groups.loose = {b \in listed : under(b) \cap view.orgs = {}}
        /\ \A o \in view.orgs : groups.under[o] = {b \in listed : under(b) = {o}}
    BY <1>7 DEF User!grouped
  <2> QED
    BY <1>8, <2>1
<1>10. view.orgs = {o \in Everything("JoinedOrg", "org") :
                      Latest(About("JoinedOrg", "org", o)) > Latest(About("LeftOrg", "org", o))}
  <2>1. Everything("JoinedOrg", "org") = {log[i].body["org"] : i \in Of(log, P, "JoinedOrg")}
    BY SaidAre DEF Everything
  <2> QED
    BY <1>3, <2>1, LatestIsLast DEF Standing
<1> QED
  BY <1>7, <1>9, <1>10 DEF BookmarksAsJoined

-----------------------------------------------------------------------------
(* Names.                                                                  *)

\* Whom the first n of some namings named, each by who named them last.
NamedAt(ops, G, n) ==
  [k \in {ops[i].body.member : i \in Till(G, n)} |->
     ops[Latest(Till({i \in G : ops[i].body.member = k}, n))].author]

\* One more naming is put over what there is.
NamesMove(ops, N, G) ==
  /\ NamedAt(ops, G, 0) = NoEntries
  /\ \A n \in 1..N : NamedAt(ops, G, n) =
       IF n \in G THEN Put(NamedAt(ops, G, n - 1), ops[n].body.member, ops[n].author)
       ELSE NamedAt(ops, G, n - 1)
  /\ NamedAt(ops, G, N) =
       [k \in {ops[i].body.member : i \in G} |->
          ops[Latest({i \in G : ops[i].body.member = k})].author]

\* Whose naming counts moves, at every place, as the fold moves it.
LEMMA NamesAre ==
  ASSUME NEW ops, NEW N \in Nat, NEW G \in SUBSET (1..N)
  PROVE  NamesMove(ops, N, G)
<1> DEFINE at(n) == NamedAt(ops, G, n)
           for(k) == {i \in G : ops[i].body.member = k}
           last(k, n) == Latest(Till(for(k), n))
           all(n) == {ops[i].body.member : i \in Till(G, n)}
<1>1. \A n : at(n) = [k \in all(n) |-> ops[last(k, n)].author]
  BY DEF NamedAt
<1>2. \A n \in 0..N : \A i : i \in Till(G, n) <=> i \in G /\ i \in 1..n
  BY LastTill
<1>3. ASSUME NEW k
      PROVE  /\ last(k, 0) = 0
             /\ \A n \in 1..N : last(k, n) =
                  IF n \in G /\ ops[n].body.member = k THEN n ELSE last(k, n - 1)
             /\ Till(for(k), N) = for(k)
  <2> DEFINE S == for(k)
  <2>1. S \in SUBSET (1..N) /\ \A n : n \in S <=> n \in G /\ ops[n].body.member = k
    OBVIOUS
  <2> HIDE DEF S
  <2>2. /\ Latest(Till(S, 0)) = 0
        /\ \A n \in 1..N : Latest(Till(S, n)) = IF n \in S THEN n ELSE Latest(Till(S, n - 1))
        /\ Till(S, N) = S
    BY <2>1, LastTill
  <2> QED
    BY <2>1, <2>2 DEF S
<1>4. /\ all(0) = {}
      /\ \A n \in 1..N : n \in G => all(n) = all(n - 1) \cup {ops[n].body.member}
      /\ \A n \in 1..N : n \notin G => all(n) = all(n - 1)
      /\ all(N) = {ops[i].body.member : i \in G}
  <2>1. Till(G, 0) = {} /\ Till(G, N) = G
    <3>1. 0 \in 0..N /\ N \in 0..N /\ \A i \in G : i \in 1..N
      OBVIOUS
    <3> QED
      BY <1>2, <3>1
  <2>2. ASSUME NEW n \in 1..N PROVE Till(G, n) = Till(G, n - 1) \cup (IF n \in G THEN {n} ELSE {})
    <3>1. n \in 0..N /\ n - 1 \in 0..N /\ \A i \in 1..n : i = n \/ i \in 1..(n - 1)
      OBVIOUS
    <3> QED
      BY <1>2, <3>1
  <2> QED
    BY <2>1, <2>2
<1> HIDE DEF at, for, last, all
<1>5. at(0) = NoEntries
  BY <1>1, <1>4 DEF NoEntries
<1>6. ASSUME NEW n \in 1..N, n \in G
      PROVE  at(n) = Put(at(n - 1), ops[n].body.member, ops[n].author)
  <2> DEFINE member == ops[n].body.member
  <2>1. all(n) = all(n - 1) \cup {member}
    BY <1>4, <1>6
  <2>2. last(member, n) = n /\ \A k : k # member => last(k, n) = last(k, n - 1)
    BY <1>3, <1>6
  <2> HIDE DEF member
  <2>3. at(n) = [k \in all(n - 1) \cup {member} |->
                   IF k = member THEN ops[n].author ELSE ops[last(k, n - 1)].author]
    BY <1>1, <2>1, <2>2
  <2>4. at(n - 1) = [k \in all(n - 1) |-> ops[last(k, n - 1)].author]
    BY <1>1
  <2> QED
    BY <2>3, <2>4 DEF Put, member
<1>7. ASSUME NEW n \in 1..N, n \notin G
      PROVE  at(n) = at(n - 1)
  <2>1. all(n) = all(n - 1) /\ \A k : last(k, n) = last(k, n - 1)
    BY <1>3, <1>4, <1>7
  <2> QED
    BY <1>1, <2>1
<1>8. at(N) = [k \in {ops[i].body.member : i \in G} |-> ops[Latest(for(k))].author]
  <2>1. \A k : last(k, N) = Latest(for(k))
    BY <1>3 DEF last
  <2> QED
    BY <1>1, <1>4, <2>1
<1> QED
  BY <1>5, <1>6, <1>7, <1>8 DEF NamesMove, at, for

\* The namings that are let.
Namings(ops, a, P) ==
  {i \in P : /\ ops[i].body.op = "SetMemberName"
             /\ \/ ops[i].body.member = ever_person(a, ops[i].author)
                \/ ADMINISTER \in ever_rights_of(a, ever_person(a, ops[i].author))}

\* A board shows the names that are let, whatever else there is.
LEMMA BoardNamesFolded ==
  ASSUME NEW ops, NEW N \in Nat, Len(ops) = N, NEW P \in SUBSET (1..N), NEW a
  PROVE  Board!fold_names(a, ops, P) = NamedAt(ops, Namings(ops, a, P), N)
<1> DEFINE G == Namings(ops, a, P)
           f == [n \in 0..N |-> NamedAt(ops, G, n)]
           Body(g, n) == IF n = 0 THEN Board!NoEntries
                         ELSE IF n \in P THEN Board!NameStep(a, g[n - 1], ops[n])
                         ELSE g[n - 1]
           upto == CHOOSE g : g = [n \in 0..N |-> Body(g, n)]
<1>1. Board!fold_names(a, ops, P) = upto[N]
  BY DEF Board!fold_names, Board!FoldAt
<1>2. /\ NamedAt(ops, G, 0) = NoEntries
      /\ \A n \in 1..N : NamedAt(ops, G, n) =
           IF n \in G THEN Put(NamedAt(ops, G, n - 1), ops[n].body.member, ops[n].author)
           ELSE NamedAt(ops, G, n - 1)
  <2>1. G \in SUBSET (1..N)
    BY DEF Namings
  <2> HIDE DEF G
  <2>2. NamesMove(ops, N, G)
    BY <2>1, NamesAre
  <2> QED
    BY <2>2 DEF NamesMove
<1>3. \A n \in P : \A names :
        Board!NameStep(a, names, ops[n]) =
          IF n \in G THEN Put(names, ops[n].body.member, ops[n].author) ELSE names
  BY DEF Namings, Board!NameStep, Board!NamingAllowed, Board!Entitled, Board!ever_person,
         Board!ever_rights_of, ever_person, ever_rights_of, Board!Put, Put,
         Board!ADMINISTER, ADMINISTER
<1>4. f = [n \in 0..N |-> Body(f, n)]
  <2>1. \A n : n \in G => n \in P
    BY DEF Namings
  <2> HIDE DEF G
  <2>2. Board!NoEntries = NoEntries
    BY DEF NoEntries, Board!NoEntries
  <2>3. \A n \in 1..N : NamedAt(ops, G, n) =
          IF n \in P THEN Board!NameStep(a, NamedAt(ops, G, n - 1), ops[n])
          ELSE NamedAt(ops, G, n - 1)
    BY <1>2, <1>3, <2>1
  <2>4. \A n \in 0..N : NamedAt(ops, G, n) = Body(f, n)
    BY <1>2, <2>2, <2>3
  <2> QED
    BY <2>4
<1>5. upto = [n \in 0..N |-> Body(upto, n)]
  <2> HIDE DEF f, Body
  <2> QED
    BY <1>4
<1>6. upto[0] = f[0] /\ \A n \in 1..N : upto[n - 1] = f[n - 1] => upto[n] = f[n]
  <2> HIDE DEF f, upto, G
  <2> QED
    BY <1>4, <1>5
<1>7. upto[N] = f[N]
  <2> HIDE DEF f, upto
  <2> QED
    BY <1>6, SameUpTo
<1> QED
  BY <1>1, <1>7

\* So does an organization.
LEMMA OrgNamesFolded ==
  ASSUME NEW ops, NEW N \in Nat, Len(ops) = N, NEW P \in SUBSET (1..N), NEW a
  PROVE  Org!fold_names(a, ops, P) = NamedAt(ops, Namings(ops, a, P), N)
<1> DEFINE G == Namings(ops, a, P)
           f == [n \in 0..N |-> NamedAt(ops, G, n)]
           Body(g, n) == IF n = 0 THEN Org!NoEntries
                         ELSE IF n \in P THEN Org!NameStep(a, g[n - 1], ops[n])
                         ELSE g[n - 1]
           upto == CHOOSE g : g = [n \in 0..N |-> Body(g, n)]
<1>1. Org!fold_names(a, ops, P) = upto[N]
  BY DEF Org!fold_names, Org!FoldAt
<1>2. /\ NamedAt(ops, G, 0) = NoEntries
      /\ \A n \in 1..N : NamedAt(ops, G, n) =
           IF n \in G THEN Put(NamedAt(ops, G, n - 1), ops[n].body.member, ops[n].author)
           ELSE NamedAt(ops, G, n - 1)
  <2>1. G \in SUBSET (1..N)
    BY DEF Namings
  <2> HIDE DEF G
  <2>2. NamesMove(ops, N, G)
    BY <2>1, NamesAre
  <2> QED
    BY <2>2 DEF NamesMove
<1>3. \A n \in P : \A names :
        Org!NameStep(a, names, ops[n]) =
          IF n \in G THEN Put(names, ops[n].body.member, ops[n].author) ELSE names
  BY DEF Namings, Org!NameStep, Org!MayName, Org!Entitled, Org!ever_person,
         Org!ever_rights_of, ever_person, ever_rights_of, Org!Put, Put,
         Org!ADMINISTER, ADMINISTER
<1>4. f = [n \in 0..N |-> Body(f, n)]
  <2>1. \A n : n \in G => n \in P
    BY DEF Namings
  <2> HIDE DEF G
  <2>2. Org!NoEntries = NoEntries
    BY DEF NoEntries, Org!NoEntries
  <2>3. \A n \in 1..N : NamedAt(ops, G, n) =
          IF n \in P THEN Org!NameStep(a, NamedAt(ops, G, n - 1), ops[n])
          ELSE NamedAt(ops, G, n - 1)
    BY <1>2, <1>3, <2>1
  <2>4. \A n \in 0..N : NamedAt(ops, G, n) = Body(f, n)
    BY <1>2, <2>2, <2>3
  <2> QED
    BY <2>4
<1>5. upto = [n \in 0..N |-> Body(upto, n)]
  <2> HIDE DEF f, Body
  <2> QED
    BY <1>4
<1>6. upto[0] = f[0] /\ \A n \in 1..N : upto[n - 1] = f[n - 1] => upto[n] = f[n]
  <2> HIDE DEF f, upto, G
  <2> QED
    BY <1>4, <1>5
<1>7. upto[N] = f[N]
  <2> HIDE DEF f, upto
  <2> QED
    BY <1>6, SameUpTo
<1> QED
  BY <1>1, <1>7

\* Whoever has a name was given it.
LEMMA NamesAreShown == ViewsInv => NamesAsGiven
<1> SUFFICES ASSUME ViewsInv, contract \in {"board", "org"}, Plain(log) PROVE NamesAsGiven
  BY DEF NamesAsGiven
<1> DEFINE N == Len(log)
           P == Applied
           a == authority(log)
           G == Namings(log, a, P)
           entitled(author, k) == \/ ever_person(a, author) = k
                                  \/ ADMINISTER \in ever_rights_of(a, author)
           given(k) == {i \in About("SetMemberName", "member", k) :
                          entitled(log[i].author, k)}
           for(k) == {i \in G : log[i].body.member = k}
<1>1. /\ N \in Nat /\ P \in SUBSET (1..N)
      /\ \A i \in P : log[i].author \in Key
      /\ \A i \in P : log[i].body.op = "SetMemberName" => log[i].body.member \in Key
  BY SaidAre DEF IsBody, Board!IsBody, Org!IsBody
<1>2. view.names = NamedAt(log, G, N)
  <2>1. CASE contract = "board"
    <3>1. view.names = Board!fold_names(a, log, P)
      BY <2>1, SameAuthority DEF ViewsInv, Folded, Board!from_state, Applied
    <3> HIDE DEF a, N, P
    <3> QED
      BY <1>1, <3>1, BoardNamesFolded DEF N
  <2>2. CASE contract = "org"
    <3>1. view.names = Org!fold_names(a, log, P)
      BY <2>2, SameAuthority DEF ViewsInv, Folded, Org!from_state, Applied
    <3> HIDE DEF a, N, P
    <3> QED
      BY <1>1, <3>1, OrgNamesFolded DEF N
  <2> QED
    BY <2>1, <2>2
<1>3. \A i \in P : ever_rights_of(a, ever_person(a, log[i].author))
                    = ever_rights_of(a, log[i].author)
  BY <1>1 DEF Plain, ever_rights_of
<1>4. ASSUME NEW k PROVE given(k) = for(k)
  <2>1. About("SetMemberName", "member", k)
          = {i \in P : log[i].body.op = "SetMemberName" /\ log[i].body["member"] = k}
    BY SaidAre DEF On, Of
  <2> HIDE DEF a, P
  <2> QED
    BY <1>3, <2>1 DEF Namings
<1>5. view.names = [k \in {log[i].body.member : i \in G} |-> log[Latest(for(k))].author]
  <2>1. G \in SUBSET (1..N)
    BY <1>1 DEF Namings
  <2> HIDE DEF G
  <2>2. NamesMove(log, N, G)
    BY <1>1, <2>1, NamesAre
  <2> QED
    BY <1>2, <2>2 DEF NamesMove
<1>6. {log[i].body.member : i \in G} = {m \in Key : given(m) # {}}
  <2>1. \A i \in G : log[i].body.member \in Key
    BY <1>1 DEF Namings
  <2>2. \A m : given(m) # {} <=> \E i \in G : log[i].body.member = m
    BY <1>4
  <2> HIDE DEF G, given
  <2> QED
    BY <2>1, <2>2
<1>7. view.names = [k \in {m \in Key : given(m) # {}} |-> log[Latest(given(k))].author]
  <2> HIDE DEF given, for, G
  <2> QED
    BY <1>4, <1>5, <1>6
<1> QED
  BY <1>7 DEF NamesAsGiven

-----------------------------------------------------------------------------
(* Cards.                                                                  *)

\* What the first of some places is.
LEMMA FirstIs ==
  ASSUME NEW S, S \subseteq Nat, NEW m \in S, \A i \in S : m <= i
  PROVE  Min(S) = m
<1> DEFINE Low(x) == \A y \in S : x <= y
<1>1. Low(m)
  OBVIOUS
<1>2. \A x \in S : Low(x) => x = m
  <2> SUFFICES ASSUME NEW x \in S, Low(x) PROVE x = m
    OBVIOUS
  <2>1. x <= m /\ m <= x /\ x \in Nat /\ m \in Nat
    BY <1>1
  <2> QED
    BY <2>1
<1> HIDE DEF Low
<1>3. (CHOOSE x \in S : Low(x)) = m
  BY <1>1, <1>2
<1> QED
  BY <1>3 DEF Min, Low

\* There is a first of some places, if there are any.
LEMMA FirstExists ==
  ASSUME NEW S, S \subseteq Nat, S # {}
  PROVE  Min(S) \in S /\ \A i \in S : Min(S) <= i
<1> DEFINE R == OpToRel(<, Nat)
<1>1. PICK m \in S : \A i \in S : ~(<<i, m>> \in R)
  BY NatLessThanWellFounded, WFMin
<1>2. \A i \in S : m <= i
  <2> SUFFICES ASSUME NEW i \in S, ~(m <= i) PROVE FALSE
    OBVIOUS
  <2>1. <<i, m>> \in R
    BY DEF OpToRel
  <2> QED
    BY <1>1, <2>1
<1>3. Min(S) = m
  BY <1>2, FirstIs
<1> QED
  BY <1>2, <1>3

\* Where a card was put, among the first n, since it was last taken off.
Placings(ops, P, t, n) ==
  {i \in Till(On(ops, P, "Place", "task", t), n) : i > LastOn(ops, P, "Unplace", "task", t, n)}

CardAt(ops, P, t, n) ==
  [column |-> ops[LastOn(ops, P, "Place", "task", t, n)].body.column,
   placed_by |-> ops[Min(Placings(ops, P, t, n))].author,
   summary |-> Board!NoSummary]

CardsAt(ops, P, n) ==
  [t \in Standing(ops, P, "Place", "Unplace", "task", n) |-> CardAt(ops, P, t, n)]

\* One more op moves the cards as the fold does.
CardsMove(ops, N, P) ==
  LET at(n) == CardsAt(ops, P, n)
  IN  /\ at(0) = NoEntries
      /\ \A n \in 1..N :
           /\ n \in P /\ ops[n].body.op = "Place" =>
                at(n) = Put(at(n - 1), ops[n].body.task,
                          [column |-> ops[n].body.column,
                           placed_by |-> IF ops[n].body.task \in DOMAIN at(n - 1)
                                         THEN at(n - 1)[ops[n].body.task].placed_by
                                         ELSE ops[n].author,
                           summary |-> Board!NoSummary])
           /\ n \in P /\ ops[n].body.op = "Unplace" =>
                at(n) = Without(at(n - 1), {ops[n].body.task})
           /\ ~(n \in P /\ ops[n].body.op \in {"Place", "Unplace"}) =>
                at(n) = at(n - 1)

\* The cards, at every place, move as the fold moves them.
LEMMA CardsAre ==
  ASSUME NEW ops, NEW N \in Nat, NEW P \in SUBSET (1..N)
  PROVE  CardsMove(ops, N, P)
<1> DEFINE at(n) == CardsAt(ops, P, n)
           all(n) == Standing(ops, P, "Place", "Unplace", "task", n)
           puts(t) == On(ops, P, "Place", "task", t)
           put(t, n) == LastOn(ops, P, "Place", "task", t, n)
           off(t, n) == LastOn(ops, P, "Unplace", "task", t, n)
           since(t, n) == Placings(ops, P, t, n)
           card(t, n) == CardAt(ops, P, t, n)
<1>1. \A n : at(n) = [t \in all(n) |-> card(t, n)]
  BY DEF CardsAt
<1>2. \A t, n : card(t, n) = [column |-> ops[put(t, n)].body.column,
                              placed_by |-> ops[Min(since(t, n))].author,
                              summary |-> Board!NoSummary]
  BY DEF CardAt
<1>3. \A n, t : t \in all(n) => put(t, n) > off(t, n)
  BY DEF Standing
<1>4. /\ all(0) = {}
      /\ \A n \in 1..N : all(n) =
           IF n \in P /\ ops[n].body.op = "Place"
           THEN all(n - 1) \cup {ops[n].body.task}
           ELSE IF n \in P /\ ops[n].body.op = "Unplace"
           THEN all(n - 1) \ {ops[n].body.task}
           ELSE all(n - 1)
  <2>1. StandMoves(ops, N, P, "Place", "Unplace", "task")
    BY StandingMoves
  <2> QED
    BY <2>1 DEF StandMoves
<1>5. ASSUME NEW t, NEW n \in 1..N
      PROVE  /\ put(t, n) = IF n \in P /\ ops[n].body.op = "Place" /\ ops[n].body.task = t
                            THEN n ELSE put(t, n - 1)
             /\ off(t, n) = IF n \in P /\ ops[n].body.op = "Unplace" /\ ops[n].body.task = t
                            THEN n ELSE off(t, n - 1)
             /\ off(t, n - 1) \in 0..(n - 1) /\ put(t, n - 1) \in 0..(n - 1)
             /\ put(t, n - 1) # 0 => put(t, n - 1) \in puts(t)
  <2>1. OnMoves(ops, N, P, "Place", "task", t)
    BY LastOnMoves
  <2>2. OnMoves(ops, N, P, "Unplace", "task", t)
    BY LastOnMoves
  <2>3. n - 1 \in 0..N
    OBVIOUS
  <2>4. /\ put(t, n) = IF n \in P /\ ops[n].body.op = "Place" /\ ops[n].body.task = t
                       THEN n ELSE put(t, n - 1)
        /\ put(t, n - 1) \in 0..(n - 1)
        /\ put(t, n - 1) # 0 => put(t, n - 1) \in puts(t)
    BY <2>1, <2>3 DEF OnMoves
  <2>5. /\ off(t, n) = IF n \in P /\ ops[n].body.op = "Unplace" /\ ops[n].body.task = t
                       THEN n ELSE off(t, n - 1)
        /\ off(t, n - 1) \in 0..(n - 1)
    BY <2>2, <2>3 DEF OnMoves
  <2> QED
    BY <2>4, <2>5
<1>6. ASSUME NEW t, NEW n \in 0..N
      PROVE  \A i : i \in since(t, n) <=> i \in puts(t) /\ i \in 1..n /\ i > off(t, n)
  <2>1. puts(t) \in SUBSET (1..N)
    BY DEF On, Of
  <2> HIDE DEF puts
  <2>2. \A i : i \in Till(puts(t), n) <=> i \in puts(t) /\ i \in 1..n
    BY <2>1, LastTill
  <2> QED
    BY <2>2 DEF Placings, puts
<1>7. \A n \in P : ops[n].body.op = "Place" => n \in puts(ops[n].body.task)
  BY DEF On, Of
<1>8. \A n, t : n \in puts(t) => ops[n].body.op = "Place" /\ ops[n].body.task = t /\ n \in P
  BY DEF On, Of
<1>9. ASSUME NEW t, NEW n \in 1..N
      PROVE  t \notin all(n - 1) => since(t, n - 1) = {}
  <2> SUFFICES ASSUME NEW i \in since(t, n - 1) PROVE t \in all(n - 1)
    OBVIOUS
  <2>1. n - 1 \in 0..N
    OBVIOUS
  <2>2. i \in puts(t) /\ i \in 1..(n - 1) /\ i > off(t, n - 1)
    BY <1>6, <2>1
  <2>3. i <= put(t, n - 1)
    <3>1. puts(t) \in SUBSET (1..N)
      BY DEF On, Of
    <3> HIDE DEF puts
    <3>2. \A k \in 0..N : \A j \in Till(puts(t), k) : j <= Latest(Till(puts(t), k))
      BY <3>1, LastTill
    <3>3. \A k \in 0..N : \A j : j \in Till(puts(t), k) <=> j \in puts(t) /\ j \in 1..k
      BY <3>1, LastTill
    <3>4. /\ \A j \in Till(puts(t), n - 1) : j <= Latest(Till(puts(t), n - 1))
          /\ i \in Till(puts(t), n - 1)
      BY <2>1, <2>2, <3>2, <3>3
    <3> QED
      BY <3>4 DEF LastOn, puts
  <2>4. put(t, n - 1) > off(t, n - 1)
    BY <1>5, <2>2, <2>3
  <2>5. t \in {ops[j].body["task"] : j \in Of(ops, P, "Place")}
    BY <2>2 DEF On
  <2> QED
    BY <2>4, <2>5 DEF Standing
<1> HIDE DEF at, all, puts, put, off, since, card
<1>10. at(0) = NoEntries
  BY <1>1, <1>4 DEF NoEntries
<1>11. ASSUME NEW t, NEW n \in 1..N,
              ~(n \in P /\ ops[n].body.op \in {"Place", "Unplace"} /\ ops[n].body.task = t)
       PROVE  card(t, n) = card(t, n - 1)
  <2>1. put(t, n) = put(t, n - 1) /\ off(t, n) = off(t, n - 1)
    BY <1>5, <1>11
  <2>2. n \notin puts(t)
    BY <1>8, <1>11
  <2>3. n \in 0..N /\ n - 1 \in 0..N /\ \A i \in 1..n : i = n \/ i \in 1..(n - 1)
    OBVIOUS
  <2>4. \A i : i \in since(t, n) <=> i \in since(t, n - 1)
    BY <1>6, <2>1, <2>2, <2>3
  <2>5. since(t, n) = since(t, n - 1)
    <3>1. since(t, n) \subseteq since(t, n - 1) /\ since(t, n - 1) \subseteq since(t, n)
      BY <2>4
    <3> QED
      BY <3>1
  <2> QED
    BY <1>2, <2>1, <2>5
<1>12. ASSUME NEW n \in 1..N, n \in P, ops[n].body.op = "Unplace"
       PROVE  at(n) = Without(at(n - 1), {ops[n].body.task})
  <2> DEFINE gone == ops[n].body.task
  <2>1. all(n) = all(n - 1) \ {gone}
    BY <1>4, <1>12
  <2>2. \A t : t # gone => card(t, n) = card(t, n - 1)
    BY <1>11
  <2> HIDE DEF gone
  <2>3. at(n) = [t \in all(n - 1) \ {gone} |-> card(t, n - 1)]
    BY <1>1, <2>1, <2>2
  <2>4. at(n - 1) = [t \in all(n - 1) |-> card(t, n - 1)]
    BY <1>1
  <2> QED
    BY <2>3, <2>4 DEF Without, gone
<1>13. ASSUME NEW n \in 1..N, n \in P, ops[n].body.op = "Place"
       PROVE  at(n) = Put(at(n - 1), ops[n].body.task,
                          [column |-> ops[n].body.column,
                           placed_by |-> IF ops[n].body.task \in DOMAIN at(n - 1)
                                         THEN at(n - 1)[ops[n].body.task].placed_by
                                         ELSE ops[n].author,
                           summary |-> Board!NoSummary])
  <2> DEFINE task == ops[n].body.task
             by == IF task \in DOMAIN at(n - 1) THEN at(n - 1)[task].placed_by
                   ELSE ops[n].author
             new == [column |-> ops[n].body.column, placed_by |-> by,
                     summary |-> Board!NoSummary]
  <2>1. all(n) = all(n - 1) \cup {task}
    BY <1>4, <1>13
  <2>2. \A t : t # task => card(t, n) = card(t, n - 1)
    BY <1>11
  <2>3. at(n - 1) = [t \in all(n - 1) |-> card(t, n - 1)]
    BY <1>1
  <2>4. /\ put(task, n) = n
        /\ off(task, n) = off(task, n - 1)
        /\ off(task, n) \in 0..(n - 1)
        /\ n \in puts(task)
    BY <1>5, <1>7, <1>13
  <2>5. \A i : i \in since(task, n) <=> i = n \/ i \in since(task, n - 1)
    <3>1. n \in 0..N /\ n - 1 \in 0..N /\ (\A i \in 1..n : i = n \/ i \in 1..(n - 1))
          /\ (\A i \in 1..(n - 1) : i \in 1..n) /\ n \in 1..n
      OBVIOUS
    <3>2. n > off(task, n)
      BY <2>4
    <3> HIDE DEF task
    <3> QED
      BY <1>6, <2>4, <3>1, <3>2
  <2>6. Min(since(task, n)) = IF task \in all(n - 1) THEN Min(since(task, n - 1)) ELSE n
    <3>1. CASE task \in all(n - 1)
      <4> DEFINE old == since(task, n - 1)
                 m == Min(old)
      <4>1. n - 1 \in 0..N /\ off(task, n - 1) \in 0..(n - 1)
        BY <1>5
      <4>2. \A i : i \in old <=> i \in puts(task) /\ i \in 1..(n - 1) /\ i > off(task, n - 1)
        BY <1>6, <4>1
      <4>3. put(task, n - 1) \in old
        BY <1>3, <1>5, <3>1, <4>1, <4>2
      <4>4. old \subseteq Nat /\ old # {} /\ \A i \in old : i <= n
        BY <4>2, <4>3
      <4> HIDE DEF old
      <4>5. m \in old /\ \A i \in old : m <= i
        BY <4>4, FirstExists
      <4> HIDE DEF m, task
      <4>6. \A i : i \in since(task, n) <=> i = n \/ i \in old
        BY <2>5 DEF old
      <4>7. ASSUME NEW i \in since(task, n) PROVE i \in 1..n
        <5>1. n \in 0..N
          OBVIOUS
        <5> QED
          BY <1>6, <5>1
      <4>8. \A i \in since(task, n) : m <= i
        BY <4>4, <4>5, <4>6
      <4>9. m \in since(task, n) /\ since(task, n) \subseteq Nat
            /\ \A i \in since(task, n) : m <= i
        BY <4>5, <4>6, <4>7, <4>8
      <4>10. Min(since(task, n)) = m
        BY <4>9, FirstIs
      <4> QED
        BY <3>1, <4>10 DEF m, old
    <3>2. CASE task \notin all(n - 1)
      <4>1. since(task, n - 1) = {}
        BY <1>9, <3>2
      <4>2. \A i : i \in since(task, n) <=> i = n
        BY <2>5, <4>1
      <4>3. n \in since(task, n) /\ since(task, n) \subseteq Nat
            /\ \A i \in since(task, n) : n <= i
        BY <4>2
      <4>4. Min(since(task, n)) = n
        BY <4>3, FirstIs
      <4> QED
        BY <3>2, <4>4
    <3> QED
      BY <3>1, <3>2
  <2>7. card(task, n) = new
    <3>1. card(task, n) = [column |-> ops[n].body.column,
                           placed_by |-> ops[Min(since(task, n))].author,
                           summary |-> Board!NoSummary]
      BY <1>2, <2>4
    <3>2. ops[Min(since(task, n))].author = by
      <4>1. card(task, n - 1).placed_by = ops[Min(since(task, n - 1))].author
        BY <1>2
      <4> HIDE DEF task
      <4> QED
        BY <2>3, <2>6, <4>1
    <3> QED
      BY <3>1, <3>2
  <2> HIDE DEF new, task
  <2>8. at(n) = [t \in all(n - 1) \cup {task} |->
                   IF t = task THEN new ELSE card(t, n - 1)]
    BY <1>1, <2>1, <2>2, <2>7
  <2>9. at(n) = Put(at(n - 1), task, new)
    BY <2>3, <2>8 DEF Put
  <2> QED
    BY <2>9 DEF new, task
<1>14. ASSUME NEW n \in 1..N, ~(n \in P /\ ops[n].body.op \in {"Place", "Unplace"})
       PROVE  at(n) = at(n - 1)
  <2>1. all(n) = all(n - 1)
    BY <1>4, <1>14
  <2>2. \A t : card(t, n) = card(t, n - 1)
    BY <1>11, <1>14
  <2> QED
    BY <1>1, <2>1, <2>2
<1> QED
  BY <1>10, <1>12, <1>13, <1>14 DEF CardsMove, at

-----------------------------------------------------------------------------
(* Summaries.                                                              *)

\* The one, of some summaries, read at the task's highest clock, and of those
\* the last.
Freshest(ops, S) ==
  Latest({i \in S : \A j \in S : ops[j].body.seen <= ops[i].body.seen})

IsFreshest(ops, S, x) ==
  /\ x \in S
  /\ \A j \in S : /\ ops[j].body.seen <= ops[x].body.seen
                  /\ ops[j].body.seen = ops[x].body.seen => j <= x

\* The freshest is the one that none is fresher than, and the last of those.
LEMMA FreshestIs ==
  ASSUME NEW ops, NEW S, S \subseteq Nat, \A i \in S : ops[i].body.seen \in Nat,
         NEW x, IsFreshest(ops, S, x)
  PROVE  Freshest(ops, S) = x
<1> DEFINE seen(i) == ops[i].body.seen
           A == {i \in S : \A j \in S : seen(j) <= seen(i)}
<1>1. /\ x \in S /\ x \in Nat
      /\ \A j \in S : seen(j) \in Nat /\ seen(j) <= seen(x) /\ (seen(j) = seen(x) => j <= x)
  BY DEF IsFreshest
<1> HIDE DEF seen
<1>2. x \in A
  BY <1>1
<1>3. \A i \in A : i <= x
  <2> SUFFICES ASSUME NEW i \in A PROVE i <= x
    OBVIOUS
  <2>1. seen(i) <= seen(x) /\ seen(x) <= seen(i) /\ seen(i) \in Nat /\ seen(x) \in Nat
    BY <1>1
  <2>2. seen(i) = seen(x)
    BY <2>1
  <2> QED
    BY <1>1, <2>2
<1>4. A \subseteq Nat
  OBVIOUS
<1> HIDE DEF A
<1>5. Latest(A) = x
  BY <1>1, <1>2, <1>3, <1>4, LastIs
<1> QED
  BY <1>5 DEF Freshest, A, seen

\* What was said of a card by the first n, and what is shown of it.
Summed(ops, P, t, n) == Till(On(ops, P, "Summarize", "task", t), n)

SummariesAt(ops, P, n) ==
  [t \in Ever(ops, P, "Summarize", "task", n) |->
     [seen |-> ops[Freshest(ops, Summed(ops, P, t, n))].body.seen,
      title |-> ops[Freshest(ops, Summed(ops, P, t, n))].body.title]]

\* One more op moves the summaries as the fold does.
SummariesMove(ops, N, P) ==
  LET at(n) == SummariesAt(ops, P, n)
  IN  /\ at(0) = NoEntries
      /\ \A n \in 1..N :
           at(n) = IF n \in P /\ ops[n].body.op = "Summarize"
                   THEN Board!FreshestSummary(at(n - 1), ops[n].body)
                   ELSE at(n - 1)
      /\ \A n \in 0..N : \A t : t \in DOMAIN at(n) =>
           IsFreshest(ops, Summed(ops, P, t, n), Freshest(ops, Summed(ops, P, t, n)))

\* The summaries, at every place, move as the fold moves them.
LEMMA SummariesAre ==
  ASSUME NEW ops, NEW N \in Nat, NEW P \in SUBSET (1..N),
         \A i \in P : ops[i].body.op = "Summarize" => ops[i].body.seen \in Nat
  PROVE  SummariesMove(ops, N, P)
<1> DEFINE at(n) == SummariesAt(ops, P, n)
           all(n) == Ever(ops, P, "Summarize", "task", n)
           said(t) == On(ops, P, "Summarize", "task", t)
           till(t, n) == Summed(ops, P, t, n)
           last(t, n) == Freshest(ops, till(t, n))
           seen(i) == ops[i].body.seen
           card(t, n) == [seen |-> ops[last(t, n)].body.seen,
                          title |-> ops[last(t, n)].body.title]
<1>1. \A n : at(n) = [t \in all(n) |-> card(t, n)]
  BY DEF SummariesAt
<1>2. /\ all(0) = {}
      /\ \A n \in 1..N : all(n) = IF n \in P /\ ops[n].body.op = "Summarize"
                                  THEN all(n - 1) \cup {ops[n].body.task}
                                  ELSE all(n - 1)
  <2>1. EverMoves(ops, N, P, "Summarize", "task")
    BY EverGrows
  <2> QED
    BY <2>1 DEF EverMoves
<1>3. ASSUME NEW t
      PROVE  /\ said(t) \in SUBSET (1..N)
             /\ \A i \in said(t) : seen(i) \in Nat
             /\ \A i : i \in said(t) <=> i \in P /\ ops[i].body.op = "Summarize"
                                         /\ ops[i].body.task = t
  BY DEF On, Of
<1>4. ASSUME NEW t, NEW n \in 0..N
      PROVE  \A i : i \in till(t, n) <=> i \in said(t) /\ i \in 1..n
  <2>1. said(t) \in SUBSET (1..N)
    BY <1>3
  <2> HIDE DEF said
  <2>2. \A i : i \in Till(said(t), n) <=> i \in said(t) /\ i \in 1..n
    BY <2>1, LastTill
  <2> QED
    BY <2>2 DEF Summed, said
<1>5. ASSUME NEW n \in 0..N, NEW t
      PROVE  t \in all(n) <=> till(t, n) # {}
  <2> DEFINE of == Of(ops, P, "Summarize")
  <2>1. of \in SUBSET (1..N) /\ \A i : i \in of <=> i \in P /\ ops[i].body.op = "Summarize"
    BY DEF Of
  <2> HIDE DEF of
  <2>2. \A i : i \in Till(of, n) <=> i \in of /\ i \in 1..n
    BY <2>1, LastTill
  <2>3. t \in all(n) <=> \E i \in Till(of, n) : t = ops[i].body["task"]
    BY DEF Ever, of
  <2>4. \A i : i \in till(t, n) <=> i \in Till(of, n) /\ ops[i].body.task = t
    <3>1. \A i : i \in till(t, n) <=> i \in said(t) /\ i \in 1..n
      BY <1>4
    <3> HIDE DEF till
    <3> QED
      BY <1>3, <2>1, <2>2, <3>1
  <2> HIDE DEF till, all
  <2> QED
    BY <2>3, <2>4
<1> HIDE DEF at, all, said, till, seen
<1>6. ASSUME NEW t, NEW n \in 1..N, n \notin said(t)
      PROVE  till(t, n) = till(t, n - 1)
  <2>1. n \in 0..N /\ n - 1 \in 0..N /\ \A i \in 1..n : i = n \/ i \in 1..(n - 1)
    OBVIOUS
  <2>2. \A i : i \in till(t, n) <=> i \in till(t, n - 1)
    BY <1>4, <1>6, <2>1
  <2>3. till(t, n) = {i \in till(t, n) : TRUE} /\ till(t, n - 1) = {i \in till(t, n - 1) : TRUE}
    OBVIOUS
  <2> QED
    BY <2>2, <2>3
<1>7. ASSUME NEW t, NEW n \in 1..N, n \in said(t)
      PROVE  /\ n \in till(t, n) /\ seen(n) \in Nat
             /\ \A i \in till(t, n) : i \in 1..n /\ seen(i) \in Nat /\ (i = n \/ i \in till(t, n - 1))
             /\ \A i \in till(t, n - 1) : i \in 1..(n - 1) /\ seen(i) \in Nat /\ i \in till(t, n)
  <2>1. n \in 0..N /\ n - 1 \in 0..N /\ (\A i \in 1..n : i = n \/ i \in 1..(n - 1))
        /\ (\A i \in 1..(n - 1) : i \in 1..n) /\ n \in 1..n
    OBVIOUS
  <2> QED
    BY <1>3, <1>4, <1>7, <2>1
<1>8. ASSUME NEW t, NEW n \in 1..N, n \in said(t),
             \A i \in till(t, n - 1) : seen(i) <= seen(n)
      PROVE  IsFreshest(ops, till(t, n), n)
  <2>1. ASSUME NEW j \in till(t, n) PROVE seen(j) <= seen(n) /\ j <= n
    BY <1>7, <1>8
  <2> QED
    BY <1>7, <1>8, <2>1 DEF IsFreshest, seen
<1>9. ASSUME NEW t, NEW n \in 1..N, n \in said(t), NEW x,
             IsFreshest(ops, till(t, n - 1), x), ~(seen(x) <= seen(n))
      PROVE  IsFreshest(ops, till(t, n), x)
  <2>1. /\ x \in till(t, n - 1)
        /\ \A j \in till(t, n - 1) : seen(j) <= seen(x) /\ (seen(j) = seen(x) => j <= x)
    BY <1>9 DEF IsFreshest, seen
  <2>2. seen(x) \in Nat /\ seen(n) \in Nat /\ x \in till(t, n)
    BY <1>7, <1>9, <2>1
  <2>3. seen(n) <= seen(x) /\ seen(n) # seen(x)
    BY <1>9, <2>2
  <2>4. ASSUME NEW j \in till(t, n)
        PROVE  seen(j) <= seen(x) /\ (seen(j) = seen(x) => j <= x)
    <3>1. j = n \/ j \in till(t, n - 1)
      BY <1>7, <1>9
    <3> QED
      BY <2>1, <2>3, <3>1
  <2> QED
    BY <2>2, <2>4 DEF IsFreshest, seen
<1>10. ASSUME NEW t, NEW n \in 0..N, NEW x, IsFreshest(ops, till(t, n), x)
       PROVE  last(t, n) = x
  <2>1. \A i \in till(t, n) : i \in Nat /\ ops[i].body.seen \in Nat
    BY <1>3, <1>4 DEF seen
  <2> QED
    BY <1>10, <2>1, FreshestIs
<1>11. ASSUME NEW t, NEW n \in 0..N
       PROVE  till(t, n) # {} => IsFreshest(ops, till(t, n), last(t, n))
  <2> DEFINE T == {m \in 0..N : till(t, m) = {} \/ \E x : IsFreshest(ops, till(t, m), x)}
  <2>1. 0 \in T
    <3>1. till(t, 0) = {}
      BY <1>4
    <3> QED
      BY <3>1
  <2>2. ASSUME NEW m \in 1..N, m - 1 \in T PROVE m \in T
    <3>1. CASE m \notin said(t)
      <4>1. till(t, m) = till(t, m - 1)
        BY <1>6, <3>1
      <4> QED
        BY <2>2, <4>1
    <3>2. CASE m \in said(t) /\ \A i \in till(t, m - 1) : seen(i) <= seen(m)
      BY <1>8, <3>2
    <3>3. CASE m \in said(t) /\ \E i \in till(t, m - 1) : ~(seen(i) <= seen(m))
      <4>1. PICK x : IsFreshest(ops, till(t, m - 1), x)
        BY <2>2, <3>3
      <4>2. ~(seen(x) <= seen(m))
        <5>1. PICK i \in till(t, m - 1) : ~(seen(i) <= seen(m))
          BY <3>3
        <5>2. x \in till(t, m - 1) /\ seen(i) <= seen(x)
          BY <4>1 DEF IsFreshest, seen
        <5>3. seen(i) \in Nat /\ seen(x) \in Nat /\ seen(m) \in Nat
          BY <1>7, <3>3, <5>2
        <5> QED
          BY <5>1, <5>2, <5>3
      <4> QED
        BY <1>9, <3>3, <4>1, <4>2
    <3> QED
      BY <3>1, <3>2, <3>3
  <2>3. n \in T
    <3> HIDE DEF T
    <3> QED
      BY <2>1, <2>2, UpTo
  <2> QED
    BY <1>10, <2>3
<1>12. at(0) = NoEntries
  BY <1>1, <1>2 DEF NoEntries
<1>13. ASSUME NEW n \in 1..N, n \in P, ops[n].body.op = "Summarize"
       PROVE  at(n) = Board!FreshestSummary(at(n - 1), ops[n].body)
  <2> DEFINE task == ops[n].body.task
             known == IF task \in DOMAIN at(n - 1) THEN at(n - 1)[task] ELSE Board!NoSummary
             new == IF ops[n].body.seen >= known.seen
                    THEN [seen |-> ops[n].body.seen, title |-> ops[n].body.title]
                    ELSE known
  <2>1. all(n) = all(n - 1) \cup {task}
    BY <1>2, <1>13
  <2>2. \A t : t # task => card(t, n) = card(t, n - 1)
    <3> SUFFICES ASSUME NEW t, t # task PROVE card(t, n) = card(t, n - 1)
      OBVIOUS
    <3>1. till(t, n) = till(t, n - 1)
      BY <1>3, <1>6
    <3> QED
      BY <3>1
  <2>3. at(n - 1) = [t \in all(n - 1) |-> card(t, n - 1)]
    BY <1>1
  <2>4. n \in said(task) /\ n - 1 \in 0..N /\ n \in 0..N
    BY <1>3, <1>13
  <2>5. known.seen = IF task \in all(n - 1) THEN seen(last(task, n - 1)) ELSE 0
    BY <2>3 DEF seen, Board!NoSummary
  <2>6. card(task, n) = new
    <3>1. CASE task \notin all(n - 1)
      <4>1. till(task, n - 1) = {}
        BY <1>5, <2>4, <3>1
      <4>2. IsFreshest(ops, till(task, n), n)
        BY <1>8, <2>4, <4>1
      <4>3. last(task, n) = n
        BY <1>10, <2>4, <4>2
      <4>4. ops[n].body.seen \in Nat /\ known.seen = 0
        BY <1>13, <2>5, <3>1
      <4>5. ops[n].body.seen >= known.seen
        BY <4>4
      <4> QED
        BY <4>3, <4>5
    <3>2. CASE task \in all(n - 1) /\ seen(last(task, n - 1)) <= seen(n)
      <4>1. IsFreshest(ops, till(task, n - 1), last(task, n - 1))
        BY <1>5, <1>11, <2>4, <3>2
      <4>2. \A i \in till(task, n - 1) : seen(i) <= seen(n)
        <5> SUFFICES ASSUME NEW i \in till(task, n - 1) PROVE seen(i) <= seen(n)
          OBVIOUS
        <5>1. last(task, n - 1) \in till(task, n - 1) /\ seen(i) <= seen(last(task, n - 1))
          BY <4>1 DEF IsFreshest, seen
        <5>2. seen(i) \in Nat /\ seen(last(task, n - 1)) \in Nat /\ seen(n) \in Nat
          BY <1>7, <2>4, <5>1
        <5> HIDE DEF last, task
        <5> QED
          BY <3>2, <5>1, <5>2
      <4>3. last(task, n) = n
        BY <1>8, <1>10, <2>4, <4>2
      <4>4. ops[n].body.seen >= known.seen
        <5>1. IsFreshest(ops, till(task, n - 1), last(task, n - 1))
                => last(task, n - 1) \in till(task, n - 1)
          BY DEF IsFreshest
        <5>2. seen(last(task, n - 1)) \in Nat /\ seen(n) \in Nat
          BY <1>7, <2>4, <4>1, <5>1
        <5>3. known.seen = seen(last(task, n - 1)) /\ ops[n].body.seen = seen(n)
          BY <2>5, <3>2 DEF seen
        <5> HIDE DEF known, last
        <5> QED
          BY <3>2, <5>2, <5>3
      <4> HIDE DEF known
      <4> QED
        BY <4>3, <4>4
    <3>3. CASE task \in all(n - 1) /\ ~(seen(last(task, n - 1)) <= seen(n))
      <4>1. IsFreshest(ops, till(task, n - 1), last(task, n - 1))
        BY <1>5, <1>11, <2>4, <3>3
      <4>2. last(task, n) = last(task, n - 1)
        BY <1>9, <1>10, <2>4, <3>3, <4>1
      <4>3. known = card(task, n - 1)
        BY <2>3, <3>3
      <4>4. ~(ops[n].body.seen >= known.seen)
        <5>1. IsFreshest(ops, till(task, n - 1), last(task, n - 1))
                => last(task, n - 1) \in till(task, n - 1)
          BY DEF IsFreshest
        <5>2. seen(last(task, n - 1)) \in Nat /\ seen(n) \in Nat
          BY <1>7, <2>4, <4>1, <5>1
        <5>3. known.seen = seen(last(task, n - 1)) /\ ops[n].body.seen = seen(n)
          BY <2>5, <3>3 DEF seen
        <5> HIDE DEF known, last
        <5> QED
          BY <3>3, <5>2, <5>3
      <4> HIDE DEF known
      <4> QED
        BY <4>2, <4>3, <4>4
    <3> QED
      BY <3>1, <3>2, <3>3
  <2>7. Board!FreshestSummary(at(n - 1), ops[n].body) = Put(at(n - 1), task, new)
    BY DEF Board!FreshestSummary, Board!Put, Put
  <2> HIDE DEF new, task, card
  <2>8. at(n) = [t \in all(n - 1) \cup {task} |->
                   IF t = task THEN new ELSE card(t, n - 1)]
    BY <1>1, <2>1, <2>2, <2>6
  <2>9. at(n) = Put(at(n - 1), task, new)
    BY <2>3, <2>8 DEF Put
  <2> QED
    BY <2>7, <2>9
<1>14. ASSUME NEW n \in 1..N, ~(n \in P /\ ops[n].body.op = "Summarize")
       PROVE  at(n) = at(n - 1)
  <2>1. all(n) = all(n - 1)
    BY <1>2, <1>14
  <2>2. \A t : card(t, n) = card(t, n - 1)
    <3> TAKE t
    <3>1. till(t, n) = till(t, n - 1)
      BY <1>3, <1>6, <1>14
    <3> QED
      BY <3>1
  <2> HIDE DEF card
  <2> QED
    BY <1>1, <2>1, <2>2
<1>15. \A n \in 0..N : \A t : t \in DOMAIN at(n) => IsFreshest(ops, till(t, n), last(t, n))
  BY <1>1, <1>5, <1>11
<1> QED
  BY <1>12, <1>13, <1>14, <1>15 DEF SummariesMove, at, till

-----------------------------------------------------------------------------
(* Boards.                                                                 *)

\* What a reader of the first n would say of the cards, and of the columns.
TasksAt(ops, P, n) == [tasks |-> CardsAt(ops, P, n), summaries |-> SummariesAt(ops, P, n)]

ColumnsAt(ops, P, n) ==
  [columns |-> Kept(ops, P, "SetColumn", "none", "column", "rank", n),
   removed |-> Ever(ops, P, "RemoveColumn", "column", n)]

\* Cards and columns as they are folded.
LEMMA TasksFolded ==
  ASSUME NEW ops, NEW N \in Nat, Len(ops) = N, NEW P \in SUBSET (1..N),
         \A i \in P : Board!IsBody(ops[i].body)
  PROVE  LET folded == TasksAt(ops, P, N)
         IN  Board!fold_tasks(ops, P) =
               [t \in DOMAIN folded.tasks |->
                  IF t \in DOMAIN folded.summaries
                  THEN [folded.tasks[t] EXCEPT !.summary = folded.summaries[t]]
                  ELSE folded.tasks[t]]
<1> DEFINE f == [n \in 0..N |-> TasksAt(ops, P, n)]
           Base == [tasks |-> Board!NoEntries, summaries |-> Board!NoEntries]
           Body(g, n) == IF n = 0 THEN Base
                         ELSE IF n \in P THEN Board!TaskStep(g[n - 1], ops[n])
                         ELSE g[n - 1]
           upto == CHOOSE g : g = [n \in 0..N |-> Body(g, n)]
           cards(n) == CardsAt(ops, P, n)
           summaries(n) == SummariesAt(ops, P, n)
<1>1. Board!fold_tasks(ops, P) =
        [t \in DOMAIN upto[N].tasks |->
           IF t \in DOMAIN upto[N].summaries
           THEN [upto[N].tasks[t] EXCEPT !.summary = upto[N].summaries[t]]
           ELSE upto[N].tasks[t]]
  BY DEF Board!fold_tasks, Board!FoldAt
<1>2. CardsMove(ops, N, P)
  BY CardsAre
<1>3. SummariesMove(ops, N, P)
  BY SummariesAre DEF Board!IsBody
<1>4. \A n : TasksAt(ops, P, n) = [tasks |-> cards(n), summaries |-> summaries(n)]
  BY DEF TasksAt
<1>5. cards(0) = Board!NoEntries /\ summaries(0) = Board!NoEntries
  BY <1>2, <1>3 DEF CardsMove, SummariesMove, NoEntries, Board!NoEntries
<1>6. ASSUME NEW n \in 1..N, n \in P, ops[n].body.op = "Place"
      PROVE  TasksAt(ops, P, n) = Board!TaskStep(TasksAt(ops, P, n - 1), ops[n])
  <2> DEFINE was == TasksAt(ops, P, n - 1)
             new == Board!Placed(was.tasks, ops[n])
  <2>1. Board!TaskStep(was, ops[n]) = [was EXCEPT !.tasks = new]
    BY <1>6 DEF Board!TaskStep
  <2>2. was.tasks = cards(n - 1)
    BY <1>4
  <2>3. Board!Placed(cards(n - 1), ops[n]) = cards(n)
    BY <1>2, <1>6 DEF CardsMove, Board!Placed, Board!Put, Put
  <2>4. new = cards(n)
    BY <2>2, <2>3
  <2>5. summaries(n) = summaries(n - 1)
    BY <1>3, <1>6 DEF SummariesMove
  <2> HIDE DEF new, cards, summaries
  <2>6. [was EXCEPT !.tasks = new] = [tasks |-> new, summaries |-> summaries(n - 1)]
    BY <1>4
  <2> QED
    BY <1>4, <2>1, <2>4, <2>5, <2>6
<1>7. ASSUME NEW n \in 1..N, n \in P, ops[n].body.op = "Unplace"
      PROVE  TasksAt(ops, P, n) = Board!TaskStep(TasksAt(ops, P, n - 1), ops[n])
  <2> DEFINE was == TasksAt(ops, P, n - 1)
             new == Board!Without(was.tasks, {ops[n].body.task})
  <2>1. Board!TaskStep(was, ops[n]) = [was EXCEPT !.tasks = new]
    BY <1>7 DEF Board!TaskStep
  <2>2. was.tasks = cards(n - 1)
    BY <1>4
  <2>3. Board!Without(cards(n - 1), {ops[n].body.task}) = cards(n)
    BY <1>2, <1>7 DEF CardsMove, Board!Without, Without
  <2>4. new = cards(n)
    BY <2>2, <2>3
  <2>5. summaries(n) = summaries(n - 1)
    BY <1>3, <1>7 DEF SummariesMove
  <2> HIDE DEF new, cards, summaries
  <2>6. [was EXCEPT !.tasks = new] = [tasks |-> new, summaries |-> summaries(n - 1)]
    BY <1>4
  <2> QED
    BY <1>4, <2>1, <2>4, <2>5, <2>6
<1>8. ASSUME NEW n \in 1..N, n \in P, ops[n].body.op = "Summarize"
      PROVE  TasksAt(ops, P, n) = Board!TaskStep(TasksAt(ops, P, n - 1), ops[n])
  <2> DEFINE was == TasksAt(ops, P, n - 1)
             new == Board!FreshestSummary(was.summaries, ops[n].body)
  <2>1. Board!TaskStep(was, ops[n]) = [was EXCEPT !.summaries = new]
    BY <1>8 DEF Board!TaskStep
  <2>2. was.summaries = summaries(n - 1)
    BY <1>4
  <2>3. Board!FreshestSummary(summaries(n - 1), ops[n].body) = summaries(n)
    BY <1>3, <1>8 DEF SummariesMove
  <2>4. new = summaries(n)
    BY <2>2, <2>3
  <2>5. cards(n) = cards(n - 1)
    BY <1>2, <1>8 DEF CardsMove
  <2> HIDE DEF new, cards, summaries
  <2>6. [was EXCEPT !.summaries = new] = [tasks |-> cards(n - 1), summaries |-> new]
    BY <1>4
  <2> QED
    BY <1>4, <2>1, <2>4, <2>5, <2>6
<1>9. ASSUME NEW n \in 1..N, n \in P, ops[n].body.op \notin {"Place", "Unplace", "Summarize"}
      PROVE  TasksAt(ops, P, n) = Board!TaskStep(TasksAt(ops, P, n - 1), ops[n])
  <2>1. Board!TaskStep(TasksAt(ops, P, n - 1), ops[n]) = TasksAt(ops, P, n - 1)
    BY <1>9 DEF Board!TaskStep
  <2>2. cards(n) = cards(n - 1) /\ summaries(n) = summaries(n - 1)
    BY <1>2, <1>3, <1>9 DEF CardsMove, SummariesMove
  <2> QED
    BY <1>4, <2>1, <2>2
<1>10. ASSUME NEW n \in 1..N, n \notin P
       PROVE  TasksAt(ops, P, n) = TasksAt(ops, P, n - 1)
  <2>1. cards(n) = cards(n - 1) /\ summaries(n) = summaries(n - 1)
    BY <1>2, <1>3, <1>10 DEF CardsMove, SummariesMove
  <2> QED
    BY <1>4, <2>1
<1>11. f = [n \in 0..N |-> Body(f, n)]
  <2>1. TasksAt(ops, P, 0) = Base
    BY <1>4, <1>5
  <2>2. \A n \in 1..N : TasksAt(ops, P, n) =
          IF n \in P THEN Board!TaskStep(TasksAt(ops, P, n - 1), ops[n])
          ELSE TasksAt(ops, P, n - 1)
    BY <1>6, <1>7, <1>8, <1>9, <1>10
  <2> HIDE DEF Base
  <2>3. \A n \in 0..N : TasksAt(ops, P, n) = Body(f, n)
    BY <2>1, <2>2
  <2> QED
    BY <2>3
<1>12. upto = [n \in 0..N |-> Body(upto, n)]
  <2> HIDE DEF f, Body
  <2> QED
    BY <1>11
<1>13. upto[0] = f[0] /\ \A n \in 1..N : upto[n - 1] = f[n - 1] => upto[n] = f[n]
  <2> HIDE DEF f, upto, Base
  <2> QED
    BY <1>11, <1>12
<1>14. upto[N] = f[N]
  <2> HIDE DEF f, upto
  <2> QED
    BY <1>13, SameUpTo
<1>15. upto[N] = TasksAt(ops, P, N)
  BY <1>14
<1> HIDE DEF upto
<1> QED
  BY <1>1, <1>15

\* The columns of the fold are those last set, and those ever removed.
LEMMA ColumnsFolded ==
  ASSUME NEW ops, NEW N \in Nat, Len(ops) = N, NEW P \in SUBSET (1..N),
         \A i \in P : Board!IsBody(ops[i].body)
  PROVE  Board!fold_columns(ops, P) = ColumnsAt(ops, P, N)
<1> DEFINE f == [n \in 0..N |-> ColumnsAt(ops, P, n)]
           Base == [columns |-> Board!NoEntries, removed |-> {}]
           Body(g, n) == IF n = 0 THEN Base
                         ELSE IF n \in P THEN Board!ColumnStep(g[n - 1], ops[n].body)
                         ELSE g[n - 1]
           upto == CHOOSE g : g = [n \in 0..N |-> Body(g, n)]
           columns(n) == Kept(ops, P, "SetColumn", "none", "column", "rank", n)
           removed(n) == Ever(ops, P, "RemoveColumn", "column", n)
<1>1. Board!fold_columns(ops, P) = upto[N]
  BY DEF Board!fold_columns, Board!FoldAt
<1>2. /\ columns(0) = NoEntries
      /\ \A n \in 1..N : columns(n) =
           IF n \in P /\ ops[n].body.op = "SetColumn"
           THEN Put(columns(n - 1), ops[n].body.column, ops[n].body.rank)
           ELSE columns(n - 1)
  <2>1. KeepMoves(ops, N, P, "SetColumn", "none", "column", "rank")
    BY KeptMoves
  <2>2. \A n \in P : ops[n].body.op # "none"
    BY DEF Board!IsBody
  <2> QED
    BY <2>1, <2>2 DEF KeepMoves
<1>3. /\ removed(0) = {}
      /\ \A n \in 1..N : removed(n) =
           IF n \in P /\ ops[n].body.op = "RemoveColumn"
           THEN removed(n - 1) \cup {ops[n].body.column}
           ELSE removed(n - 1)
  <2>1. EverMoves(ops, N, P, "RemoveColumn", "column")
    BY EverGrows
  <2> QED
    BY <2>1 DEF EverMoves
<1>4. \A n : ColumnsAt(ops, P, n) = [columns |-> columns(n), removed |-> removed(n)]
  BY DEF ColumnsAt
<1> HIDE DEF columns, removed
<1>5. ASSUME NEW n \in 1..N, n \in P, ops[n].body.op = "SetColumn"
      PROVE  ColumnsAt(ops, P, n) = Board!ColumnStep(ColumnsAt(ops, P, n - 1), ops[n].body)
  <2> DEFINE was == ColumnsAt(ops, P, n - 1)
             new == Board!Put(was.columns, ops[n].body.column, ops[n].body.rank)
  <2>1. Board!ColumnStep(was, ops[n].body) = [was EXCEPT !.columns = new]
    BY <1>5 DEF Board!ColumnStep
  <2>2. was.columns = columns(n - 1)
    BY <1>4
  <2>3. Board!Put(columns(n - 1), ops[n].body.column, ops[n].body.rank) = columns(n)
    BY <1>2, <1>5 DEF Board!Put, Put
  <2>4. new = columns(n)
    BY <2>2, <2>3
  <2>5. removed(n) = removed(n - 1)
    BY <1>3, <1>5
  <2> HIDE DEF new
  <2>6. [was EXCEPT !.columns = new] = [columns |-> new, removed |-> removed(n - 1)]
    BY <1>4
  <2> QED
    BY <1>4, <2>1, <2>4, <2>5, <2>6
<1>6. ASSUME NEW n \in 1..N, n \in P, ops[n].body.op = "RemoveColumn"
      PROVE  ColumnsAt(ops, P, n) = Board!ColumnStep(ColumnsAt(ops, P, n - 1), ops[n].body)
  <2> DEFINE was == ColumnsAt(ops, P, n - 1)
             new == was.removed \cup {ops[n].body.column}
  <2>1. Board!ColumnStep(was, ops[n].body) = [was EXCEPT !.removed = new]
    BY <1>6 DEF Board!ColumnStep
  <2>2. was.removed = removed(n - 1)
    BY <1>4
  <2>3. new = removed(n)
    BY <1>3, <1>6, <2>2
  <2>4. columns(n) = columns(n - 1)
    BY <1>2, <1>6
  <2> HIDE DEF new
  <2>5. [was EXCEPT !.removed = new] = [columns |-> columns(n - 1), removed |-> new]
    BY <1>4
  <2> QED
    BY <1>4, <2>1, <2>3, <2>4, <2>5
<1>7. ASSUME NEW n \in 1..N, n \in P, ops[n].body.op \notin {"SetColumn", "RemoveColumn"}
      PROVE  ColumnsAt(ops, P, n) = Board!ColumnStep(ColumnsAt(ops, P, n - 1), ops[n].body)
  <2>1. Board!ColumnStep(ColumnsAt(ops, P, n - 1), ops[n].body) = ColumnsAt(ops, P, n - 1)
    BY <1>7 DEF Board!ColumnStep
  <2> QED
    BY <1>2, <1>3, <1>4, <1>7, <2>1
<1>8. ASSUME NEW n \in 1..N, n \notin P
      PROVE  ColumnsAt(ops, P, n) = ColumnsAt(ops, P, n - 1)
  BY <1>2, <1>3, <1>4, <1>8
<1>9. f = [n \in 0..N |-> Body(f, n)]
  <2>1. ColumnsAt(ops, P, 0) = Base
    BY <1>2, <1>3, <1>4 DEF NoEntries, Board!NoEntries
  <2>2. \A n \in 1..N : ColumnsAt(ops, P, n) =
          IF n \in P THEN Board!ColumnStep(ColumnsAt(ops, P, n - 1), ops[n].body)
          ELSE ColumnsAt(ops, P, n - 1)
    BY <1>5, <1>6, <1>7, <1>8
  <2> HIDE DEF Base
  <2>3. \A n \in 0..N : ColumnsAt(ops, P, n) = Body(f, n)
    BY <2>1, <2>2
  <2> QED
    BY <2>3
<1>10. upto = [n \in 0..N |-> Body(upto, n)]
  <2> HIDE DEF f, Body
  <2> QED
    BY <1>9
<1>11. upto[0] = f[0] /\ \A n \in 1..N : upto[n - 1] = f[n - 1] => upto[n] = f[n]
  <2> HIDE DEF f, upto, Base
  <2> QED
    BY <1>9, <1>10
<1>12. upto[N] = f[N]
  <2> HIDE DEF f, upto
  <2> QED
    BY <1>11, SameUpTo
<1> QED
  BY <1>1, <1>12

\* There is a first of some columns, if there are any.
LEMMA FirstColumnIsOne ==
  ASSUME NEW columns, DOMAIN columns \subseteq Nat, DOMAIN columns # {},
         \A c \in DOMAIN columns : columns[c] \in Nat
  PROVE  Board!FirstColumn(columns) \in DOMAIN columns
<1> DEFINE All == DOMAIN columns
           ranks == {columns[c] : c \in All}
           r == Min(ranks)
           C == {c \in All : columns[c] = r}
           first == Min(C)
<1>1. ranks \subseteq Nat /\ ranks # {}
  OBVIOUS
<1>2. r \in ranks /\ \A x \in ranks : r <= x
  <2> HIDE DEF ranks
  <2> QED
    BY <1>1, FirstExists
<1>3. C \subseteq Nat /\ C # {}
  <2> HIDE DEF r
  <2> QED
    BY <1>2
<1>4. first \in C /\ \A c \in C : first <= c
  <2> HIDE DEF C
  <2> QED
    BY <1>3, FirstExists
<1>5. \A d \in All \ {first} :
        columns[first] < columns[d] \/ (columns[first] = columns[d] /\ first < d)
  <2> SUFFICES ASSUME NEW d \in All \ {first}
               PROVE  columns[first] < columns[d] \/ (columns[first] = columns[d] /\ first < d)
    OBVIOUS
  <2>1. first \in All /\ columns[first] = r
    BY <1>4
  <2>2. r <= columns[d]
    BY <1>2
  <2>3. columns[d] = r => first <= d
    BY <1>4
  <2>4. first \in Nat /\ d \in Nat /\ columns[d] \in Nat /\ columns[first] \in Nat
    BY <2>1
  <2> HIDE DEF first, r
  <2> QED
    BY <2>1, <2>2, <2>3, <2>4
<1>6. first \in All
  BY <1>4
<1> HIDE DEF first
<1> QED
  BY <1>5, <1>6 DEF Board!FirstColumn

\* What is shown of a board, in the closed forms.
BoardShows(P, N) ==
  LET cards == CardsAt(log, P, N)
      said == SummariesAt(log, P, N)
      removed == Ever(log, P, "RemoveColumn", "column", N)
      left == Without(Kept(log, P, "SetColumn", "none", "column", "rank", N), removed)
  IN  /\ view.columns = left
      /\ DOMAIN view.tasks = DOMAIN cards
      /\ \A t \in DOMAIN cards :
           /\ view.tasks[t].placed_by = cards[t].placed_by
           /\ view.tasks[t].summary = IF t \in DOMAIN said THEN said[t] ELSE Board!NoSummary
           /\ view.tasks[t].column =
                IF DOMAIN left # {} /\ cards[t].column \in removed
                THEN Board!FirstColumn(left)
                ELSE cards[t].column

\* A page shows the cards, the summaries and the columns of the fold.
LEMMA BoardIsShown ==
  ASSUME ViewsInv, contract = "board"
  PROVE  BoardShows(Applied, Len(log))
<1> DEFINE N == Len(log)
           P == Applied
           cards == CardsAt(log, P, N)
           said == SummariesAt(log, P, N)
           columns == Kept(log, P, "SetColumn", "none", "column", "rank", N)
           removed == Ever(log, P, "RemoveColumn", "column", N)
           left == Without(columns, removed)
           tasks == [t \in DOMAIN cards |->
                       IF t \in DOMAIN said THEN [cards[t] EXCEPT !.summary = said[t]]
                       ELSE cards[t]]
           moved == [t \in DOMAIN tasks |->
                       IF tasks[t].column \in removed
                       THEN [tasks[t] EXCEPT !.column = Board!FirstColumn(left)]
                       ELSE tasks[t]]
<1>1. P = Board!Applied(log)
  BY DEF Applied
<1>2. /\ N \in Nat /\ P \in SUBSET (1..N)
      /\ \A i \in P : Board!IsBody(log[i].body)
  BY SaidAre DEF IsBody
<1>3. Board!fold_tasks(log, P) = tasks
  <2>1. Len(log) = N
    OBVIOUS
  <2> HIDE DEF P, N, cards, said, columns, removed, left, tasks, moved
  <2>2. LET folded == TasksAt(log, P, N)
        IN  Board!fold_tasks(log, P) =
              [t \in DOMAIN folded.tasks |->
                 IF t \in DOMAIN folded.summaries
                 THEN [folded.tasks[t] EXCEPT !.summary = folded.summaries[t]]
                 ELSE folded.tasks[t]]
    BY <1>2, <2>1, TasksFolded
  <2>3. TasksAt(log, P, N).tasks = cards /\ TasksAt(log, P, N).summaries = said
    BY DEF TasksAt, cards, said
  <2> QED
    BY <2>2, <2>3 DEF tasks
<1>4. Board!fold_columns(log, P) = [columns |-> columns, removed |-> removed]
  <2> HIDE DEF P
  <2> QED
    BY <1>2, ColumnsFolded DEF ColumnsAt
<1>5. \A t \in DOMAIN cards :
        cards[t] = [column |-> cards[t].column, placed_by |-> cards[t].placed_by,
                    summary |-> Board!NoSummary]
  <2>1. \A t \in DOMAIN cards : cards[t] = CardAt(log, P, t, N)
    BY DEF CardsAt
  <2> HIDE DEF cards
  <2> QED
    BY <2>1 DEF CardAt
<1>6. \A t \in DOMAIN cards :
        tasks[t] = [column |-> cards[t].column, placed_by |-> cards[t].placed_by,
                    summary |-> IF t \in DOMAIN said THEN said[t] ELSE Board!NoSummary]
  <2> HIDE DEF cards, said
  <2>1. ASSUME NEW t \in DOMAIN cards, t \in DOMAIN said
        PROVE  [cards[t] EXCEPT !.summary = said[t]]
                 = [column |-> cards[t].column, placed_by |-> cards[t].placed_by,
                    summary |-> said[t]]
    BY <1>5
  <2> QED
    BY <1>5, <2>1
<1>7. /\ view.columns = left
      /\ view.tasks = IF DOMAIN left = {} THEN tasks ELSE moved
  <2> HIDE DEF P, columns, removed, tasks
  <2>1. Board!drop_removed_columns(columns, removed, tasks) =
          [columns |-> left, tasks |-> IF DOMAIN left = {} THEN tasks ELSE moved]
    BY DEF Board!drop_removed_columns, Board!Without, Without
  <2>2. /\ view.columns = Board!drop_removed_columns(columns, removed, tasks).columns
        /\ view.tasks = Board!drop_removed_columns(columns, removed, tasks).tasks
    BY <1>1, <1>3, <1>4 DEF ViewsInv, Folded, Board!from_state
  <2> QED
    BY <2>1, <2>2
<1>8. /\ DOMAIN tasks = DOMAIN cards
      /\ DOMAIN moved = DOMAIN tasks
      /\ \A t \in DOMAIN tasks :
           moved[t] = IF tasks[t].column \in removed
                      THEN [tasks[t] EXCEPT !.column = Board!FirstColumn(left)]
                      ELSE tasks[t]
  OBVIOUS
<1> HIDE DEF cards, said, tasks, removed, left, moved
<1>9. ASSUME NEW t \in DOMAIN cards
      PROVE  /\ view.tasks[t].placed_by = cards[t].placed_by
             /\ view.tasks[t].summary = IF t \in DOMAIN said THEN said[t] ELSE Board!NoSummary
             /\ view.tasks[t].column =
                  IF DOMAIN left # {} /\ cards[t].column \in removed
                  THEN Board!FirstColumn(left)
                  ELSE cards[t].column
  <2>1. CASE DOMAIN left # {} /\ cards[t].column \in removed
    <3>1. view.tasks[t] = [tasks[t] EXCEPT !.column = Board!FirstColumn(left)]
      BY <1>6, <1>7, <1>8, <2>1
    <3> DEFINE summary == IF t \in DOMAIN said THEN said[t] ELSE Board!NoSummary
               by == cards[t].placed_by
               column == cards[t].column
               first == Board!FirstColumn(left)
    <3>2. tasks[t] = [column |-> column, placed_by |-> by, summary |-> summary]
      BY <1>6
    <3> HIDE DEF summary, by, column, first
    <3>3. [tasks[t] EXCEPT !.column = first]
            = [column |-> first, placed_by |-> by, summary |-> summary]
      BY <3>2
    <3>4. [tasks[t] EXCEPT !.column = Board!FirstColumn(left)]
            = [column |-> Board!FirstColumn(left), placed_by |-> cards[t].placed_by,
               summary |-> IF t \in DOMAIN said THEN said[t] ELSE Board!NoSummary]
      BY <3>3 DEF summary, by, first
    <3> QED
      BY <2>1, <3>1, <3>4
  <2>2. CASE ~(DOMAIN left # {} /\ cards[t].column \in removed)
    <3> DEFINE summary == IF t \in DOMAIN said THEN said[t] ELSE Board!NoSummary
    <3>1. tasks[t] = [column |-> cards[t].column, placed_by |-> cards[t].placed_by,
                      summary |-> summary]
      BY <1>6
    <3> HIDE DEF summary
    <3>2. tasks[t].column = cards[t].column /\ tasks[t].placed_by = cards[t].placed_by
          /\ tasks[t].summary = summary
      BY <3>1
    <3>3. view.tasks[t] = tasks[t]
      BY <1>7, <1>8, <2>2, <3>2
    <3>4. (IF DOMAIN left # {} /\ cards[t].column \in removed
           THEN Board!FirstColumn(left) ELSE cards[t].column) = cards[t].column
      BY <2>2
    <3> QED
      BY <3>3, <3>2, <3>4 DEF summary
  <2> QED
    BY <2>1, <2>2
<1>10. DOMAIN view.tasks = DOMAIN cards
  BY <1>7, <1>8
<1> QED
  BY <1>7, <1>9, <1>10 DEF BoardShows, cards, said, removed, left

\* The columns that are left are numbers, with ranks that are numbers.
LEMMA ColumnsTyped ==
  ASSUME NEW ops, NEW N \in Nat, NEW P \in SUBSET (1..N),
         \A i \in P : Board!IsBody(ops[i].body)
  PROVE  LET columns == Kept(ops, P, "SetColumn", "none", "column", "rank", N)
         IN  /\ DOMAIN columns \subseteq Nat
             /\ \A c \in DOMAIN columns : columns[c] \in Nat
<1> DEFINE all == Standing(ops, P, "SetColumn", "none", "column", N)
           set(c) == LastOn(ops, P, "SetColumn", "column", c, N)
<1>1. \A c \in all : c \in {ops[i].body["column"] : i \in Of(ops, P, "SetColumn")}
  BY DEF Standing
<1>2. all \subseteq Nat
  BY <1>1 DEF Of, Board!IsBody
<1>3. ASSUME NEW c \in all PROVE ops[set(c)].body.rank \in Nat
  <2>1. OnMoves(ops, N, P, "SetColumn", "column", c)
    BY LastOnMoves
  <2>2. OnMoves(ops, N, P, "none", "column", c)
    BY LastOnMoves
  <2>3. N \in 0..N
    OBVIOUS
  <2>4. set(c) > LastOn(ops, P, "none", "column", c, N)
    BY DEF Standing
  <2>5. set(c) # 0
    BY <2>1, <2>2, <2>3, <2>4 DEF OnMoves
  <2>6. set(c) \in On(ops, P, "SetColumn", "column", c)
    BY <2>1, <2>3, <2>5 DEF OnMoves
  <2> QED
    BY <2>6 DEF On, Of, Board!IsBody
<1> QED
  BY <1>2, <1>3 DEF Kept

\* Cards are where they were placed.
LEMMA CardsAreShown == ViewsInv => CardsAsPlaced
<1> SUFFICES ASSUME ViewsInv, contract = "board" PROVE CardsAsPlaced
  BY DEF CardsAsPlaced
<1> DEFINE N == Len(log)
           P == Applied
           off(t) == Latest(About("Unplace", "task", t))
           puts(t) == {i \in About("Place", "task", t) : i > off(t)}
           said(t) == About("Summarize", "task", t)
           freshest(t) == Latest({i \in said(t) : \A j \in said(t) :
                                  log[j].body.seen <= log[i].body.seen})
           gone(c) == About("RemoveColumn", "column", c) # {}
           last(t) == LastOn(log, P, "Place", "task", t, N)
           cards == CardsAt(log, P, N)
           summaries == SummariesAt(log, P, N)
           removed == Ever(log, P, "RemoveColumn", "column", N)
           columns == Kept(log, P, "SetColumn", "none", "column", "rank", N)
           left == Without(columns, removed)
<1>1. /\ N \in Nat /\ P \in SUBSET (1..N)
      /\ \A i \in P : Board!IsBody(log[i].body)
  BY SaidAre DEF IsBody
<1>2. /\ view.columns = left
      /\ DOMAIN view.tasks = DOMAIN cards
      /\ \A t \in DOMAIN cards :
           /\ view.tasks[t].placed_by = cards[t].placed_by
           /\ view.tasks[t].summary =
                IF t \in DOMAIN summaries THEN summaries[t] ELSE Board!NoSummary
           /\ view.tasks[t].column =
                IF DOMAIN left # {} /\ cards[t].column \in removed
                THEN Board!FirstColumn(left)
                ELSE cards[t].column
  BY BoardIsShown DEF BoardShows
<1>3. ASSUME NEW kind, NEW field, NEW value
      PROVE  /\ About(kind, field, value) \in SUBSET (1..N)
             /\ \A i : i \in About(kind, field, value)
                         <=> i \in P /\ log[i].body.op = kind /\ log[i].body[field] = value
             /\ Till(About(kind, field, value), N) = About(kind, field, value)
             /\ Latest(About(kind, field, value)) \in About(kind, field, value) \cup {0}
             /\ \A i \in About(kind, field, value) : i <= Latest(About(kind, field, value))
  <2> DEFINE S == About(kind, field, value)
  <2>1. S = On(log, P, kind, field, value)
    BY SaidAre
  <2>2. S \in SUBSET (1..N)
        /\ \A i : i \in S <=> i \in P /\ log[i].body.op = kind /\ log[i].body[field] = value
    BY <1>1, <2>1 DEF On, Of
  <2> HIDE DEF S, N
  <2>3. /\ Till(S, N) = S
        /\ \A n \in 0..N : /\ Latest(Till(S, n)) \in Till(S, n) \cup {0}
                           /\ \A i \in Till(S, n) : i <= Latest(Till(S, n))
    BY <1>1, <2>2, LastTill
  <2>4. N \in 0..N
    BY <1>1
  <2> QED
    BY <2>2, <2>3, <2>4 DEF S
<1>4. ASSUME NEW t
      PROVE  /\ last(t) = Latest(About("Place", "task", t))
             /\ off(t) = LastOn(log, P, "Unplace", "task", t, N)
             /\ puts(t) = Placings(log, P, t, N)
             /\ said(t) = Summed(log, P, t, N)
             /\ freshest(t) = Freshest(log, Summed(log, P, t, N))
  <2>1. last(t) = Latest(About("Place", "task", t))
        /\ off(t) = LastOn(log, P, "Unplace", "task", t, N)
    BY LatestIsLast
  <2>2. About("Place", "task", t) = Till(On(log, P, "Place", "task", t), N)
    BY <1>3, SaidAre
  <2>3. said(t) = Summed(log, P, t, N)
    BY <1>3, SaidAre DEF Summed
  <2> QED
    BY <2>1, <2>2, <2>3 DEF Placings, Freshest
<1>5. ASSUME NEW t
      PROVE  /\ t \in DOMAIN cards <=> puts(t) # {}
             /\ puts(t) # {} => Latest(puts(t)) = last(t) /\ t \in Everything("Place", "task")
  <2> DEFINE A == About("Place", "task", t)
  <2>1. /\ A \in SUBSET (1..N) /\ last(t) \in A \cup {0} /\ \A i \in A : i <= last(t)
        /\ off(t) \in Nat
    <3> DEFINE B == About("Unplace", "task", t)
    <3>1. A \in SUBSET (1..N) /\ last(t) \in A \cup {0} /\ \A i \in A : i <= last(t)
      <4>1. /\ A \in SUBSET (1..N) /\ Latest(A) \in A \cup {0}
            /\ \A i \in A : i <= Latest(A)
        <5> HIDE DEF N, P
        <5> QED
          BY <1>3
      <4>2. last(t) = Latest(A)
        BY <1>4
      <4> HIDE DEF last, N, P, A
      <4> QED
        BY <4>1, <4>2
    <3>2. B \in SUBSET (1..N) /\ off(t) \in B \cup {0}
      <4> HIDE DEF N, P
      <4> QED
        BY <1>3
    <3> HIDE DEF off, last, A, B, N
    <3>3. off(t) \in Nat
      <4>1. CASE off(t) = 0
        BY <4>1
      <4>2. CASE off(t) \in 1..N
        BY <1>1, <4>2
      <4> QED
        BY <3>2, <4>1, <4>2
    <3> QED
      BY <3>1, <3>3
  <2>2. puts(t) = {i \in A : i > off(t)}
    OBVIOUS
  <2>3. t \in DOMAIN cards <=> last(t) > off(t) /\ \E i \in P : log[i].body.op = "Place"
                                                               /\ log[i].body["task"] = t
    BY <1>4 DEF CardsAt, Standing, Of
  <2>4. \A i : i \in A <=> i \in P /\ log[i].body.op = "Place" /\ log[i].body["task"] = t
    BY <1>3
  <2> HIDE DEF puts, A, last, off, cards, P, N
  <2>5. A \subseteq Nat /\ last(t) \in Nat
    <3>1. \A i \in 1..N : i \in Nat
      BY <1>1
    <3>2. \A i \in A : i \in Nat
      BY <2>1, <3>1
    <3>3. last(t) \in A \/ last(t) = 0
      BY <2>1
    <3> QED
      BY <3>2, <3>3
  <2>6. last(t) > off(t) => last(t) \in puts(t)
    BY <2>1, <2>2
  <2>7. \A i \in puts(t) : i \in A /\ i > off(t) /\ i <= last(t) /\ i \in Nat
    BY <2>1, <2>2, <2>5
  <2>8. puts(t) # {} => last(t) > off(t)
    BY <2>1, <2>5, <2>7
  <2>9. puts(t) # {} => Latest(puts(t)) = last(t)
    BY <2>5, <2>6, <2>7, <2>8, LastIs
  <2>10. puts(t) # {} => t \in Everything("Place", "task")
    <3>1. \A i \in A : i \in Said("Place") /\ log[i].body["task"] = t
      BY DEF A, About
    <3> QED
      BY <2>7, <3>1 DEF Everything
  <2> QED
    BY <2>3, <2>4, <2>6, <2>7, <2>8, <2>9, <2>10
<1>6. DOMAIN view.tasks = {t \in Everything("Place", "task") : puts(t) # {}}
  <2> HIDE DEF puts, cards
  <2> QED
    BY <1>2, <1>5
<1>7. \A c : c \in removed <=> gone(c)
  <2> TAKE c
  <2> DEFINE A == About("RemoveColumn", "column", c)
             S == Of(log, P, "RemoveColumn")
  <2>1. Till(S, N) = S
    <3>1. S \in SUBSET (1..N)
      BY <1>1 DEF Of
    <3> HIDE DEF S, N
    <3> QED
      BY <1>1, <3>1, LastTill
  <2>2. c \in removed <=> \E i \in S : c = log[i].body["column"]
    BY <2>1 DEF Ever
  <2>3. \A i : i \in A <=> i \in S /\ log[i].body["column"] = c
    BY <1>3 DEF Of
  <2> HIDE DEF A, S, removed
  <2> QED
    BY <2>2, <2>3 DEF A
<1>8. \A c \in DOMAIN left : ~gone(c)
  <2>1. \A c \in DOMAIN left : c \notin removed
    BY DEF Without
  <2> HIDE DEF gone, removed, left
  <2> QED
    BY <1>7, <2>1
<1>9. DOMAIN left # {} => Board!FirstColumn(left) \in DOMAIN left
  <2>1. DOMAIN columns \subseteq Nat /\ \A c \in DOMAIN columns : columns[c] \in Nat
    <3> HIDE DEF P, N
    <3> QED
      BY <1>1, ColumnsTyped
  <2>2. DOMAIN left \subseteq Nat /\ \A c \in DOMAIN left : left[c] \in Nat
    <3> HIDE DEF columns, removed
    <3> QED
      BY <2>1 DEF Without
  <2> HIDE DEF left
  <2> QED
    BY <2>2, FirstColumnIsOne
<1>10. ASSUME NEW t \in DOMAIN view.tasks
       PROVE  LET card == view.tasks[t]
                  put == log[Latest(puts(t))].body.column
              IN  /\ card.placed_by = log[Min(puts(t))].author
                  /\ ~gone(put) => card.column = put
                  /\ gone(card.column) => DOMAIN view.columns = {}
                  /\ said(t) # {} => card.summary.title = log[freshest(t)].body.title
  <2> DEFINE card == view.tasks[t]
             put == log[Latest(puts(t))].body.column
  <2>1. t \in DOMAIN cards /\ Latest(puts(t)) = last(t)
    BY <1>2, <1>5
  <2>2. cards[t].column = put /\ cards[t].placed_by = log[Min(puts(t))].author
    <3>1. cards[t] = CardAt(log, P, t, N)
      BY <2>1 DEF CardsAt
    <3>2. CardAt(log, P, t, N).column = log[last(t)].body.column
          /\ CardAt(log, P, t, N).placed_by = log[Min(Placings(log, P, t, N))].author
      BY DEF CardAt
    <3> HIDE DEF cards, puts, last
    <3> QED
      BY <1>4, <2>1, <3>1, <3>2
  <2>3. card.placed_by = log[Min(puts(t))].author
    BY <1>2, <2>1, <2>2
  <2>4. card.column = IF DOMAIN left # {} /\ put \in removed
                      THEN Board!FirstColumn(left) ELSE put
    BY <1>2, <2>1, <2>2
  <2>5. ~gone(put) => card.column = put
    <3> HIDE DEF gone, put, left, removed, card
    <3> QED
      BY <1>7, <2>4
  <2>6. gone(card.column) => DOMAIN view.columns = {}
    <3> HIDE DEF gone, put, left, removed, card
    <3> QED
      BY <1>2, <1>7, <1>8, <1>9, <2>4
  <2>7. said(t) # {} => card.summary.title = log[freshest(t)].body.title
    <3> SUFFICES ASSUME said(t) # {}
                 PROVE  card.summary.title = log[freshest(t)].body.title
      OBVIOUS
    <3>1. t \in DOMAIN summaries
      <4>1. \A i \in said(t) : i \in Of(log, P, "Summarize") /\ log[i].body["task"] = t
        BY <1>3 DEF Of
      <4>2. Till(Of(log, P, "Summarize"), N) = Of(log, P, "Summarize")
        <5> DEFINE S == Of(log, P, "Summarize")
        <5>1. S \in SUBSET (1..N)
          BY <1>1 DEF Of
        <5> HIDE DEF S, N
        <5> QED
          BY <1>1, <5>1, LastTill DEF S
      <4> HIDE DEF said
      <4>3. t \in Ever(log, P, "Summarize", "task", N)
        BY <4>1, <4>2 DEF Ever
      <4> QED
        BY <4>3 DEF SummariesAt
    <3>2. summaries[t].title = log[freshest(t)].body.title
      <4>1. summaries[t].title = log[Freshest(log, Summed(log, P, t, N))].body.title
        BY <3>1 DEF SummariesAt
      <4> HIDE DEF summaries, freshest
      <4> QED
        BY <1>4, <4>1
    <3> HIDE DEF summaries, cards, freshest
    <3> QED
      BY <1>2, <2>1, <3>1, <3>2
  <2> QED
    BY <2>3, <2>5, <2>6, <2>7
<1> HIDE DEF puts, said, freshest, gone
<1> QED
  BY <1>6, <1>10 DEF CardsAsPlaced, puts, said, freshest, gone, off

\* What is done is what is shown, of every kind of contract, of any number of
\* ops, written by whoever, in whatever order they came.
THEOREM DoneIsAlwaysShown == ViewsSpec => []ShownAsDone
<1>1. ViewsInv => ShownAsDone
  BY CardsAreShown, NamesAreShown, TaskIsShown, ProfileIsShown DEF ShownAsDone
<1> QED
  BY <1>1, ViewsInvHolds, PTL

-----------------------------------------------------------------------------
(* Projects.                                                               *)

\* What a reader of the first n would say of an organization's projects.
ProjectsAt(ops, P, n) ==
  [projects |-> Ever(ops, P, "AddProject", "board", n),
   removed |-> Ever(ops, P, "RemoveProject", "board", n)]

\* Projects as they are folded.
LEMMA ProjectsFolded ==
  ASSUME NEW ops, NEW N \in Nat, Len(ops) = N, NEW P \in SUBSET (1..N), P = Org!Applied(ops)
  PROVE  Org!from_state(ops).projects =
           ProjectsAt(ops, P, N).projects \ ProjectsAt(ops, P, N).removed
<1> DEFINE f == [n \in 0..N |-> ProjectsAt(ops, P, n)]
           Base == [projects |-> {}, removed |-> {}]
           Body(g, n) == IF n = 0 THEN Base
                         ELSE IF n \in P THEN Org!ProjectStep(g[n - 1], ops[n].body)
                         ELSE g[n - 1]
           upto == CHOOSE g : g = [n \in 0..N |-> Body(g, n)]
           projects(n) == Ever(ops, P, "AddProject", "board", n)
           removed(n) == Ever(ops, P, "RemoveProject", "board", n)
<1>1. Org!from_state(ops).projects = upto[N].projects \ upto[N].removed
  BY DEF Org!from_state, Org!FoldAt
<1>2. /\ projects(0) = {}
      /\ \A n \in 1..N : projects(n) =
           IF n \in P /\ ops[n].body.op = "AddProject"
           THEN projects(n - 1) \cup {ops[n].body.board}
           ELSE projects(n - 1)
  <2>1. EverMoves(ops, N, P, "AddProject", "board")
    BY EverGrows
  <2> QED
    BY <2>1 DEF EverMoves
<1>3. /\ removed(0) = {}
      /\ \A n \in 1..N : removed(n) =
           IF n \in P /\ ops[n].body.op = "RemoveProject"
           THEN removed(n - 1) \cup {ops[n].body.board}
           ELSE removed(n - 1)
  <2>1. EverMoves(ops, N, P, "RemoveProject", "board")
    BY EverGrows
  <2> QED
    BY <2>1 DEF EverMoves
<1>4. \A n : ProjectsAt(ops, P, n) = [projects |-> projects(n), removed |-> removed(n)]
  BY DEF ProjectsAt
<1> HIDE DEF projects, removed
<1>5. ASSUME NEW n \in 1..N, n \in P
      PROVE  ProjectsAt(ops, P, n) = Org!ProjectStep(ProjectsAt(ops, P, n - 1), ops[n].body)
  <2> DEFINE was == ProjectsAt(ops, P, n - 1)
  <2>1. was = [projects |-> projects(n - 1), removed |-> removed(n - 1)]
    BY <1>4
  <2> HIDE DEF was
  <2>2. CASE ops[n].body.op = "AddProject"
    BY <1>2, <1>3, <1>4, <1>5, <2>1, <2>2 DEF Org!ProjectStep, was
  <2>3. CASE ops[n].body.op = "RemoveProject"
    BY <1>2, <1>3, <1>4, <1>5, <2>1, <2>3 DEF Org!ProjectStep, was
  <2>4. CASE ops[n].body.op \notin {"AddProject", "RemoveProject"}
    BY <1>2, <1>3, <1>4, <1>5, <2>1, <2>4 DEF Org!ProjectStep, was
  <2> QED
    BY <2>2, <2>3, <2>4
<1>6. ASSUME NEW n \in 1..N, n \notin P
      PROVE  ProjectsAt(ops, P, n) = ProjectsAt(ops, P, n - 1)
  BY <1>2, <1>3, <1>4, <1>6
<1>7. f = [n \in 0..N |-> Body(f, n)]
  <2>1. ProjectsAt(ops, P, 0) = Base
    BY <1>2, <1>3, <1>4
  <2> HIDE DEF Base
  <2>2. \A n \in 0..N : ProjectsAt(ops, P, n) = Body(f, n)
    BY <1>5, <1>6, <2>1
  <2> QED
    BY <2>2
<1>8. upto = [n \in 0..N |-> Body(upto, n)]
  <2> HIDE DEF f, Body
  <2> QED
    BY <1>7
<1>9. upto[0] = f[0] /\ \A n \in 1..N : upto[n - 1] = f[n - 1] => upto[n] = f[n]
  <2> HIDE DEF f, upto, Base
  <2> QED
    BY <1>7, <1>8
<1>10. upto[N] = f[N]
  <2> HIDE DEF f, upto
  <2> QED
    BY <1>9, SameUpTo
<1>11. upto[N] = ProjectsAt(ops, P, N)
  <2> HIDE DEF upto
  <2> QED
    BY <1>10
<1> HIDE DEF upto
<1> QED
  BY <1>1, <1>11

-----------------------------------------------------------------------------
(* What an op that arrives may never undo.                                 *)

\* The kinds of op whose effect is to last.
Lasting(kind) ==
  \/ contract = "board" /\ kind \in {"RemoveColumn", "Summarize"}
  \/ contract = "org" /\ kind = "RemoveProject"

\* What has been removed is not shown, and what is shown of a task is as fresh
\* as anything that was said of it.
LastingIsShown ==
  /\ contract = "board" =>
       /\ \A c \in Everything("RemoveColumn", "column") : c \notin DOMAIN view.columns
       /\ \A t \in DOMAIN view.tasks :
            LET shown == view.tasks[t].summary.seen
                said == About("Summarize", "task", t)
            IN  /\ shown \in Nat
                /\ \A i \in said : log[i].body.seen <= shown
                /\ shown = 0 \/ \E i \in said : log[i].body.seen = shown
  /\ contract = "org" /\ Plain(log) =>
       \A p \in Everything("RemoveProject", "board") : p \notin view.projects

\* So it is of a page that shows the fold of its log.
LEMMA WhatLastsIsShown == ViewsInv => LastingIsShown
<1> SUFFICES ASSUME ViewsInv PROVE LastingIsShown
  OBVIOUS
<1> DEFINE N == Len(log)
           P == Applied
<1>1. ASSUME contract = "board"
      PROVE  /\ \A c \in Everything("RemoveColumn", "column") : c \notin DOMAIN view.columns
             /\ \A t \in DOMAIN view.tasks :
                  LET shown == view.tasks[t].summary.seen
                      said == About("Summarize", "task", t)
                  IN  /\ shown \in Nat
                      /\ \A i \in said : log[i].body.seen <= shown
                      /\ shown = 0 \/ \E i \in said : log[i].body.seen = shown
  <2> DEFINE removed == Ever(log, P, "RemoveColumn", "column", N)
             columns == Kept(log, P, "SetColumn", "none", "column", "rank", N)
             summaries == SummariesAt(log, P, N)
             cards == CardsAt(log, P, N)
  <2>1. /\ N \in Nat /\ P \in SUBSET (1..N)
        /\ \A i \in P : Board!IsBody(log[i].body)
    BY <1>1, SaidAre DEF IsBody
  <2>2. /\ view.columns = Without(columns, removed)
        /\ DOMAIN view.tasks = DOMAIN cards
        /\ \A t \in DOMAIN cards : view.tasks[t].summary =
             IF t \in DOMAIN summaries THEN summaries[t] ELSE Board!NoSummary
    BY <1>1, BoardIsShown DEF BoardShows
  <2>3. Everything("RemoveColumn", "column") = removed
    <3>1. Said("RemoveColumn") = Of(log, P, "RemoveColumn")
      BY <1>1, SaidAre
    <3>2. Of(log, P, "RemoveColumn") \in SUBSET (1..N)
      BY <2>1 DEF Of
    <3>3. Till(Of(log, P, "RemoveColumn"), N) = Of(log, P, "RemoveColumn")
      BY <2>1, <3>2, LastTill
    <3> QED
      BY <3>1, <3>3 DEF Everything, Ever
  <2>4. DOMAIN view.columns = DOMAIN columns \ removed
    <3> HIDE DEF columns, removed
    <3> QED
      BY <2>2 DEF Without
  <2>5. ASSUME NEW t \in DOMAIN view.tasks
        PROVE  LET shown == view.tasks[t].summary.seen
                   said == About("Summarize", "task", t)
               IN  /\ shown \in Nat
                   /\ \A i \in said : log[i].body.seen <= shown
                   /\ shown = 0 \/ \E i \in said : log[i].body.seen = shown
    <3> DEFINE S == Summed(log, P, t, N)
               x == Freshest(log, S)
    <3>1. About("Summarize", "task", t) = On(log, P, "Summarize", "task", t)
      BY <1>1, SaidAre
    <3>2. /\ On(log, P, "Summarize", "task", t) \in SUBSET (1..N)
          /\ \A i : i \in On(log, P, "Summarize", "task", t) =>
               i \in P /\ log[i].body.op = "Summarize" /\ log[i].body["task"] = t
      BY <2>1 DEF On, Of
    <3>3. S = On(log, P, "Summarize", "task", t)
      BY <2>1, <3>2, LastTill DEF Summed
    <3>4. \A i \in S : log[i].body.seen \in Nat
      BY <2>1, <3>2, <3>3 DEF Board!IsBody
    <3>5. t \in DOMAIN summaries <=> S # {}
      <4>1. t \in DOMAIN summaries <=> t \in Ever(log, P, "Summarize", "task", N)
        BY DEF SummariesAt
      <4>2. Till(Of(log, P, "Summarize"), N) = Of(log, P, "Summarize")
        BY <2>1, LastTill DEF Of
      <4> QED
        BY <3>3, <4>1, <4>2 DEF Ever, On
    <3>6. CASE S = {}
      <4>1. view.tasks[t].summary = Board!NoSummary
        BY <2>2, <3>5, <3>6
      <4> QED
        BY <3>1, <3>3, <3>6, <4>1 DEF Board!NoSummary
    <3>7. CASE S # {}
      <4>1. view.tasks[t].summary.seen = log[x].body.seen
        <5>1. view.tasks[t].summary = summaries[t] /\ t \in DOMAIN summaries
          BY <2>2, <3>5, <3>7
        <5> QED
          BY <5>1 DEF SummariesAt
      <4>2. IsFreshest(log, S, x)
        <5>1. SummariesMove(log, N, P)
          BY <2>1, SummariesAre DEF Board!IsBody
        <5>2. t \in DOMAIN summaries /\ N \in 0..N
          BY <2>1, <3>5, <3>7
        <5> QED
          BY <5>1, <5>2 DEF SummariesMove
      <4> HIDE DEF x, S
      <4> QED
        BY <3>1, <3>3, <3>4, <4>1, <4>2 DEF IsFreshest
    <3> QED
      BY <3>6, <3>7
  <2> QED
    BY <2>3, <2>4, <2>5
<1>2. ASSUME contract = "org", Plain(log), NEW p \in Everything("RemoveProject", "board")
      PROVE  p \notin view.projects
  <2>1. N \in Nat /\ P \in SUBSET (1..N) /\ P = Org!Applied(log)
    BY <1>2, SaidAre DEF Applied
  <2>2. view.projects = ProjectsAt(log, P, N).projects \ ProjectsAt(log, P, N).removed
    <3>1. view = Org!from_state(log)
      BY <1>2 DEF ViewsInv, Folded
    <3> HIDE DEF N, P
    <3> QED
      BY <2>1, <3>1, ProjectsFolded DEF N
  <2>3. Said("RemoveProject") = Of(log, P, "RemoveProject")
    BY <1>2, SaidAre
  <2>4. Till(Of(log, P, "RemoveProject"), N) = Of(log, P, "RemoveProject")
    BY <2>1, LastTill DEF Of
  <2> QED
    BY <1>2, <2>2, <2>3, <2>4 DEF Everything, Ever, ProjectsAt
<1> QED
  BY <1>1, <1>2 DEF LastingIsShown

\* Whatever the authors of a state's ops declare, they have ever held.
DeclaredHeld ==
  \A i \in Readable(log) :
    log[i].rights \subseteq ever_rights_of(authority(log), log[i].author)

\* What was said, and was to last, is said still when one more op has arrived.
LEMMA SaidStaysSaid ==
  ASSUME DeclaresNeeds, ViewsInv, ViewsInv', DeclaredHeld',
         [ViewsNext]_views_vars, NEW kind, Lasting(kind), NEW i \in Said(kind)
  PROVE  \E j \in Said(kind)' : log'[j] = log[i]
<1>1. CASE UNCHANGED views_vars
  <2>1. log' = log /\ contract' = contract
    BY <1>1 DEF views_vars
  <2>2. Said(kind)' = Said(kind)
    BY <2>1 DEF Said, needs
  <2> QED
    BY <2>1, <2>2
<1>2. CASE ViewsNext
  <2>1. PICK op \in Pool[contract], place \in 1..(Len(log) + 1) : Receive(op, place)
    BY <1>2 DEF ViewsNext
  <2>2. log' = InsertAt(log, place, op) /\ contract' = contract
    BY <2>1 DEF Receive
  <2>3. /\ InsertAt(log, place, op) \in Seq(Pool[contract])
        /\ Len(InsertAt(log, place, op)) = Len(log) + 1
        /\ \A j \in 1..(Len(log) + 1) : InsertAt(log, place, op)[j] =
             IF j < place THEN log[j] ELSE IF j = place THEN op ELSE log[j - 1]
    BY Inserted DEF ViewsInv
  <2> DEFINE j == IF i < place THEN i ELSE i + 1
  <2>4. /\ i \in 1..Len(log) /\ Len(log) \in Nat
        /\ log[i].kind = "APPLICATION" /\ log[i].legible /\ log[i].body.op = kind
        /\ log[i] \in Pool[contract]
    BY DEF Said, ViewsInv
  <2>5. j \in 1..(Len(log) + 1) /\ (IF j < place THEN j = i ELSE j # place /\ j - 1 = i)
    BY <2>4
  <2>6. j \in DOMAIN log' /\ log'[j] = log[i]
    <3>1. DOMAIN log' = 1..(Len(log) + 1)
      BY <2>2, <2>3, <2>4
    <3> HIDE DEF j
    <3> QED
      BY <2>2, <2>3, <2>5, <3>1
  <2> HIDE DEF j
  <2>7. log[i].rights \subseteq ever_rights_of(authority(log'), log[i].author)
    BY <2>4, <2>6 DEF DeclaredHeld, Readable
  <2>8. needs(log[i].body) \subseteq log[i].rights
    BY <2>4 DEF ViewsInv, DeclaresNeeds, Lasting, needs
  <2>9. j \in Said(kind)'
    <3>1. CASE contract = "board"
      <4>1. Board!needs(log[i].body) \subseteq ever_rights_of(authority(log'), log[i].author)
        BY <2>7, <2>8, <3>1 DEF needs
      <4> QED
        BY <2>2, <2>4, <2>6, <3>1, <4>1 DEF Said, needs
    <3>2. CASE contract = "org"
      <4>1. Org!needs(log[i].body) \subseteq ever_rights_of(authority(log'), log[i].author)
        BY <2>7, <2>8, <3>2 DEF needs
      <4> QED
        BY <2>2, <2>4, <2>6, <3>2, <4>1 DEF Said, needs
    <3> QED
      BY <3>1, <3>2 DEF Lasting
  <2> QED
    BY <2>6, <2>9
<1> QED
  BY <1>1, <1>2

\* No summary is replaced by one from an older state of its task, and no column or
\* project that was removed comes back, whatever arrives and in whatever order:
\* fold_tasks and fold_columns of board.rs, from_state of org.rs.
THEOREM NothingEverComesBack == ASSUME DeclaresNeeds PROVE ViewsSpec => NothingComesBack
<1> DEFINE Inv == ViewsInv /\ LastingIsShown /\ DeclaredHeld
           Undone ==
             /\ contract = "board" =>
                  /\ \A t \in DOMAIN view.tasks \cap DOMAIN view'.tasks :
                       view.tasks[t].summary.seen <= view'.tasks[t].summary.seen
                  /\ \A c \in Everything("RemoveColumn", "column") :
                       c \notin DOMAIN view'.columns
             /\ contract = "org" /\ Plain(log') =>
                  \A p \in Everything("RemoveProject", "board") : p \notin view'.projects
<1>1. ViewsInv => Inv
  BY WhatLastsIsShown, DeclaredWasHeld DEF DeclaredHeld
<1>2. Inv /\ Inv' /\ [ViewsNext]_views_vars => [Undone]_views_vars
  <2> SUFFICES ASSUME Inv, Inv', [ViewsNext]_views_vars PROVE Undone
    OBVIOUS
  <2>1. contract' = contract
    BY DEF ViewsNext, Receive, views_vars
  <2>2. ASSUME NEW kind, Lasting(kind), NEW field
        PROVE  Everything(kind, field) \subseteq Everything(kind, field)'
    BY <2>2, SaidStaysSaid DEF Everything
  <2>3. ASSUME NEW kind, Lasting(kind), NEW field, NEW value,
               NEW i \in About(kind, field, value)
        PROVE  \E j \in About(kind, field, value)' : log'[j] = log[i]
    <3>1. i \in Said(kind) /\ log[i].body[field] = value
      BY DEF About
    <3>2. PICK j \in Said(kind)' : log'[j] = log[i]
      BY <2>3, <3>1, SaidStaysSaid
    <3> QED
      BY <3>1, <3>2 DEF About
  <2>4. ASSUME contract = "board", NEW t \in DOMAIN view.tasks \cap DOMAIN view'.tasks
        PROVE  view.tasks[t].summary.seen <= view'.tasks[t].summary.seen
    <3> DEFINE shown == view.tasks[t].summary.seen
               said == About("Summarize", "task", t)
    <3>1. shown \in Nat /\ (shown = 0 \/ \E i \in said : log[i].body.seen = shown)
      BY <2>4 DEF LastingIsShown
    <3>2. shown' \in Nat /\ \A j \in said' : log'[j].body.seen <= shown'
      BY <2>1, <2>4 DEF LastingIsShown
    <3>3. CASE shown = 0
      BY <3>1, <3>2, <3>3
    <3>4. CASE shown # 0
      <4>1. PICK i \in said : log[i].body.seen = shown
        BY <3>1, <3>4
      <4>2. PICK j \in said' : log'[j] = log[i]
        BY <2>3, <2>4, <4>1 DEF Lasting
      <4> QED
        BY <3>2, <4>1, <4>2
    <3> QED
      BY <3>3, <3>4
  <2>5. ASSUME contract = "board", NEW c \in Everything("RemoveColumn", "column")
        PROVE  c \notin DOMAIN view'.columns
    <3>1. c \in Everything("RemoveColumn", "column")'
      BY <2>2, <2>5 DEF Lasting
    <3> QED
      BY <2>1, <2>5, <3>1 DEF LastingIsShown
  <2>6. ASSUME contract = "org", Plain(log'), NEW p \in Everything("RemoveProject", "board")
        PROVE  p \notin view'.projects
    <3>1. p \in Everything("RemoveProject", "board")'
      BY <2>2, <2>6 DEF Lasting
    <3> QED
      BY <2>1, <2>6, <3>1 DEF LastingIsShown
  <2> QED
    BY <2>4, <2>5, <2>6
<1>3. ViewsSpec => []Inv
  BY <1>1, ViewsInvHolds, PTL
<1>4. ViewsSpec => [][Undone]_views_vars
  BY <1>2, <1>3, PTL DEF ViewsSpec
<1> QED
  BY <1>4 DEF NothingComesBack

=============================================================================
