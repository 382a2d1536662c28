---------------------------- MODULE SessionProofs ----------------------------
(***************************************************************************)
(* What a page has before any board is open: a connection, for any number  *)
(* of sockets, by which no edit of a board is abandoned; an identity, for  *)
(* any number of generations of the delegate that keeps it; and the        *)
(* directory, for any pages, boards and rivals: what a page lists is in it *)
(* or on its way there, and a claim gives way only to an earlier one.      *)
(***************************************************************************)
EXTENDS Connection, Identity, Directory, WellFoundedInduction, TLAPS

\* What may be asked, and answered, while this build is loaded.
SeedRequest == [to : 1..build, replace : BOOLEAN, seed : Seed]
Reply == [from : 1..build, seed : Seed, created : BOOLEAN]

Typed ==
  /\ secret \in [Generation -> Seed \cup {0}]
  /\ build \in Generation
  /\ registered \subseteq 1..build /\ build \in registered
  /\ pages \in 1..MaxPages
  /\ identity \in Seed \cup {0} /\ mine \in Seed \cup {0}
  /\ identity_requested \in BOOLEAN /\ migrating \in BOOLEAN
  /\ spoiled \in BOOLEAN
  /\ requests \in Seq(SeedRequest)
  /\ answers \in Seq(Reply)
  /\ \A g \in Generation : secret[g] # 0 => g \in registered

-----------------------------------------------------------------------------
(* Seeds and queues.                                                       *)

\* There are as many seeds as the loads of the page can need.
LEMMA Seeds ==
  ASSUME NEW n \in 1..MaxPages, NEW g \in Generation
  PROVE  /\ n * Generations + g \in Seed
         /\ RecoveryKey \in Seed
         /\ Generations \in Nat \ {0} /\ MaxPages \in Nat \ {0}
<1>1. Generations \in Nat \ {0} /\ MaxPages \in Nat \ {0}
  BY IdentityAssumption
<1>2. PICK m \in Nat : MaxPages = n + m
  <2>1. MaxPages - n \in Nat /\ MaxPages = n + (MaxPages - n)
    BY <1>1
  <2> QED
    BY <2>1
<1>3. (MaxPages + 1) * Generations
        = n * Generations + m * Generations + Generations
  BY <1>1, <1>2
<1>4. m * Generations \in Nat /\ n * Generations \in Nat
  BY <1>1, <1>2
<1>5. /\ n * Generations + g \in Nat
      /\ 1 <= n * Generations + g
      /\ n * Generations + g <= RecoveryKey
      /\ RecoveryKey \in Nat /\ 1 <= RecoveryKey
  BY <1>1, <1>3, <1>4 DEF RecoveryKey, Generation
<1> QED
  BY <1>1, <1>5 DEF Seed

\* One request or answer is taken out of a queue, the others keep their order.
LEMMA Removed ==
  ASSUME NEW S, NEW s \in Seq(S), NEW i \in 1..Len(s)
  PROVE  /\ RemoveAt(s, i) \in Seq(S)
         /\ Len(RemoveAt(s, i)) = Len(s) - 1
         /\ \A j \in 1..(Len(s) - 1) :
              RemoveAt(s, i)[j] = IF j < i THEN s[j] ELSE s[j + 1]
         /\ s[i] \in S
<1> DEFINE before == SubSeq(s, 1, i - 1)
           after == SubSeq(s, i + 1, Len(s))
<1>1. /\ before \in Seq(S) /\ Len(before) = i - 1
      /\ \A j \in 1..(i - 1) : before[j] = s[j]
  OBVIOUS
<1>2. /\ after \in Seq(S) /\ Len(after) = Len(s) - i
      /\ \A j \in 1..(Len(s) - i) : after[j] = s[i + j]
  OBVIOUS
<1>3. RemoveAt(s, i) = before \o after
  BY DEF RemoveAt
<1> HIDE DEF before, after
<1>4. /\ RemoveAt(s, i) \in Seq(S) /\ Len(RemoveAt(s, i)) = Len(s) - 1
      /\ \A j \in 1..(Len(s) - 1) :
           RemoveAt(s, i)[j] = IF j < i THEN before[j] ELSE after[j - i + 1]
  BY <1>1, <1>2, <1>3
<1> QED
  BY <1>1, <1>2, <1>4

\* An empty queue is a queue.
LEMMA NoQueue == \A S : << >> \in Seq(S)
OBVIOUS

\* When delegates answer in the order they are asked, the first is next.
LEMMA InOrder ==
  ASSUME Ordered, Typed
  PROVE  /\ \A i \in Requested : i = 1 /\ requests # << >>
         /\ \A i \in Answered : i = 1 /\ answers # << >>
  BY DEF Requested, Answered, Ready, Typed

\* Whoever may be next is one of the queue.
LEMMA InQueue ==
  ASSUME Typed
  PROVE  Requested \subseteq 1..Len(requests) /\ Answered \subseteq 1..Len(answers)
  BY DEF Requested, Answered, Ready, Typed

\* The questions to the earlier generations, newest first.
LEMMA Predecessors ==
  ASSUME Typed
  PROVE  /\ ask_predecessors \in Seq(SeedRequest)
         /\ Len(ask_predecessors) = build - 1
         /\ \A i \in 1..(build - 1) :
              /\ ask_predecessors[i].to = build - i
              /\ ~ask_predecessors[i].replace
<1>1. /\ build \in Generation /\ build \in Nat /\ 1 <= build
      /\ Generations \in Nat /\ pages \in 1..MaxPages
  BY IdentityAssumption DEF Typed, Generation
<1>2. \A i \in 1..(build - 1) : build - i \in Generation \cap 1..build
  BY <1>1 DEF Generation
<1>3. \A i \in 1..(build - 1) :
        GetOrCreate(build - i, Entropy(build - i)) \in SeedRequest
  BY <1>1, <1>2, Seeds DEF GetOrCreate, Entropy, SeedRequest
<1>4. build - 1 \in Nat
  BY <1>1
<1> QED
  BY <1>3, <1>4 DEF ask_predecessors, GetOrCreate

-----------------------------------------------------------------------------
(* Types.                                                                  *)

\* A page that is loaded first is typed.
LEMMA TypedAtFirst == IdentityInit => Typed
<1> SUFFICES ASSUME IdentityInit PROVE Typed
  OBVIOUS
<1>1. build \in Nat /\ 1 <= build
  BY IdentityAssumption DEF IdentityInit, Generation
<1>2. 1 \in 1..MaxPages
  BY IdentityAssumption
<1>3. requests \in Seq(SeedRequest) /\ answers \in Seq(Reply)
  BY NoQueue DEF IdentityInit
<1>4. identity_requested \in BOOLEAN /\ migrating \in BOOLEAN /\ spoiled \in BOOLEAN
  BY DEF IdentityInit
<1>5. secret \in [Generation -> Seed \cup {0}] /\ \A g \in Generation : secret[g] = 0
  BY DEF IdentityInit
<1> QED
  BY <1>1, <1>2, <1>3, <1>4, <1>5 DEF IdentityInit, Typed

\* A delegate keeps, and answers with, what it has or was sent.
LEMMA HandledTyped ==
  ASSUME Typed, NEW i \in Requested, handle(i)
  PROVE  Typed'
<1>1. /\ requests \in Seq(SeedRequest) /\ answers \in Seq(Reply)
      /\ i \in 1..Len(requests)
  BY InQueue DEF Typed
<1>2. /\ requests[i] \in SeedRequest
      /\ RemoveAt(requests, i) \in Seq(SeedRequest)
  BY <1>1, Removed
<1> DEFINE r == requests[i]
<1>3. r.to \in 1..build /\ r.to \in Generation /\ r.seed \in Seed
  BY <1>2, IdentityAssumption DEF SeedRequest, Typed, Generation
<1>4. SeedRequest' = SeedRequest /\ Reply' = Reply /\ requests' = RemoveAt(requests, i)
  BY DEF handle, NodeHasNone, ReadSeed, CreateSeed, ReplaceSeed, Refuse, Answers,
         page, SeedRequest, Reply
<1>5. ASSUME answers' = answers \/ (\E a \in Reply : answers' = Append(answers, a)),
             \/ secret' = secret
             \/ r.to \in registered /\ secret' = [secret EXCEPT ![r.to] = r.seed],
             spoiled' \in BOOLEAN,
             UNCHANGED <<registered, page, mine>>
      PROVE  Typed'
  <2>1. answers' \in Seq(Reply)
    BY <1>1, <1>5
  <2>2. secret' \in [Generation -> Seed \cup {0}]
    BY <1>3, <1>5 DEF Typed
  <2>3. \A g \in Generation : secret'[g] # 0 => g \in registered
    BY <1>3, <1>5 DEF Typed
  <2> QED
    BY <1>2, <1>4, <1>5, <2>1, <2>2, <2>3 DEF Typed, page
<1>6. ASSUME NEW seed \in Seed, NEW fresh \in BOOLEAN
      PROVE  [from |-> r.to, seed |-> seed, created |-> fresh] \in Reply
  BY <1>3 DEF Reply
<1>7. CASE NodeHasNone(i) \/ Refuse(i)
  <2>1. spoiled' \in BOOLEAN
    BY <1>7 DEF NodeHasNone, Refuse, Typed
  <2> QED
    BY <1>5, <1>7, <2>1 DEF NodeHasNone, Refuse
<1>8. CASE ReadSeed(i)
  <2>1. secret[r.to] \in Seed
    BY <1>3, <1>8 DEF ReadSeed, Typed
  <2>2. [from |-> r.to, seed |-> secret[r.to], created |-> FALSE] \in Reply
    BY <1>6, <2>1
  <2>3. spoiled' \in BOOLEAN
    BY <1>8 DEF ReadSeed, Answers, Typed
  <2> QED
    BY <1>5, <1>8, <2>2, <2>3 DEF ReadSeed, Answers
<1>9. CASE CreateSeed(i) \/ ReplaceSeed(i)
  <2>1. /\ [from |-> r.to, seed |-> r.seed, created |-> FALSE] \in Reply
        /\ [from |-> r.to, seed |-> r.seed, created |-> TRUE] \in Reply
    BY <1>3, <1>6
  <2>2. spoiled' \in BOOLEAN
    BY <1>9 DEF CreateSeed, ReplaceSeed, Answers, Typed
  <2> QED
    BY <1>5, <1>9, <2>1, <2>2 DEF CreateSeed, ReplaceSeed, Answers
<1> QED
  BY <1>7, <1>8, <1>9 DEF handle

\* The page asks its own generation and, at most, those before it.
LEMMA TypedStep ==
  ASSUME Typed, [IdentityNext]_identity_vars
  PROVE  Typed'
<1>1. /\ build \in Nat /\ 1 <= build /\ build <= Generations
      /\ Generations \in Nat /\ MaxPages \in Nat
      /\ requests \in Seq(SeedRequest) /\ answers \in Seq(Reply)
  BY IdentityAssumption DEF Typed, Generation
<1>2. ASSUME NEW seed \in Seed
      PROVE  /\ GetOrCreate(build, seed) \in SeedRequest
             /\ Replace(build, seed) \in SeedRequest
  BY <1>1 DEF GetOrCreate, Replace, SeedRequest
<1>3. RecoveryKey \in Seed /\ Entropy(build) \in Seed
  BY Seeds DEF Typed, Entropy
<1>4. ASSUME NEW g \in Generation, Load(g) PROVE Typed'
  <2>1. pages + 1 \in 1..MaxPages
    BY <1>1, <1>4 DEF Load, Typed
  <2>2. registered' \subseteq 1..build' /\ build' \in registered'
    BY <1>1, <1>4 DEF Load, Typed, Generation
  <2>3. requests' \in Seq(SeedRequest') /\ answers' \in Seq(Reply')
    BY <1>4, NoQueue DEF Load
  <2> QED
    BY <1>4, <2>1, <2>2, <2>3 DEF Load, Typed
<1>5. CASE ask_identity_once
  BY <1>1, <1>2, <1>3, <1>5 DEF ask_identity_once, Typed, SeedRequest, Reply
<1>6. ASSUME NEW i \in Answered, receive_identity(i) PROVE Typed'
  <2>1. i \in 1..Len(answers)
    BY InQueue
  <2>2. answers[i] \in Reply /\ RemoveAt(answers, i) \in Seq(Reply)
    BY <1>1, <2>1, Removed
  <2>3. requests' \in Seq(SeedRequest)
    BY <1>1, <1>6, Predecessors DEF receive_identity
  <2>4. answers[i].seed \in Seed /\ answers[i].created \in BOOLEAN
    BY <2>2 DEF Reply
  <2>5. migrating' \in BOOLEAN
    BY <1>6, <2>4 DEF receive_identity, Typed
  <2> QED
    BY <1>6, <2>2, <2>3, <2>4, <2>5
    DEF receive_identity, Typed, SeedRequest, Reply
<1>7. ASSUME NEW i \in Answered, adopt_previous_identity(i) PROVE Typed'
  <2>1. i \in 1..Len(answers)
    BY InQueue
  <2>2. answers[i] \in Reply /\ RemoveAt(answers, i) \in Seq(Reply)
    BY <1>1, <2>1, Removed
  <2>3. answers[i].seed \in Seed
    BY <2>2 DEF Reply
  <2>4. requests' \in Seq(SeedRequest) /\ identity' \in Seed \cup {0}
    BY <1>1, <1>2, <1>7, <2>3 DEF adopt_previous_identity, Taken, Typed
  <2>5. migrating' \in BOOLEAN
    BY <1>7 DEF adopt_previous_identity, Typed
  <2> QED
    BY <1>7, <2>2, <2>4, <2>5 DEF adopt_previous_identity, Typed, SeedRequest, Reply
<1>8. CASE restore_identity
  BY <1>1, <1>2, <1>3, <1>8 DEF restore_identity, Typed, SeedRequest, Reply
<1>9. CASE Work
  BY <1>9 DEF Work, page, Typed, SeedRequest, Reply
<1>11. CASE Reconnect
  <2>1. requests' \in Seq(SeedRequest') /\ answers' \in Seq(Reply')
    BY <1>11, NoQueue DEF Reconnect
  <2> QED
    BY <1>11, <2>1 DEF Reconnect, page, Typed
<1>10. CASE UNCHANGED identity_vars
  BY <1>10 DEF identity_vars, page, Typed, SeedRequest, Reply
<1> QED
  BY <1>4, <1>5, <1>6, <1>7, <1>8, <1>9, <1>10, <1>11, HandledTyped DEF IdentityNext

-----------------------------------------------------------------------------
(* Where the page is with its identity.                                    *)

\* A question to an earlier generation, its answer, and the page's own.
OldRequest(r) == r.to # build /\ ~r.replace
OldAnswer(a) == a.from # build
OwnAnswer(a) == a.from = build /\ a.seed = secret[build] /\ ~a.created

\* The user works under the newest of the seeds up to generation n.
Newest(n) ==
  mine # 0 => \E g \in 1..n : /\ secret[g] = mine
                             /\ \A h \in (g + 1)..n : secret[h] = 0

\* It has asked its own generation, if anything.
Starting ==
  /\ identity = 0 /\ ~migrating /\ answers = << >>
  /\ Newest(build)
  /\ IF identity_requested
     THEN Len(requests) = 1 /\ requests[1].to = build /\ ~requests[1].replace
     ELSE requests = << >>

\* Which has just made a seed, and says so.
Made ==
  /\ identity_requested
  /\ identity = 0 /\ ~migrating /\ requests = << >>
  /\ Len(answers) = 1
  /\ answers[1].from = build /\ answers[1].seed = secret[build]
  /\ answers[1].created
  /\ Newest(build - 1)

\* So the others are asked; the seed the user works under is the first old one
\* that will be heard of.
Searching ==
  /\ identity_requested
  /\ migrating
  /\ identity = secret[build] /\ identity # 0
  /\ \A i \in 1..Len(requests) : OldRequest(requests[i])
  /\ \A i, j \in 1..Len(requests) : requests[i].to = requests[j].to => i = j
  /\ \A i \in 1..Len(answers) : OldAnswer(answers[i])
  /\ mine # 0 =>
       \/ \E i \in 1..Len(answers) :
            /\ ~answers[i].created /\ answers[i].seed = mine
            /\ \A j \in 1..(i - 1) : answers[j].created
       \/ /\ \A i \in 1..Len(answers) : answers[i].created
          /\ \E i \in 1..Len(requests) :
               /\ secret[requests[i].to] = mine
               /\ \A j \in 1..(i - 1) : secret[requests[j].to] = 0

\* The page's seed is to be kept by its own generation.
Replacing ==
  /\ identity_requested
  /\ identity # 0 /\ (mine # 0 => mine = identity)
  /\ Len(requests) > 0
  /\ requests[Len(requests)] = Replace(build, identity)
  /\ \A i \in 1..(Len(requests) - 1) : OldRequest(requests[i])
  /\ \A i \in 1..Len(answers) : OldAnswer(answers[i])
  /\ migrating => Len(requests) = 1 /\ answers = << >>

\* It is kept there, and nothing that is under way says otherwise.
Settling ==
  /\ identity_requested
  /\ secret[build] # 0 /\ (mine # 0 => mine = secret[build])
  /\ \A i \in 1..Len(requests) : OldRequest(requests[i])
  /\ \A i \in 1..Len(answers) : OldAnswer(answers[i]) \/ OwnAnswer(answers[i])
  /\ \/ identity = secret[build]
     \/ \E i \in 1..Len(answers) : OwnAnswer(answers[i])
  /\ migrating => /\ requests = << >>
                  /\ \A i \in 1..Len(answers) : OwnAnswer(answers[i])

Stage == Starting \/ Made \/ Searching \/ Replacing \/ Settling

IdentityInv == Typed /\ (~spoiled => Stage)

\* With nothing under way, the page's seed is kept, and is the user's.
LEMMA AllSettled ==
  ASSUME Typed, Stage, Settled
  PROVE  Settling /\ identity = secret[build]
<1>1. Len(requests) = 0 /\ Len(answers) = 0
  BY DEF Settled
<1>2. Searching \/ Settling
  BY <1>1 DEF Settled, Stage, Starting, Made, Replacing
<1>3. CASE Searching
  BY <1>1, <1>3 DEF Settled, Searching, Settling
<1>4. CASE Settling
  BY <1>1, <1>4 DEF Settling
<1> QED
  BY <1>2, <1>3, <1>4

-----------------------------------------------------------------------------
(* The delegates' steps.                                                   *)

\* The head of each queue, and the rest.
LEMMA Heads ==
  ASSUME Typed
  PROVE  /\ requests # << >> =>
              /\ Len(requests) \in Nat /\ Len(requests) > 0
              /\ requests[1] \in SeedRequest
              /\ Len(RemoveAt(requests, 1)) = Len(requests) - 1
              /\ \A j \in 1..(Len(requests) - 1) :
                   RemoveAt(requests, 1)[j] = requests[j + 1]
         /\ answers # << >> =>
              /\ Len(answers) \in Nat /\ Len(answers) > 0
              /\ answers[1] \in Reply
              /\ Len(RemoveAt(answers, 1)) = Len(answers) - 1
              /\ \A j \in 1..(Len(answers) - 1) :
                   RemoveAt(answers, 1)[j] = answers[j + 1]
<1>1. requests \in Seq(SeedRequest) /\ answers \in Seq(Reply)
  BY DEF Typed
<1>2. /\ requests # << >> => 1 \in 1..Len(requests)
      /\ answers # << >> => 1 \in 1..Len(answers)
  BY <1>1
<1>3. requests # << >> =>
        /\ requests[1] \in SeedRequest
        /\ Len(RemoveAt(requests, 1)) = Len(requests) - 1
        /\ \A j \in 1..(Len(requests) - 1) :
             RemoveAt(requests, 1)[j] = requests[j + 1]
  BY <1>1, <1>2, Removed
<1>4. answers # << >> =>
        /\ answers[1] \in Reply
        /\ Len(RemoveAt(answers, 1)) = Len(answers) - 1
        /\ \A j \in 1..(Len(answers) - 1) :
             RemoveAt(answers, 1)[j] = answers[j + 1]
  BY <1>1, <1>2, Removed
<1> QED
  BY <1>1, <1>2, <1>3, <1>4

\* What is added to a queue comes last.
LEMMA Added ==
  ASSUME NEW S, NEW s \in Seq(S), NEW e \in S
  PROVE  /\ Len(Append(s, e)) = Len(s) + 1 /\ Len(s) \in Nat
         /\ Append(s, e)[Len(s) + 1] = e
         /\ \A i \in 1..Len(s) : Append(s, e)[i] = s[i]
OBVIOUS

\* A delegate has handled the first request.
LEMMA HandledStage ==
  ASSUME Typed, Stage, requests # << >>, handle(1), ~spoiled'
  PROVE  Stage'
<1> DEFINE r == requests[1]
           rest == RemoveAt(requests, 1)
<1>1. /\ Len(requests) \in Nat /\ Len(requests) > 0
      /\ Len(rest) = Len(requests) - 1
      /\ \A j \in 1..(Len(requests) - 1) : rest[j] = requests[j + 1]
      /\ r \in SeedRequest
  BY Heads
<1>2. /\ requests' = rest
      /\ UNCHANGED <<registered, build, identity, identity_requested, migrating, mine>>
  BY DEF handle, NodeHasNone, ReadSeed, CreateSeed, ReplaceSeed, Refuse, Answers,
         page
<1>3. /\ r.to \in Generation /\ build \in Generation /\ build \in registered
      /\ secret \in [Generation -> Seed \cup {0}]
      /\ r.to \notin registered => secret[r.to] = 0
      /\ build \in Nat /\ 1 <= build /\ 0 \notin Seed /\ r.seed \in Seed
  BY <1>1, IdentityAssumption DEF Typed, SeedRequest, Generation, Seed
<1>4. /\ answers \in Seq(Reply) /\ Len(answers) \in Nat
  BY DEF Typed
<1>5. /\ requests' = << >> <=> Len(requests) = 1
      /\ Len(requests') = Len(requests) - 1
  <2>1. requests' \in Seq(SeedRequest)
    BY <1>1, <1>2, Removed DEF Typed
  <2> QED
    BY <1>1, <1>2, <2>1
<1>12. \A j \in 1..Len(requests') : /\ j + 1 \in 1..Len(requests)
                                      /\ requests'[j] = requests[j + 1]
                                      /\ requests'[j].to \in Generation
  <2>1. \A j \in 1..Len(requests') : /\ j + 1 \in 1..Len(requests)
                                    /\ requests'[j] = requests[j + 1]
    BY <1>1, <1>2, <1>5
  <2>2. \A j \in 1..Len(requests) : requests[j].to \in 1..build
    <3>1. \A j \in 1..Len(requests) : requests[j] \in SeedRequest
      BY DEF Typed
    <3> QED
      BY <3>1 DEF SeedRequest
  <2>3. 1..build \subseteq Generation
    BY <1>3, IdentityAssumption DEF Generation
  <2> QED
    BY <2>1, <2>2, <2>3
<1> DEFINE Says(seed, fresh) ==
             LET a == answers'[Len(answers) + 1]
             IN  /\ Len(answers') = Len(answers) + 1
                 /\ a.from = r.to /\ a.seed = seed /\ a.created = fresh
                 /\ \A i \in 1..Len(answers) : answers'[i] = answers[i]
           Nobody == r.to \notin registered /\ UNCHANGED <<secret, answers>>
           Read == /\ ~r.replace /\ secret[r.to] # 0 /\ UNCHANGED secret
                   /\ Says(secret[r.to], FALSE)
           Mint == /\ ~r.replace /\ secret[r.to] = 0
                   /\ secret' = [secret EXCEPT ![r.to] = r.seed]
                   /\ Says(r.seed, TRUE)
           Overwrite == /\ r.replace
                        /\ secret' = [secret EXCEPT ![r.to] = r.seed]
                        /\ Says(r.seed, FALSE)
<1>6. ASSUME NEW seed \in Seed, NEW fresh \in BOOLEAN, Answers(1, seed, fresh)
      PROVE  Says(seed, fresh)
  <2>1. [from |-> r.to, seed |-> seed, created |-> fresh] \in Reply
    BY <1>1 DEF SeedRequest, Reply
  <2> QED
    BY <1>4, <1>6, <2>1, Added DEF Answers
<1>7. Nobody \/ Read \/ Mint \/ Overwrite
  <2>1. ~Refuse(1)
    BY DEF Refuse
  <2>2. CASE NodeHasNone(1)
    BY <2>2 DEF NodeHasNone
  <2>3. CASE ReadSeed(1)
    <3>1. Says(secret[r.to], FALSE)
      BY <1>3, <1>6, <2>3 DEF ReadSeed
    <3> QED
      BY <2>3, <3>1 DEF ReadSeed
  <2>4. CASE CreateSeed(1)
    <3>1. Says(r.seed, TRUE)
      BY <1>3, <1>6, <2>4 DEF CreateSeed
    <3> QED
      BY <2>4, <3>1 DEF CreateSeed
  <2>5. CASE ReplaceSeed(1)
    <3>1. Says(r.seed, FALSE)
      BY <1>3, <1>6, <2>5 DEF ReplaceSeed
    <3> QED
      BY <2>5, <3>1 DEF ReplaceSeed
  <2> QED
    BY <2>1, <2>2, <2>3, <2>4, <2>5 DEF handle
<1> HIDE DEF r, rest
<1>8. CASE Starting
  <2>1. /\ Len(requests) = 1 /\ r.to = build /\ ~r.replace /\ Len(answers) = 0
        /\ identity_requested /\ identity = 0 /\ ~migrating /\ Newest(build)
    BY <1>8 DEF Starting, r
  <2>2. requests' = << >> /\ Len(requests') = 0
    BY <1>5, <2>1
  <2>3. CASE Read
    <3>1. Len(answers') = 1 /\ OwnAnswer(answers[1])'
      BY <1>2, <2>1, <2>3 DEF OwnAnswer
    <3>2. mine # 0 => mine = secret[build]
      BY <1>3, <2>1, <2>3 DEF Newest
    <3> QED
      BY <1>2, <2>1, <2>2, <2>3, <3>1, <3>2 DEF Settling, Stage
  <2>4. CASE Mint
    <3>1. /\ secret'[build] = r.seed
          /\ \A h \in 1..(build - 1) : secret'[h] = secret[h]
      BY <1>3, <2>1, <2>4 DEF Generation
    <3>2. Newest(build - 1)'
      <4> SUFFICES ASSUME mine # 0
                   PROVE  \E g \in 1..(build - 1) :
                            /\ secret'[g] = mine
                            /\ \A h \in (g + 1)..(build - 1) : secret'[h] = 0
        BY <1>2 DEF Newest
      <4>1. PICK g \in 1..build : /\ secret[g] = mine
                                 /\ \A h \in (g + 1)..build : secret[h] = 0
        BY <2>1 DEF Newest
      <4>2. g \in 1..(build - 1)
        BY <1>3, <2>1, <2>4, <4>1
      <4> QED
        BY <1>3, <3>1, <4>1, <4>2
    <3>3. /\ answers'[1].from = build /\ answers'[1].seed = secret'[build]
          /\ answers'[1].created
      BY <2>1, <2>4, <3>1
    <3>4. Made'
      BY <1>2, <2>1, <2>2, <2>4, <3>2, <3>3 DEF Made
    <3> QED
      BY <3>4 DEF Stage
  <2> QED
    BY <1>3, <1>7, <2>1, <2>3, <2>4
<1>9. CASE Searching
  <2>1. /\ r.to # build /\ ~r.replace
        /\ \A i \in 1..(Len(requests) - 1) : requests[i + 1].to # r.to
    BY <1>1, <1>9 DEF Searching, OldRequest, r
  <2>6. \A i \in 1..Len(requests') : OldRequest(requests[i])'
    BY <1>2, <1>9, <1>12 DEF Searching, OldRequest
  <2>2. ASSUME NEW i \in 1..Len(requests'), NEW j \in 1..Len(requests'),
               requests'[i].to = requests'[j].to
        PROVE  i = j
    <3>1. i + 1 = j + 1
      BY <1>9, <1>12, <2>2 DEF Searching
    <3> QED
      BY <3>1
  <2>3. \A i \in 1..Len(answers') : OldAnswer(answers[i])'
    BY <1>2, <1>4, <1>7, <1>9, <2>1 DEF Searching, OldAnswer
  <2>4. secret'[build] = secret[build]
    BY <1>3, <1>7, <2>1
  <2>5. ASSUME mine # 0
        PROVE  \/ \E i \in 1..Len(answers') :
                    /\ ~answers'[i].created /\ answers'[i].seed = mine
                    /\ \A j \in 1..(i - 1) : answers'[j].created
               \/ /\ \A i \in 1..Len(answers') : answers'[i].created
                  /\ \E i \in 1..Len(requests') :
                       /\ secret'[requests'[i].to] = mine
                       /\ \A j \in 1..(i - 1) : secret'[requests'[j].to] = 0
    <3>1. CASE \E i \in 1..Len(answers) :
                 /\ ~answers[i].created /\ answers[i].seed = mine
                 /\ \A j \in 1..(i - 1) : answers[j].created
      <4>1. PICK i \in 1..Len(answers) :
              /\ ~answers[i].created /\ answers[i].seed = mine
              /\ \A j \in 1..(i - 1) : answers[j].created
        BY <3>1
      <4>2. /\ i \in 1..Len(answers') /\ answers'[i] = answers[i]
            /\ \A j \in 1..(i - 1) : answers'[j] = answers[j]
        BY <1>4, <1>7
      <4> QED
        BY <4>1, <4>2
    <3>2. CASE /\ \A i \in 1..Len(answers) : answers[i].created
               /\ \E i \in 1..Len(requests) :
                    /\ secret[requests[i].to] = mine
                    /\ \A j \in 1..(i - 1) : secret[requests[j].to] = 0
      <4>1. PICK i \in 1..Len(requests) :
              /\ secret[requests[i].to] = mine
              /\ \A j \in 1..(i - 1) : secret[requests[j].to] = 0
        BY <3>2
      <4>2. CASE Read
        <5>1. i = 1
          BY <1>1, <4>1, <4>2 DEF r
        <5>2. secret[r.to] = mine
          BY <4>1, <5>1 DEF r
        <5> QED
          BY <1>4, <3>2, <4>2, <5>2
      <4>3. CASE Nobody \/ Mint
        <5>1. i # 1
          BY <1>3, <2>5, <4>1, <4>3 DEF r
        <5>2. i - 1 \in 1..Len(requests') /\ requests'[i - 1] = requests[i]
          BY <1>1, <1>2, <1>5, <5>1
        <5>3. \A j \in 1..Len(requests') : requests'[j].to # r.to
          <6> TAKE j \in 1..Len(requests')
          <6>1. j \in 1..(Len(requests) - 1)
            BY <1>5
          <6> QED
            BY <1>12, <2>1, <6>1
        <5>4. \A j \in 1..Len(requests') :
                secret'[requests'[j].to] = secret[requests[j + 1].to]
          <6> TAKE j \in 1..Len(requests')
          <6>1. secret'[requests'[j].to] = secret[requests'[j].to]
            BY <1>3, <1>12, <4>3, <5>3
          <6> QED
            BY <1>12, <6>1
        <5>5. \A j \in 1..((i - 1) - 1) : j \in 1..Len(requests') /\ j + 1 \in 1..(i - 1)
          BY <1>1, <1>5, <5>2
        <5>6. \A j \in 1..Len(answers') : answers'[j].created
          BY <1>4, <3>2, <4>3
        <5>7. secret'[requests'[i - 1].to] = mine
          BY <4>1, <5>2, <5>4
        <5>8. \A j \in 1..((i - 1) - 1) : secret'[requests'[j].to] = 0
          BY <4>1, <5>4, <5>5
        <5> QED
          BY <5>2, <5>6, <5>7, <5>8
      <4> QED
        BY <1>7, <2>1, <4>2, <4>3
    <3> QED
      BY <1>9, <2>5, <3>1, <3>2 DEF Searching
  <2> QED
    BY <1>2, <1>9, <2>2, <2>3, <2>4, <2>5, <2>6 DEF Searching, Stage
<1>10. CASE Replacing
  <2>1. CASE Len(requests) = 1
    <3>1. r = Replace(build, identity) /\ r.to = build /\ r.seed = identity /\ r.replace
      BY <1>10, <2>1 DEF Replacing, Replace, r
    <3>2. Overwrite
      BY <1>3, <1>7, <3>1
    <3>3. secret'[build] = identity /\ requests' = << >> /\ Len(requests') = 0
      BY <1>3, <1>5, <2>1, <3>1, <3>2
    <3>4. /\ answers'[Len(answers) + 1].from = build
          /\ answers'[Len(answers) + 1].seed = secret'[build]
          /\ ~answers'[Len(answers) + 1].created
      BY <3>1, <3>2, <3>3
    <3>5. \A i \in 1..Len(answers) : OldAnswer(answers[i])'
      BY <1>2, <1>4, <1>10, <3>2 DEF Replacing, OldAnswer
    <3>6. \A i \in 1..Len(answers') : i \in 1..Len(answers) \/ i = Len(answers) + 1
      BY <1>4, <3>2
    <3>7. migrating => \A i \in 1..Len(answers') : OwnAnswer(answers[i])'
      <4> SUFFICES ASSUME migrating, NEW i \in 1..Len(answers')
                   PROVE  OwnAnswer(answers[i])'
        OBVIOUS
      <4>1. Len(answers) = 0
        BY <1>10 DEF Replacing
      <4>2. i = Len(answers) + 1
        BY <3>6, <4>1
      <4> QED
        BY <1>2, <3>4, <4>2 DEF OwnAnswer
    <3>9. \A i \in 1..Len(answers') : (OldAnswer(answers[i]) \/ OwnAnswer(answers[i]))'
      BY <1>2, <3>4, <3>5, <3>6 DEF OwnAnswer
    <3>8. /\ \A i \in 1..Len(answers') : (OldAnswer(answers[i]) \/ OwnAnswer(answers[i]))'
          /\ identity # 0 /\ (mine # 0 => mine = identity) /\ identity_requested
      BY <1>10, <3>9 DEF Replacing
    <3> QED
      BY <1>2, <3>3, <3>7, <3>8 DEF Settling, Stage
  <2>2. CASE Len(requests) # 1
    <3>1. /\ OldRequest(r) /\ ~migrating
      BY <1>1, <1>10, <2>2 DEF Replacing, r
    <3>2. Len(requests') > 0 /\ requests'[Len(requests')] = Replace(build, identity)
      BY <1>1, <1>2, <1>5, <1>10, <2>2 DEF Replacing
    <3>3. ASSUME NEW i \in 1..(Len(requests') - 1) PROVE OldRequest(requests[i])'
      <4>1. i \in 1..Len(requests') /\ i + 1 \in 1..(Len(requests) - 1)
        BY <1>1, <1>5
      <4> QED
        BY <1>2, <1>10, <1>12, <4>1 DEF Replacing, OldRequest
    <3>4. \A i \in 1..Len(answers') : OldAnswer(answers[i])'
      BY <1>2, <1>4, <1>7, <1>10, <3>1 DEF Replacing, OldAnswer, OldRequest
    <3> QED
      BY <1>2, <1>10, <3>1, <3>2, <3>3, <3>4 DEF Replacing, Replace, Stage
  <2> QED
    BY <2>1, <2>2
<1>11. CASE Settling
  <2>1. OldRequest(r) /\ ~migrating
    BY <1>1, <1>11 DEF Settling, r
  <2>2. secret'[build] = secret[build]
    BY <1>3, <1>7, <2>1 DEF OldRequest
  <2>3. \A i \in 1..Len(requests') : OldRequest(requests[i])'
    BY <1>2, <1>11, <1>12 DEF Settling, OldRequest
  <2>4. \A i \in 1..Len(answers') : (OldAnswer(answers[i]) \/ OwnAnswer(answers[i]))'
    BY <1>2, <1>4, <1>7, <1>11, <2>1, <2>2
    DEF Settling, OldAnswer, OwnAnswer, OldRequest
  <2>5. \/ identity = secret[build]
        \/ \E i \in 1..Len(answers') : OwnAnswer(answers[i])'
    BY <1>2, <1>4, <1>7, <1>11, <2>2 DEF Settling, OwnAnswer
  <2> QED
    BY <1>2, <1>11, <2>1, <2>2, <2>3, <2>4, <2>5 DEF Settling, Stage
<1> QED
  BY <1>8, <1>9, <1>10, <1>11 DEF Made, Stage

-----------------------------------------------------------------------------
(* The page's steps.                                                       *)

\* A page is loaded when nothing is under way: no generation after the build
\* has a seed, so the newest one is the user's.
LEMMA LoadedStage ==
  ASSUME Typed, Stage, Settled, NEW g \in Generation, Load(g)
  PROVE  Stage'
<1>1. Settling /\ identity_requested
  BY AllSettled DEF Settled
<1>2. /\ build \in Nat /\ 1 <= build /\ g \in Nat /\ g >= build
      /\ registered \subseteq 1..build
      /\ \A h \in Generation : secret[h] # 0 => h \in registered
  BY IdentityAssumption DEF Load, Typed, Generation
<1>3. \A h \in (build + 1)..g : secret[h] = 0
  BY <1>2, IdentityAssumption DEF Generation
<1>4. Newest(build)'
  <2>1. mine # 0 => secret[build] = mine
    BY <1>1 DEF Settling
  <2> QED
    BY <1>2, <1>3, <2>1 DEF Load, Newest
<1> QED
  BY <1>4 DEF Load, Starting, Stage

\* The page asks its own generation, once.
LEMMA AskedStage ==
  ASSUME Typed, Stage, ask_identity_once
  PROVE  Stage'
<1>1. Starting /\ ~identity_requested /\ requests = << >>
  BY DEF ask_identity_once, Stage, Starting, Made, Searching, Replacing, Settling
<1>2. requests' = << GetOrCreate(build, Entropy(build)) >>
  BY <1>1 DEF ask_identity_once
<1>3. /\ Len(requests') = 1 /\ requests'[1].to = build /\ ~requests'[1].replace
  BY <1>2 DEF GetOrCreate
<1> QED
  BY <1>1, <1>3 DEF ask_identity_once, Starting, Newest, Stage

\* Its own generation has answered.
LEMMA ReceivedStage ==
  ASSUME Typed, Stage, answers # << >>, receive_identity(1)
  PROVE  Stage'
<1> DEFINE a == answers[1]
           rest == RemoveAt(answers, 1)
<1>1. /\ Len(answers) \in Nat /\ Len(answers) > 0
      /\ answers \in Seq(Reply) /\ answers' \in Seq(Reply)
      /\ answers' = rest /\ Len(rest) = Len(answers) - 1
      /\ \A j \in 1..Len(answers') : j + 1 \in 1..Len(answers) /\ answers'[j] = answers[j + 1]
      /\ a.seed \in Seed
  <2>1. /\ Len(answers) \in Nat /\ Len(answers) > 0 /\ 1 \in 1..Len(answers)
        /\ answers \in Seq(Reply) /\ answers' = rest
    BY Heads DEF Typed, receive_identity
  <2>2. /\ Len(rest) = Len(answers) - 1 /\ rest \in Seq(Reply) /\ a \in Reply
        /\ \A j \in 1..(Len(answers) - 1) : rest[j] = answers[j + 1]
    BY <2>1, Removed
  <2> HIDE DEF rest
  <2>3. \A j \in 1..Len(answers') : j + 1 \in 1..Len(answers) /\ answers'[j] = answers[j + 1]
    BY <2>1, <2>2
  <2> QED
    BY <2>1, <2>2, <2>3 DEF Reply
<1> HIDE DEF rest
<1>2. /\ a.from = build /\ identity' = a.seed
      /\ UNCHANGED <<secret, build, identity_requested, mine>>
  BY DEF receive_identity
<1>3. /\ build \in Nat /\ 1 <= build /\ 0 \notin Seed /\ requests \in Seq(SeedRequest)
  BY IdentityAssumption DEF Typed, Generation, Seed
<1>7. /\ a.created /\ ~migrating /\ build > 1 =>
           requests' = requests \o ask_predecessors /\ migrating'
      /\ ~(a.created /\ ~migrating /\ build > 1) =>
           requests' = requests \o << >> /\ (migrating' <=> migrating)
  BY DEF receive_identity
<1>8. requests \o << >> = requests
  BY <1>3
<1>4. Made \/ Settling
  <2>1. ~OldAnswer(answers[1]) /\ 1 \in 1..Len(answers)
    BY <1>1, <1>2 DEF OldAnswer
  <2> QED
    BY <1>1, <2>1 DEF Stage, Starting, Searching, Replacing
<1>5. CASE Made
  <2>1. /\ Len(answers) = 1 /\ answers' = << >> /\ requests = << >> /\ ~migrating
        /\ a.created /\ secret[build] = a.seed /\ secret[build] # 0
    BY <1>1, <1>3, <1>5 DEF Made
  <2>2. CASE build = 1
    <3>1. requests' = << >> /\ ~migrating'
      <4>1. ~(build > 1)
        BY <2>2
      <4> QED
        BY <1>7, <1>8, <2>1, <4>1
    <3>2. mine = 0
      BY <1>5, <2>2 DEF Made, Newest
    <3>3. 1..Len(requests') = {} /\ 1..Len(answers') = {}
      BY <2>1, <3>1
    <3>4. /\ identity_requested' /\ secret'[build'] # 0 /\ identity' = secret'[build']
          /\ mine' = 0
      BY <1>2, <1>5, <2>1, <3>2 DEF Made
    <3> QED
      BY <3>1, <3>3, <3>4 DEF Settling, Stage
  <2>3. CASE build > 1
    <3>1. requests' = ask_predecessors /\ migrating'
      <4>1. requests' = << >> \o ask_predecessors /\ migrating'
        BY <1>7, <2>1, <2>3
      <4>2. << >> \o ask_predecessors = ask_predecessors
        BY Predecessors
      <4> QED
        BY <4>1, <4>2
    <3>2. /\ Len(requests') = build - 1
          /\ \A i \in 1..(build - 1) : /\ requests'[i].to = build - i
                                       /\ ~requests'[i].replace
      BY <3>1, Predecessors
    <3>3. \A i \in 1..Len(requests') : OldRequest(requests[i])'
      BY <1>2, <1>3, <3>2 DEF OldRequest
    <3>4. \A i, j \in 1..Len(requests') : requests'[i].to = requests'[j].to => i = j
      BY <1>3, <3>2
    <3>5. ASSUME mine # 0
          PROVE  \E i \in 1..Len(requests') :
                   /\ secret[requests'[i].to] = mine
                   /\ \A j \in 1..(i - 1) : secret[requests'[j].to] = 0
      <4>1. PICK g \in 1..(build - 1) :
              /\ secret[g] = mine
              /\ \A h \in (g + 1)..(build - 1) : secret[h] = 0
        BY <1>5, <3>5 DEF Made, Newest
      <4>2. build - g \in 1..Len(requests') /\ build - (build - g) = g
        BY <1>3, <3>2, <4>1
      <4>3. \A j \in 1..(build - g - 1) : /\ j \in 1..(build - 1)
                                         /\ build - j \in (g + 1)..(build - 1)
        BY <1>3, <4>1
      <4> QED
        BY <3>2, <4>1, <4>2, <4>3
    <3>6. Len(answers') = 0
      BY <2>1
    <3>7. /\ identity_requested' /\ identity' = secret'[build'] /\ identity' # 0
          /\ mine' = mine /\ secret' = secret
      BY <1>2, <1>5, <2>1 DEF Made
    <3> QED
      BY <3>1, <3>3, <3>4, <3>5, <3>6, <3>7 DEF Searching, Stage
  <2> QED
    BY <1>3, <2>2, <2>3
<1>6. CASE Settling
  <2>1. OwnAnswer(a) /\ a.seed = secret[build] /\ ~a.created
    <3>1. OldAnswer(a) \/ OwnAnswer(a)
      BY <1>1, <1>6 DEF Settling
    <3> QED
      BY <1>2, <3>1 DEF OldAnswer, OwnAnswer
  <2>2. requests' = requests /\ (migrating' <=> migrating)
    BY <1>7, <1>8, <2>1
  <2>3. \A i \in 1..Len(requests') : OldRequest(requests[i])'
    BY <1>2, <1>6, <2>2 DEF Settling, OldRequest
  <2>4. ASSUME NEW i \in 1..Len(answers')
        PROVE  (OldAnswer(answers[i]) \/ OwnAnswer(answers[i]))'
    <3>1. OldAnswer(answers[i + 1]) \/ OwnAnswer(answers[i + 1])
      BY <1>1, <1>6 DEF Settling
    <3> QED
      BY <1>1, <1>2, <3>1 DEF OldAnswer, OwnAnswer
  <2>5. migrating => \A i \in 1..Len(answers') : OwnAnswer(answers[i])'
    BY <1>1, <1>2, <1>6 DEF Settling, OwnAnswer
  <2>6. /\ identity_requested' /\ secret'[build'] # 0 /\ identity' = secret'[build']
        /\ (mine' # 0 => mine' = secret'[build'])
    BY <1>2, <1>6, <2>1 DEF Settling
  <2>7. migrating' => requests' = << >>
    BY <1>6, <2>2 DEF Settling
  <2> QED
    BY <2>2, <2>3, <2>4, <2>5, <2>6, <2>7 DEF Settling, Stage
<1> QED
  BY <1>4, <1>5, <1>6

\* An earlier generation has answered.
LEMMA AdoptedStage ==
  ASSUME Typed, Stage, answers # << >>, adopt_previous_identity(1)
  PROVE  Stage'
<1> DEFINE a == answers[1]
           rest == RemoveAt(answers, 1)
<1>1. /\ Len(answers) \in Nat /\ Len(answers) > 0
      /\ answers' = rest /\ Len(rest) = Len(answers) - 1
      /\ \A j \in 1..Len(answers') : j + 1 \in 1..Len(answers) /\ answers'[j] = answers[j + 1]
      /\ a.seed \in Seed
  <2>1. /\ Len(answers) \in Nat /\ Len(answers) > 0 /\ 1 \in 1..Len(answers)
        /\ answers \in Seq(Reply) /\ answers' = rest
    BY Heads DEF Typed, adopt_previous_identity
  <2>2. /\ Len(rest) = Len(answers) - 1 /\ a \in Reply
        /\ \A j \in 1..(Len(answers) - 1) : rest[j] = answers[j + 1]
    BY <2>1, Removed
  <2> HIDE DEF rest
  <2>3. \A j \in 1..Len(answers') : j + 1 \in 1..Len(answers) /\ answers'[j] = answers[j + 1]
    BY <2>1, <2>2
  <2> QED
    BY <2>1, <2>2, <2>3 DEF Reply
<1> HIDE DEF rest
<1>2. /\ a.from # build
      /\ UNCHANGED <<secret, build, identity_requested, mine>>
      /\ requests \in Seq(SeedRequest) /\ 0 \notin Seed
  BY DEF adopt_previous_identity, Typed, Seed
<1>3. Searching \/ (Replacing /\ ~migrating) \/ (Settling /\ ~migrating)
  <2>1. ~OwnAnswer(answers[1]) /\ 1 \in 1..Len(answers)
    BY <1>1, <1>2 DEF OwnAnswer
  <2> QED
    BY <1>1, <1>2, <2>1 DEF Stage, Starting, Made, Replacing, Settling
<1>4. ~Believed(a) => UNCHANGED <<identity, requests>> /\ (migrating' <=> migrating)
  BY DEF adopt_previous_identity, Believed
<1>5. CASE Searching
  <2>1. \A i \in 1..Len(answers') : OldAnswer(answers[i])'
    BY <1>1, <1>2, <1>5 DEF Searching, OldAnswer
  <2>2. CASE a.created
    <3>1. UNCHANGED <<identity, requests>> /\ (migrating' <=> migrating)
      BY <1>4, <2>2 DEF Believed
    <3>2. ASSUME mine # 0
          PROVE  \/ \E i \in 1..Len(answers') :
                      /\ ~answers'[i].created /\ answers'[i].seed = mine
                      /\ \A j \in 1..(i - 1) : answers'[j].created
                 \/ /\ \A i \in 1..Len(answers') : answers'[i].created
                    /\ \E i \in 1..Len(requests) :
                         /\ secret[requests[i].to] = mine
                         /\ \A j \in 1..(i - 1) : secret[requests[j].to] = 0
      <4>1. CASE \E i \in 1..Len(answers) :
                   /\ ~answers[i].created /\ answers[i].seed = mine
                   /\ \A j \in 1..(i - 1) : answers[j].created
        <5>1. PICK i \in 1..Len(answers) :
                /\ ~answers[i].created /\ answers[i].seed = mine
                /\ \A j \in 1..(i - 1) : answers[j].created
          BY <4>1
        <5>2. i # 1
          BY <2>2, <5>1
        <5>3. i - 1 \in 1..Len(answers') /\ (i - 1) + 1 = i
          BY <1>1, <5>2
        <5>4. \A j \in 1..((i - 1) - 1) : j \in 1..Len(answers') /\ j + 1 \in 1..(i - 1)
          BY <1>1, <5>3
        <5> QED
          BY <1>1, <5>1, <5>3, <5>4
      <4>2. CASE \A i \in 1..Len(answers) : answers[i].created
        <5>1. \A i \in 1..Len(answers') : answers'[i].created
          BY <1>1, <4>2
        <5> QED
          BY <1>5, <3>2, <4>2, <5>1 DEF Searching
      <4> QED
        BY <1>5, <3>2, <4>1, <4>2 DEF Searching
    <3>3. \A i \in 1..Len(requests') : OldRequest(requests[i])'
      BY <1>2, <1>5, <3>1 DEF Searching, OldRequest
    <3> QED
      BY <1>2, <1>5, <2>1, <3>1, <3>2, <3>3 DEF Searching, Stage
  <2>3. CASE ~a.created
    <3>1. mine # 0 => mine = a.seed
      BY <1>1, <1>5, <2>3 DEF Searching
    <3>2. Believed(a) /\ ~migrating'
      BY <1>5, <2>3 DEF Believed, Searching, adopt_previous_identity
    <3>3. CASE identity # a.seed
      <4>1. identity' = a.seed /\ requests' = Append(requests, Replace(build, a.seed))
        BY <3>2, <3>3 DEF adopt_previous_identity, Taken
      <4>2. /\ Len(requests') = Len(requests) + 1 /\ Len(requests) \in Nat
            /\ requests'[Len(requests')] = Replace(build, a.seed)
            /\ \A i \in 1..Len(requests) : requests'[i] = requests[i]
        BY <1>2, <4>1
      <4>3. \A i \in 1..(Len(requests') - 1) : OldRequest(requests[i])'
        BY <1>2, <1>5, <4>2 DEF Searching, OldRequest
      <4>4. requests'[Len(requests')] = Replace(build', identity')
        BY <1>2, <4>1, <4>2
      <4>5. identity_requested' /\ identity' # 0 /\ (mine' # 0 => mine' = identity')
        BY <1>1, <1>2, <1>5, <3>1, <4>1 DEF Searching
      <4> QED
        BY <2>1, <3>2, <4>2, <4>3, <4>4, <4>5 DEF Replacing, Replace, Stage
    <3>4. CASE identity = a.seed
      <4>1. UNCHANGED <<identity, requests>>
        BY <3>4 DEF adopt_previous_identity
      <4>2. \A i \in 1..Len(requests') : OldRequest(requests[i])'
        BY <1>2, <1>5, <4>1 DEF Searching, OldRequest
      <4> QED
        BY <1>2, <1>5, <2>1, <3>1, <3>2, <3>4, <4>1, <4>2 DEF Searching, Settling, Stage
    <3> QED
      BY <3>3, <3>4
  <2> QED
    BY <2>2, <2>3
<1>6. CASE Replacing /\ ~migrating
  <2>1. UNCHANGED <<identity, requests>> /\ ~migrating'
    BY <1>4, <1>6 DEF Believed
  <2>2. \A i \in 1..Len(answers') : OldAnswer(answers[i])'
    BY <1>1, <1>2, <1>6 DEF Replacing, OldAnswer
  <2>3. \A i \in 1..(Len(requests') - 1) : OldRequest(requests[i])'
    BY <1>2, <1>6, <2>1 DEF Replacing, OldRequest
  <2> QED
    BY <1>2, <1>6, <2>1, <2>2, <2>3 DEF Replacing, Replace, Stage
<1>7. CASE Settling /\ ~migrating
  <2>1. UNCHANGED <<identity, requests>> /\ ~migrating'
    BY <1>4, <1>7 DEF Believed
  <2>2. ASSUME NEW i \in 1..Len(answers')
        PROVE  (OldAnswer(answers[i]) \/ OwnAnswer(answers[i]))'
    <3>1. OldAnswer(answers[i + 1]) \/ OwnAnswer(answers[i + 1])
      BY <1>1, <1>7 DEF Settling
    <3> QED
      BY <1>1, <1>2, <3>1 DEF OldAnswer, OwnAnswer
  <2>3. \A i \in 1..Len(requests') : OldRequest(requests[i])'
    BY <1>2, <1>7, <2>1 DEF Settling, OldRequest
  <2>4. (\E i \in 1..Len(answers) : OwnAnswer(answers[i]))
          => \E i \in 1..Len(answers') : OwnAnswer(answers[i])'
    <3> SUFFICES ASSUME NEW i \in 1..Len(answers), OwnAnswer(answers[i])
                 PROVE  \E j \in 1..Len(answers') : OwnAnswer(answers[j])'
      OBVIOUS
    <3>1. i # 1
      BY <1>2 DEF OwnAnswer
    <3>2. i - 1 \in 1..Len(answers') /\ (i - 1) + 1 = i
      BY <1>1, <3>1
    <3>3. answers'[i - 1] = answers[i]
      BY <1>1, <3>2
    <3>4. /\ answers'[i - 1].from = build' /\ answers'[i - 1].seed = secret'[build']
          /\ ~answers'[i - 1].created
      BY <1>2, <3>3 DEF OwnAnswer
    <3> QED
      BY <3>2, <3>4 DEF OwnAnswer
  <2>5. /\ identity_requested' /\ secret'[build'] # 0
        /\ (mine' # 0 => mine' = secret'[build'])
    BY <1>2, <1>7 DEF Settling
  <2>6. identity' = secret'[build'] \/ \E i \in 1..Len(answers') : OwnAnswer(answers[i])'
    BY <1>2, <1>7, <2>1, <2>4 DEF Settling
  <2> QED
    BY <2>1, <2>2, <2>3, <2>5, <2>6 DEF Settling, Stage
<1> QED
  BY <1>3, <1>5, <1>6, <1>7

\* The user brings a key once the page has settled.
LEMMA RestoredStage ==
  ASSUME Typed, Stage, Settled, restore_identity
  PROVE  Stage'
<1>1. /\ requests = << >> /\ answers = << >> /\ identity_requested
  BY DEF Settled
<1>2. requests' = << Replace(build, RecoveryKey) >>
  BY <1>1 DEF restore_identity
<1>3. /\ Len(requests') = 1 /\ requests'[1] = Replace(build', identity')
      /\ Len(answers') = 0
  BY <1>1, <1>2 DEF restore_identity
<1>4. identity' # 0 /\ identity' = mine' /\ identity_requested'
  BY <1>1, Seeds, IdentityAssumption DEF restore_identity, Typed, Generation, Seed
<1> QED
  BY <1>1, <1>3, <1>4 DEF restore_identity, Replacing, Stage

\* A careful user's page, whose delegates answer in order, stays in one of
\* these stages as long as no seed is refused and no connection lost.
LEMMA IdentityStep ==
  ASSUME Ordered, Careful, IdentityInv, [IdentityNext]_identity_vars
  PROVE  IdentityInv'
<1>1. Typed /\ Typed'
  BY TypedStep DEF IdentityInv
<1> SUFFICES ASSUME ~spoiled' PROVE Stage'
  BY <1>1 DEF IdentityInv
<1>2. ~spoiled
  <2>1. CASE UNCHANGED identity_vars
    BY <2>1 DEF identity_vars
  <2> QED
    BY <2>1
    DEF IdentityNext, handle, NodeHasNone, ReadSeed, CreateSeed, ReplaceSeed, Refuse,
        Answers, Load, ask_identity_once, receive_identity, adopt_previous_identity,
        restore_identity, Work, Reconnect
<1>3. Stage
  BY <1>2 DEF IdentityInv
<1>4. CASE \E i \in Requested : handle(i)
  BY <1>1, <1>3, <1>4, InOrder, HandledStage
<1>5. CASE \E g \in Generation : Load(g)
  BY <1>1, <1>3, <1>5, LoadedStage DEF Load
<1>6. CASE ask_identity_once
  BY <1>1, <1>3, <1>6, AskedStage
<1>7. CASE \E i \in Answered : receive_identity(i) \/ adopt_previous_identity(i)
  BY <1>1, <1>3, <1>7, InOrder, ReceivedStage, AdoptedStage
<1>8. CASE restore_identity
  BY <1>1, <1>3, <1>8, RestoredStage DEF restore_identity
<1>9. CASE Work
  <2>1. Settling /\ identity = secret[build]
    BY <1>1, <1>3, <1>9, AllSettled DEF Work
  <2> QED
    BY <1>9, <2>1 DEF Work, page, Settling, OldRequest, OldAnswer, OwnAnswer, Stage
<1>10. CASE Reconnect
  BY <1>10 DEF Reconnect
<1>11. CASE UNCHANGED identity_vars
  BY <1>3, <1>11
  DEF identity_vars, page, Stage, Starting, Made, Searching, Replacing, Settling, Newest,
      OldRequest, OldAnswer, OwnAnswer, Replace
<1> QED
  BY <1>4, <1>5, <1>6, <1>7, <1>8, <1>9, <1>10, <1>11 DEF IdentityNext

-----------------------------------------------------------------------------
(* Theorems about the identity.                                            *)

\* Whatever the user and the delegates do, there is a seed for every load of
\* the page, and nobody but the generations up to the page's build is asked.
THEOREM IdentityTypesHold == IdentitySpec => []IdentityTypeOK
<1>1. Typed => IdentityTypeOK
  <2> SUFFICES ASSUME Typed PROVE IdentityTypeOK
    OBVIOUS
  <2>1. 1..build \subseteq Generation
    BY IdentityAssumption DEF Typed, Generation
  <2>2. /\ \A i \in DOMAIN requests : requests[i] \in SeedRequest
        /\ \A i \in DOMAIN answers : answers[i] \in Reply
    BY DEF Typed
  <2>3. {identity_requested, migrating, spoiled} \subseteq BOOLEAN
    BY DEF Typed
  <2>4. registered \subseteq Generation /\ {identity, mine} \subseteq Seed \cup {0}
    BY <2>1 DEF Typed
  <2>5. /\ \A i \in DOMAIN requests : requests[i].to \in 1..build
        /\ \A i \in DOMAIN answers : answers[i].from \in 1..build
    BY <2>2 DEF SeedRequest, Reply
  <2> QED
    BY <2>3, <2>4, <2>5 DEF Typed, IdentityTypeOK
<1> QED
  BY <1>1, TypedAtFirst, TypedStep, PTL DEF IdentitySpec

\* A careful user's page is in one of the stages above as long as no seed is
\* refused and no connection lost on the way, for any number of generations and
\* loads (store.rs, receive_identity, adopt_previous_identity and
\* restore_identity).
THEOREM IdentitySafety ==
  ASSUME Ordered, Careful
  PROVE  IdentitySpec => []IdentityInv
<1>1. IdentityInit => IdentityInv
  <2> SUFFICES ASSUME IdentityInit PROVE IdentityInv
    OBVIOUS
  <2>1. Starting
    BY DEF IdentityInit, Starting, Newest
  <2> QED
    BY <2>1, TypedAtFirst DEF IdentityInv, Stage
<1>2. IdentityInv /\ [IdentityNext]_identity_vars => IdentityInv'
  BY IdentityStep
<1> QED
  BY <1>1, <1>2, PTL DEF IdentitySpec

\* So the next load comes back as the identity this page signs with.
THEOREM NextLoadAgreesAlways ==
  ASSUME Ordered, Careful
  PROVE  IdentitySpec => []NextLoadAgrees
<1>1. IdentityInv => NextLoadAgrees
  BY AllSettled DEF IdentityInv, NextLoadAgrees
<1> QED
  BY <1>1, IdentitySafety, PTL

\* And whoever has worked as somebody stays that person through any number of
\* rebuilds of the delegate.
THEOREM SamePersonAlways ==
  ASSUME Ordered, Careful
  PROVE  IdentitySpec => []SamePerson
<1>1. IdentityInv => SamePerson
  BY AllSettled DEF IdentityInv, SamePerson, Settling
<1> QED
  BY <1>1, IdentitySafety, PTL

-----------------------------------------------------------------------------
(* The directory.                                                          *)

\* Every listing that somebody has signed.
Genuine == Rivals \cup {Listing(m, day) : m \in Mine, day \in 0..Days}

Requests ==
  [page : Page, kind : {"get", "put", "update"}, listings : SUBSET Genuine,
   heard : BOOLEAN]

DirectoryTypeOK ==
  /\ now \in 0..Days
  /\ hosted \subseteq Page
  /\ directory \in [Page -> SUBSET Genuine]
  /\ registry \in [Page -> SUBSET Genuine]
  /\ presence \in [Page -> {"Unknown", "Absent", "Present"}]
  /\ pending \in [Page -> Genuine \cup {None}]
  /\ to_nodes \subseteq Requests
  /\ \A r \in to_nodes : r.kind = "get" => r.listings = {}
  /\ \A a \in to_pages : a.page \in Page /\ a.listings \subseteq Genuine

\* An update is sent only where there is something to update.
UpdatesLand ==
  /\ \A r \in to_nodes : r.kind = "update" => r.page \in hosted
  /\ \A a \in to_pages : a.kind \in {"got", "put"} => a.page \in hosted
  /\ \A p \in Page : presence[p] = "Present" => p \in hosted

\* What a page holds back is its own, and it shows it.
HeldIsShown ==
  \A p \in Page :
    pending[p] # None => pending[p] \in registry[p] /\ pending[p].owner = p

\* What a page was told is still there.
ToldIsKept == \A a \in to_pages : a.listings \subseteq Kept

DirectoryInv ==
  /\ DirectoryTypeOK
  /\ UpdatesLand
  /\ HeldIsShown
  /\ ToldIsKept
  /\ OwnListingsCount

-----------------------------------------------------------------------------
(* The contract.                                                           *)

\* Whoever signed a listing, its day and its hash are numbers.
LEMMA GenuineListings ==
  \A l \in Genuine : l.signed /\ l.created \in Nat /\ l.id \in Nat
  BY DirectoryAssumption DEF Genuine, Listing

\* What one's own page lists is one of them, and is its owner's.
LEMMA OwnListings ==
  ASSUME NEW m \in Mine, now \in 0..Days
  PROVE  /\ Listing(m, now) \in Genuine /\ Listing(m, now) # None
         /\ m.page \in Page /\ Listing(m, now).owner = m.page
<1>1. Listing(m, now).owner = m.page
  BY DEF Listing
<1> QED
  BY <1>1, DirectoryAssumption DEF Genuine

\* No batch of such listings is refused.
LEMMA Takes ==
  ASSUME NEW state, NEW first \in SUBSET Genuine
  PROVE  update_state(state, first, {}) = state \cup first
  BY GenuineListings DEF update_state, Acceptable, verify

\* And one with a forged listing is, all of it.
LEMMA TakesOrRefuses ==
  ASSUME NEW state \in SUBSET Genuine, NEW l \in Rivals,
         NEW k \in Rivals \cup Forged
  PROVE  /\ state \subseteq update_state(state, {l}, {k})
         /\ update_state(state, {l}, {k}) \subseteq Genuine
  BY DirectoryAssumption DEF update_state, Acceptable, verify, Genuine

\* What a request is, and what is left of it when its page is loaded again.
LEMMA RequestFields ==
  ASSUME NEW p, NEW kind, NEW listings
  PROVE  LET r == Request(p, kind, listings)
         IN  r.page = p /\ r.kind = kind /\ r.listings = listings
  BY DEF Request

\* What a page makes is a request.
LEMMA RequestsAre ==
  ASSUME NEW p \in Page, NEW kind \in {"get", "put", "update"},
         NEW listings \in SUBSET Genuine
  PROVE  Request(p, kind, listings) \in Requests
  BY DEF Request, Requests

\* A request is some page's, and carries signed listings.
LEMMA RequestParts ==
  ASSUME NEW r \in Requests
  PROVE  r.page \in Page /\ r.listings \in SUBSET Genuine
  BY DEF Requests

\* And one whose answer nobody waits for any more differs in nothing else.
LEMMA UnheardRequest ==
  ASSUME NEW r \in Requests
  PROVE  LET u == [r EXCEPT !.heard = FALSE]
         IN  /\ u \in Requests /\ u.page = r.page /\ u.kind = r.kind
             /\ u.listings = r.listings
  BY DEF Requests

\* The directory is empty and nobody shows anything.
LEMMA DirectoryInitially == DirectoryInit => DirectoryInv
<1> SUFFICES ASSUME DirectoryInit PROVE DirectoryInv
  OBVIOUS
<1>1. /\ to_nodes \subseteq Requests
      /\ \A r \in to_nodes : r.kind = "get" /\ r.listings = {}
  BY RequestFields, RequestsAre DEF DirectoryInit
<1> QED
  BY <1>1, DirectoryAssumption
  DEF DirectoryInit, DirectoryInv, DirectoryTypeOK, UpdatesLand, HeldIsShown,
      ToldIsKept,
      OwnListingsCount

-----------------------------------------------------------------------------

\* What no node loses stays in the directory.
LEMMA KeptGrows ==
  ASSUME \A p \in Page : directory[p] \subseteq directory'[p]
  PROVE  Kept \subseteq Kept'
  BY DEF Kept

\* A node that is handed something new for a page keeps what it had.
LEMMA StoredGrows ==
  ASSUME DirectoryTypeOK, NEW p \in Page, NEW more \in SUBSET Genuine,
         directory' = [directory EXCEPT ![p] = directory[p] \cup more]
  PROVE  /\ directory' \in [Page -> SUBSET Genuine]
         /\ \A q \in Page : directory[q] \subseteq directory'[q]
         /\ more \subseteq Kept'
  BY DEF DirectoryTypeOK, Kept

\* Handling a request: nothing is lost of it, nothing untrue is answered.
LEMMA Handled ==
  ASSUME Merges, DirectoryInv, NEW r \in to_nodes, Handle(r)
  PROVE  /\ directory' \in [Page -> SUBSET Genuine]
         /\ \A q \in Page : directory[q] \subseteq directory'[q]
         /\ r.listings \subseteq Kept'
         /\ hosted \subseteq hosted' /\ hosted' \subseteq Page
         /\ \A a \in to_pages' \ to_pages :
              /\ a.page \in Page /\ a.listings \subseteq Genuine
              /\ a.listings \subseteq Kept'
              /\ a.kind \in {"got", "put"} => a.page \in hosted'
<1>1. DirectoryTypeOK /\ UpdatesLand /\ r.page \in Page
      /\ r.listings \subseteq Genuine
  BY RequestParts DEF DirectoryInv, DirectoryTypeOK
<1>2. CASE NodeFinds(r)
  <2> PICK q \in hosted :
        LET found == update_state(directory[r.page], directory[q], {})
        IN  /\ Stored(r.page, found)
            /\ to_pages' = to_pages \cup Heard(r, "got", found)
    BY <1>2 DEF NodeFinds
  <2> DEFINE found == directory[r.page] \cup directory[q]
  <2>1. q \in Page /\ directory[q] \in SUBSET Genuine
        /\ directory[r.page] \in SUBSET Genuine
    BY <1>1 DEF DirectoryTypeOK
  <2>2. directory' = [directory EXCEPT ![r.page] = found]
        /\ to_pages' = to_pages \cup Heard(r, "got", found)
    BY <2>1, Takes DEF Stored
  <2>3. /\ directory' \in [Page -> SUBSET Genuine]
        /\ \A p \in Page : directory[p] \subseteq directory'[p]
    BY <1>1, <2>1, <2>2, StoredGrows
  <2>4. found \subseteq Kept' /\ found \subseteq Genuine
    BY <1>1, <2>1, <2>2 DEF Kept, DirectoryTypeOK
  <2>5. r.listings = {} /\ hosted' = hosted \cup {r.page}
    BY <1>1, <1>2 DEF NodeFinds, DirectoryTypeOK
  <2>6. \A a \in Heard(r, "got", found) :
          a.page = r.page /\ a.listings = found
    BY DEF Heard, Answer
  <2> HIDE DEF found
  <2> QED
    BY <1>1, <2>2, <2>3, <2>4, <2>5, <2>6 DEF DirectoryTypeOK
<1>3. CASE NodeMisses(r)
  <2>1. directory' = directory /\ hosted' = hosted /\ r.listings = {}
        /\ to_pages' = to_pages \cup Heard(r, "missing", {})
    BY <1>1, <1>3 DEF NodeMisses, nodes, DirectoryTypeOK
  <2>2. \A a \in Heard(r, "missing", {}) :
          a.page = r.page /\ a.listings = {} /\ a.kind = "missing"
    BY DEF Heard, Answer
  <2> QED
    BY <1>1, <2>1, <2>2 DEF DirectoryTypeOK
<1>4. CASE NodePuts(r)
  <2>1. directory' = [directory EXCEPT ![r.page] =
                        directory[r.page] \cup r.listings]
    BY <1>1, <1>4, Takes DEF NodePuts, Stored
  <2>2. hosted' = hosted \cup {r.page}
        /\ to_pages' \subseteq to_pages \cup Heard(r, "put", {})
    BY <1>4 DEF NodePuts
  <2>3. \A a \in Heard(r, "put", {}) : a.page = r.page /\ a.listings = {}
    BY DEF Heard, Answer
  <2>4. /\ directory' \in [Page -> SUBSET Genuine]
        /\ \A q \in Page : directory[q] \subseteq directory'[q]
        /\ r.listings \subseteq Kept'
    BY <1>1, <2>1, StoredGrows
  <2> QED
    BY <1>1, <2>2, <2>3, <2>4 DEF DirectoryTypeOK
<1>5. CASE NodeUpdates(r)
  \* The page knew that its node has the contract.
  <2>1. directory' = [directory EXCEPT ![r.page] =
                        directory[r.page] \cup r.listings]
    BY <1>1, <1>5, Takes DEF NodeUpdates, Stored, UpdatesLand
  <2>2. hosted' = hosted /\ to_pages' = to_pages
    BY <1>5 DEF NodeUpdates
  <2>3. /\ directory' \in [Page -> SUBSET Genuine]
        /\ \A q \in Page : directory[q] \subseteq directory'[q]
        /\ r.listings \subseteq Kept'
    BY <1>1, <2>1, StoredGrows
  <2> QED
    BY <1>1, <2>2, <2>3 DEF DirectoryTypeOK
<1> QED
  BY <1>2, <1>3, <1>4, <1>5 DEF Handle

\* Nodes that learn more, by themselves, change nothing for the pages.
LEMMA NodesAlone ==
  ASSUME DirectoryInv, directory' \in [Page -> SUBSET Genuine],
         \A q \in Page : directory[q] \subseteq directory'[q],
         UNCHANGED <<hosted, page_vars, to_nodes, to_pages, bounds>>
  PROVE  DirectoryInv'
<1>1. Kept \subseteq Kept'
  BY KeptGrows
<1>2. OwnListingsCount'
  BY <1>1 DEF DirectoryInv, OwnListingsCount, OnTheWay, Held, page_vars, bounds
<1> QED
  BY <1>1, <1>2
  DEF DirectoryInv, DirectoryTypeOK, UpdatesLand, HeldIsShown, ToldIsKept, page_vars,
      bounds

\* What a page sends on its own account.
LEMMA SentBy ==
  ASSUME NEW p \in Page, NEW known \in {"Absent", "Present"},
         NEW held \in SUBSET Genuine, NEW listing \in held,
         known = "Present" => p \in hosted
  PROVE  /\ \A r \in Sent(p, known, held, listing) :
              /\ r \in Requests /\ r.page = p
              /\ r.kind \in {"put", "update"}
              /\ r.kind = "update" => p \in hosted
         /\ \E r \in Sent(p, known, held, listing) : listing \in r.listings
<1>1. CASE known = "Absent"
  BY <1>1, RequestFields, RequestsAre DEF Sent
<1>2. CASE known # "Absent"
  <2>1. Sent(p, known, held, listing) = {Request(p, "update", {listing})}
    BY <1>2 DEF Sent
  <2>2. {listing} \in SUBSET Genuine /\ known = "Present"
    BY <1>2
  <2> QED
    BY <2>1, <2>2, RequestFields, RequestsAre
<1> QED
  BY <1>1, <1>2

-----------------------------------------------------------------------------

\* Every handler of the page, every step of the nodes and every fault keeps the
\* invariant.
LEMMA DirectoryStep ==
  Merges /\ Patient /\ DirectoryInv /\ [DirectoryNext]_directory_vars => DirectoryInv'
<1> SUFFICES ASSUME Merges, Patient, DirectoryInv, [DirectoryNext]_directory_vars
             PROVE  DirectoryInv'
  OBVIOUS
<1>o. /\ DirectoryTypeOK /\ UpdatesLand /\ HeldIsShown /\ ToldIsKept
      /\ OwnListingsCount
  BY DEF DirectoryInv
<1>1. ASSUME NEW r \in to_nodes, Handle(r) PROVE DirectoryInv'
  <2>1. /\ directory' \in [Page -> SUBSET Genuine]
        /\ \A q \in Page : directory[q] \subseteq directory'[q]
        /\ r.listings \subseteq Kept'
        /\ hosted \subseteq hosted' /\ hosted' \subseteq Page
        /\ \A a \in to_pages' \ to_pages :
              /\ a.page \in Page /\ a.listings \subseteq Genuine
              /\ a.listings \subseteq Kept'
              /\ a.kind \in {"got", "put"} => a.page \in hosted'
    BY <1>1, Handled
  <2>2. Kept \subseteq Kept'
    BY <2>1, KeptGrows
  <2>3. to_nodes' = to_nodes \ {r}
        /\ UNCHANGED <<registry, presence, pending, bounds>>
    BY <1>1 DEF Handle
  <2>4. DirectoryTypeOK'
    BY <1>o, <2>1, <2>3 DEF DirectoryTypeOK, bounds
  <2>5. UpdatesLand'
    BY <1>o, <2>1, <2>3 DEF UpdatesLand
  <2>6. HeldIsShown'
    BY <1>o, <2>3 DEF HeldIsShown
  <2>7. ToldIsKept'
    BY <1>o, <2>1, <2>2 DEF ToldIsKept
  <2>8. OwnListingsCount'
    <3>1. OnTheWay \subseteq OnTheWay' \cup r.listings
      BY <2>3 DEF OnTheWay
    <3> QED
      BY <1>o, <2>1, <2>2, <2>3, <3>1 DEF OwnListingsCount, Held, bounds
  <2> QED
    BY <2>4, <2>5, <2>6, <2>7, <2>8 DEF DirectoryInv
<1>2. ASSUME NEW a \in to_pages, Deliver(a) PROVE DirectoryInv'
  <2>p. a.page \in Page /\ a.listings \subseteq Genuine
        /\ a.listings \subseteq Kept
    BY <1>o DEF DirectoryTypeOK, ToldIsKept
  <2>u. UNCHANGED <<directory, hosted, now, created, faults, lost>>
        /\ to_pages' = to_pages \ {a}
    BY <1>2 DEF Deliver, nodes, bounds
  <2>1. ASSUME NEW known \in {"Absent", "Present"},
               known = "Present" => a.page \in hosted,
               NEW listings \in SUBSET Genuine, listings \subseteq Kept,
               Known(a.page, known, listings)
        PROVE  DirectoryInv'
    <3> DEFINE p == a.page
    <3> DEFINE held == registry[p] \cup listings
    <3> DEFINE sent == Flushed(p, known, held)
    <3>1. /\ presence' = [presence EXCEPT ![p] = known]
          /\ registry' = [registry EXCEPT ![p] = held]
          /\ to_nodes' = to_nodes \cup sent
          /\ pending' = [pending EXCEPT ![p] = None]
      BY <2>1 DEF Known
    <3>2. p \in Page /\ held \in SUBSET Genuine
      BY <1>o, <2>p DEF DirectoryTypeOK
    <3>3. pending[p] # None => pending[p] \in held
      BY <1>o, <2>p DEF HeldIsShown
    <3>4. /\ \A r \in sent : /\ r \in Requests /\ r.page = p
                             /\ r.kind \in {"put", "update"}
                             /\ r.kind = "update" => p \in hosted
          /\ pending[p] # None => \E r \in sent : pending[p] \in r.listings
      BY <2>1, <3>2, <3>3, SentBy DEF Flushed
    <3> HIDE DEF p, held, sent
    <3>5. DirectoryTypeOK'
      BY <1>o, <2>u, <3>1, <3>2, <3>4 DEF DirectoryTypeOK
    <3>6. UpdatesLand'
      BY <1>o, <2>1, <2>u, <3>1, <3>2, <3>4 DEF UpdatesLand, p, DirectoryTypeOK
    <3>7. HeldIsShown'
      BY <1>o, <3>1, <3>2 DEF HeldIsShown, DirectoryTypeOK, held
    <3>8. ToldIsKept'
      BY <1>o, <2>u DEF ToldIsKept, Kept
    <3>9. OwnListingsCount'
      <4>1. Kept' = Kept /\ lost' = lost /\ OnTheWay \subseteq OnTheWay'
        BY <2>u, <3>1 DEF Kept, OnTheWay
      <4>2. Held \subseteq Held' \cup OnTheWay'
        <5> SUFFICES ASSUME NEW q \in Page, pending[q] # None
                     PROVE  pending[q] \in Held' \cup OnTheWay'
          BY DEF Held
        <5>1. CASE q = p
          BY <3>1, <3>4, <5>1 DEF OnTheWay
        <5>2. CASE q # p
          BY <1>o, <3>1, <3>2, <5>2 DEF Held, DirectoryTypeOK
        <5> QED
          BY <5>1, <5>2
      <4>3. ASSUME NEW q \in Page, NEW l \in registry'[q]
            PROVE  l \in registry[q] \/ l \in Kept
        BY <1>o, <2>1, <3>1, <3>2 DEF DirectoryTypeOK, held
      <4> QED
        BY <1>o, <4>1, <4>2, <4>3 DEF OwnListingsCount
    <3> QED
      BY <3>5, <3>6, <3>7, <3>8, <3>9 DEF DirectoryInv
  <2>2. CASE Got(a)
    BY <1>o, <2>p, <2>1, <2>2 DEF Got, UpdatesLand
  <2>3. CASE Missing(a)
    BY <2>1, <2>3 DEF Missing
  <2>4. CASE Put(a)
    <3>1. presence' = [presence EXCEPT ![a.page] = "Present"]
          /\ UNCHANGED <<registry, to_nodes, pending>> /\ a.page \in hosted
      BY <1>o, <2>4 DEF Put, UpdatesLand
    <3>2. DirectoryTypeOK' /\ UpdatesLand'
      BY <1>o, <2>p, <2>u, <3>1 DEF DirectoryTypeOK, UpdatesLand
    <3>3. HeldIsShown' /\ ToldIsKept' /\ OwnListingsCount'
      BY <1>o, <2>u, <3>1
      DEF HeldIsShown, ToldIsKept, OwnListingsCount, Kept, OnTheWay, Held
    <3> QED
      BY <3>2, <3>3 DEF DirectoryInv
  <2> QED
    BY <1>2, <2>2, <2>3, <2>4 DEF Deliver
<1>3. ASSUME NEW p \in Page, NEW q \in Page, Synchronise(p, q) PROVE DirectoryInv'
  <2>1. directory[p] \in SUBSET Genuine /\ directory[q] \in SUBSET Genuine
    BY <1>o DEF DirectoryTypeOK
  <2>2. directory' = [directory EXCEPT ![p] = directory[p] \cup directory[q]]
    BY <1>3, <2>1, Takes DEF Synchronise, Stored
  <2> QED
    BY <1>o, <1>3, <2>1, <2>2, StoredGrows, NodesAlone DEF Synchronise
<1>4. ASSUME NEW p \in Page, NEW l \in Rivals, NEW k \in Rivals \cup Forged,
             Publish(p, {l}, {k})
      PROVE  DirectoryInv'
  <2> DEFINE new == update_state(directory[p], {l}, {k})
  <2>1. directory[p] \subseteq new /\ new \subseteq Genuine
    BY <1>o, TakesOrRefuses DEF DirectoryTypeOK
  <2>2. directory' = [directory EXCEPT ![p] = new]
    BY <1>4 DEF Publish, Stored
  <2> HIDE DEF new
  <2>3. directory' \in [Page -> SUBSET Genuine]
        /\ \A q \in Page : directory[q] \subseteq directory'[q]
    BY <1>o, <2>1, <2>2 DEF DirectoryTypeOK
  <2> QED
    BY <1>4, <2>3, NodesAlone DEF Publish
<1>5. ASSUME NEW m \in Mine, Create(m) PROVE DirectoryInv'
  <2> DEFINE p == m.page
  <2> DEFINE new == Listing(m, now)
  <2> DEFINE held == registry[p] \cup {new}
  <2>1. /\ p \in Page /\ new \in Genuine /\ new # None /\ new.owner = p
        /\ held \in SUBSET Genuine
    BY <1>o, OwnListings DEF DirectoryTypeOK
  <2>2. registry' = [registry EXCEPT ![p] = held]
        /\ UNCHANGED <<directory, hosted, presence, to_pages, now, lost>>
    BY <1>5 DEF Create, publish_listing, nodes
  <2>3. CASE presence[p] = "Unknown"
    \* Nothing else is held back, for a patient user.
    <3>1. pending' = [pending EXCEPT ![p] = new] /\ to_nodes' = to_nodes
          /\ pending[p] = None
      BY <1>5, <2>3 DEF Create, publish_listing
    <3> HIDE DEF p, new
    <3>2. DirectoryTypeOK' /\ UpdatesLand'
      BY <1>o, <2>1, <2>2, <3>1 DEF DirectoryTypeOK, UpdatesLand
    <3>3. HeldIsShown' /\ ToldIsKept'
      BY <1>o, <2>1, <2>2, <3>1
      DEF HeldIsShown, ToldIsKept, DirectoryTypeOK, Kept
    <3>4. OwnListingsCount'
      <4>1. Kept' = Kept /\ lost' = lost /\ OnTheWay' = OnTheWay
        BY <2>2, <3>1 DEF Kept, OnTheWay
      <4>2. Held \subseteq Held' /\ new \in Held'
        BY <1>o, <2>1, <3>1 DEF Held, DirectoryTypeOK
      <4>3. ASSUME NEW q \in Page, NEW l \in registry'[q]
            PROVE  l \in registry[q] \/ l = new
        BY <1>o, <2>1, <2>2 DEF DirectoryTypeOK
      <4> QED
        BY <1>o, <4>1, <4>2, <4>3 DEF OwnListingsCount
    <3> QED
      BY <3>2, <3>3, <3>4 DEF DirectoryInv
  <2>4. CASE presence[p] # "Unknown"
    <3> DEFINE sent == Sent(p, presence[p], held, new)
    <3>1. pending' = pending /\ to_nodes' = to_nodes \cup sent
      BY <1>5, <2>4 DEF Create, publish_listing
    <3>2. presence[p] \in {"Absent", "Present"}
          /\ (presence[p] = "Present" => p \in hosted)
      BY <1>o, <2>1, <2>4 DEF DirectoryTypeOK, UpdatesLand
    <3>3. /\ \A r \in sent : /\ r \in Requests /\ r.page = p
                             /\ r.kind \in {"put", "update"}
                             /\ r.kind = "update" => p \in hosted
          /\ \E r \in sent : new \in r.listings
      BY <2>1, <3>2, SentBy
    <3> HIDE DEF p, new, sent
    <3>4. DirectoryTypeOK' /\ UpdatesLand'
      BY <1>o, <2>1, <2>2, <3>1, <3>3 DEF DirectoryTypeOK, UpdatesLand
    <3>5. HeldIsShown' /\ ToldIsKept'
      BY <1>o, <2>1, <2>2, <3>1
      DEF HeldIsShown, ToldIsKept, DirectoryTypeOK, Kept
    <3>6. OwnListingsCount'
      <4>1. Kept' = Kept /\ lost' = lost /\ Held' = Held
        BY <2>2, <3>1 DEF Kept, Held
      <4>2. OnTheWay \subseteq OnTheWay' /\ new \in OnTheWay'
        BY <3>1, <3>3 DEF OnTheWay
      <4>3. ASSUME NEW q \in Page, NEW l \in registry'[q]
            PROVE  l \in registry[q] \/ l = new
        BY <1>o, <2>1, <2>2 DEF DirectoryTypeOK
      <4> QED
        BY <1>o, <4>1, <4>2, <4>3 DEF OwnListingsCount
    <3> QED
      BY <3>4, <3>5, <3>6 DEF DirectoryInv
  <2> QED
    BY <2>3, <2>4
<1>6. ASSUME NEW p \in Page, Changed(p) PROVE DirectoryInv'
  <2> PICK l \in directory[p] \ registry[p] : receive_registry(p, {l})
    BY <1>6 DEF Changed
  <2>1. registry' = [registry EXCEPT ![p] = registry[p] \cup {l}]
        /\ l \in Genuine /\ l \in Kept
    BY <1>o DEF receive_registry, DirectoryTypeOK, Kept
  <2>2. UNCHANGED <<directory, hosted, presence, pending, to_nodes, to_pages,
                    now, lost>>
    BY <1>6 DEF Changed, nodes, bounds
  <2>3. DirectoryTypeOK' /\ UpdatesLand' /\ HeldIsShown' /\ ToldIsKept'
    BY <1>o, <2>1, <2>2
    DEF DirectoryTypeOK, UpdatesLand, HeldIsShown, ToldIsKept, Kept
  <2>4. OwnListingsCount'
    <3>1. Kept' = Kept /\ lost' = lost /\ Held' = Held /\ OnTheWay' = OnTheWay
      BY <2>2 DEF Kept, Held, OnTheWay
    <3>2. ASSUME NEW q \in Page, NEW k \in registry'[q]
          PROVE  k \in registry[q] \/ k \in Kept
      BY <1>o, <2>1 DEF DirectoryTypeOK
    <3> QED
      BY <1>o, <3>1, <3>2 DEF OwnListingsCount
  <2> QED
    BY <2>3, <2>4 DEF DirectoryInv
<1>7. ASSUME NEW p \in Page, Reload(p) PROVE DirectoryInv'
  <2> DEFINE Unheard == {[r EXCEPT !.heard = FALSE] :
                           r \in {s \in to_nodes : s.page = p /\ s.kind # "get"}}
  <2>1. /\ registry' = [registry EXCEPT ![p] = {}]
        /\ presence' = [presence EXCEPT ![p] = "Unknown"]
        /\ pending' = [pending EXCEPT ![p] = None]
        /\ to_nodes' = {r \in to_nodes : r.page # p} \cup Unheard
                         \cup {Request(p, "get", {})}
        /\ to_pages' \subseteq to_pages
        /\ UNCHANGED <<directory, hosted, now, lost>>
    BY <1>7 DEF Reload, nodes
  <2>2. ASSUME NEW r \in Unheard
        PROVE  /\ r \in Requests /\ r.page = p /\ r.kind # "get"
               /\ r.kind = "update" => p \in hosted
    <3> PICK s \in to_nodes :
          s.page = p /\ s.kind # "get" /\ r = [s EXCEPT !.heard = FALSE]
      OBVIOUS
    <3>1. s \in Requests
      BY <1>o DEF DirectoryTypeOK
    <3> QED
      BY <1>o, <3>1, UnheardRequest DEF UpdatesLand
  <2>3. ASSUME NEW s \in to_nodes, s.page = p, s.kind # "get"
        PROVE  \E r \in Unheard : r.listings = s.listings
    <3>1. [s EXCEPT !.heard = FALSE] \in Unheard
      BY <2>3
    <3> QED
      BY <1>o, <3>1, UnheardRequest DEF DirectoryTypeOK
  <2> HIDE DEF Unheard
  <2>a. /\ Request(p, "get", {}) \in Requests
        /\ Request(p, "get", {}).kind = "get"
        /\ Request(p, "get", {}).listings = {}
    BY RequestFields, RequestsAre
  <2>4. DirectoryTypeOK'
    <3>1. to_nodes' \subseteq Requests
          /\ \A r \in to_nodes' : r.kind = "get" => r.listings = {}
      BY <1>o, <2>1, <2>2, <2>a DEF DirectoryTypeOK
    <3> QED
      BY <1>o, <2>1, <3>1 DEF DirectoryTypeOK
  <2>5. UpdatesLand'
    BY <1>o, <2>1, <2>2, <2>a DEF UpdatesLand, DirectoryTypeOK
  <2>6. HeldIsShown' /\ ToldIsKept'
    BY <1>o, <2>1 DEF HeldIsShown, ToldIsKept, DirectoryTypeOK, Kept
  <2>7. OwnListingsCount'
    <3>1. Kept' = Kept /\ lost' = lost
      BY <2>1 DEF Kept
    <3>2. OnTheWay \subseteq OnTheWay'
      BY <1>o, <2>1, <2>3 DEF OnTheWay, DirectoryTypeOK
    <3>3. ASSUME NEW q \in Page \ {p}, NEW l \in Held, l.owner = q
          PROVE  l \in Held'
      BY <1>o, <2>1, <3>3 DEF Held, HeldIsShown, DirectoryTypeOK
    <3>4. \A q \in Page : registry'[q] = IF q = p THEN {} ELSE registry[q]
      BY <1>o, <2>1 DEF DirectoryTypeOK
    <3> QED
      BY <1>o, <3>1, <3>2, <3>3, <3>4 DEF OwnListingsCount
  <2> QED
    BY <2>4, <2>5, <2>6, <2>7 DEF DirectoryInv
<1>8. ASSUME NEW p \in Page, resync_registry(p) PROVE DirectoryInv'
  <2> PICK gone \in SUBSET {r \in to_nodes : r.page = p} :
       /\ to_nodes' = (to_nodes \ gone) \cup {Request(p, "get", {})}
       /\ lost' = lost \cup UNION {r.listings : r \in gone}
    BY <1>8 DEF resync_registry
  <2>1. /\ to_pages' \subseteq to_pages
        /\ UNCHANGED <<directory, hosted, registry, presence, pending, now>>
    BY <1>8 DEF resync_registry, nodes
  <2>a. /\ Request(p, "get", {}) \in Requests
        /\ Request(p, "get", {}).kind = "get"
        /\ Request(p, "get", {}).listings = {}
    BY RequestFields, RequestsAre
  <2>2. DirectoryTypeOK' /\ UpdatesLand' /\ HeldIsShown' /\ ToldIsKept'
    BY <1>o, <2>1, <2>a
    DEF DirectoryTypeOK, UpdatesLand, HeldIsShown, ToldIsKept, Kept
  <2>3. OwnListingsCount'
    <3>1. Kept' = Kept /\ Held' = Held
      BY <2>1 DEF Kept, Held
    <3>2. OnTheWay \cup lost \subseteq OnTheWay' \cup lost'
      BY DEF OnTheWay
    <3> QED
      BY <1>o, <2>1, <3>1, <3>2 DEF OwnListingsCount
  <2> QED
    BY <2>2, <2>3 DEF DirectoryInv
<1>9. CASE Midnight
  <2>1. now' \in 0..Days
        /\ UNCHANGED <<directory, hosted, registry, presence, pending, to_nodes,
                       to_pages, lost>>
    BY <1>o, <1>9, DirectoryAssumption
    DEF Midnight, nodes, page_vars, DirectoryTypeOK
  <2> QED
    BY <1>o, <2>1
    DEF DirectoryInv, DirectoryTypeOK, UpdatesLand, HeldIsShown, ToldIsKept,
        OwnListingsCount, Kept, OnTheWay, Held
<1>10. CASE UNCHANGED directory_vars
  BY <1>o, <1>10, NodesAlone
  DEF directory_vars, nodes, DirectoryTypeOK
<1> QED
  BY <1>1, <1>2, <1>3, <1>4, <1>5, <1>6, <1>7, <1>8, <1>9, <1>10
  DEF DirectoryNext

-----------------------------------------------------------------------------

\* Where nodes merge what they are given and users let the page learn whether
\* there is a directory, the invariant holds in every state.
THEOREM DirectorySafety == ASSUME Merges, Patient PROVE DirectorySpec => []DirectoryInv
<1>1. DirectoryInv /\ [DirectoryNext]_directory_vars => DirectoryInv'
  BY DirectoryStep
<1> QED
  BY <1>1, DirectoryInitially, PTL DEF DirectorySpec

\* No listing of a page's own is dropped between publish_listing, the flush,
\* the node and the directory, except with a connection.
THEOREM ListingsCount ==
  ASSUME Merges, Patient PROVE DirectorySpec => []OwnListingsCount
<1>1. DirectoryInv => OwnListingsCount
  BY DEF DirectoryInv
<1> QED
  BY <1>1, DirectorySafety, PTL

-----------------------------------------------------------------------------
(* Claims.                                                                 *)

\* A set of numbers has a least one.
LEMMA LeastIs ==
  ASSUME NEW T \in SUBSET Nat, T # {}
  PROVE  \E n \in T : \A m \in T : n <= m
<1>1. PICK n \in T : \A m \in T : ~(<<m, n>> \in OpToRel(<, Nat))
  BY NatLessThanWellFounded, WFMin
<1>2. \A m \in T : ~(m < n)
  BY <1>1 DEF OpToRel
<1> QED
  BY <1>2

\* Whatever is listed of a target, one listing comes before all others: browse
\* shows every target that is listed.
LEMMA Earliest ==
  ASSUME NEW S \in SUBSET Genuine, NEW l \in S
  PROVE  \E k \in S : /\ k.target = l.target /\ k.created <= l.created
                      /\ \A j \in S :
                           j.target = k.target => ~order_key_less(j, k)
<1> DEFINE Same == {k \in S : k.target = l.target}
<1> DEFINE Days_of == {k.created : k \in Same}
<1>1. Same \subseteq Genuine /\ l \in Same
  OBVIOUS
<1>2. PICK d \in Days_of : \A e \in Days_of : d <= e
  <2>1. Days_of \in SUBSET Nat /\ Days_of # {}
    BY <1>1, GenuineListings
  <2> QED
    BY <2>1, LeastIs
<1> DEFINE First == {k \in Same : k.created = d}
<1> DEFINE Ids_of == {k.id : k \in First}
<1>3. PICK i \in Ids_of : \A e \in Ids_of : i <= e
  <2>1. Ids_of \in SUBSET Nat /\ Ids_of # {}
    BY <1>1, <1>2, GenuineListings
  <2> QED
    BY <2>1, LeastIs
<1>4. PICK k \in Same : k.created = d /\ k.id = i
  BY <1>3
<1>5. ASSUME NEW j \in Same
      PROVE  /\ j \in S /\ j.target = l.target
             /\ j.created \in Nat /\ j.id \in Nat /\ d <= j.created
             /\ j.created = d => i <= j.id
  <2>1. j.created \in Days_of /\ (j.created = d => j.id \in Ids_of)
    OBVIOUS
  <2> QED
    BY <1>1, <1>2, <1>3, <2>1, GenuineListings
<1>6. k \in S /\ k.target = l.target /\ k.created \in Nat /\ k.id \in Nat
  BY <1>5
<1>7. l.created \in Nat /\ k.created <= l.created
  BY <1>1, <1>4, <1>5
<1>8. ASSUME NEW j \in S, j.target = k.target PROVE ~order_key_less(j, k)
  <2>1. j \in Same
    BY <1>6, <1>8
  <2>2. /\ j.created \in Nat /\ j.id \in Nat /\ k.created <= j.created
        /\ j.created = k.created => k.id <= j.id
    BY <1>4, <1>5, <2>1
  <2> HIDE DEF Same, Days_of, First, Ids_of
  <2> QED
    BY <1>6, <2>2 DEF order_key_less
<1> QED
  BY <1>6, <1>7, <1>8

\* Time passes and a page forgets nothing, unless it is loaded again.
LEMMA RegistryGrows ==
  ASSUME DirectoryInv, [DirectoryNext]_directory_vars
  PROVE  /\ now \in Nat /\ now' \in Nat /\ now <= now'
         /\ \A p \in Page :
              registry'[p] = {} \/ registry[p] \subseteq registry'[p]
<1>o. now \in Nat /\ registry \in [Page -> SUBSET Genuine]
  BY DirectoryAssumption DEF DirectoryInv, DirectoryTypeOK
<1>1. now' = now \/ now' = now + 1
  BY DEF DirectoryNext, Handle, Deliver, Synchronise, Publish, Create, Changed,
         Reload, resync_registry, Midnight, directory_vars, bounds
<1> SUFFICES ASSUME NEW p \in Page
             PROVE  registry'[p] = {} \/ registry[p] \subseteq registry'[p]
  BY <1>o, <1>1
<1>2. ASSUME NEW q \in Page, registry' = [registry EXCEPT ![q] = {}]
      PROVE  registry'[p] = {} \/ registry[p] \subseteq registry'[p]
  BY <1>o, <1>2
<1>3. ASSUME NEW q, NEW more,
             registry' = [registry EXCEPT ![q] = registry[q] \cup more]
      PROVE  registry[p] \subseteq registry'[p]
  BY <1>o, <1>3
<1>4. CASE \E q \in Page : Reload(q)
  BY <1>2, <1>4 DEF Reload
<1>5. CASE \E a \in to_pages : Deliver(a)
  BY <1>3, <1>5 DEF Deliver, Got, Missing, Put, Known
<1>6. CASE \E m \in Mine : Create(m)
  BY <1>3, <1>6 DEF Create, publish_listing
<1>7. CASE \E q \in Page : Changed(q)
  BY <1>3, <1>7 DEF Changed, receive_registry
<1>8. CASE registry' = registry
  BY <1>8
<1>9. ASSUME \/ \E r \in to_nodes : Handle(r)
             \/ \E x, y \in Page : Synchronise(x, y)
             \/ \E x \in Page, l \in Rivals, k \in Rivals \cup Forged :
                  Publish(x, {l}, {k})
             \/ \E x \in Page : resync_registry(x)
             \/ Midnight \/ UNCHANGED directory_vars
      PROVE  registry' = registry
  BY <1>9
  DEF Handle, Synchronise, Publish, resync_registry, Midnight, page_vars,
              directory_vars
<1> QED
  BY <1>4, <1>5, <1>6, <1>7, <1>8, <1>9 DEF DirectoryNext

\* browse goes by day and hash, so a listing that comes later, or is learnt
\* later, displaces one of the same target only if it is earlier.
LEMMA OnlyEarlierDisplaces ==
  DirectoryInv /\ DirectoryInv' /\ [DirectoryNext]_directory_vars =>
    [\A p \in Page :
       registry'[p] # {} =>
         \A l \in browse(registry[p], None, now) :
           /\ \E k \in claims(registry'[p], None, now') :
                k.target = l.target /\ k.created <= l.created
           /\ \A k \in browse(registry'[p], None, now') :
                k.target = l.target => k.created <= l.created]_directory_vars
<1> SUFFICES ASSUME DirectoryInv, DirectoryInv', [DirectoryNext]_directory_vars,
                    NEW p \in Page, registry'[p] # {},
                    NEW l \in browse(registry[p], None, now)
             PROVE  /\ \E k \in claims(registry'[p], None, now') :
                         k.target = l.target /\ k.created <= l.created
                    /\ \A k \in browse(registry'[p], None, now') :
                         k.target = l.target => k.created <= l.created
  OBVIOUS
<1> DEFINE S == Matching(registry'[p], None, now')
<1>2. registry'[p] \in SUBSET Genuine
  BY DEF DirectoryInv, DirectoryTypeOK
<1>3. l \in registry[p] /\ l.created <= now + MAX_CLOCK_SKEW
  BY DEF browse, claims, Matching
<1>4. l \in registry'[p] /\ now \in Nat /\ now' \in Nat /\ now <= now'
  BY <1>3, RegistryGrows
<1>5. l.created \in Nat
  BY <1>2, <1>4, GenuineListings
<1>6. S \in SUBSET Genuine /\ l \in S
  BY <1>2, <1>3, <1>4, <1>5 DEF Matching, MAX_CLOCK_SKEW
<1>7. PICK k \in S :
        /\ k.target = l.target /\ k.created <= l.created
        /\ \A j \in S : j.target = k.target => ~order_key_less(j, k)
  BY <1>6, Earliest
<1>8. k \in claims(registry'[p], None, now')
  BY <1>7 DEF claims
<1>9. ASSUME NEW j \in browse(registry'[p], None, now'), j.target = l.target
      PROVE  j.created <= l.created
  <2>1. j \in S /\ ~order_key_less(k, j)
    BY <1>7, <1>9 DEF browse, claims
  <2>2. k.created \in Nat /\ j.created \in Nat
    BY <1>6, <1>7, <2>1, GenuineListings
  <2> QED
    BY <1>5, <1>7, <2>1, <2>2 DEF order_key_less
<1> QED
  BY <1>7, <1>8, <1>9

\* Once a page shows a claim on a target, only an earlier one takes its place.
THEOREM ClaimsStandFirm ==
  ASSUME Merges, Patient PROVE DirectorySpec => ClaimsStand
  BY OnlyEarlierDisplaces, DirectorySafety, PTL DEF DirectorySpec, ClaimsStand

-----------------------------------------------------------------------------
(* The connection.                                                         *)

\* What a socket may be, and what the page keeps about them.
SocketsTyped ==
  /\ sockets \in Seq({"connecting", "open", "broken", "closed"}) /\ Len(sockets) > 0
  /\ isOpen \in BOOLEAN /\ ready \in BOOLEAN
  /\ timers \in Nat
  /\ outbox \in Seq(SUBSET Edit)
  /\ connection \in {"Connecting", "Open", "Reconnecting"}

\* Something is on its way that will end in a socket's opening, or in its being
\* known to be gone.
UnderWay == timers > 0 \/ \E s \in Socket : sockets[s] \in {"connecting", "broken"}

\* A socket that is closed is replaced in the end; one that will be the page's
\* first since the user retried is not the only one to come.
SocketsCover ==
  /\ sockets[Api] = "closed" => timers > 0
  /\ connection = "Reconnecting" =>
       timers > 0 \/ \E s \in Socket : sockets[s] = "connecting"
  /\ connection = "Connecting" => sockets[Api] = "connecting"
  /\ connection = "Connecting" /\ ready =>
       timers > 0 \/ \E s \in Socket : s # Api /\ sockets[s] = "connecting"
  /\ ~ready => local = {}

\* An edit of the board that the node has not got is queued, or something is
\* under way.
Covered ==
  \A e \in (local \cap BoardEdit) \ node :
    UnderWay \/ \E i \in DOMAIN outbox : e \in outbox[i]

ConnectionInv ==
  SocketsTyped /\ SocketsCover /\ (~isOpen => UnderWay) /\ Covered

\* What a flush leaves behind.
LEMMA Flushing ==
  ASSUME NEW queue \in Seq(SUBSET Edit), NEW api, flush_outbox(queue, api),
         api \in {"connecting", "open", "broken", "closed"}
  PROVE  /\ outbox' \in Seq(SUBSET Edit) /\ isOpen' \in BOOLEAN
         /\ isOpen' \/ api = "connecting"
         /\ api = "open" => \A i \in DOMAIN queue : queue[i] \subseteq node'
         /\ node \subseteq node'
<1>1. CASE api = "open"
  <2>1. /\ outbox' = <<>> /\ isOpen' = TRUE
        /\ node' = node \cup UNION {queue[i] : i \in DOMAIN queue}
    BY <1>1 DEF flush_outbox
  <2>2. \A i \in DOMAIN queue : queue[i] \subseteq node'
    BY <2>1
  <2> QED
    BY <1>1, <2>1, <2>2
<1>2. CASE api \in {"broken", "closed"}
  <2>1. outbox' = <<>> /\ isOpen' = TRUE /\ node' = node
    BY <1>2 DEF flush_outbox
  <2>2. api # "open"
    BY <1>2
  <2> QED
    BY <2>1, <2>2
<1>3. CASE api = "connecting" /\ queue # <<>>
  <2>1. outbox' = Tail(queue) /\ isOpen' = FALSE /\ node' = node
    BY <1>3 DEF flush_outbox
  <2>2. Tail(queue) \in Seq(SUBSET Edit)
    BY <1>3
  <2> QED
    BY <1>3, <2>1, <2>2
<1>4. CASE api = "connecting" /\ queue = <<>>
  <2>1. outbox' = queue /\ isOpen' = TRUE /\ node' = node
    BY <1>4 DEF flush_outbox
  <2> QED
    BY <1>4, <2>1
<1> QED
  BY <1>1, <1>2, <1>3, <1>4

\* What the user edits is queued, or sent into the socket there is.
LEMMA Emitting ==
  ASSUME ConnectionInv, NEW e \in Edit, Emit(e)
  PROVE  ConnectionInv'
<1> DEFINE queue == Append(outbox, {e})
<1> USE DEF ConnectionInv
<1>1. /\ ready /\ local' = local \cup {e}
      /\ sockets' = sockets /\ timers' = timers /\ connection' = connection
      /\ ready' = ready
  BY DEF Emit
<1>2. /\ queue \in Seq(SUBSET Edit)
      /\ \E i \in DOMAIN queue : e \in queue[i]
      /\ \A i \in DOMAIN outbox : i \in DOMAIN queue /\ queue[i] = outbox[i]
  <2>1. outbox \in Seq(SUBSET Edit) /\ {e} \in SUBSET Edit
    BY DEF SocketsTyped
  <2>2. Len(queue) \in DOMAIN queue /\ queue[Len(queue)] = {e}
    BY <2>1
  <2> QED
    BY <2>1, <2>2
<1> HIDE DEF queue
<1>3. sockets[Api] \in {"connecting", "open", "broken", "closed"} /\ Api \in Socket
  BY DEF SocketsTyped, Api, Socket
<1>4. UnderWay' <=> UnderWay
  BY <1>1 DEF UnderWay, Socket
<1>5. SocketsCover'
  BY <1>1 DEF SocketsCover, Api, Socket
<1>6. CASE isOpen
  <2>1. flush_outbox(queue, sockets[Api])
    BY <1>6 DEF Emit, queue
  <2>2. /\ outbox' \in Seq(SUBSET Edit) /\ isOpen' \in BOOLEAN
        /\ isOpen' \/ sockets[Api] = "connecting"
        /\ sockets[Api] = "open" => \A i \in DOMAIN queue : queue[i] \subseteq node'
        /\ node \subseteq node'
    BY <1>2, <1>3, <2>1, Flushing
  <2>3. SocketsTyped'
    BY <1>1, <2>2 DEF SocketsTyped
  <2>4. sockets[Api] # "open" => UnderWay
    BY <1>3 DEF SocketsCover, UnderWay
  <2>5. Covered'
    <3> SUFFICES ASSUME NEW f \in local' \cap BoardEdit, f \notin node', ~UnderWay
                 PROVE  FALSE
      BY <1>4 DEF Covered
    <3>1. \A i \in DOMAIN queue : f \notin queue[i]
      BY <2>2, <2>4
    <3>2. f \in local /\ f \notin node
      BY <1>1, <1>2, <2>2, <3>1, <2>4
    <3> QED
      BY <1>2, <3>1, <3>2 DEF Covered
  <2> QED
    BY <1>4, <1>5, <2>2, <2>3, <2>4, <2>5
<1>7. CASE ~isOpen
  <2>1. outbox' = queue /\ isOpen' = isOpen /\ node' = node
    BY <1>7 DEF Emit, queue
  <2>2. SocketsTyped'
    BY <1>1, <1>2, <2>1 DEF SocketsTyped
  <2> QED
    BY <1>4, <1>5, <1>7, <2>1, <2>2 DEF Covered
<1> QED
  BY <1>6, <1>7

\* A socket that opens sends what is queued and offers again what is there,
\* but where it counts as the first since the user retried; then another is to
\* come.
LEMMA Opening ==
  ASSUME ConnectionInv, NEW s \in Socket, Opened(s)
  PROVE  ConnectionInv'
<1> DEFINE queue == outbox \o on_connected
           api == sockets'[Len(sockets)]
<1> USE DEF ConnectionInv
<1>1. /\ sockets[s] = "connecting" /\ sockets' = [sockets EXCEPT ![s] = "open"]
      /\ connection' = "Open" /\ ready' = TRUE /\ timers' = timers /\ local' = local
  BY DEF Opened
<1>2. flush_outbox(queue, api)
  BY DEF Opened, Api
<1>3. /\ sockets \in Seq({"connecting", "open", "broken", "closed"})
      /\ Len(sockets) \in Nat \ {0} /\ Socket = 1..Len(sockets)
      /\ timers \in Nat
  BY DEF SocketsTyped, Socket
<1>4. /\ sockets' \in Seq({"connecting", "open", "broken", "closed"})
      /\ Len(sockets') = Len(sockets) /\ Socket' = Socket /\ Api' = Len(sockets)
      /\ \A n \in Socket : sockets'[n] = IF n = s THEN "open" ELSE sockets[n]
      /\ Len(sockets) \in Socket
  BY <1>1, <1>3 DEF Socket, Api
<1>5. /\ on_connected \in Seq(SUBSET Edit)
      /\ connection # "Connecting" =>
           \A e \in local \cap BoardEdit : \E i \in DOMAIN on_connected : e \in on_connected[i]
  <2>1. {} \in SUBSET Edit /\ local \cap BoardEdit \in SUBSET Edit
    BY DEF Edit
  <2>2. FirstRequests \in Seq(SUBSET Edit) /\ resync \in Seq(SUBSET Edit)
    <3>1. <<{}>> \in Seq(SUBSET Edit) /\ <<{}, {}>> \in Seq(SUBSET Edit)
      BY <2>1
    <3>2. <<{}, local \cap BoardEdit, {}>> \in Seq(SUBSET Edit)
      BY <2>1
    <3> QED
      BY <3>1, <3>2 DEF FirstRequests, resync
  <2>3. ASSUME NEW e \in local \cap BoardEdit PROVE \E i \in DOMAIN resync : e \in resync[i]
    <3>1. resync = <<{}, local \cap BoardEdit, {}>>
      BY DEF resync
    <3>2. 2 \in DOMAIN resync /\ resync[2] = local \cap BoardEdit
      BY <3>1
    <3> QED
      BY <3>2
  <2> QED
    BY <2>2, <2>3 DEF on_connected
<1> HIDE DEF queue, api
<1>6. /\ queue \in Seq(SUBSET Edit)
      /\ \A i \in DOMAIN outbox : i \in DOMAIN queue /\ queue[i] = outbox[i]
      /\ \A i \in DOMAIN on_connected : \E j \in DOMAIN queue : queue[j] = on_connected[i]
  <2>1. outbox \in Seq(SUBSET Edit)
    BY DEF SocketsTyped
  <2>2. ASSUME NEW i \in DOMAIN on_connected
        PROVE  \E j \in DOMAIN queue : queue[j] = on_connected[i]
    <3>1. Len(outbox) + i \in DOMAIN queue /\ queue[Len(outbox) + i] = on_connected[i]
      BY <1>5, <2>1 DEF queue
    <3> QED
      BY <3>1
  <2> QED
    BY <1>5, <2>1, <2>2 DEF queue
<1>7. api \in {"connecting", "open", "broken", "closed"} /\ api = sockets'[Api']
  BY <1>3, <1>4 DEF api
<1>8. /\ outbox' \in Seq(SUBSET Edit) /\ isOpen' \in BOOLEAN
      /\ isOpen' \/ api = "connecting"
      /\ api = "open" => \A i \in DOMAIN queue : queue[i] \subseteq node'
      /\ node \subseteq node'
  BY <1>2, <1>6, <1>7, Flushing
<1>9. SocketsTyped'
  BY <1>1, <1>3, <1>4, <1>8 DEF SocketsTyped
<1>10. api = "closed" => timers > 0
  <2>1. api = "closed" => sockets[Api] = "closed"
    BY <1>4 DEF api, Api
  <2> QED
    BY <2>1 DEF SocketsCover
<1>11. SocketsCover'
  BY <1>1, <1>7, <1>10 DEF SocketsCover
<1>12. api # "open" => UnderWay'
  <2>1. api \in {"connecting", "broken"} => \E n \in Socket' : sockets'[n] \in {"connecting", "broken"}
    BY <1>4 DEF api
  <2> QED
    BY <1>1, <1>7, <1>10, <2>1 DEF UnderWay
<1>13. connection = "Connecting" /\ ready => UnderWay'
  <2> SUFFICES ASSUME connection = "Connecting", ready, ~(timers > 0) PROVE UnderWay'
    BY <1>1 DEF UnderWay
  <2>1. PICK n \in Socket : n # Api /\ sockets[n] = "connecting" /\ sockets[Api] = "connecting"
    BY DEF SocketsCover
  <2>2. \E k \in Socket : k # s /\ sockets[k] = "connecting"
    BY <1>4, <2>1 DEF Api
  <2> QED
    BY <1>4, <2>2 DEF UnderWay
<1>14. Covered'
  <2> SUFFICES ASSUME NEW f \in local \cap BoardEdit, f \notin node', ~UnderWay'
               PROVE  FALSE
    BY <1>1 DEF Covered
  <2>1. api = "open" /\ \A i \in DOMAIN queue : f \notin queue[i]
    BY <1>8, <1>12
  <2>2. ready
    BY DEF SocketsCover
  <2>3. connection # "Connecting"
    BY <1>13, <2>2
  <2> QED
    BY <1>5, <1>6, <2>1, <2>3
<1> QED
  BY <1>8, <1>9, <1>11, <1>12, <1>14

\* A socket that is given up leaves a timer.
LEMMA Closing ==
  ASSUME ConnectionInv, NEW s \in Socket, Closed(s)
  PROVE  ConnectionInv'
<1> USE DEF ConnectionInv
<1>1. /\ sockets' = [sockets EXCEPT ![s] = "closed"] /\ isOpen' = FALSE
      /\ timers' = timers + 1 /\ connection' = "Reconnecting"
      /\ outbox' = outbox /\ ready' = ready /\ local' = local /\ node' = node
  BY DEF Closed, schedule_reconnect
<1>2. SocketsTyped' /\ timers' > 0
  <2>1. sockets \in Seq({"connecting", "open", "broken", "closed"}) /\ Len(sockets) > 0
    BY DEF SocketsTyped
  <2>2. sockets' \in Seq({"connecting", "open", "broken", "closed"}) /\ Len(sockets') > 0
    BY <1>1, <2>1 DEF Socket
  <2>3. timers \in Nat /\ timers' \in Nat /\ timers' > 0
    BY <1>1 DEF SocketsTyped
  <2>4. outbox' \in Seq(SUBSET Edit) /\ isOpen' \in BOOLEAN /\ ready' \in BOOLEAN
    BY <1>1 DEF SocketsTyped
  <2>5. connection' \in {"Connecting", "Open", "Reconnecting"}
    BY <1>1
  <2> QED
    BY <2>2, <2>3, <2>4, <2>5 DEF SocketsTyped
<1>3. UnderWay'
  BY <1>2 DEF UnderWay
<1>4. SocketsCover'
  BY <1>1, <1>2 DEF SocketsCover
<1> QED
  BY <1>2, <1>3, <1>4 DEF Covered

\* One that breaks will be noticed.
LEMMA Breaking ==
  ASSUME ConnectionInv, NEW s \in Socket, Breaks(s)
  PROVE  ConnectionInv'
<1> USE DEF ConnectionInv
<1>1. /\ sockets[s] = "open" /\ sockets' = [sockets EXCEPT ![s] = "broken"]
      /\ isOpen' = isOpen /\ timers' = timers /\ connection' = connection
      /\ outbox' = outbox /\ ready' = ready /\ local' = local /\ node' = node
  BY DEF Breaks
<1>2. /\ sockets \in Seq({"connecting", "open", "broken", "closed"})
      /\ Socket = 1..Len(sockets) /\ Len(sockets) \in Nat \ {0}
  BY DEF SocketsTyped, Socket
<1>3. /\ sockets' \in Seq({"connecting", "open", "broken", "closed"})
      /\ Len(sockets') = Len(sockets) /\ Socket' = Socket /\ Api' = Api
      /\ \A n \in Socket : sockets'[n] = IF n = s THEN "broken" ELSE sockets[n]
      /\ Api \in Socket
  BY <1>1, <1>2 DEF Socket, Api
<1>4. SocketsTyped'
  BY <1>1, <1>3 DEF SocketsTyped
<1>5. UnderWay'
  BY <1>3 DEF UnderWay
<1>6. SocketsCover'
  BY <1>1, <1>3 DEF SocketsCover
<1> QED
  BY <1>4, <1>5, <1>6 DEF Covered

\* A socket that is made will open, or be refused; the others are as they were.
LEMMA Making ==
  ASSUME ConnectionInv, open_socket_now, timers' \in Nat,
         UNCHANGED <<isOpen, outbox, ready, local, node>>,
         connection' = connection \/ connection' = "Connecting",
         connection' = "Connecting" =>
           connection = "Connecting" \/ (connection = "Reconnecting" /\ timers' = timers)
  PROVE  ConnectionInv'
<1> USE DEF ConnectionInv
<1>1. sockets' = Append(sockets, "connecting")
  BY DEF open_socket_now
<1>2. /\ sockets \in Seq({"connecting", "open", "broken", "closed"})
      /\ Socket = 1..Len(sockets) /\ Len(sockets) \in Nat \ {0}
  BY DEF SocketsTyped, Socket
<1>3. /\ sockets' \in Seq({"connecting", "open", "broken", "closed"})
      /\ Len(sockets') = Len(sockets) + 1 /\ Socket' = 1..(Len(sockets) + 1)
      /\ Api' = Len(sockets) + 1 /\ Api = Len(sockets)
      /\ sockets'[Len(sockets) + 1] = "connecting"
      /\ \A n \in Socket : n \in Socket' /\ sockets'[n] = sockets[n] /\ n # Api'
      /\ Api \in Socket /\ Api' \in Socket'
  BY <1>1, <1>2 DEF Socket, Api
<1>4. SocketsTyped'
  BY <1>3 DEF SocketsTyped
<1>5. UnderWay'
  BY <1>3 DEF UnderWay
<1>6. connection' = "Connecting" /\ ready' =>
        timers' > 0 \/ \E n \in Socket' : n # Api' /\ sockets'[n] = "connecting"
  <2>1. CASE connection = "Connecting"
    BY <1>3, <2>1 DEF SocketsCover
  <2>2. CASE connection = "Reconnecting" /\ timers' = timers
    BY <1>3, <2>2 DEF SocketsCover
  <2> QED
    BY <2>1, <2>2
<1>7. SocketsCover'
  BY <1>3, <1>6 DEF SocketsCover
<1> QED
  BY <1>4, <1>5, <1>7 DEF Covered

\* Every step keeps it so.
LEMMA ConnectionStep ==
  ConnectionInv /\ [ConnectionNext]_connection_vars => ConnectionInv'
<1> SUFFICES ASSUME ConnectionInv, [ConnectionNext]_connection_vars PROVE ConnectionInv'
  OBVIOUS
<1>1. ASSUME NEW e \in Edit, Emit(e) PROVE ConnectionInv'
  BY <1>1, Emitting
<1>2. ASSUME NEW s \in Socket, Opened(s) PROVE ConnectionInv'
  BY <1>2, Opening
<1>3. ASSUME NEW s \in Socket, Noticed(s) \/ Refused(s) PROVE ConnectionInv'
  BY <1>3, Closing DEF Noticed, Refused
<1>4. ASSUME NEW s \in Socket, Breaks(s) PROVE ConnectionInv'
  BY <1>4, Breaking
<1>5. CASE TimerFires
  <2>1. /\ open_socket_now /\ timers' \in Nat /\ connection' = connection
        /\ UNCHANGED <<isOpen, outbox, ready, local, node>>
    BY <1>5 DEF TimerFires, ConnectionInv, SocketsTyped
  <2> QED
    BY <2>1, Making
<1>6. CASE retry_connection
  <2>1. /\ open_socket_now /\ timers' \in Nat /\ timers' = timers
        /\ connection = "Reconnecting" /\ connection' = "Connecting"
        /\ UNCHANGED <<isOpen, outbox, ready, local, node>>
    BY <1>6 DEF retry_connection, ConnectionInv, SocketsTyped
  <2> QED
    BY <2>1, Making
<1>7. CASE UNCHANGED connection_vars
  BY <1>7 DEF connection_vars, ConnectionInv, SocketsTyped, SocketsCover, Covered, UnderWay, Socket, Api
<1> QED
  BY <1>1, <1>2, <1>3, <1>4, <1>5, <1>6, <1>7 DEF ConnectionNext

\* The inductive invariant of the connection, for any number of sockets.
THEOREM ConnectionSafety == ConnectionSpec => []ConnectionInv
<1>1. ConnectionInit => ConnectionInv
  <2> SUFFICES ASSUME ConnectionInit PROVE ConnectionInv
    OBVIOUS
  <2>1. sockets = <<"connecting">> /\ Len(sockets) = 1 /\ sockets[1] = "connecting"
    BY DEF ConnectionInit
  <2>2. SocketsTyped
    <3>1. sockets \in Seq({"connecting", "open", "broken", "closed"})
      BY <2>1
    <3>2. outbox \in Seq(SUBSET Edit)
      BY DEF ConnectionInit
    <3>3. isOpen \in BOOLEAN /\ ready \in BOOLEAN
      BY DEF ConnectionInit
    <3>4. timers \in Nat /\ connection \in {"Connecting", "Open", "Reconnecting"}
      BY DEF ConnectionInit
    <3>5. Len(sockets) > 0
      BY <2>1
    <3> QED
      BY <3>1, <3>2, <3>3, <3>4, <3>5 DEF SocketsTyped
  <2>3. SocketsCover
    BY <2>1 DEF ConnectionInit, SocketsCover, Api, Socket
  <2>4. UnderWay
    BY <2>1 DEF UnderWay, Socket
  <2>5. Covered
    BY DEF ConnectionInit, Covered
  <2> QED
    BY <2>2, <2>3, <2>4, <2>5 DEF ConnectionInv
<1> QED
  BY <1>1, ConnectionStep, PTL DEF ConnectionSpec

\* While the client cannot send, something is on its way that will change that.
THEOREM RecoveryAlwaysUnderWay == ConnectionSpec => []RecoveryUnderWay
<1>1. ConnectionInv => RecoveryUnderWay
  BY DEF ConnectionInv, UnderWay, RecoveryUnderWay, InState
<1> QED
  BY <1>1, ConnectionSafety, PTL

\* No edit of the board is abandoned, whatever breaks, is refused or retried.
THEOREM NoEditIsAbandoned == ConnectionSpec => []NoEditAbandoned
<1>1. ConnectionInv => NoEditAbandoned
  BY DEF ConnectionInv, Covered, UnderWay, NoEditAbandoned, InState
<1> QED
  BY <1>1, ConnectionSafety, PTL

=============================================================================
