------------------------------ MODULE BoardProofs -----------------------------
(***************************************************************************)
(* What a page shows of a board, of any boards, pages and attempts:        *)
(*   - it is of one board, the badge is about that one, and it goes away   *)
(*     only when the node has the board or the board is left (OpenBoard);  *)
(*   - there is room between any two ranks to whatever base, what is moved *)
(*     lands where it was aimed, and nobody's own moves make two ranks     *)
(*     equal (Ranks).                                                      *)
(***************************************************************************)
EXTENDS OpenBoard, Ranks, WellFoundedInduction, FiniteSetTheorems, TLAPS

-----------------------------------------------------------------------------
(* One board.                                                              *)

\* What the node answers is so, and stays so: it forgets no board.
AnswersAreTrue ==
  /\ \A b : Answer("Got", b) \in answers => b \in installed
  /\ \A b : Answer("Put", b) \in answers => b \in installed /\ acknowledges

\* There is no badge without a board to retry.
BadgeHasBoard ==
  /\ publish \in {Settled} \cup {Storing(b) : b \in Board}
                           \cup {Unconfirmed(b) : b \in Board}
  /\ publish # Settled => params \in Board

\* Where no PUT is acknowledged, what has arrived is what was asked for last.
OneBoard ==
  ~acknowledges =>
    /\ contract_key \in {None, pending_board}
    /\ params \in {None, contract_key}
    /\ ops \subseteq {contract_key}
    /\ contract_key = None => ops = {}
    /\ publish # Settled => publish.board = params

IInv == acknowledges \in BOOLEAN /\ AnswersAreTrue /\ BadgeHasBoard /\ OneBoard

-----------------------------------------------------------------------------

\* An answer says one thing of one board.
LEMMA Answers ==
  \A a, b, c, d : Answer(a, b) = Answer(c, d) => a = c /\ b = d
  BY DEF Answer

\* The three badges are told apart, and two of them name a board.
LEMMA Badges ==
  \A b : /\ Storing(b) # Settled /\ Storing(b).board = b
         /\ Storing(b).at = "Storing"
         /\ Unconfirmed(b) # Settled /\ Unconfirmed(b).board = b
         /\ Unconfirmed(b).at = "Unconfirmed"
         /\ Settled.at = "Settled" /\ Settled.board = None
  BY DEF Storing, Unconfirmed, Settled

\* A page that has nothing satisfies the invariant.
LEMMA Initially == Init => IInv
  BY DEF Init, IInv, AnswersAreTrue, BadgeHasBoard, OneBoard

\* What the network does is no business of the page's before it hears of it.
LEMMA PageAlone ==
  ASSUME IInv, UNCHANGED client, acknowledges' = acknowledges, AnswersAreTrue'
  PROVE  IInv'
  BY DEF IInv, BadgeHasBoard, OneBoard, client

\* Nor is what the page does the network's.
LEMMA NetworkAlone ==
  ASSUME IInv, UNCHANGED <<answers, installed, acknowledges>>, BadgeHasBoard',
         OneBoard'
  PROVE  IInv'
  BY DEF IInv, AnswersAreTrue

\* Hearing an answer adds none.
LEMMA Heard ==
  ASSUME IInv, NEW a, NEW b, Takes(a, b)
  PROVE  AnswersAreTrue' /\ acknowledges' = acknowledges
  BY DEF IInv, Takes, AnswersAreTrue

\* Every handler of the page, and every step of the node, keeps the invariant.
LEMMA Step == IInv /\ [Next]_vars => IInv'
<1> SUFFICES ASSUME IInv, [Next]_vars PROVE IInv'
  OBVIOUS
<1> USE BoardsAssumption, Badges DEF Board
<1>o. AnswersAreTrue /\ BadgeHasBoard /\ OneBoard /\ acknowledges \in BOOLEAN
  BY DEF IInv
<1>1. ASSUME NEW b \in Board, Create(b) PROVE IInv'
  BY <1>o, <1>1, NetworkAlone DEF Create, store_board, BadgeHasBoard, OneBoard
<1>2. ASSUME NEW b \in Board, open(b) PROVE IInv'
  BY <1>o, <1>2, NetworkAlone DEF open, BadgeHasBoard, OneBoard
<1>3. CASE back
  BY <1>o, <1>3, NetworkAlone DEF back, network, BadgeHasBoard, OneBoard
<1>4. CASE retry_publish
  \* Unconfirmed is a badge, so what params names is a board, and the open one.
  <2>1. params \in Board /\ publish' = Storing(params)
        /\ UNCHANGED <<contract_key, pending_board, params, ops, acknowledges>>
    BY <1>o, <1>4 DEF retry_publish, store_board, BadgeHasBoard
  <2> QED
    BY <1>o, <1>4, <2>1, NetworkAlone DEF retry_publish, BadgeHasBoard, OneBoard
<1>5. ASSUME NEW b \in Board, NEW n \in 1..Attempts, Confirm(b, n) PROVE IInv'
  <2>1. \/ publish' = publish
        \/ publish = Storing(b) /\ publish' = Unconfirmed(b)
    BY <1>5 DEF Confirm
  <2>2. UNCHANGED <<contract_key, pending_board, params, ops, answers,
                    installed, acknowledges>>
    BY <1>5 DEF Confirm
  <2> QED
    BY <1>o, <2>1, <2>2, NetworkAlone DEF BadgeHasBoard, OneBoard
<1>6. ASSUME NEW b \in Board, Got(b) PROVE IInv'
  <2>1. AnswersAreTrue' /\ acknowledges' = acknowledges
    BY <1>6, Heard DEF Got
  <2>2. publish' \in {publish, Settled}
    BY <1>6 DEF Got, board_stored
  <2>3. CASE awaiting_board(b)
    \* What was asked for last has come, and nothing else was held before.
    <3>1. /\ contract_key' = b /\ pending_board' = pending_board
          /\ params' \in {b, params} /\ (params' = None => params = None)
          /\ ops' \in {ops, ops \cup {b}}
      BY <1>6, <2>3 DEF Got, receive_board
    <3>2. BadgeHasBoard'
      BY <1>o, <2>2, <3>1 DEF BadgeHasBoard
    <3>3. OneBoard'
      <4> SUFFICES ASSUME ~acknowledges PROVE OneBoard'
        BY <2>1 DEF OneBoard
      <4>1. b = pending_board
        BY <1>o, <2>3 DEF awaiting_board, OneBoard
      <4>2. ops \subseteq {b} /\ params \in {None, b}
        BY <1>o, <4>1 DEF OneBoard
      <4>3. publish # Settled => publish.board = params /\ params = b
        BY <1>o, <4>2 DEF OneBoard, BadgeHasBoard
      <4> QED
        BY <2>1, <2>2, <3>1, <4>1, <4>2, <4>3 DEF OneBoard
    <3> QED
      BY <1>o, <2>1, <3>2, <3>3 DEF IInv
  <2>4. CASE ~awaiting_board(b)
    BY <1>o, <1>6, <2>1, <2>2, <2>4 DEF Got, IInv, BadgeHasBoard, OneBoard
  <2> QED
    BY <2>3, <2>4
<1>7. ASSUME NEW b \in Board, Missing(b) PROVE IInv'
  BY <1>o, <1>7, Heard DEF Missing, IInv, BadgeHasBoard, OneBoard
<1>8. ASSUME NEW b \in Board, Acknowledged(b) PROVE IInv'
  \* Only a node that acknowledges gets here, and of it less is promised.
  <2>1. AnswersAreTrue' /\ acknowledges' = acknowledges /\ acknowledges
    BY <1>o, <1>8, Heard DEF Acknowledged, Takes, AnswersAreTrue
  <2>2. params' = params /\ publish' \in {publish, Settled}
    BY <1>8 DEF Acknowledged, board_stored
  <2> QED
    BY <1>o, <2>1, <2>2 DEF IInv, BadgeHasBoard, OneBoard
<1>9. CASE Error
  <2>1. publish' = Unconfirmed(publish.board) /\ publish.at = "Storing"
        /\ UNCHANGED <<contract_key, pending_board, params, ops, answers,
                       installed, acknowledges>>
    BY <1>9 DEF Error, network
  <2>2. publish # Settled /\ publish.board \in Board
    BY <1>o, <2>1 DEF BadgeHasBoard
  <2> QED
    BY <1>o, <2>1, <2>2, NetworkAlone DEF BadgeHasBoard, OneBoard
<1>10. ASSUME NEW b \in Board, Changed(b) PROVE IInv'
  BY <1>o, <1>10, NetworkAlone DEF Changed, network, BadgeHasBoard, OneBoard
<1>11. ASSUME NEW b \in Board, NodePuts(b) PROVE IInv'
  BY <1>o, <1>11, Answers, PageAlone DEF NodePuts, AnswersAreTrue
<1>12. ASSUME NEW b \in Board, NodeGets(b) PROVE IInv'
  BY <1>o, <1>12, Answers, PageAlone DEF NodeGets, AnswersAreTrue
<1>13. CASE UNCHANGED vars
  BY <1>o, <1>13, PageAlone DEF vars, client, network, AnswersAreTrue
<1> QED
  BY <1>1, <1>2, <1>3, <1>4, <1>5, <1>6, <1>7, <1>8, <1>9, <1>10, <1>11, <1>12,
     <1>13 DEF Next

-----------------------------------------------------------------------------

\* In every state the page can reach: answers are true, a badge has its board,
\* and what is held is of one.
THEOREM Safety == Spec => []IInv
  BY Initially, Step, PTL DEF Spec

\* Whatever is opened, left, created, answered late and sent unreadable, edits are
\* signed for the board they are sent to, or refused, and no op of another is held:
\* open, back, Got and Changed, on a node that acknowledges no PUT.
THEOREM BoardsApart == Spec => []OneBoardAtATime
<1>1. IInv => OneBoardAtATime
  BY DEF IInv, OneBoard, OneBoardAtATime
<1> QED
  BY <1>1, Safety, PTL

\* The badge is about the board on screen, so that Retry stores that one.
THEOREM BadgeOfTheOpenBoard == Spec => []BadgeIsAboutOpenBoard
<1>1. IInv => BadgeIsAboutOpenBoard
  BY DEF IInv, OneBoard, BadgeIsAboutOpenBoard
<1> QED
  BY <1>1, Safety, PTL

\* A badge that goes away tells the truth: board_stored is called only for a
\* board the node has, and open and back take the board along.
LEMMA NoFalseSettling ==
  IInv /\ [Next]_vars =>
    [publish.at \in {"Storing", "Unconfirmed"} /\ publish' = Settled =>
       publish.board \in installed \/ params' # params]_vars
<1> SUFFICES ASSUME IInv, Next, publish.at \in {"Storing", "Unconfirmed"},
                    publish' = Settled
             PROVE  publish.board \in installed \/ params' # params
  OBVIOUS
<1> USE Badges
<1>1. publish # Settled /\ params # None
  BY BoardsAssumption DEF IInv, BadgeHasBoard
<1>2. ASSUME NEW b \in Board, open(b) PROVE params' # params
  BY <1>1, <1>2 DEF open
<1>3. CASE back
  BY <1>1, <1>3 DEF back
<1>4. ASSUME NEW b \in Board, Got(b) \/ Acknowledged(b)
      PROVE  publish.board \in installed
  <2>1. publish.board = b
    BY <1>1, <1>4 DEF Got, Acknowledged, board_stored
  <2> QED
    BY <1>4, <2>1 DEF Got, Acknowledged, Takes, IInv, AnswersAreTrue
<1>5. CASE \E b \in Board : Create(b) \/ Missing(b) \/ Changed(b)
                              \/ NodePuts(b) \/ NodeGets(b)
  BY <1>1, <1>5
  DEF Create, store_board, Missing, Changed, NodePuts, NodeGets, client
<1>6. CASE \E b \in Board : \E n \in 1..Attempts : Confirm(b, n)
  BY <1>1, <1>6 DEF Confirm
<1>7. CASE retry_publish
  BY <1>7 DEF retry_publish, store_board
<1>8. CASE Error
  BY <1>8 DEF Error
<1> QED
  BY <1>2, <1>3, <1>4, <1>5, <1>6, <1>7, <1>8 DEF Next

\* With either kind of node, the badge goes away only when the node has the
\* board, or with the board.
THEOREM BadgeGoesForAReason == Spec => SettledMeansStored
  BY NoFalseSettling, Safety, PTL DEF Spec, SettledMeansStored

-----------------------------------------------------------------------------
(* Ranks: strings of digits, read as fractions.                            *)

\* What the program makes of digits: no rank is empty or ends in a zero.
Digits == 0..(BASE - 1)
Rank == {r \in Seq(Digits) : Len(r) > 0 /\ r[Len(r)] # 0}
NoRank == << >>

\* Comparing fractions, digit by digit.
LessAt(r, s, k) ==
  /\ \A j \in 1..(k - 1) : digit(r, j) = digit(s, j)
  /\ digit(r, k) < digit(s, k)
Less(r, s) == \E k \in Nat \ {0} : LessAt(r, s, k)

\* A set of numbers that is not empty has a least one.
LEMMA LeastIs ==
  ASSUME NEW S \in SUBSET Nat, S # {}
  PROVE  \E n \in S : \A m \in S : n <= m
<1> DEFINE R == OpToRel(<, Nat)
<1>1. PICK n \in S : \A m \in S : ~(<<m, n>> \in R)
  BY NatLessThanWellFounded, WFMin
<1>2. ASSUME NEW m \in S, m < n PROVE FALSE
  <2>1. <<m, n>> \in R
    BY <1>2 DEF OpToRel
  <2> QED
    BY <1>1, <2>1
<1>3. \A m \in S : n <= m
  <2> SUFFICES ASSUME NEW m \in S PROVE n <= m
    OBVIOUS
  <2>1. ~(m < n) /\ m \in Nat /\ n \in Nat
    BY <1>2
  <2> QED
    BY <2>1
<1> QED
  BY <1>3

\* A rank is a string of digits.
LEMMA RanksAre == Rank \cup {NoRank} \subseteq Seq(Digits)
<1>1. << >> \in Seq(Digits)
  OBVIOUS
<1> QED
  BY <1>1 DEF Rank, NoRank

\* The digits of a rank, or of no rank, are numbers; its last is not zero.
LEMMA DigitsAre ==
  ASSUME NEW r \in Rank \cup {NoRank}
  PROVE  /\ Len(r) \in Nat
         /\ \A i \in Nat \ {0} : /\ digit(r, i) \in Digits /\ digit(r, i) \in Nat
                                 /\ i <= Len(r) => digit(r, i) = r[i]
                                 /\ i > Len(r) => digit(r, i) = 0
         /\ Len(r) > 0 => digit(r, Len(r)) # 0
<1>1. r \in Seq(Digits)
  BY RanksAre
<1>2. 0 \in Digits /\ Digits \subseteq Nat
  BY RanksAssumption DEF Digits
<1>3. Len(r) > 0 => r[Len(r)] # 0
  BY DEF Rank, NoRank
<1>4. Len(r) \in Nat /\ \A i \in 1..Len(r) : r[i] \in Digits
  BY <1>1
<1>5. ASSUME NEW i \in Nat \ {0}
      PROVE  /\ digit(r, i) \in Digits
             /\ i <= Len(r) => digit(r, i) = r[i]
             /\ i > Len(r) => digit(r, i) = 0
  BY <1>2, <1>4 DEF digit
<1>6. Len(r) > 0 => digit(r, Len(r)) # 0
  BY <1>3, <1>4 DEF digit
<1> QED
  BY <1>2, <1>4, <1>5, <1>6

\* Ranks with the same digits are the same.
LEMMA SameDigits ==
  ASSUME NEW r \in Rank \cup {NoRank}, NEW s \in Rank \cup {NoRank},
         \A i \in Nat \ {0} : digit(r, i) = digit(s, i)
  PROVE  r = s
<1>1. Len(r) = Len(s)
  <2>1. ASSUME Len(r) > Len(s) PROVE FALSE
    BY <2>1, DigitsAre
  <2>2. ASSUME Len(s) > Len(r) PROVE FALSE
    BY <2>2, DigitsAre
  <2> QED
    BY <2>1, <2>2, DigitsAre
<1>2. r \in Seq(Digits) /\ s \in Seq(Digits)
  BY RanksAre
<1>3. \A i \in 1..Len(r) : r[i] = s[i]
  BY <1>1, DigitsAre
<1> QED
  BY <1>1, <1>2, <1>3

\* Strings of digits are compared as the fractions are ("plain lexicographic
\* string comparison is exactly numeric comparison", rank.rs:8-9).
LEMMA BelowIsLess ==
  ASSUME NEW r \in Rank \cup {NoRank}, NEW s \in Rank \cup {NoRank}
  PROVE  Below(r, s) <=> Less(r, s)
<1>0. /\ Len(r) \in Nat /\ Len(s) \in Nat
      /\ \A i \in Nat \ {0} : /\ digit(r, i) \in Nat /\ digit(s, i) \in Nat
                              /\ i <= Len(r) => digit(r, i) = r[i]
                              /\ i > Len(r) => digit(r, i) = 0
                              /\ i <= Len(s) => digit(s, i) = s[i]
                              /\ i > Len(s) => digit(s, i) = 0
      /\ Len(s) > 0 => digit(s, Len(s)) # 0
  BY DigitsAre
<1>1. ASSUME Below(r, s) PROVE Less(r, s)
  <2>1. PICK i \in 1..Len(s) :
          /\ \A j \in 1..(i - 1) : j <= Len(r) /\ r[j] = s[j]
          /\ i > Len(r) \/ r[i] < s[i]
    BY <1>1 DEF Below
  <2>2. i \in Nat \ {0} /\ i <= Len(s) /\ Len(s) > 0 /\ Len(s) \in Nat \ {0}
    BY <1>0
  <2>3. \A j \in 1..(i - 1) : digit(r, j) = digit(s, j)
    <3> SUFFICES ASSUME NEW j \in 1..(i - 1) PROVE digit(r, j) = digit(s, j)
      OBVIOUS
    <3>1. j \in Nat \ {0} /\ j <= Len(r) /\ j <= Len(s) /\ r[j] = s[j]
      BY <1>0, <2>1, <2>2
    <3> QED
      BY <1>0, <3>1
  <2>4. CASE i <= Len(r)
    <3>1. digit(r, i) < digit(s, i)
      BY <2>1, <2>2, <2>4, <1>0
    <3> QED
      BY <2>2, <2>3, <3>1 DEF Less, LessAt
  <2>5. CASE i > Len(r)
    <3> DEFINE S == {k \in Nat \ {0} : k >= i /\ digit(s, k) # 0}
    <3>1. Len(s) \in S
      BY <2>2, <1>0
    <3>2. PICK k \in S : \A m \in S : k <= m
      BY <3>1, LeastIs
    <3>3. digit(r, k) < digit(s, k)
      <4>1. k \in Nat /\ k > Len(r) /\ digit(s, k) # 0
        BY <1>0, <2>2, <2>5
      <4> QED
        BY <1>0, <4>1
    <3>4. ASSUME NEW j \in 1..(k - 1) PROVE digit(r, j) = digit(s, j)
      <4>1. CASE j < i
        BY <2>3, <4>1, <2>2
      <4>2. CASE j >= i
        <5>1. j \notin S /\ j \in Nat \ {0}
          BY <3>2
        <5>2. digit(s, j) = 0
          BY <4>2, <5>1
        <5> QED
          BY <2>2, <2>5, <4>2, <5>1, <5>2, <1>0
      <4> QED
        BY <4>1, <4>2, <2>2
    <3> QED
      BY <3>2, <3>3, <3>4 DEF Less, LessAt
  <2> QED
    BY <2>2, <2>4, <2>5, <1>0
<1>2. ASSUME Less(r, s) PROVE Below(r, s)
  <2>1. PICK k \in Nat \ {0} : LessAt(r, s, k)
    BY <1>2 DEF Less
  <2>2. k <= Len(s)
    BY <2>1, <1>0 DEF LessAt
  <2>3. CASE k <= Len(r)
    <3>1. \A j \in 1..(k - 1) : j <= Len(r) /\ r[j] = s[j]
      BY <2>1, <2>2, <2>3, <1>0 DEF LessAt
    <3>2. r[k] < s[k]
      BY <2>1, <2>2, <2>3, <1>0 DEF LessAt
    <3>3. k \in 1..Len(s)
      BY <2>2, <1>0
    <3> QED
      BY <3>1, <3>2, <3>3 DEF Below
  <2>4. CASE k > Len(r)
    <3> DEFINE i == Len(r) + 1
    <3>1. i \in 1..Len(s) /\ i > Len(r)
      BY <2>2, <2>4, <1>0
    <3>2. \A j \in 1..(i - 1) : j <= Len(r) /\ r[j] = s[j]
      BY <2>1, <2>2, <2>4, <1>0 DEF LessAt
    <3> QED
      BY <3>1, <3>2 DEF Below
  <2> QED
    BY <2>3, <2>4, <1>0
<1> QED
  BY <1>1, <1>2

\* And so they are in one order.
LEMMA BelowIsOrder ==
  ASSUME NEW r \in Rank, NEW s \in Rank
  PROVE  /\ ~Below(r, r)
         /\ Below(r, s) => ~Below(s, r)
         /\ r = s \/ Below(r, s) \/ Below(s, r)
         /\ \A q \in Rank : Below(r, s) /\ Below(s, q) => Below(r, q)
<1>1. ~Less(r, r)
  BY DigitsAre DEF Less, LessAt
<1>2. ASSUME NEW p \in Rank, NEW q \in Rank, Less(r, p), Less(p, q) PROVE Less(r, q)
  <2>1. PICK k \in Nat \ {0} : LessAt(r, p, k)
    BY <1>2 DEF Less
  <2>2. PICK l \in Nat \ {0} : LessAt(p, q, l)
    BY <1>2 DEF Less
  <2>3. CASE k <= l
    <3>1. digit(r, k) < digit(q, k)
      <4>1. digit(r, k) \in Nat /\ digit(p, k) \in Nat /\ digit(q, k) \in Nat
        BY DigitsAre
      <4>2. digit(r, k) < digit(p, k) /\ digit(p, k) <= digit(q, k)
        BY <2>1, <2>2, <2>3, <4>1 DEF LessAt
      <4> QED
        BY <4>1, <4>2
    <3>2. \A j \in 1..(k - 1) : digit(r, j) = digit(q, j)
      BY <2>1, <2>2, <2>3 DEF LessAt
    <3> QED
      BY <3>1, <3>2 DEF Less, LessAt
  <2>4. CASE l < k
    <3>1. digit(r, l) < digit(q, l)
      BY <2>1, <2>2, <2>4, DigitsAre DEF LessAt
    <3>2. \A j \in 1..(l - 1) : digit(r, j) = digit(q, j)
      BY <2>1, <2>2, <2>4 DEF LessAt
    <3> QED
      BY <3>1, <3>2 DEF Less, LessAt
  <2> QED
    BY <2>3, <2>4
<1>3. Less(r, s) => ~Less(s, r)
  BY <1>1, <1>2
<1>4. r = s \/ Less(r, s) \/ Less(s, r)
  <2> SUFFICES ASSUME r # s PROVE Less(r, s) \/ Less(s, r)
    OBVIOUS
  <2> DEFINE S == {k \in Nat \ {0} : digit(r, k) # digit(s, k)}
  <2>1. S # {}
    BY SameDigits
  <2>2. PICK k \in S : \A m \in S : k <= m
    BY <2>1, LeastIs
  <2>3. \A j \in 1..(k - 1) : digit(r, j) = digit(s, j)
    BY <2>2
  <2>4. digit(r, k) < digit(s, k) \/ digit(s, k) < digit(r, k)
    BY DigitsAre
  <2> QED
    BY <2>3, <2>4 DEF Less, LessAt
<1> QED
  BY <1>1, <1>2, <1>3, <1>4, BelowIsLess

\* The walk ends, with a rank; it is above the lower bound, and where there is
\* an upper bound above that, below it.
LEMMA MidpointIs ==
  ASSUME NEW a \in Rank \cup {NoRank}, NEW b \in Rank \cup {NoRank}
  PROVE  /\ midpoint(a, b) \in Rank
         /\ b = NoRank \/ Less(a, b) => Less(a, midpoint(a, b))
         /\ Less(a, b) => Less(midpoint(a, b), b)
<1> DEFINE bounded_above(i) ==
             b # << >> /\ \A j \in 1..(i - 1) : digit(b, j) # digit(a, j) + 1
           ran_out(i) == bounded_above(i) /\ i > Len(b)
           hi(i) == IF bounded_above(i) THEN digit(b, i) ELSE BASE
           ends(i) == ran_out(i) \/ hi(i) > digit(a, i) + 1
           N == Len(a) + Len(b) + 1
           First(i) == ends(i) /\ \A j \in 1..(i - 1) : ~ends(j)
           n == CHOOSE i \in 1..N : First(i)
           w == [i \in 1..n |->
                   CASE i < n -> digit(a, i)
                     [] i = n /\ ran_out(n) -> BASE \div 2
                     [] OTHER -> (digit(a, n) + hi(n)) \div 2]
<1>0. /\ Len(a) \in Nat /\ Len(b) \in Nat
      /\ \A i \in Nat \ {0} : /\ digit(a, i) \in Digits /\ digit(a, i) \in Nat
                              /\ digit(b, i) \in Digits /\ digit(b, i) \in Nat
                              /\ i > Len(b) => digit(b, i) = 0
  BY DigitsAre
<1>1. midpoint(a, b) = w
  BY DEF midpoint
<1>2. N \in Nat \ {0} /\ N > Len(a) /\ N > Len(b)
  BY DigitsAre
<1>3. ends(N)
  <2>1. digit(a, N) = 0
    BY <1>2, DigitsAre
  <2>2. CASE bounded_above(N)
    BY <1>2, <2>2
  <2>3. CASE ~bounded_above(N)
    BY <2>1, <2>3, RanksAssumption
  <2> QED
    BY <2>2, <2>3
<1>4. n \in 1..N /\ First(n)
  <2> DEFINE S == {i \in 1..N : ends(i)}
  <2> HIDE DEF ends
  <2>1. N \in S
    BY <1>2, <1>3
  <2>2. S \subseteq Nat /\ S # {}
    BY <2>1
  <2>3. PICK i \in S : \A m \in S : i <= m
    <3> HIDE DEF S
    <3> QED
      BY <2>2, LeastIs
  <2>4. First(i)
    BY <2>3
  <2> HIDE DEF First
  <2> QED
    BY <2>3, <2>4
<1> HIDE DEF n
<1>5. n \in Nat \ {0}
  BY <1>2, <1>4
<1>6. hi(n) \in Nat /\ hi(n) <= BASE /\ digit(a, n) \in Digits /\ digit(a, n) \in Nat
  BY <1>5, DigitsAre, RanksAssumption DEF Digits
<1>7. ~ran_out(n) =>
        /\ w[n] = (digit(a, n) + hi(n)) \div 2
        /\ w[n] > digit(a, n) /\ w[n] < hi(n) /\ w[n] \in Nat
  <2> SUFFICES ASSUME ~ran_out(n)
               PROVE  /\ w[n] = (digit(a, n) + hi(n)) \div 2
                      /\ w[n] > digit(a, n) /\ w[n] < hi(n) /\ w[n] \in Nat
    OBVIOUS
  <2>1. hi(n) > digit(a, n) + 1
    BY <1>4
  <2>2. w[n] = (digit(a, n) + hi(n)) \div 2
    <3> HIDE DEF ran_out, hi
    <3> QED
      BY <1>5
  <2> HIDE DEF hi, w
  <2> QED
    BY <1>6, <2>1, <2>2
<1>8. ran_out(n) => w[n] = BASE \div 2
  <2> HIDE DEF ran_out, hi
  <2> QED
    BY <1>5
<1>9. \A i \in 1..(n - 1) : w[i] = digit(a, i)
  <2> HIDE DEF ran_out, hi
  <2> QED
    BY <1>5
<1>10. w[n] \in Digits /\ w[n] # 0
  <2>1. CASE ran_out(n)
    <3> HIDE DEF ran_out, w
    <3> QED
      BY <1>8, <2>1, RanksAssumption DEF Digits
  <2>2. CASE ~ran_out(n)
    <3> HIDE DEF ran_out, w, hi
    <3> QED
      BY <1>6, <1>7, <2>2, RanksAssumption DEF Digits
  <2> QED
    BY <2>1, <2>2
<1>11. w \in Seq(Digits) /\ Len(w) = n
  <2>1. DOMAIN w = 1..n /\ w = [i \in 1..n |-> w[i]]
    OBVIOUS
  <2> HIDE DEF w
  <2>2. \A i \in 1..n : w[i] \in Digits
    <3> SUFFICES ASSUME NEW i \in 1..n PROVE w[i] \in Digits
      OBVIOUS
    <3>1. CASE i = n
      BY <1>10, <3>1
    <3>2. CASE i # n
      BY <1>0, <1>5, <1>9, <3>2
    <3> QED
      BY <3>1, <3>2
  <2>3. w \in [1..n -> Digits]
    BY <2>1, <2>2
  <2> QED
    BY <1>5, <2>1, <2>3
<1>12. w \in Rank
  <2> HIDE DEF w
  <2> QED
    BY <1>5, <1>10, <1>11 DEF Rank
<1>13. \A i \in 1..n : digit(w, i) = w[i]
  <2> HIDE DEF w
  <2> QED
    BY <1>11 DEF digit
<1>14. ~ran_out(n) => LessAt(a, w, n)
  <2> HIDE DEF w, ran_out, hi
  <2> QED
    BY <1>5, <1>7, <1>9, <1>13 DEF LessAt
<1>15. ASSUME Less(a, b) PROVE ~ran_out(n) /\ Less(w, b)
  <2>1. PICK k \in Nat \ {0} : LessAt(a, b, k)
    BY <1>15 DEF Less
  <2>2. k <= Len(b) /\ b # << >>
    <3>1. digit(b, k) # 0
      BY <1>0, <2>1 DEF LessAt
    <3>2. k <= Len(b)
      BY <1>0, <3>1
    <3> QED
      BY <3>2
  <2>3. \A i \in 1..k : bounded_above(i)
    BY <2>1, <2>2, DigitsAre DEF LessAt
  <2>4. ASSUME NEW i \in 1..(k - 1) PROVE ~ends(i)
    <3>1. bounded_above(i) /\ i <= Len(b) /\ Len(b) \in Nat
      <4> HIDE DEF bounded_above
      <4> QED
        BY <1>0, <2>2, <2>3
    <3>2. hi(i) = digit(a, i) /\ digit(a, i) \in Nat
      BY <1>0, <2>1, <3>1 DEF LessAt
    <3> HIDE DEF bounded_above, hi
    <3> QED
      BY <3>1, <3>2
  <2>5. n >= k
    <3> HIDE DEF ends
    <3> QED
      BY <1>4, <1>5, <2>4
  <2>6. CASE n = k
    <3>1. ~ran_out(n) /\ hi(n) = digit(b, n)
      <4>1. bounded_above(n)
        <5> HIDE DEF bounded_above
        <5> QED
          BY <2>3, <2>6
      <4> HIDE DEF bounded_above
      <4> QED
        BY <1>0, <1>5, <2>2, <2>6, <4>1
    <3>2. w[n] < digit(b, n)
      <4> HIDE DEF w, hi, ran_out
      <4> QED
        BY <1>7, <3>1
    <3>3. LessAt(w, b, n)
      <4> HIDE DEF w, hi, ran_out
      <4> QED
        BY <1>9, <1>13, <1>5, <2>1, <2>6, <3>2 DEF LessAt
    <3> QED
      BY <3>1, <3>3, <1>5 DEF Less
  <2>7. CASE n > k
    <3>1. ~ran_out(n)
      <4> SUFFICES ASSUME bounded_above(n) PROVE FALSE
        OBVIOUS
      <4>1. digit(b, k) # digit(a, k) + 1
        BY <2>7, <1>5
      <4>2. digit(b, k) > digit(a, k) + 1
        BY <1>0, <2>1, <4>1 DEF LessAt
      <4>3. bounded_above(k) /\ hi(k) = digit(b, k)
        BY <2>3
      <4>4. ends(k)
        BY <4>2, <4>3
      <4> HIDE DEF ends
      <4> QED
        BY <1>4, <2>7, <4>4, <1>5
    <3>2. LessAt(w, b, k)
      <4> HIDE DEF w, hi, ran_out
      <4> QED
        BY <1>9, <1>13, <1>5, <2>1, <2>7 DEF LessAt
    <3> QED
      BY <3>1, <3>2 DEF Less
  <2> QED
    BY <2>5, <2>6, <2>7, <1>5
<1>16. b = NoRank => ~ran_out(n)
  BY DEF NoRank
<1> HIDE DEF w, ran_out
<1> QED
  BY <1>1, <1>5, <1>12, <1>14, <1>15, <1>16 DEF Less

\* Between is between, and makes a rank of any two.
LEMMA BetweenIs ==
  ASSUME NEW lo \in Rank \cup {NoRank}, NEW hi \in Rank \cup {NoRank}
  PROVE  /\ between(lo, hi) \in Rank
         /\ lo = NoRank \/ hi = NoRank \/ Below(lo, hi) =>
              /\ lo # NoRank => Below(lo, between(lo, hi))
              /\ hi # NoRank => Below(between(lo, hi), hi)
<1>1. CASE lo # NoRank /\ hi # NoRank /\ ~Below(lo, hi)
  <2>1. between(lo, hi) = midpoint(lo, NoRank)
    BY <1>1 DEF between, NoRank
  <2> QED
    BY <1>1, <2>1, MidpointIs
<1>2. CASE ~(lo # NoRank /\ hi # NoRank /\ ~Below(lo, hi))
  <2> DEFINE new == between(lo, hi)
  <2>1. new = midpoint(lo, hi)
    BY <1>2 DEF between, NoRank
  <2>2. ASSUME hi # NoRank PROVE Less(lo, hi)
    <3>1. CASE lo = NoRank
      <4>1. hi \in Rank /\ 1 \in 1..Len(hi) /\ 1 > Len(lo)
        BY <2>2, <3>1, DigitsAre DEF Rank, NoRank
      <4>2. Below(lo, hi)
        BY <4>1 DEF Below
      <4> QED
        BY <4>2, BelowIsLess
    <3>2. CASE lo # NoRank
      BY <1>2, <2>2, <3>2, BelowIsLess
    <3> QED
      BY <3>1, <3>2
  <2>3. new \in Rank /\ Less(lo, new) /\ (hi # NoRank => Less(new, hi))
    BY <2>1, <2>2, MidpointIs
  <2> HIDE DEF new
  <2>4. Below(lo, new) /\ (hi # NoRank => Below(new, hi))
    BY <2>3, BelowIsLess
  <2> QED
    BY <2>3, <2>4 DEF new
<1> QED
  BY <1>1, <1>2

\* To whatever base, "a rank strictly between" the two (rank.rs:41-46), which is
\* one "parse" lets through (rank.rs:70-81): there is always room.
THEOREM BetweenAlways ==
  ASSUME NEW S \in SUBSET Rank
  PROVE  BetweenIsBetween(S)
<1> SUFFICES ASSUME NEW lo \in S \cup {<< >>}, NEW hi \in S \cup {<< >>},
                    lo = << >> \/ hi = << >> \/ Below(lo, hi)
             PROVE  LET new == between(lo, hi)
                    IN  /\ new[Len(new)] # 0
                        /\ lo # << >> => Below(lo, new)
                        /\ hi # << >> => Below(new, hi)
  BY DEF BetweenIsBetween
<1>1. lo \in Rank \cup {NoRank} /\ hi \in Rank \cup {NoRank}
  BY DEF NoRank
<1> QED
  BY <1>1, BetweenIs DEF Rank, NoRank

\* What is added at the end lies in the middle, or after what was there.
LEMMA MiddleIs == middle \in Rank /\ middle = between(NoRank, NoRank)
<1>1. middle = between(NoRank, NoRank)
  BY DEF middle, between, NoRank
<1> QED
  BY <1>1, BetweenIs

-----------------------------------------------------------------------------
(* Rows.                                                                   *)

\* Of two things the one that comes first, and what comes before one.
Before(rank, x, y) ==
  Below(rank[x], rank[y]) \/ (rank[x] = rank[y] /\ x < y)
Ahead(S, rank, x) == {y \in S : Before(rank, y, x)}

\* Things that have ranks.
Ranked(S, rank) ==
  /\ S \subseteq Nat /\ IsFiniteSet(S)
  /\ \A x \in S : rank[x] \in Rank

\* They are in one order.
LEMMA BeforeIsOrder ==
  ASSUME NEW S, NEW rank, Ranked(S, rank), NEW x \in S, NEW y \in S
  PROVE  /\ ~Before(rank, x, x)
         /\ Before(rank, x, y) => ~Before(rank, y, x)
         /\ x = y \/ Before(rank, x, y) \/ Before(rank, y, x)
         /\ \A z \in S : Before(rank, x, y) /\ Before(rank, y, z) => Before(rank, x, z)
<1>1. x \in Nat /\ y \in Nat /\ rank[x] \in Rank /\ rank[y] \in Rank
  BY DEF Ranked
<1>2. ~Before(rank, x, x)
  BY <1>1, BelowIsOrder DEF Before
<1>3. Before(rank, x, y) => ~Before(rank, y, x)
  BY <1>1, BelowIsOrder DEF Before
<1>4. x = y \/ Before(rank, x, y) \/ Before(rank, y, x)
  BY <1>1, BelowIsOrder DEF Before
<1>5. ASSUME NEW z \in S, Before(rank, x, y), Before(rank, y, z) PROVE Before(rank, x, z)
  <2>1. z \in Nat /\ rank[z] \in Rank
    BY DEF Ranked
  <2> QED
    BY <1>1, <1>5, <2>1, BelowIsOrder DEF Before
<1> QED
  BY <1>2, <1>3, <1>4, <1>5

\* One that comes later has more ahead of it.
LEMMA AheadGrows ==
  ASSUME NEW S, NEW rank, Ranked(S, rank), NEW x \in S
  PROVE  /\ Cardinality(S) \in Nat
         /\ Cardinality(Ahead(S, rank, x)) \in 0..(Cardinality(S) - 1)
         /\ \A y \in S : Before(rank, x, y) =>
              Cardinality(Ahead(S, rank, x)) < Cardinality(Ahead(S, rank, y))
<1>1. IsFiniteSet(S) /\ Cardinality(S) \in Nat
  BY FS_CardinalityType DEF Ranked
<1>2. \A y \in S : IsFiniteSet(Ahead(S, rank, y)) /\ Cardinality(Ahead(S, rank, y)) \in Nat
  BY <1>1, FS_Subset, FS_CardinalityType DEF Ahead
<1>3. Ahead(S, rank, x) \subseteq S /\ x \notin Ahead(S, rank, x)
  BY BeforeIsOrder DEF Ahead
<1>4. Cardinality(Ahead(S, rank, x)) < Cardinality(S)
  <2>1. /\ Cardinality(Ahead(S, rank, x)) <= Cardinality(S)
        /\ Cardinality(S) # Cardinality(Ahead(S, rank, x))
    BY <1>1, <1>3, FS_Subset
  <2> QED
    BY <1>1, <1>2, <2>1
<1>5. ASSUME NEW y \in S, Before(rank, x, y)
      PROVE  Cardinality(Ahead(S, rank, x)) < Cardinality(Ahead(S, rank, y))
  <2>1. Ahead(S, rank, x) \subseteq Ahead(S, rank, y)
    BY <1>5, BeforeIsOrder DEF Ahead
  <2>2. x \in Ahead(S, rank, y)
    BY <1>5 DEF Ahead
  <2>3. /\ Cardinality(Ahead(S, rank, x)) <= Cardinality(Ahead(S, rank, y))
        /\ Cardinality(Ahead(S, rank, y)) # Cardinality(Ahead(S, rank, x))
    BY <1>2, <1>3, <2>1, <2>2, FS_Subset
  <2> QED
    BY <1>2, <2>3
<1> QED
  BY <1>1, <1>2, <1>4, <1>5

\* A row has each of the things at one place, behind those that come before it.
IsRow(row, S, rank) ==
  /\ Cardinality(S) \in Nat
  /\ row \in [1..Cardinality(S) -> S] /\ Len(row) = Cardinality(S)
  /\ \A x \in S :
       /\ In(row, x)
       /\ position(row, x) \in 1..Cardinality(S)
       /\ row[position(row, x)] = x
       /\ position(row, x) = Cardinality(Ahead(S, rank, x)) + 1
  /\ \A i \in 1..Cardinality(S) : position(row, row[i]) = i
  /\ \A i, j \in 1..Cardinality(S) : i < j => Before(rank, row[i], row[j])

\* Sorting makes a row: each thing goes behind as many as are ahead of it.
LEMMA SortedIs ==
  ASSUME NEW S, NEW rank, Ranked(S, rank)
  PROVE  IsRow(Sorted(S, rank), S, rank)
<1> DEFINE n == Cardinality(S)
           before == [x \in S |->
             Cardinality({y \in S : Below(rank[y], rank[x]) \/ (rank[y] = rank[x] /\ y < x)})]
           row == [i \in 1..n |-> CHOOSE x \in S : before[x] = i - 1]
<1>1. Sorted(S, rank) = row
  BY DEF Sorted
<1>2. n \in Nat
  BY FS_CardinalityType DEF Ranked
<1>3. \A x \in S : before[x] = Cardinality(Ahead(S, rank, x)) /\ before[x] \in 0..(n - 1)
  BY AheadGrows DEF Ahead, Before
<1>4. before \in [S -> 0..(n - 1)]
  <2>1. before = [x \in S |-> before[x]]
    OBVIOUS
  <2> HIDE DEF before
  <2> QED
    BY <1>3, <2>1
<1> HIDE DEF before
<1>5. \A x, y \in S : Before(rank, x, y) => before[x] < before[y]
  BY <1>3, AheadGrows
<1>6. \A x, y \in S : before[x] = before[y] => x = y
  <2> SUFFICES ASSUME NEW x \in S, NEW y \in S, before[x] = before[y], x # y PROVE FALSE
    OBVIOUS
  <2>1. Before(rank, x, y) \/ Before(rank, y, x)
    BY BeforeIsOrder
  <2>2. before[x] < before[y] \/ before[y] < before[x]
    BY <1>5, <2>1
  <2> QED
    BY <1>2, <1>3, <2>2
<1>7. \A i \in 0..(n - 1) : \E x \in S : before[x] = i
  <2>1. before \in Injection(S, 0..(n - 1))
    BY <1>4, <1>6 DEF Injection, IsInjective
  <2>2. IsFiniteSet(0..(n - 1)) /\ Cardinality(0..(n - 1)) = n
    <3>1. /\ IsFiniteSet(0..(n - 1))
          /\ Cardinality(0..(n - 1)) = IF 0 > n - 1 THEN 0 ELSE n - 1 - 0 + 1
      BY <1>2, FS_Interval
    <3> QED
      BY <1>2, <3>1
  <2>3. before \in Surjection(S, 0..(n - 1))
    BY <2>1, <2>2, FS_Injection
  <2> QED
    BY <2>3 DEF Surjection
<1>8. \A i \in 1..n : row[i] \in S /\ before[row[i]] = i - 1
  <2> SUFFICES ASSUME NEW i \in 1..n PROVE row[i] \in S /\ before[row[i]] = i - 1
    OBVIOUS
  <2>1. row[i] = CHOOSE x \in S : before[x] = i - 1
    OBVIOUS
  <2>2. \E x \in S : before[x] = i - 1
    <3>1. i - 1 \in 0..(n - 1)
      BY <1>2
    <3> QED
      BY <1>7, <3>1
  <2> HIDE DEF row
  <2> QED
    BY <2>1, <2>2
<1>9. DOMAIN row = 1..n /\ row = [i \in 1..n |-> row[i]]
  OBVIOUS
<1> HIDE DEF row
<1>10. row \in [1..n -> S]
  BY <1>8, <1>9
<1>11. Len(row) = n
  BY <1>2, <1>10
<1>12. \A i, j \in 1..n : row[i] = row[j] => i = j
  BY <1>2, <1>8
<1>13. ASSUME NEW x \in S
       PROVE  /\ In(row, x) /\ position(row, x) \in 1..n /\ row[position(row, x)] = x
              /\ position(row, x) = Cardinality(Ahead(S, rank, x)) + 1
  <2> DEFINE k == before[x] + 1
  <2>1. k \in 1..n
    BY <1>2, <1>3
  <2>2. row[k] = x
    <3>1. before[row[k]] = before[x] /\ row[k] \in S
      BY <1>3, <1>8, <2>1
    <3> QED
      BY <1>6, <3>1
  <2>3. position(row, x) \in 1..n /\ row[position(row, x)] = x
    BY <1>9, <2>1, <2>2 DEF position
  <2>4. position(row, x) = k
    BY <1>12, <2>1, <2>2, <2>3
  <2>5. In(row, x)
    BY <1>9, <2>1, <2>2 DEF In
  <2> QED
    BY <1>3, <2>3, <2>4, <2>5
<1>14. \A i \in 1..n : position(row, row[i]) = i
  BY <1>8, <1>12, <1>13
<1>15. ASSUME NEW i \in 1..n, NEW j \in 1..n, i < j PROVE Before(rank, row[i], row[j])
  <2>1. row[i] \in S /\ row[j] \in S /\ before[row[i]] = i - 1 /\ before[row[j]] = j - 1
    BY <1>8
  <2>2. ~(before[row[j]] < before[row[i]]) /\ row[i] # row[j]
    BY <1>2, <1>12, <1>15, <2>1
  <2> QED
    BY <1>5, <2>1, <2>2, BeforeIsOrder
<1> QED
  BY <1>1, <1>2, <1>10, <1>11, <1>13, <1>14, <1>15 DEF IsRow

\* A row without one thing (Remaining).
Without(row, t) ==
  IF In(row, t)
  THEN [i \in 1..(Len(row) - 1) |-> IF i < position(row, t) THEN row[i] ELSE row[i + 1]]
  ELSE row

\* It has the others, each once, in the order they had.
LEMMA WithoutIs ==
  ASSUME NEW S, NEW rank, Ranked(S, rank), NEW row, IsRow(row, S, rank), NEW t
  PROVE  LET left == Without(row, t)
         IN  /\ Len(left) \in Nat /\ left \in [1..Len(left) -> S \ {t}]
             /\ \A x \in S \ {t} : \E i \in 1..Len(left) : left[i] = x
             /\ \A i, j \in 1..Len(left) : i < j => Before(rank, left[i], left[j])
<1> DEFINE n == Cardinality(S)
           left == Without(row, t)
           Good(l) == /\ Len(l) \in Nat /\ l \in [1..Len(l) -> S \ {t}]
                      /\ \A x \in S \ {t} : \E i \in 1..Len(l) : l[i] = x
                      /\ \A i, j \in 1..Len(l) : i < j => Before(rank, l[i], l[j])
<1> SUFFICES Good(left)
  OBVIOUS
<1>1. n \in Nat /\ row \in [1..n -> S] /\ Len(row) = n
  BY DEF IsRow
<1>2. \A i, j \in 1..n : i < j => Before(rank, row[i], row[j])
  BY DEF IsRow
<1>3. \A x \in S : position(row, x) \in 1..n /\ row[position(row, x)] = x
  BY DEF IsRow
<1>4. \A i \in 1..n : position(row, row[i]) = i
  BY DEF IsRow
<1>5. CASE ~In(row, t)
  <2>1. left = row
    BY <1>5 DEF Without
  <2>2. \A i \in 1..n : row[i] # t
    BY <1>1, <1>5 DEF In
  <2>3. row \in [1..n -> S \ {t}]
    BY <1>1, <2>2
  <2> QED
    BY <1>1, <1>2, <1>3, <2>1, <2>3
<1>6. CASE In(row, t)
  <2> DEFINE k == position(row, t)
             l == [i \in 1..(n - 1) |-> IF i < k THEN row[i] ELSE row[i + 1]]
  <2>1. left = l
    BY <1>1, <1>6 DEF Without
  <2>2. PICK i0 \in 1..n : row[i0] = t
    BY <1>1, <1>6 DEF In
  <2>3. k \in 1..n /\ row[k] = t /\ n - 1 \in Nat
    BY <1>1, <1>4, <2>2
  <2> HIDE DEF k
  <2>4. \A i \in 1..(n - 1) : l[i] = row[IF i < k THEN i ELSE i + 1]
    BY <1>1, <2>3
  <2>5. \A i \in 1..(n - 1) : l[i] \in S /\ l[i] # t
    <3> SUFFICES ASSUME NEW i \in 1..(n - 1) PROVE l[i] \in S /\ l[i] # t
      OBVIOUS
    <3> DEFINE j == IF i < k THEN i ELSE i + 1
    <3>1. j \in 1..n /\ j # k /\ l[i] = row[j]
      BY <1>1, <2>3, <2>4
    <3> HIDE DEF j, l
    <3>2. position(row, row[j]) = j /\ position(row, row[k]) = k
      BY <1>4, <2>3, <3>1
    <3> QED
      BY <1>1, <2>3, <3>1, <3>2
  <2>6. DOMAIN l = 1..(n - 1) /\ l = [i \in 1..(n - 1) |-> l[i]]
    OBVIOUS
  <2> HIDE DEF l
  <2>7. l \in [1..(n - 1) -> S \ {t}]
    BY <2>5, <2>6
  <2>8. Len(l) = n - 1
    BY <2>3, <2>7
  <2>9. ASSUME NEW x \in S \ {t} PROVE \E i \in 1..(n - 1) : l[i] = x
    <3> DEFINE j == position(row, x)
    <3>1. j \in 1..n /\ row[j] = x /\ j # k
      BY <1>3, <2>3
    <3> HIDE DEF j
    <3>2. CASE j < k
      <4>1. j \in 1..(n - 1) /\ l[j] = row[j]
        BY <1>1, <2>3, <2>4, <3>1, <3>2
      <4> QED
        BY <3>1, <4>1
    <3>3. CASE j > k
      <4>1. j - 1 \in 1..(n - 1) /\ ~(j - 1 < k) /\ j - 1 + 1 = j
        BY <1>1, <2>3, <3>1, <3>3
      <4>2. l[j - 1] = row[j]
        BY <2>4, <4>1
      <4> QED
        BY <3>1, <4>1, <4>2
    <3> QED
      BY <1>1, <2>3, <3>1, <3>2, <3>3
  <2>10. ASSUME NEW i \in 1..(n - 1), NEW j \in 1..(n - 1), i < j
         PROVE  Before(rank, l[i], l[j])
    <3> DEFINE a == IF i < k THEN i ELSE i + 1
               b == IF j < k THEN j ELSE j + 1
    <3>1. a \in 1..n /\ b \in 1..n /\ a < b
      BY <1>1, <2>3, <2>10
    <3>2. l[i] = row[a] /\ l[j] = row[b]
      BY <2>4
    <3> HIDE DEF a, b
    <3> QED
      BY <1>2, <3>1, <3>2
  <2> QED
    BY <2>1, <2>3, <2>7, <2>8, <2>9, <2>10
<1> QED
  BY <1>5, <1>6

\* No two ranks of a row are equal: no two things in it have the same.
LEMMA ApartIs ==
  ASSUME NEW S, NEW rank, Ranked(S, rank), NEW row, IsRow(row, S, rank)
  PROVE  Apart(row, rank) <=> \A x, y \in S : rank[x] = rank[y] => x = y
<1>1. DOMAIN row = 1..Cardinality(S) /\ row \in [1..Cardinality(S) -> S]
  BY DEF IsRow
<1>2. ASSUME Apart(row, rank), NEW x \in S, NEW y \in S, rank[x] = rank[y] PROVE x = y
  <2>1. /\ position(row, x) \in DOMAIN row /\ row[position(row, x)] = x
        /\ position(row, y) \in DOMAIN row /\ row[position(row, y)] = y
    BY <1>1 DEF IsRow
  <2>2. position(row, x) = position(row, y)
    BY <1>2, <2>1 DEF Apart
  <2> QED
    BY <2>1, <2>2
<1>3. ASSUME \A x, y \in S : rank[x] = rank[y] => x = y PROVE Apart(row, rank)
  <2> SUFFICES ASSUME NEW i \in DOMAIN row, NEW j \in DOMAIN row,
                      rank[row[i]] = rank[row[j]]
               PROVE  i = j
    BY DEF Apart
  <2>1. row[i] \in S /\ row[j] \in S
    BY <1>1
  <2>2. row[i] = row[j]
    BY <1>3, <2>1
  <2>3. position(row, row[i]) = i /\ position(row, row[j]) = j
    BY <1>1 DEF IsRow
  <2> QED
    BY <2>2, <2>3
<1> QED
  BY <1>2, <1>3

FirstOf(row, k) == {row[i] : i \in 1..k}
Once(row, n) == \A i, j \in 1..n : row[i] = row[j] => i = j

\* The first few of a row that has each but once are so many.
LEMMA FirstFew ==
  ASSUME NEW n \in Nat, NEW row, Once(row, n), NEW k \in 0..n
  PROVE  IsFiniteSet(FirstOf(row, k)) /\ Cardinality(FirstOf(row, k)) = k
<1> DEFINE U == FirstOf(row, k)
           f == [i \in 1..k |-> row[i]]
<1>1. f \in [1..k -> U]
  BY DEF FirstOf
<1>2. \A i, j \in 1..k : f[i] = f[j] => i = j
  BY DEF Once
<1>3. \A u \in U : \E i \in 1..k : f[i] = u
  BY DEF FirstOf
<1> HIDE DEF f, U
<1>4. f \in Injection(1..k, U) /\ f \in Surjection(1..k, U)
  BY <1>1, <1>2, <1>3 DEF Injection, Surjection, IsInjective
<1>5. ExistsBijection(1..k, U)
  BY <1>4 DEF ExistsBijection, Bijection
<1>6. IsFiniteSet(1..k) /\ Cardinality(1..k) = k
  <2>1. IsFiniteSet(1..k) /\ Cardinality(1..k) = IF 1 > k THEN 0 ELSE k - 1 + 1
    BY FS_Interval
  <2> QED
    BY <2>1
<1>7. IsFiniteSet(U) /\ Cardinality(U) = k
  BY <1>5, <1>6, FS_Bijection
<1> QED
  BY <1>7 DEF U

\* A thing is taken from a row in which no two ranks are equal, and given the
\* rank between the neighbours it will have at the k-th place.
Lays(S, rank, row, t, left, k, new, now) ==
  /\ Ranked(S, rank) /\ IsRow(row, S, rank) /\ Apart(row, rank) /\ t \in Nat
  /\ left = Without(row, t) /\ k \in 1..(Len(left) + 1)
  /\ \A u \in S \ {t} : new[u] = rank[u]
  /\ new[t] = between(RankAt(left, rank, k - 1), RankAt(left, rank, k))
  /\ now = Sorted(S \cup {t}, new)

\* The k-th place of a row is a thing's, what comes next is what did before, and
\* no two ranks are equal.
Lain(row, rank, t, left, k) ==
  /\ Apart(row, rank)
  /\ In(row, t) /\ position(row, t) = k /\ Len(row) = Len(left) + 1
  /\ k <= Len(left) => k + 1 \in DOMAIN row /\ row[k + 1] = left[k]

\* That is where it lands.
LEMMA Lands ==
  ASSUME NEW S, NEW rank, NEW row, NEW t, NEW left, NEW k, NEW new, NEW now,
         Lays(S, rank, row, t, left, k, new, now)
  PROVE  Lain(now, new, t, left, k)
<1> DEFINE m == Len(left)
           T == S \ {t}
           lo == RankAt(left, rank, k - 1)
           hi == RankAt(left, rank, k)
           r == new[t]
<1> USE DEF Lays
<1>0. /\ m \in Nat /\ left \in [1..m -> T]
      /\ \A x \in T : \E i \in 1..m : left[i] = x
      /\ \A i, j \in 1..m : i < j => Before(rank, left[i], left[j])
  BY WithoutIs
<1>1. \A i \in 1..m : left[i] \in T /\ left[i] \in S /\ rank[left[i]] \in Rank
  BY <1>0 DEF Ranked
<1>2. \A i, j \in 1..m : i < j => Below(rank[left[i]], rank[left[j]])
  <2> SUFFICES ASSUME NEW i \in 1..m, NEW j \in 1..m, i < j
               PROVE  Below(rank[left[i]], rank[left[j]])
    OBVIOUS
  <2>1. Before(rank, left[i], left[j]) /\ left[i] \in S /\ left[j] \in S
    BY <1>0, <1>1
  <2>2. left[i] # left[j]
    BY <2>1, BeforeIsOrder
  <2>3. rank[left[i]] # rank[left[j]]
    BY <2>1, <2>2, ApartIs
  <2> QED
    BY <2>1, <2>3 DEF Before
<1>3. /\ lo = IF k - 1 \in 1..m THEN rank[left[k - 1]] ELSE NoRank
      /\ hi = IF k \in 1..m THEN rank[left[k]] ELSE NoRank
  BY <1>0 DEF RankAt, NoRank
<1>4. /\ lo \in Rank \cup {NoRank} /\ hi \in Rank \cup {NoRank}
      /\ k - 1 \in 1..m => lo # NoRank
      /\ k \in 1..m => hi # NoRank
  <2>1. NoRank \notin Rank
    BY DEF Rank, NoRank
  <2> HIDE DEF lo, hi
  <2> QED
    BY <1>1, <1>3, <2>1
<1>5. lo = NoRank \/ hi = NoRank \/ Below(lo, hi)
  <2> SUFFICES ASSUME lo # NoRank, hi # NoRank PROVE Below(lo, hi)
    OBVIOUS
  <2>1. k - 1 \in 1..m /\ k \in 1..m /\ lo = rank[left[k - 1]] /\ hi = rank[left[k]]
    BY <1>3
  <2>2. k - 1 < k
    OBVIOUS
  <2> HIDE DEF lo, hi
  <2> QED
    BY <1>2, <2>1, <2>2
<1>6. /\ r = between(lo, hi) /\ r \in Rank
      /\ lo # NoRank => Below(lo, r)
      /\ hi # NoRank => Below(r, hi)
  <2>1. r = between(lo, hi)
    OBVIOUS
  <2> HIDE DEF lo, hi, r
  <2> QED
    BY <1>4, <1>5, <2>1, BetweenIs
<1> HIDE DEF lo, hi
<1>7. ASSUME NEW i \in 1..m, i < k PROVE Below(rank[left[i]], r)
  <2>1. k - 1 \in 1..m /\ m \in Nat
    BY <1>0, <1>7
  <2>2. lo = rank[left[k - 1]] /\ Below(lo, r) /\ lo \in Rank
    BY <1>1, <1>3, <1>4, <1>6, <2>1
  <2>3. CASE i = k - 1
    BY <2>2, <2>3
  <2>4. CASE i < k - 1
    <3>1. Below(rank[left[i]], lo)
      BY <1>2, <2>1, <2>2, <2>4
    <3> QED
      BY <1>1, <1>6, <2>2, <3>1, BelowIsOrder
  <2> QED
    BY <1>0, <1>7, <2>3, <2>4
<1>8. ASSUME NEW i \in 1..m, i >= k PROVE Below(r, rank[left[i]])
  <2>1. k \in 1..m /\ m \in Nat
    BY <1>0, <1>8
  <2>2. hi = rank[left[k]] /\ Below(r, hi) /\ hi \in Rank
    BY <1>1, <1>3, <1>4, <1>6, <2>1
  <2>3. CASE i = k
    BY <2>2, <2>3
  <2>4. CASE k < i
    <3>1. Below(hi, rank[left[i]])
      BY <1>2, <2>1, <2>2, <2>4
    <3> QED
      BY <1>1, <1>6, <2>2, <3>1, BelowIsOrder
  <2> QED
    BY <1>0, <1>8, <2>3, <2>4
<1>9. /\ S \cup {t} = T \cup {t} /\ t \notin T
      /\ \A x \in T : new[x] = rank[x] /\ rank[x] \in Rank
      /\ IsFiniteSet(T) /\ S \cup {t} \subseteq Nat
  BY FS_RemoveElement DEF Ranked
<1>10. Ranked(S \cup {t}, new)
  <2>1. IsFiniteSet(S \cup {t})
    BY FS_AddElement DEF Ranked
  <2>2. \A x \in S \cup {t} : new[x] \in Rank
    BY <1>6, <1>9
  <2> QED
    BY <1>9, <2>1, <2>2 DEF Ranked
<1>11. IsRow(now, S \cup {t}, new)
  BY <1>10, SortedIs
<1>12. \A i \in 1..m : /\ new[left[i]] = rank[left[i]] /\ left[i] \in Nat
                       /\ rank[left[i]] # r
                       /\ Below(rank[left[i]], r) <=> i < k
  <2> SUFFICES ASSUME NEW i \in 1..m
               PROVE  /\ new[left[i]] = rank[left[i]] /\ left[i] \in Nat
                      /\ rank[left[i]] # r
                      /\ Below(rank[left[i]], r) <=> i < k
    OBVIOUS
  <2>1. /\ rank[left[i]] \in Rank /\ new[left[i]] = rank[left[i]] /\ left[i] \in Nat
    BY <1>1, <1>9
  <2>2. i < k \/ i >= k
    BY <1>0
  <2> HIDE DEF r
  <2> QED
    BY <1>6, <1>7, <1>8, <2>1, <2>2, BelowIsOrder
<1>13. Apart(now, new)
  <2> SUFFICES ASSUME NEW x \in S \cup {t}, NEW y \in S \cup {t}, new[x] = new[y]
               PROVE  x = y
    BY <1>10, <1>11, ApartIs
  <2>1. ASSUME NEW z \in T PROVE new[z] # new[t]
    <3>1. PICK i \in 1..m : left[i] = z
      BY <1>0
    <3> QED
      BY <1>12, <3>1
  <2>2. CASE x \in T /\ y \in T
    BY <1>9, <2>2, ApartIs
  <2>3. CASE x = t \/ y = t
    BY <1>9, <2>1, <2>3
  <2> QED
    BY <2>2, <2>3
<1>14. Once(left, m)
  <2> SUFFICES ASSUME NEW i \in 1..m, NEW j \in 1..m, left[i] = left[j], i < j
               PROVE  FALSE
    BY <1>0 DEF Once
  <2> QED
    BY <1>0, <1>1, BeforeIsOrder
<1> DEFINE U == FirstOf(left, k - 1)
<1>15. IsFiniteSet(U) /\ Cardinality(U) = k - 1 /\ t \notin U
  <2>1. k - 1 \in 0..m
    BY <1>0
  <2>2. IsFiniteSet(U) /\ Cardinality(U) = k - 1
    <3> HIDE DEF m, T
    <3> QED
      BY <1>0, <1>14, <2>1, FirstFew
  <2>3. t \notin U
    BY <1>0, <1>1 DEF FirstOf
  <2> QED
    BY <2>2, <2>3
<1>16. Ahead(S \cup {t}, new, t) = U
  <2>1. ASSUME NEW i \in 1..m PROVE Before(new, left[i], t) <=> i < k
    BY <1>12 DEF Before
  <2>2. ~Before(new, t, t)
    BY <1>10, BeforeIsOrder
  <2>3. ASSUME NEW y \in Ahead(S \cup {t}, new, t) PROVE y \in U
    <3>1. y \in T /\ Before(new, y, t)
      BY <2>2 DEF Ahead
    <3>2. PICK i \in 1..m : left[i] = y
      BY <1>0, <3>1
    <3>3. i \in 1..(k - 1)
      BY <1>0, <2>1, <3>1, <3>2
    <3> QED
      BY <3>2, <3>3 DEF FirstOf
  <2>4. ASSUME NEW y \in U PROVE y \in Ahead(S \cup {t}, new, t)
    <3>1. PICK i \in 1..(k - 1) : left[i] = y
      BY DEF FirstOf
    <3>2. i \in 1..m /\ i < k
      BY <1>0
    <3> QED
      BY <1>1, <2>1, <3>1, <3>2 DEF Ahead
  <2> QED
    BY <2>3, <2>4
<1>17. In(now, t) /\ position(now, t) = k
  <2>1. In(now, t) /\ position(now, t) = Cardinality(Ahead(S \cup {t}, new, t)) + 1
    BY <1>11 DEF IsRow
  <2>2. Cardinality(U) + 1 = k
    <3> HIDE DEF U
    <3> QED
      BY <1>15
  <2> QED
    BY <1>16, <2>1, <2>2
<1>18. Len(now) = m + 1
  <2>1. m \in 0..m
    BY <1>0
  <2>2. Cardinality(FirstOf(left, m)) = m
    <3> HIDE DEF m, T
    <3> QED
      BY <1>0, <1>14, <2>1, FirstFew
  <2>3. FirstOf(left, m) = T
    BY <1>0, <1>1 DEF FirstOf
  <2>4. Cardinality(S \cup {t}) = m + 1
    <3>1. Cardinality(T \cup {t}) = Cardinality(T) + 1
      <4> HIDE DEF T
      <4> QED
        BY <1>9, FS_AddElement
    <3> QED
      BY <1>9, <2>2, <2>3, <3>1
  <2> QED
    BY <1>11, <2>4 DEF IsRow
<1>19. ASSUME k <= m PROVE k + 1 \in DOMAIN now /\ now[k + 1] = left[k]
  <2>1. k \in 1..m /\ left[k] \in S \cup {t}
    BY <1>0, <1>1, <1>19
  <2>2. Ahead(S \cup {t}, new, left[k]) = U \cup {t}
    <3>1. Before(new, t, left[k])
      BY <1>8, <1>12, <2>1 DEF Before
    <3>2. ASSUME NEW i \in 1..m PROVE Before(new, left[i], left[k]) <=> i < k
      <4>1. i < k => Before(rank, left[i], left[k])
        BY <1>0, <2>1
      <4>2. i > k => Before(rank, left[k], left[i])
        BY <1>0, <2>1
      <4>3. left[i] \in S /\ left[k] \in S
        BY <1>1, <2>1
      <4>4. Before(rank, left[i], left[k]) <=> i < k
        BY <1>0, <2>1, <4>1, <4>2, <4>3, BeforeIsOrder
      <4> QED
        BY <1>12, <2>1, <4>4 DEF Before
    <3>3. ASSUME NEW y \in Ahead(S \cup {t}, new, left[k]), y # t PROVE y \in U
      <4>1. y \in T /\ Before(new, y, left[k])
        BY <3>3 DEF Ahead
      <4>2. PICK i \in 1..m : left[i] = y
        BY <1>0, <4>1
      <4>3. i \in 1..(k - 1)
        BY <1>0, <3>2, <4>1, <4>2
      <4> QED
        BY <4>2, <4>3 DEF FirstOf
    <3>4. ASSUME NEW y \in U PROVE y \in Ahead(S \cup {t}, new, left[k])
      <4>1. PICK i \in 1..(k - 1) : left[i] = y
        BY DEF FirstOf
      <4>2. i \in 1..m /\ i < k
        BY <1>0
      <4> QED
        BY <1>1, <3>2, <4>1, <4>2 DEF Ahead
    <3> QED
      BY <3>1, <3>3, <3>4 DEF Ahead
  <2>3. Cardinality(U \cup {t}) = k
    <3> HIDE DEF U
    <3>1. Cardinality(U \cup {t}) = Cardinality(U) + 1
      BY <1>15, FS_AddElement
    <3> QED
      BY <1>15, <3>1
  <2>4. /\ position(now, left[k]) \in DOMAIN now
        /\ now[position(now, left[k])] = left[k]
        /\ position(now, left[k]) = Cardinality(Ahead(S \cup {t}, new, left[k])) + 1
    <3> HIDE DEF m, T, U
    <3> QED
      BY <1>11, <2>1 DEF IsRow
  <2> QED
    BY <2>2, <2>3, <2>4
<1> QED
  BY <1>13, <1>17, <1>18, <1>19 DEF Lain

-----------------------------------------------------------------------------
(* What log say.                                                           *)

OpOK(o) ==
  /\ o \in [op : {"Place", "Unplace", "SetColumn", "RemoveColumn"}, card : Nat,
            column : Nat, rank : Rank \cup {NoRank}, lamport : Nat, by : Nat]
  /\ o.op \in {"Place", "SetColumn"} => o.rank \in Rank
  /\ o.op = "Place" => o.card # 0

\* Ops that have been written: no two have one stamp, and there are no more than
\* can be counted.
LogOK(log) ==
  /\ \A o \in log : OpOK(o)
  /\ \A o, p \in log : o.lamport = p.lamport /\ o.by = p.by => o = p
  /\ \E N \in Nat : \A o \in log : /\ o.lamport <= N /\ o.by <= N
                                   /\ o.card <= N /\ o.column <= N

\* Of numbers that are not above some other there is a greatest one.
LEMMA GreatestIs ==
  ASSUME NEW S \in SUBSET Nat, S # {}, NEW N \in Nat, \A x \in S : x <= N
  PROVE  \E x \in S : \A y \in S : y <= x
<1> DEFINE D == {d \in 0..N : N - d \in S}
<1>1. D \subseteq Nat /\ D # {}
  <2>1. PICK x \in S : TRUE
    OBVIOUS
  <2>2. N - x \in 0..N /\ N - (N - x) = x
    OBVIOUS
  <2>3. N - x \in D
    BY <2>1, <2>2
  <2> QED
    BY <2>3
<1>2. PICK d \in D : \A e \in D : d <= e
  <2> HIDE DEF D
  <2> QED
    BY <1>1, LeastIs
<1>3. ASSUME NEW y \in S PROVE y <= N - d
  <2>1. N - y \in D
    OBVIOUS
  <2>2. d <= N - y
    BY <1>2, <2>1
  <2> QED
    BY <2>2
<1> QED
  BY <1>2, <1>3

\* One that comes before another comes not after it.
LEMMA PrecedesIs ==
  ASSUME NEW o, NEW p, OpOK(o), OpOK(p), Precedes(o, p)
  PROVE  ~Precedes(p, o) /\ o # p
<1>1. o.lamport \in Nat /\ p.lamport \in Nat /\ o.by \in Nat /\ p.by \in Nat
  BY DEF OpOK
<1> QED
  BY <1>1 DEF Precedes

\* The newest of some log is one of them, which all the others precede.
LEMMA NewestIs ==
  ASSUME NEW log, LogOK(log), NEW S \in SUBSET log, S # {}
  PROVE  /\ Newest(S) \in S
         /\ \A p \in S \ {Newest(S)} : Precedes(p, Newest(S))
<1>1. \A o \in S : o.lamport \in Nat /\ o.by \in Nat
  BY DEF LogOK, OpOK
<1>2. PICK N \in Nat : \A o \in S : o.lamport <= N /\ o.by <= N
  BY DEF LogOK
<1> DEFINE L == {o.lamport : o \in S}
<1>3. L \subseteq Nat /\ L # {} /\ \A x \in L : x <= N
  BY <1>1, <1>2
<1>4. PICK l \in L : \A x \in L : x <= l
  <2> HIDE DEF L
  <2> QED
    BY <1>3, GreatestIs
<1> DEFINE B == {o.by : o \in {q \in S : q.lamport = l}}
<1>5. B \subseteq Nat /\ B # {} /\ \A x \in B : x <= N
  BY <1>1, <1>2, <1>4
<1>6. PICK b \in B : \A x \in B : x <= b
  <2> HIDE DEF B
  <2> QED
    BY <1>5, GreatestIs
<1>7. PICK o \in S : o.lamport = l /\ o.by = b
  BY <1>6
<1>8. ASSUME NEW p \in S \ {o} PROVE Precedes(p, o)
  <2>1. p.lamport \in L /\ p.lamport <= l
    BY <1>4
  <2>2. CASE p.lamport = l
    <3>1. p.by \in B /\ p.by <= b
      BY <1>6, <2>2
    <3>2. p.by # b
      BY <1>7, <2>2 DEF LogOK
    <3> QED
      BY <1>1, <1>7, <2>2, <3>1, <3>2 DEF Precedes
  <2>3. CASE p.lamport # l
    BY <1>1, <1>7, <2>1, <2>3 DEF Precedes
  <2> QED
    BY <2>2, <2>3
<1>9. \E q \in S : \A p \in S \ {q} : Precedes(p, q)
  BY <1>8
<1> QED
  BY <1>9 DEF Newest

\* What comes after all that was said is the newest.
LEMMA NewestNow ==
  ASSUME NEW S, \A o \in S : OpOK(o), NEW new, OpOK(new), \A o \in S : Precedes(o, new)
  PROVE  Newest(S \cup {new}) = new
<1> DEFINE First(o) == \A p \in (S \cup {new}) \ {o} : Precedes(p, o)
<1>1. new \in S \cup {new} /\ First(new)
  OBVIOUS
<1>2. ASSUME NEW o \in S \cup {new}, First(o) PROVE o = new
  <2> SUFFICES ASSUME o \in S, o # new PROVE FALSE
    OBVIOUS
  <2>1. Precedes(new, o) /\ Precedes(o, new)
    BY <1>2
  <2> QED
    BY <2>1, PrecedesIs
<1> HIDE DEF First
<1>3. (CHOOSE o \in S \cup {new} : First(o)) = new
  BY <1>1, <1>2
<1> QED
  BY <1>3 DEF Newest, First

\* The columns that are left, and their ranks.
LEMMA ColumnsAre ==
  ASSUME NEW log, LogOK(log)
  PROVE  /\ Ranked(DOMAIN fold_columns(log), fold_columns(log))
         /\ DOMAIN fold_columns(log) \cap Removed(log) = {}
<1> DEFINE set == {o \in log : o.op = "SetColumn"}
           left == {o.column : o \in set} \ Removed(log)
<1>1. fold_columns(log) = [c \in left |-> Newest({o \in set : o.column = c}).rank]
  BY DEF fold_columns
<1>2. PICK N \in Nat : \A o \in log : o.column <= N
  BY DEF LogOK
<1>3. left \subseteq Nat /\ \A c \in left : c <= N
  BY <1>2 DEF LogOK, OpOK
<1>4. IsFiniteSet(left)
  <2> HIDE DEF left
  <2> QED
    BY <1>3, FS_BoundedSetOfNaturals
<1>5. ASSUME NEW c \in left PROVE Newest({o \in set : o.column = c}).rank \in Rank
  <2> DEFINE S == {o \in set : o.column = c}
  <2>1. S # {} /\ S \subseteq log
    OBVIOUS
  <2>2. Newest(S) \in S
    <3> HIDE DEF S
    <3> QED
      BY <2>1, NewestIs
  <2> QED
    BY <2>2 DEF LogOK, OpOK
<1> HIDE DEF left
<1> QED
  BY <1>1, <1>3, <1>4, <1>5 DEF Ranked, left

\* The cards that lie somewhere, and where they were last put.
LEMMA CardsAre ==
  ASSUME NEW log, LogOK(log)
  PROVE  /\ DOMAIN fold_tasks(log) \subseteq Nat \ {0}
         /\ IsFiniteSet(DOMAIN fold_tasks(log))
         /\ \A t \in DOMAIN fold_tasks(log) : fold_tasks(log)[t].rank \in Rank
         /\ \A t \in DOMAIN fold_tasks(log) :
              fold_tasks(log)[t] = [column |-> fold_tasks(log)[t].column,
                                    rank |-> fold_tasks(log)[t].rank]
<1> DEFINE moved == {o \in log : o.op \in {"Place", "Unplace"}}
           last == [t \in {o.card : o \in moved} |-> Newest({o \in moved : o.card = t})]
           placed == {u \in DOMAIN last : last[u].op = "Place"}
<1>1. fold_tasks(log) = [t \in placed |-> [column |-> last[t].column, rank |-> last[t].rank]]
  BY DEF fold_tasks
<1>2. PICK N \in Nat : \A o \in log : o.card <= N
  BY DEF LogOK
<1>3. \A t \in {o.card : o \in moved} : last[t] \in moved /\ last[t].card = t
  <2> SUFFICES ASSUME NEW t \in {o.card : o \in moved}
               PROVE  last[t] \in moved /\ last[t].card = t
    OBVIOUS
  <2> DEFINE S == {o \in moved : o.card = t}
  <2>1. S # {} /\ S \subseteq log
    OBVIOUS
  <2>2. Newest(S) \in S
    <3> HIDE DEF S
    <3> QED
      BY <2>1, NewestIs
  <2> QED
    BY <2>2
<1>4. DOMAIN last = {o.card : o \in moved}
  OBVIOUS
<1> HIDE DEF last
<1>5. \A t \in placed : /\ t \in Nat \ {0} /\ t <= N
                        /\ last[t].rank \in Rank
  BY <1>2, <1>3, <1>4 DEF LogOK, OpOK
<1>6. IsFiniteSet(placed)
  <2> HIDE DEF placed
  <2>1. placed \subseteq Nat /\ \A t \in placed : t <= N
    BY <1>5
  <2> QED
    BY <2>1, FS_BoundedSetOfNaturals
<1> HIDE DEF placed
<1> QED
  BY <1>1, <1>5, <1>6

-----------------------------------------------------------------------------
(* What a board shows of them.                                             *)

\* The columns in their order, and the cards where they are to be found.
RowOf(log) == Sorted(DOMAIN fold_columns(log), fold_columns(log))
Laid(log) == drop_removed_columns(Removed(log), RowOf(log), fold_tasks(log))
LiesIn(log, c) == {t \in DOMAIN Laid(log) : Laid(log)[t].column = c}

\* What from_state makes of log: rows of what the folds leave.
LEMMA BoardIs ==
  ASSUME NEW log, LogOK(log), NEW b, b = from_state(log)
  PROVE  /\ b.column_rank = fold_columns(log) /\ b.columns = RowOf(log)
         /\ IsRow(b.columns, DOMAIN fold_columns(log), fold_columns(log))
         /\ DOMAIN Laid(log) = DOMAIN fold_tasks(log)
         /\ b.rank = [t \in DOMAIN Laid(log) |-> Laid(log)[t].rank]
         /\ \A c \in DOMAIN fold_columns(log) :
              /\ b.tasks_in[c] = Sorted(LiesIn(log, c), b.rank)
              /\ Ranked(LiesIn(log, c), b.rank)
              /\ IsRow(b.tasks_in[c], LiesIn(log, c), b.rank)
              /\ 0 \notin LiesIn(log, c)
<1>1. /\ b.column_rank = fold_columns(log) /\ b.columns = RowOf(log)
      /\ b.rank = [t \in DOMAIN Laid(log) |-> Laid(log)[t].rank]
      /\ b.tasks_in = [c \in DOMAIN fold_columns(log) |-> Sorted(LiesIn(log, c), b.rank)]
  BY DEF from_state, RowOf, Laid, LiesIn
<1>2. IsRow(b.columns, DOMAIN fold_columns(log), fold_columns(log))
  BY <1>1, ColumnsAre, SortedIs DEF RowOf
<1>3. DOMAIN Laid(log) = DOMAIN fold_tasks(log)
  BY DEF Laid, drop_removed_columns
<1>4. \A t \in DOMAIN fold_tasks(log) : Laid(log)[t].rank = fold_tasks(log)[t].rank
  <2> SUFFICES ASSUME NEW t \in DOMAIN fold_tasks(log)
               PROVE  Laid(log)[t].rank = fold_tasks(log)[t].rank
    OBVIOUS
  <2>1. fold_tasks(log)[t] = [column |-> fold_tasks(log)[t].column,
                              rank |-> fold_tasks(log)[t].rank]
    BY CardsAre
  <2>2. Laid(log)[t] \in {fold_tasks(log)[t],
                          [fold_tasks(log)[t] EXCEPT !.column = RowOf(log)[1]]}
    BY DEF Laid, drop_removed_columns
  <2> QED
    BY <2>1, <2>2
<1>5. ASSUME NEW c \in DOMAIN fold_columns(log)
      PROVE  Ranked(LiesIn(log, c), b.rank) /\ 0 \notin LiesIn(log, c)
  <2>1. LiesIn(log, c) \subseteq DOMAIN fold_tasks(log)
    BY <1>3 DEF LiesIn
  <2>2. IsFiniteSet(LiesIn(log, c))
    BY <2>1, CardsAre, FS_Subset
  <2>3. \A t \in LiesIn(log, c) : b.rank[t] \in Rank
    BY <1>1, <1>3, <1>4, <2>1, CardsAre
  <2> QED
    BY <2>1, <2>2, <2>3, CardsAre DEF Ranked
<1>6. ASSUME NEW c \in DOMAIN fold_columns(log)
      PROVE  /\ b.tasks_in[c] = Sorted(LiesIn(log, c), b.rank)
             /\ IsRow(b.tasks_in[c], LiesIn(log, c), b.rank)
  BY <1>1, <1>5, SortedIs
<1> QED
  BY <1>1, <1>2, <1>3, <1>5, <1>6

\* An op that is written after some others.
Follows(log, new) == LogOK(log) /\ OpOK(new) /\ \A o \in log : Precedes(o, new)

\* A card that is put into a column of the board lies there, and all else lies
\* where it did.
LEMMA PlacedNow ==
  ASSUME NEW log, NEW new, Follows(log, new), new.op = "Place",
         new.column \in DOMAIN fold_columns(log)
  PROVE  LET now == log \cup {new}
             c == new.column
             t == new.card
             r == new.rank
         IN  /\ fold_columns(now) = fold_columns(log)
             /\ LiesIn(now, c) = LiesIn(log, c) \cup {t}
             /\ DOMAIN Laid(now) = DOMAIN Laid(log) \cup {t}
             /\ Laid(now)[t].rank = r
             /\ \A u \in DOMAIN Laid(log) \ {t} : Laid(now)[u] = Laid(log)[u]
<1> USE DEF Follows
<1> DEFINE now == log \cup {new}
           c == new.column
           t == new.card
           r == new.rank
           moved(q) == {o \in q : o.op \in {"Place", "Unplace"}}
           last(q) == [u \in {o.card : o \in moved(q)} |->
                         Newest({o \in moved(q) : o.card = u})]
           placed(q) == {u \in DOMAIN last(q) : last(q)[u].op = "Place"}
<1>1. \A q : fold_tasks(q) =
               [u \in placed(q) |-> [column |-> last(q)[u].column, rank |-> last(q)[u].rank]]
  BY DEF fold_tasks
<1>2. Removed(now) = Removed(log) /\ fold_columns(now) = fold_columns(log)
  <2>1. {o \in now : o.op = "RemoveColumn"} = {o \in log : o.op = "RemoveColumn"}
    OBVIOUS
  <2>2. {o \in now : o.op = "SetColumn"} = {o \in log : o.op = "SetColumn"}
    OBVIOUS
  <2>3. Removed(now) = Removed(log)
    BY <2>1 DEF Removed
  <2> HIDE DEF now
  <2> QED
    BY <2>2, <2>3 DEF fold_columns
<1>3. DOMAIN last(now) = DOMAIN last(log) \cup {t}
  OBVIOUS
<1>4. \A u \in DOMAIN last(log) \ {t} : last(now)[u] = last(log)[u]
  <2> SUFFICES ASSUME NEW u \in DOMAIN last(log) \ {t} PROVE last(now)[u] = last(log)[u]
    OBVIOUS
  <2>1. {o \in moved(now) : o.card = u} = {o \in moved(log) : o.card = u}
    OBVIOUS
  <2>2. last(now)[u] = Newest({o \in moved(now) : o.card = u})
    BY <1>3
  <2>3. last(log)[u] = Newest({o \in moved(log) : o.card = u})
    OBVIOUS
  <2> QED
    BY <2>1, <2>2, <2>3
<1>5. last(now)[t] = new
  <2> DEFINE S == {o \in moved(log) : o.card = t}
  <2>1. {o \in moved(now) : o.card = t} = S \cup {new}
    OBVIOUS
  <2>2. last(now)[t] = Newest({o \in moved(now) : o.card = t})
    BY <1>3
  <2>3. Newest(S \cup {new}) = new
    <3>1. \A o \in S : OpOK(o) /\ Precedes(o, new)
      BY DEF LogOK
    <3> HIDE DEF S
    <3> QED
      BY <3>1, NewestNow
  <2> HIDE DEF S, last, moved
  <2> QED
    BY <2>1, <2>2, <2>3
<1> HIDE DEF last
<1>6. placed(now) = placed(log) \cup {t}
  BY <1>3, <1>4, <1>5
<1>7. /\ DOMAIN fold_tasks(now) = DOMAIN fold_tasks(log) \cup {t}
      /\ fold_tasks(now)[t] = [column |-> c, rank |-> r]
      /\ \A u \in DOMAIN fold_tasks(log) \ {t} : fold_tasks(now)[u] = fold_tasks(log)[u]
  <2>1. DOMAIN fold_tasks(now) = placed(now) /\ DOMAIN fold_tasks(log) = placed(log)
    BY <1>1
  <2>2. fold_tasks(now)[t] = [column |-> c, rank |-> r]
    BY <1>1, <1>5, <1>6
  <2>3. ASSUME NEW u \in placed(log) \ {t} PROVE fold_tasks(now)[u] = fold_tasks(log)[u]
    <3>1. u \in placed(now) /\ last(now)[u] = last(log)[u]
      BY <1>4, <1>6
    <3> HIDE DEF placed, now
    <3> QED
      BY <1>1, <3>1
  <2> QED
    BY <1>6, <2>1, <2>2, <2>3
<1>8. c \notin Removed(log)
  BY ColumnsAre
<1> DEFINE row == RowOf(log)
           removed == Removed(log)
           Moved(q, u) == IF row # << >> /\ fold_tasks(q)[u].column \in removed
                          THEN [fold_tasks(q)[u] EXCEPT !.column = row[1]]
                          ELSE fold_tasks(q)[u]
<1>9. /\ Laid(log) = [u \in DOMAIN fold_tasks(log) |-> Moved(log, u)]
      /\ Laid(now) = [u \in DOMAIN fold_tasks(now) |-> Moved(now, u)]
  <2>1. RowOf(now) = row
    BY <1>2 DEF RowOf
  <2> HIDE DEF now
  <2> QED
    BY <1>2, <2>1 DEF Laid, drop_removed_columns
<1> HIDE DEF now
<1>10. DOMAIN Laid(log) = DOMAIN fold_tasks(log) /\ DOMAIN Laid(now) = DOMAIN Laid(log) \cup {t}
  BY <1>7, <1>9
<1>11. Laid(now)[t] = [column |-> c, rank |-> r]
  <2>1. Moved(now, t) = [column |-> c, rank |-> r]
    BY <1>7, <1>8
  <2> HIDE DEF Moved
  <2> QED
    BY <1>7, <1>9, <2>1
<1>12. ASSUME NEW u \in DOMAIN Laid(log) \ {t} PROVE Laid(now)[u] = Laid(log)[u]
  <2>1. Moved(now, u) = Moved(log, u)
    BY <1>7, <1>10
  <2> HIDE DEF Moved
  <2> QED
    BY <1>7, <1>9, <1>10, <2>1
<1>13. LiesIn(now, c) = LiesIn(log, c) \cup {t}
  BY <1>10, <1>11, <1>12 DEF LiesIn
<1> QED
  BY <1>2, <1>10, <1>11, <1>12, <1>13 DEF now

\* A column that is not removed has the rank it was last given, and the others
\* have theirs.
LEMMA SetNow ==
  ASSUME NEW log, NEW new, Follows(log, new), new.op = "SetColumn",
         new.column \notin Removed(log)
  PROVE  LET now == log \cup {new}
             c == new.column
             r == new.rank
         IN  /\ DOMAIN fold_columns(now) = DOMAIN fold_columns(log) \cup {c}
             /\ fold_columns(now)[c] = r
             /\ \A d \in DOMAIN fold_columns(log) \ {c} :
                  fold_columns(now)[d] = fold_columns(log)[d]
<1> USE DEF Follows
<1> DEFINE now == log \cup {new}
           c == new.column
           r == new.rank
           set(q) == {o \in q : o.op = "SetColumn"}
           left(q) == {o.column : o \in set(q)} \ Removed(q)
<1>1. \A q : fold_columns(q) =
               [d \in left(q) |-> Newest({o \in set(q) : o.column = d}).rank]
  BY DEF fold_columns
<1>2. Removed(now) = Removed(log)
  <2>1. {o \in now : o.op = "RemoveColumn"} = {o \in log : o.op = "RemoveColumn"}
    OBVIOUS
  <2> QED
    BY <2>1 DEF Removed
<1>3. left(now) = left(log) \cup {c}
  BY <1>2
<1>4. Newest({o \in set(now) : o.column = c}) = new
  <2> DEFINE S == {o \in set(log) : o.column = c}
  <2>1. {o \in set(now) : o.column = c} = S \cup {new}
    OBVIOUS
  <2>2. Newest(S \cup {new}) = new
    <3>1. \A o \in S : OpOK(o) /\ Precedes(o, new)
      BY DEF LogOK
    <3> HIDE DEF S
    <3> QED
      BY <3>1, NewestNow
  <2> QED
    BY <2>1, <2>2
<1>5. \A d \in left(log) \ {c} :
        {o \in set(now) : o.column = d} = {o \in set(log) : o.column = d}
  OBVIOUS
<1>6. DOMAIN fold_columns(now) = left(now) /\ DOMAIN fold_columns(log) = left(log)
  BY <1>1
<1>7. fold_columns(now)[c] = r
  <2>1. c \in left(now)
    BY <1>3
  <2>2. fold_columns(now)[c] = Newest({o \in set(now) : o.column = c}).rank
    <3> HIDE DEF left, set, now
    <3> QED
      BY <1>1, <2>1
  <2> QED
    BY <1>4, <2>2
<1>8. ASSUME NEW d \in left(log) \ {c} PROVE fold_columns(now)[d] = fold_columns(log)[d]
  <2>1. d \in left(now) /\ d \in left(log)
    BY <1>3
  <2>2. /\ fold_columns(now)[d] = Newest({o \in set(now) : o.column = d}).rank
        /\ fold_columns(log)[d] = Newest({o \in set(log) : o.column = d}).rank
    <3> HIDE DEF left, set, now
    <3> QED
      BY <1>1, <2>1
  <2> QED
    BY <1>5, <2>2
<1> QED
  BY <1>3, <1>6, <1>7, <1>8

-----------------------------------------------------------------------------
(* What is so all along.                                                   *)

\* A page shows what it has heard, has heard all it has written itself, and all
\* that the board began with; what is being placed has a rank.
RanksInv ==
  /\ LogOK(written)
  /\ heard \in [Peer -> SUBSET written]
  /\ board = [p \in Peer |-> from_state(heard[p])]
  /\ \A p \in Peer, o \in written : o.by \in {0, p} => o \in heard[p]
  /\ \E o \in written : o.by = 0 /\ o.card = 0
  /\ placing \in [Peer -> {NoCard} \cup [card : Nat \ {0}, column : Nat, rank : Rank]]

\* What some have heard is as good as what has been written.
LEMMA PartIsOK ==
  ASSUME NEW log, LogOK(log), NEW S \in SUBSET log
  PROVE  LogOK(S)
<1>1. \A o \in S : OpOK(o)
  BY DEF LogOK
<1>2. \A o, p \in S : o.lamport = p.lamport /\ o.by = p.by => o = p
  BY DEF LogOK
<1>3. \E N \in Nat : \A o \in S : o.lamport <= N /\ o.by <= N /\ o.card <= N /\ o.column <= N
  BY DEF LogOK
<1> QED
  BY <1>1, <1>2, <1>3 DEF LogOK

\* The next lamport is above all a page has.
LEMMA NextLamport ==
  ASSUME NEW log, LogOK(log), log # {}
  PROVE  next_lamport(log) \in Nat /\ \A o \in log : o.lamport < next_lamport(log)
<1> DEFINE L == {o.lamport : o \in log}
           Top(n) == \A o \in log : o.lamport <= n
<1>1. \A o \in log : o.lamport \in Nat
  BY DEF LogOK, OpOK
<1>2. PICK N \in Nat : \A o \in log : o.lamport <= N
  BY DEF LogOK
<1>3. L \subseteq Nat /\ L # {} /\ \A x \in L : x <= N
  BY <1>1, <1>2
<1>4. \E x \in L : \A y \in L : y <= x
  <2> HIDE DEF L
  <2> QED
    BY <1>3, GreatestIs
<1>5. \E x \in L : Top(x)
  BY <1>4
<1> DEFINE top == CHOOSE n \in L : Top(n)
<1>6. top \in L /\ Top(top)
  <2> HIDE DEF L, Top
  <2> QED
    BY <1>5
<1>7. next_lamport(log) = 1 + top
  BY DEF next_lamport
<1> HIDE DEF top
<1> QED
  BY <1>1, <1>3, <1>6, <1>7

\* What is emitted comes after all the page has, and it shows it at once.
Emits(p, new, op, card, column, rank) ==
  /\ Follows(heard[p], new) /\ LogOK(heard[p] \cup {new})
  /\ new.op = op /\ new.card = card /\ new.column = column /\ new.rank = rank
  /\ board'[p] = from_state(heard[p] \cup {new})

\* An op that is emitted leaves all so, but for what is being placed.
LEMMA EmittedIs ==
  ASSUME RanksInv, NEW p \in Peer,
         NEW op \in {"Place", "Unplace", "SetColumn", "RemoveColumn"}, NEW card \in Nat,
         NEW column \in Nat, NEW rank \in Rank \cup {NoRank},
         op \in {"Place", "SetColumn"} => rank \in Rank, op = "Place" => card # 0,
         emit(p, op, card, column, rank)
  PROVE  /\ placing' = placing => RanksInv'
         /\ LogOK(heard[p])
         /\ \E new : Emits(p, new, op, card, column, rank)
         /\ /\ LogOK(written)'
            /\ heard' \in [Peer -> SUBSET written']
            /\ board' = [q \in Peer |-> from_state(heard'[q])]
            /\ \A q \in Peer, o \in written' : o.by \in {0, q} => o \in heard'[q]
            /\ \E o \in written' : o.by = 0 /\ o.card = 0
<1> DEFINE new == Op(op, card, column, rank, next_lamport(heard[p]), p)
<1>1. LogOK(written) /\ heard \in [Peer -> SUBSET written] /\ heard[p] \subseteq written
  BY DEF RanksInv
<1>2. LogOK(heard[p])
  BY <1>1, PartIsOK
<1>3. heard[p] # {}
  BY DEF RanksInv
<1>4. /\ next_lamport(heard[p]) \in Nat
      /\ \A o \in heard[p] : o.lamport < next_lamport(heard[p])
  BY <1>2, <1>3, NextLamport
<1>5. /\ new.op = op /\ new.card = card /\ new.column = column /\ new.rank = rank
      /\ new.by = p /\ new.lamport = next_lamport(heard[p])
  BY DEF Op
<1>6. p \in Nat \ {0}
  BY RanksAssumption
<1>7. OpOK(new)
  BY <1>4, <1>6 DEF OpOK, Op
<1>8. /\ written' = written \cup {new}
      /\ heard' = [heard EXCEPT ![p] = @ \cup {new}]
      /\ board' = [board EXCEPT ![p] = from_state(heard[p] \cup {new})]
  BY DEF emit
<1> HIDE DEF new
<1>9. \A o \in heard[p] : Precedes(o, new)
  BY <1>4, <1>5 DEF Precedes
<1>10. \A o \in written : o.by = p => o \in heard[p]
  BY DEF RanksInv
<1>11. LogOK(written \cup {new})
  <2>1. \A o \in written \cup {new} : OpOK(o)
    BY <1>1, <1>7 DEF LogOK
  <2>2. ASSUME NEW o \in written, o.lamport = new.lamport, o.by = new.by PROVE FALSE
    <3>1. o \in heard[p] /\ o.lamport < new.lamport /\ new.lamport \in Nat
      BY <1>4, <1>5, <1>10, <2>2
    <3> QED
      BY <2>2, <3>1
  <2>3. \A o, q \in written \cup {new} : o.lamport = q.lamport /\ o.by = q.by => o = q
    BY <1>1, <2>2 DEF LogOK
  <2>4. PICK N \in Nat : \A o \in written : /\ o.lamport <= N /\ o.by <= N
                                            /\ o.card <= N /\ o.column <= N
    BY <1>1 DEF LogOK
  <2>5. /\ new.lamport \in Nat /\ new.by \in Nat /\ new.card \in Nat /\ new.column \in Nat
    BY <1>4, <1>5, <1>6
  <2>6. \E M \in Nat : \A o \in written \cup {new} :
          o.lamport <= M /\ o.by <= M /\ o.card <= M /\ o.column <= M
    <3> DEFINE M == N + new.lamport + new.by + new.card + new.column
    <3>1. M \in Nat
      BY <2>5
    <3>2. \A o \in written : /\ o.lamport \in Nat /\ o.by \in Nat
                             /\ o.card \in Nat /\ o.column \in Nat
      BY <1>1 DEF LogOK, OpOK
    <3>3. ASSUME NEW o \in written \cup {new}
          PROVE  o.lamport <= M /\ o.by <= M /\ o.card <= M /\ o.column <= M
      <4>1. CASE o = new
        BY <2>5, <4>1
      <4>2. CASE o \in written
        BY <2>4, <2>5, <3>2, <4>2
      <4> QED
        BY <4>1, <4>2
    <3> QED
      BY <3>1, <3>3
  <2> QED
    BY <2>1, <2>3, <2>6 DEF LogOK
<1>12. heard' \in [Peer -> SUBSET written'] /\ heard'[p] = heard[p] \cup {new}
  BY <1>1, <1>8
<1>13. \A q \in Peer : heard[q] \subseteq heard'[q]
  BY <1>1, <1>8
<1>14. board' = [q \in Peer |-> from_state(heard'[q])] /\ board'[p] = from_state(heard[p] \cup {new})
  <2>1. board = [q \in Peer |-> from_state(heard[q])]
    BY DEF RanksInv
  <2>2. \A q \in Peer \ {p} : heard'[q] = heard[q]
    BY <1>1, <1>8
  <2> QED
    BY <1>8, <1>12, <2>1, <2>2
<1>15. \A q \in Peer, o \in written' : o.by \in {0, q} => o \in heard'[q]
  <2> SUFFICES ASSUME NEW q \in Peer, NEW o \in written', o.by \in {0, q}
               PROVE  o \in heard'[q]
    OBVIOUS
  <2>1. CASE o \in written
    BY <1>13, <2>1 DEF RanksInv
  <2>2. CASE o = new
    BY <1>5, <1>6, <1>12, <2>2
  <2> QED
    BY <1>8, <2>1, <2>2
<1>16. \E o \in written' : o.by = 0 /\ o.card = 0
  BY <1>8 DEF RanksInv
<1>17. LogOK(written)'
  BY <1>8, <1>11 DEF LogOK
<1>18. placing' = placing => RanksInv'
  BY <1>12, <1>14, <1>15, <1>16, <1>17 DEF RanksInv
<1>19. LogOK(heard[p] \cup {new})
  <2>1. heard[p] \cup {new} \subseteq written \cup {new}
    BY <1>1
  <2> QED
    BY <1>11, <2>1, PartIsOK
<1>20. Emits(p, new, op, card, column, rank)
  BY <1>2, <1>5, <1>7, <1>9, <1>14, <1>19 DEF Emits, Follows
<1> QED
  BY <1>2, <1>12, <1>14, <1>15, <1>16, <1>17, <1>18, <1>20

\* What holds of 0, and of every number up to N with the one before, holds up
\* to N.
LEMMA UpTo ==
  ASSUME NEW S, NEW N \in Nat, 0 \in S, \A n \in 1..N : n - 1 \in S => n \in S
  PROVE  0..N \subseteq S
<1> DEFINE T == (0..N) \ S
<1> SUFFICES ASSUME T # {} PROVE FALSE
  OBVIOUS
<1>1. T \subseteq Nat
  OBVIOUS
<1>2. PICK x \in T : \A y \in T : x <= y
  <2> HIDE DEF T
  <2> QED
    BY <1>1, LeastIs
<1>3. x \in 1..N /\ x - 1 \in 0..N /\ ~(x <= x - 1)
  OBVIOUS
<1> QED
  BY <1>2, <1>3

\* The ranks a board begins with.
LEMMA RowIs ==
  ASSUME NEW n \in Nat
  PROVE  \A i \in 1..n : Row(n)[i] \in Rank
<1> DEFINE Nth(f, i) == IF i = 1 THEN middle ELSE after(f[i - 1])
           Is(f) == f = [i \in 1..n |-> Nth(f, i)]
           at == CHOOSE f : Is(f)
           Begun(f, m) == \A i \in 1..m : f[i] = Nth(f, i)
           B == {m \in 0..n : \E f \in [1..n -> Rank] : Begun(f, m)}
<1>1. Row(n) = at
  BY DEF Row
<1>2. ASSUME NEW r \in Rank PROVE after(r) \in Rank
  BY BetweenIs DEF after, NoRank
<1>3. 0 \in B
  <2>1. [i \in 1..n |-> middle] \in [1..n -> Rank]
    BY MiddleIs
  <2>2. \A f : Begun(f, 0)
    <3> HIDE DEF Nth
    <3> QED
      OBVIOUS
  <2>3. \E f \in [1..n -> Rank] : Begun(f, 0)
    <3> HIDE DEF Begun
    <3> QED
      BY <2>1, <2>2
  <2>4. 0 \in 0..n
    OBVIOUS
  <2> HIDE DEF Begun
  <2> QED
    BY <2>3, <2>4
<1>4. ASSUME NEW m \in 1..n, m - 1 \in B PROVE m \in B
  <2>1. PICK f \in [1..n -> Rank] : Begun(f, m - 1)
    BY <1>4
  <2>2. Nth(f, m) \in Rank
    <3>1. CASE m = 1
      BY <3>1, MiddleIs
    <3>2. CASE m # 1
      <4>1. f[m - 1] \in Rank
        BY <3>2
      <4> QED
        BY <1>2, <3>2, <4>1
    <3> QED
      BY <3>1, <3>2
  <2> DEFINE g == [f EXCEPT ![m] = Nth(f, m)]
  <2>3. g \in [1..n -> Rank]
    <3> HIDE DEF Nth
    <3> QED
      BY <2>2
  <2>4. \A i \in 1..n : g[i] = IF i = m THEN Nth(f, m) ELSE f[i]
    <3> HIDE DEF Nth
    <3> QED
      OBVIOUS
  <2> HIDE DEF g
  <2>5. ASSUME NEW i \in 1..m PROVE g[i] = Nth(g, i)
    <3>1. i = 1 \/ (i - 1 \in 1..n /\ i - 1 # m)
      OBVIOUS
    <3>2. Nth(g, i) = Nth(f, i)
      BY <2>4, <3>1
    <3>3. CASE i = m
      <4> HIDE DEF Nth
      <4> QED
        BY <2>4, <3>2, <3>3
    <3>4. CASE i # m
      <4>1. i \in 1..(m - 1) /\ i \in 1..n
        BY <3>4
      <4>2. f[i] = Nth(f, i)
        BY <2>1, <4>1
      <4> HIDE DEF Nth
      <4> QED
        BY <2>4, <3>2, <3>4, <4>1, <4>2
    <3> QED
      BY <3>3, <3>4
  <2>6. Begun(g, m)
    BY <2>5
  <2> HIDE DEF Begun
  <2> QED
    BY <2>3, <2>6
<1>5. n \in B
  <2> HIDE DEF B
  <2>1. 0..n \subseteq B
    BY <1>3, <1>4, UpTo
  <2> QED
    BY <2>1
<1>6. \E f : Is(f)
  <2>1. PICK f \in [1..n -> Rank] : Begun(f, n)
    BY <1>5
  <2>2. f = [i \in 1..n |-> f[i]]
    OBVIOUS
  <2>3. \A i \in 1..n : f[i] = Nth(f, i)
    BY <2>1
  <2> HIDE DEF Nth
  <2>4. f = [i \in 1..n |-> Nth(f, i)]
    BY <2>2, <2>3
  <2> QED
    BY <2>4
<1>7. Is(at)
  <2> HIDE DEF Is
  <2> QED
    BY <1>6
<1>8. \A i \in 1..n : at[i] = Nth(at, i)
  <2> HIDE DEF at, Nth
  <2> QED
    BY <1>7
<1> HIDE DEF at, Is
<1> DEFINE G == {m \in 0..n : m = 0 \/ at[m] \in Rank}
<1>9. ASSUME NEW m \in 1..n, m - 1 \in G PROVE m \in G
  <2>1. CASE m = 1
    BY <1>8, <2>1, MiddleIs
  <2>2. CASE m # 1
    <3>1. at[m - 1] \in Rank
      BY <1>9, <2>2
    <3> QED
      BY <1>2, <1>8, <2>2, <3>1
  <2> QED
    BY <2>1, <2>2
<1>10. 0..n \subseteq G
  <2>1. 0 \in G
    OBVIOUS
  <2> HIDE DEF G
  <2> QED
    BY <1>9, <2>1, UpTo
<1> QED
  BY <1>1, <1>10

\* A board begins so.
LEMMA RanksInitially == RanksInit => RanksInv
<1> SUFFICES ASSUME RanksInit PROVE RanksInv
  OBVIOUS
<1>1. PICK s \in Starts :
        /\ written = genesis_ops(s.columns) \cup Deal(s)
        /\ heard = [p \in Peer |-> written]
        /\ board = [p \in Peer |-> from_state(written)]
        /\ placing = [p \in Peer |-> NoCard]
  BY DEF RanksInit
<1>2. s.columns \in Nat \ {0} /\ s.cards \in Nat
  BY RanksAssumption
<1>3. \A o \in genesis_ops(s.columns) : \E c \in 1..s.columns :
        o = Op("SetColumn", 0, c, Row(s.columns)[c], c, 0)
  BY DEF genesis_ops
<1>4. \A o \in Deal(s) : \E t \in 1..s.cards :
        o = Op("Place", t, 1, Row(s.cards)[t], s.columns + t, 0)
  BY DEF Deal
<1>5. \A c \in 1..s.columns : Row(s.columns)[c] \in Rank
  BY <1>2, RowIs
<1>6. \A t \in 1..s.cards : Row(s.cards)[t] \in Rank
  BY <1>2, RowIs
<1>7. ASSUME NEW o \in written
      PROVE  /\ OpOK(o) /\ o.by = 0
             /\ \/ /\ o.lamport \in 1..s.columns /\ o.card = 0
                   /\ o = Op("SetColumn", 0, o.lamport, Row(s.columns)[o.lamport], o.lamport, 0)
                \/ /\ o.lamport > s.columns /\ o.card \in 1..s.cards /\ o.column = 1
                   /\ o.lamport = s.columns + o.card
                   /\ o = Op("Place", o.card, 1, Row(s.cards)[o.card], o.lamport, 0)
  <2>1. CASE o \in genesis_ops(s.columns)
    <3>1. PICK c \in 1..s.columns : o = Op("SetColumn", 0, c, Row(s.columns)[c], c, 0)
      BY <1>3, <2>1
    <3> QED
      BY <1>2, <1>5, <3>1 DEF Op, OpOK
  <2>2. CASE o \in Deal(s)
    <3>1. PICK t \in 1..s.cards :
            o = Op("Place", t, 1, Row(s.cards)[t], s.columns + t, 0)
      BY <1>4, <2>2
    <3> QED
      BY <1>2, <1>6, <3>1 DEF Op, OpOK
  <2> QED
    BY <1>1, <2>1, <2>2
<1>8. \A o, p \in written : o.lamport = p.lamport /\ o.by = p.by => o = p
  <2> SUFFICES ASSUME NEW o \in written, NEW p \in written, o.lamport = p.lamport
               PROVE  o = p
    OBVIOUS
  <2>1. CASE o.lamport \in 1..s.columns
    <3>1. /\ o = Op("SetColumn", 0, o.lamport, Row(s.columns)[o.lamport], o.lamport, 0)
          /\ p = Op("SetColumn", 0, p.lamport, Row(s.columns)[p.lamport], p.lamport, 0)
      BY <1>2, <1>7, <2>1
    <3> QED
      BY <3>1
  <2>2. CASE o.lamport \notin 1..s.columns
    <3>1. /\ o = Op("Place", o.card, 1, Row(s.cards)[o.card], o.lamport, 0)
          /\ o.lamport = s.columns + o.card /\ o.card \in 1..s.cards
      BY <1>7, <2>2
    <3>2. /\ p = Op("Place", p.card, 1, Row(s.cards)[p.card], p.lamport, 0)
          /\ p.lamport = s.columns + p.card /\ p.card \in 1..s.cards
      BY <1>7, <2>2
    <3>3. o.card = p.card
      <4>1. \A x, y \in 1..s.cards : s.columns + x = s.columns + y => x = y
        BY <1>2
      <4>2. s.columns + o.card = s.columns + p.card
        BY <3>1, <3>2
      <4>3. o.card \in 1..s.cards /\ p.card \in 1..s.cards
        BY <3>1, <3>2
      <4> QED
        BY <4>1, <4>2, <4>3
    <3> QED
      BY <3>1, <3>2, <3>3
  <2> QED
    BY <2>1, <2>2
<1>9. \A o \in written : /\ o.lamport <= s.columns + s.cards /\ o.by <= s.columns + s.cards
                         /\ o.card <= s.columns + s.cards
                         /\ o.column <= s.columns + s.cards
  <2> SUFFICES ASSUME NEW o \in written
               PROVE  /\ o.lamport <= s.columns + s.cards /\ o.by <= s.columns + s.cards
                      /\ o.card <= s.columns + s.cards
                      /\ o.column <= s.columns + s.cards
    OBVIOUS
  <2>1. CASE o.lamport \in 1..s.columns /\ o.card = 0
    <3>1. o.column = o.lamport
      BY <1>2, <1>7, <2>1 DEF Op
    <3> QED
      BY <1>2, <1>7, <2>1, <3>1
  <2>2. CASE o.lamport > s.columns /\ o.card \in 1..s.cards /\ o.column = 1
    BY <1>2, <1>7, <2>2
  <2> QED
    BY <1>7, <2>1, <2>2
<1>10. LogOK(written)
  <2>1. s.columns + s.cards \in Nat
    BY <1>2
  <2> QED
    BY <1>7, <1>8, <1>9, <2>1 DEF LogOK
<1>11. \E o \in written : o.by = 0 /\ o.card = 0
  <2>1. Op("SetColumn", 0, 1, Row(s.columns)[1], 1, 0) \in genesis_ops(s.columns)
    BY <1>2 DEF genesis_ops
  <2> QED
    BY <1>1, <2>1 DEF Op
<1>12. heard \in [Peer -> SUBSET written] /\ board = [p \in Peer |-> from_state(heard[p])]
  BY <1>1
<1> QED
  BY <1>1, <1>10, <1>11, <1>12 DEF RanksInv

-----------------------------------------------------------------------------
(* What is done by hand.                                                   *)

Aimed == LandsWhereAimed /\ OwnMovesKeepApart

\* Nothing is said of what is not moved by hand.
LEMMA NothingAimed == aim' = NoAim => Aimed'
  BY DEF Aimed, LandsWhereAimed, OwnMovesKeepApart

\* What a page shows of what it has heard.
LEMMA PageShows ==
  ASSUME RanksInv, NEW p \in Peer
  PROVE  /\ LogOK(heard[p]) /\ board[p] = from_state(heard[p])
         /\ heard[p] \subseteq written
  BY PartIsOK DEF RanksInv

\* The neighbours in a row have ranks, or are not there.
LEMMA RankAtIs ==
  ASSUME NEW S, NEW rank, Ranked(S, rank), NEW row, Len(row) \in Nat,
         row \in [1..Len(row) -> S], NEW i
  PROVE  RankAt(row, rank, i) \in Rank \cup {NoRank}
  BY DEF RankAt, Ranked, NoRank

\* A column of the board is a number, and not removed; so are its cards.
LEMMA ColumnAt ==
  ASSUME RanksInv, NEW p \in Peer, NEW i \in DOMAIN board[p].columns
  PROVE  /\ board[p].columns[i] \in DOMAIN fold_columns(heard[p])
         /\ board[p].columns[i] \in Nat
         /\ board[p].columns[i] \notin Removed(heard[p])
         /\ board[p].column_rank[board[p].columns[i]] \in Rank
<1>1. /\ LogOK(heard[p]) /\ board[p] = from_state(heard[p])
  BY PageShows
<1> DEFINE b == board[p]
<1>2. /\ b.column_rank = fold_columns(heard[p])
      /\ IsRow(b.columns, DOMAIN fold_columns(heard[p]), fold_columns(heard[p]))
  BY <1>1, BoardIs
<1>3. b.columns[i] \in DOMAIN fold_columns(heard[p])
  BY <1>2 DEF IsRow
<1> QED
  BY <1>1, <1>2, <1>3, ColumnsAre DEF Ranked

\* The rank a card is given on its way into a column is one.
LEMMA DropRank ==
  ASSUME RanksInv, NEW p \in Peer, NEW c \in DOMAIN fold_columns(heard[p]), NEW t, NEW k
  PROVE  rank_for_drop(board[p], t, c, k) \in Rank
<1> DEFINE b == board[p]
           log == heard[p]
           left == Remaining(b, c, t)
<1>1. LogOK(log) /\ b = from_state(log)
  BY PageShows
<1>2. /\ Ranked(LiesIn(log, c), b.rank)
      /\ IsRow(b.tasks_in[c], LiesIn(log, c), b.rank)
  BY <1>1, BoardIs
<1>3. left = Without(b.tasks_in[c], t)
  BY DEF Remaining, Without
<1>4. Len(left) \in Nat /\ left \in [1..Len(left) -> LiesIn(log, c) \ {t}]
  BY <1>2, <1>3, WithoutIs
<1>5. Ranked(LiesIn(log, c) \ {t}, b.rank)
  BY <1>2, FS_RemoveElement DEF Ranked
<1>6. \A i : RankAt(left, b.rank, i) \in Rank \cup {NoRank}
  <2> HIDE DEF left, b, log
  <2> QED
    BY <1>4, <1>5, RankAtIs
<1>7. rank_for_drop(b, t, c, k) =
        between(RankAt(left, b.rank, k - 1), RankAt(left, b.rank, k))
  BY DEF rank_for_drop
<1> QED
  BY <1>6, <1>7, BetweenIs

\* A card that is dropped lands where it was aimed (drop, move_task).
LEMMA Dropping ==
  ASSUME RanksInv, NEW p \in Peer, NEW t \in Nat \ {0}, NEW i, NEW before,
         drop(p, t, i, before)
  PROVE  RanksInv' /\ Aimed'
<1> DEFINE b == board[p]
           log == heard[p]
           c == b.columns[i]
           left == Remaining(b, c, t)
           k == IF In(left, before) THEN position(left, before) ELSE Len(left) + 1
           r == rank_for_drop(b, t, c, k)
           S == LiesIn(log, c)
<1>1. /\ i \in DOMAIN b.columns
      /\ before = 0 \/ In(b.tasks_in[c], before)
      /\ emit(p, "Place", t, c, r)
      /\ aim' = [page |-> p, what |-> "card", of |-> t, column |-> c, at |-> before,
                 apart |-> CardsApart(b, c)]
      /\ placing' = placing
  BY DEF drop, move_task, AimsCard
<1>2. c \in DOMAIN fold_columns(log) /\ c \in Nat
  BY <1>1, ColumnAt
<1>3. r \in Rank
  BY <1>2, DropRank
<1>4. RanksInv' /\ LogOK(log) /\ b = from_state(log)
  <2> HIDE DEF r, k, c, b
  <2> QED
    BY <1>1, <1>2, <1>3, EmittedIs, PageShows DEF b
<1>5. PICK new : Emits(p, new, "Place", t, c, r)
  <2> HIDE DEF r, k, c, b
  <2> QED
    BY <1>1, <1>2, <1>3, EmittedIs
<1> DEFINE now == log \cup {new}
           seen == board'[p]
<1>6. /\ fold_columns(now) = fold_columns(log)
      /\ LiesIn(now, c) = S \cup {t}
      /\ DOMAIN Laid(now) = DOMAIN Laid(log) \cup {t}
      /\ Laid(now)[t].rank = r
      /\ \A u \in DOMAIN Laid(log) \ {t} : Laid(now)[u] = Laid(log)[u]
  <2> HIDE DEF r, k, c, b
  <2>1. Follows(log, new) /\ new.op = "Place" /\ new.column \in DOMAIN fold_columns(log)
    BY <1>2, <1>5 DEF Emits
  <2>2. new.card = t /\ new.column = c /\ new.rank = r
    BY <1>5 DEF Emits
  <2> QED
    BY <2>1, <2>2, PlacedNow
<1>7. /\ b.rank = [u \in DOMAIN Laid(log) |-> Laid(log)[u].rank]
      /\ Ranked(S, b.rank) /\ 0 \notin S
      /\ IsRow(b.tasks_in[c], S, b.rank)
  <2> HIDE DEF r, k, c, b
  <2> QED
    BY <1>2, <1>4, BoardIs
<1>8. /\ seen.rank = [u \in DOMAIN Laid(now) |-> Laid(now)[u].rank]
      /\ seen.tasks_in[c] = Sorted(S \cup {t}, seen.rank)
  <2>1. LogOK(now) /\ seen = from_state(now)
    BY <1>5 DEF Emits
  <2> HIDE DEF r, k, c, b, now, seen
  <2>2. c \in DOMAIN fold_columns(now)
    BY <1>2, <1>6
  <2>3. /\ seen.rank = [u \in DOMAIN Laid(now) |-> Laid(now)[u].rank]
        /\ seen.tasks_in[c] = Sorted(LiesIn(now, c), seen.rank)
    BY <2>1, <2>2, BoardIs
  <2> QED
    BY <1>6, <2>3
<1>9. seen.rank[t] = r /\ \A u \in S \ {t} : seen.rank[u] = b.rank[u]
  <2>1. S \subseteq DOMAIN Laid(log)
    BY DEF LiesIn
  <2> HIDE DEF r, k, c, b, now, S, seen
  <2> QED
    BY <1>6, <1>7, <1>8, <2>1
<1>10. /\ left = Without(b.tasks_in[c], t)
       /\ r = between(RankAt(left, b.rank, k - 1), RankAt(left, b.rank, k))
  BY DEF Remaining, Without, rank_for_drop
<1>11. /\ Len(left) \in Nat /\ left \in [1..Len(left) -> S \ {t}]
       /\ \A x \in S \ {t} : \E j \in 1..Len(left) : left[j] = x
  <2> HIDE DEF left, r, k, c, b, S
  <2> QED
    BY <1>7, <1>10, WithoutIs
<1>12. /\ k \in 1..(Len(left) + 1)
       /\ In(left, before) => k <= Len(left) /\ left[k] = before
  <2> HIDE DEF left, b, c, S
  <2>1. CASE In(left, before)
    <3>1. position(left, before) \in 1..Len(left) /\ left[position(left, before)] = before
      BY <1>11, <2>1 DEF In, position
    <3> QED
      BY <1>11, <2>1, <3>1 DEF k
  <2>2. CASE ~In(left, before)
    BY <1>11, <2>2 DEF k
  <2> QED
    BY <2>1, <2>2
<1>13. ASSUME CardsApart(b, c)
       PROVE  Lain(seen.tasks_in[c], seen.rank, t, left, k)
  <2>1. Apart(b.tasks_in[c], b.rank)
    BY <1>13 DEF CardsApart
  <2> DEFINE old == b.tasks_in[c]
             old_rank == b.rank
             row == seen.tasks_in[c]
             rank == seen.rank
  <2>2. Lays(S, old_rank, old, t, left, k, rank, row)
    <3> HIDE DEF left, r, k, c, b, S, seen, now
    <3> QED
      BY <1>7, <1>8, <1>9, <1>10, <1>12, <2>1 DEF Lays
  <2> HIDE DEF left, k, S, old, old_rank, row, rank
  <2>3. Lain(row, rank, t, left, k)
    BY <2>2, Lands
  <2> QED
    BY <2>3 DEF row, rank
<1>14. before # t => (before = 0 /\ ~In(left, before)) \/ (before # 0 /\ In(left, before))
  <2>1. CASE before = 0
    <3>1. ~In(left, before)
      <4> HIDE DEF left, S
      <4> QED
        BY <1>7, <1>11, <2>1 DEF In
    <3> QED
      BY <2>1, <3>1
  <2>2. CASE before # 0 /\ before # t
    <3> HIDE DEF left, b, c, S
    <3>1. before \in S
      BY <1>1, <1>7, <2>2 DEF In, IsRow
    <3>2. PICK j \in 1..Len(left) : left[j] = before
      BY <1>11, <2>2, <3>1
    <3> QED
      BY <1>11, <2>2, <3>2 DEF In
  <2> QED
    BY <2>1, <2>2
<1> HIDE DEF left, r, k, c, b, S, now
<1>15. /\ aim'.page = p /\ aim'.what = "card" /\ aim'.of = t /\ aim'.column = c
       /\ aim'.at = before /\ aim'.apart = CardsApart(b, c)
  BY <1>1
<1>16. OwnMovesKeepApart'
  BY <1>13, <1>15 DEF OwnMovesKeepApart, CardsApart, Lain
<1>17. ASSUME CardsApart(b, c), before # t PROVE Landed'
  <2> DEFINE row == seen.tasks_in[c]
             next == position(row, t) + 1
  <2>1. Landed' <=> /\ In(row, t)
                    /\ IF before = 0 THEN next > Len(row)
                       ELSE next <= Len(row) /\ row[next] = before
    BY <1>15 DEF Landed
  <2>2. In(row, t) /\ next = k + 1 /\ Len(row) = Len(left) + 1
    BY <1>13, <1>17 DEF Lain
  <2> HIDE DEF row, next
  <2>3. CASE before = 0
    <3>1. k = Len(left) + 1
      BY <1>14, <1>17, <2>3 DEF k
    <3> QED
      BY <1>11, <2>1, <2>2, <2>3, <3>1
  <2>4. CASE before # 0
    <3>1. k <= Len(left) /\ left[k] = before
      BY <1>12, <1>14, <1>17, <2>4
    <3>2. row[k + 1] = before
      BY <1>13, <1>17, <3>1 DEF row, Lain
    <3> QED
      BY <1>11, <1>12, <2>1, <2>2, <2>4, <3>1, <3>2
  <2> QED
    BY <2>3, <2>4
<1>18. LandsWhereAimed'
  BY <1>15, <1>17 DEF LandsWhereAimed
<1> QED
  BY <1>4, <1>16, <1>18 DEF Aimed

\* The columns of a board, and of another on which one of them has a rank that is
\* given, or is there besides.
GivenRank(b, seen, c, rank) ==
  LET D == DOMAIN b.column_rank
  IN  /\ Ranked(D, b.column_rank) /\ IsRow(b.columns, D, b.column_rank)
      /\ b.columns = Sorted(D, b.column_rank)
      /\ b.column_rank = [d \in D |-> b.column_rank[d]]
      /\ seen.columns = Sorted(D \cup {c}, seen.column_rank)
      /\ seen.column_rank = [d \in D \cup {c} |-> seen.column_rank[d]]
      /\ seen.column_rank[c] = rank
      /\ \A d \in D \ {c} : seen.column_rank[d] = b.column_rank[d]

\* A column that is given a rank has it, and the others have theirs.
LEMMA SettingColumn ==
  ASSUME RanksInv, NEW p \in Peer, NEW c \in Nat, c \notin Removed(heard[p]),
         NEW rank \in Rank, NEW at, SetColumn(p, c, rank, at)
  PROVE  /\ RanksInv'
         /\ aim' = [page |-> p, what |-> "column", of |-> c, column |-> c, at |-> at,
                    apart |-> ColumnsApart(board[p])]
         /\ GivenRank(board[p], board'[p], c, rank)
<1> DEFINE b == board[p]
           seen == board'[p]
           log == heard[p]
           D == DOMAIN fold_columns(log)
<1>1. /\ emit(p, "SetColumn", 0, c, rank) /\ placing' = placing
      /\ aim' = [page |-> p, what |-> "column", of |-> c, column |-> c, at |-> at,
                 apart |-> ColumnsApart(b)]
  BY DEF SetColumn, AimsColumn
<1>2. RanksInv' /\ \E new : Emits(p, new, "SetColumn", 0, c, rank)
  <2> HIDE DEF b
  <2> QED
    BY <1>1, EmittedIs
<1>3. PICK new : Emits(p, new, "SetColumn", 0, c, rank)
  BY <1>2
<1>4. /\ b.column_rank = fold_columns(log) /\ b.columns = RowOf(log)
      /\ IsRow(b.columns, D, fold_columns(log)) /\ Ranked(D, fold_columns(log))
  <2>1. LogOK(log) /\ b = from_state(log)
    BY PageShows
  <2> HIDE DEF b, log
  <2>2. /\ b.column_rank = fold_columns(log) /\ b.columns = RowOf(log)
        /\ IsRow(b.columns, D, fold_columns(log))
    BY <2>1, BoardIs
  <2>3. Ranked(D, fold_columns(log))
    BY <2>1, ColumnsAre
  <2> QED
    BY <2>2, <2>3
<1> DEFINE now == log \cup {new}
<1>5. /\ DOMAIN fold_columns(now) = D \cup {c}
      /\ fold_columns(now)[c] = rank
      /\ \A d \in D \ {c} : fold_columns(now)[d] = fold_columns(log)[d]
  <2>1. /\ Follows(log, new) /\ new.op = "SetColumn"
        /\ new.column = c /\ new.rank = rank
    BY <1>3 DEF Emits
  <2>2. new.column \notin Removed(log)
    BY <2>1
  <2> HIDE DEF log, b, seen
  <2>3. /\ DOMAIN fold_columns(now) = D \cup {new.column}
        /\ fold_columns(now)[new.column] = new.rank
        /\ \A d \in D \ {new.column} : fold_columns(now)[d] = fold_columns(log)[d]
    BY <2>1, <2>2, SetNow
  <2> HIDE DEF now, D
  <2> QED
    BY <2>1, <2>3
<1>6. seen.column_rank = fold_columns(now) /\ seen.columns = RowOf(now)
  <2>1. LogOK(now) /\ seen = from_state(now)
    BY <1>3 DEF Emits
  <2> HIDE DEF now, seen
  <2> QED
    BY <2>1, BoardIs
<1>7. \A o : fold_columns(o) = [d \in DOMAIN fold_columns(o) |-> fold_columns(o)[d]]
  BY DEF fold_columns
<1>8. /\ fold_columns(now) = [d \in D \cup {c} |-> fold_columns(now)[d]]
      /\ fold_columns(log) = [d \in D |-> fold_columns(log)[d]]
  <2>1. fold_columns(now) = [d \in DOMAIN fold_columns(now) |-> fold_columns(now)[d]]
    BY <1>7
  <2>2. fold_columns(log) = [d \in DOMAIN fold_columns(log) |-> fold_columns(log)[d]]
    BY <1>7
  <2> HIDE DEF now, log
  <2> QED
    BY <1>5, <2>1, <2>2
<1>9. /\ RowOf(now) = Sorted(D \cup {c}, fold_columns(now))
      /\ RowOf(log) = Sorted(D, fold_columns(log))
  <2> HIDE DEF now, log
  <2> QED
    BY <1>5 DEF RowOf
<1>10. GivenRank(b, seen, c, rank)
  <2> HIDE DEF now, log, b, seen
  <2> QED
    BY <1>4, <1>5, <1>6, <1>8, <1>9 DEF GivenRank
<1> QED
  BY <1>1, <1>2, <1>10

\* A column is given the rank between the neighbours it will have, as the at-th.
Between(b, c, rank, left, at) ==
  /\ left = Without(b.columns, c) /\ at \in 1..(Len(left) + 1)
  /\ rank = between(RankAt(left, b.column_rank, at - 1), RankAt(left, b.column_rank, at))

\* That is where it comes to lie.
LEMMA ColumnLands ==
  ASSUME RanksInv, NEW p \in Peer, NEW c \in Nat, c \notin Removed(heard[p]),
         NEW rank \in Rank, NEW at, SetColumn(p, c, rank, at),
         NEW left, Between(board[p], c, rank, left, at)
  PROVE  RanksInv' /\ Aimed'
<1> DEFINE b == board[p]
           seen == board'[p]
           old == b.columns
           old_rank == b.column_rank
           row == seen.columns
           new == seen.column_rank
           D == DOMAIN old_rank
<1>1. /\ RanksInv'
      /\ aim' = [page |-> p, what |-> "column", of |-> c, column |-> c, at |-> at,
                 apart |-> ColumnsApart(board[p])]
      /\ GivenRank(board[p], board'[p], c, rank)
  BY SettingColumn
<1>2. /\ aim'.page = p /\ aim'.what = "column" /\ aim'.of = c /\ aim'.at = at
      /\ aim'.apart = ColumnsApart(board[p])
  BY <1>1
<1>3. ASSUME ColumnsApart(b) PROVE ColumnsApart(seen) /\ position(row, c) = at
  <2>1. Lays(D, old_rank, old, c, left, at, new, row)
    <3>1. Apart(old, old_rank)
      BY <1>3 DEF ColumnsApart
    <3>2. /\ left = Without(old, c) /\ at \in 1..(Len(left) + 1)
          /\ rank = between(RankAt(left, old_rank, at - 1), RankAt(left, old_rank, at))
      BY DEF Between
    <3>3. /\ Ranked(D, old_rank) /\ IsRow(old, D, old_rank)
          /\ row = Sorted(D \cup {c}, new) /\ new[c] = rank
          /\ \A d \in D \ {c} : new[d] = old_rank[d]
      BY <1>1 DEF GivenRank
    <3> HIDE DEF D, old, old_rank, row, new
    <3> QED
      BY <3>1, <3>2, <3>3 DEF Lays
  <2> HIDE DEF D, old, old_rank, row, new
  <2>2. Lain(row, new, c, left, at)
    BY <2>1, Lands
  <2>3. Apart(row, new) /\ position(row, c) = at
    BY <2>2 DEF Lain
  <2> QED
    BY <2>3 DEF ColumnsApart, row, new
<1>4. OwnMovesKeepApart'
  BY <1>2, <1>3 DEF OwnMovesKeepApart, ColumnsApart
<1>5. LandsWhereAimed'
  BY <1>2, <1>3 DEF LandsWhereAimed, Landed
<1> QED
  BY <1>1, <1>4, <1>5 DEF Aimed

\* A new column goes last.
LEMMA AddingColumn ==
  ASSUME RanksInv, NEW p \in Peer, NEW c \in Nat, add_column(p, c)
  PROVE  RanksInv' /\ Aimed'
<1> DEFINE b == board[p]
           n == Len(b.columns)
           rank == IF n = 0 THEN middle ELSE after(b.column_rank[b.columns[n]])
<1>1. c \notin {o.column : o \in written} /\ SetColumn(p, c, rank, n + 1)
  BY DEF add_column
<1>2. LogOK(heard[p]) /\ b = from_state(heard[p]) /\ heard[p] \subseteq written
  BY PageShows
<1>3. c \notin Removed(heard[p]) /\ c \notin DOMAIN fold_columns(heard[p])
  BY <1>1, <1>2 DEF Removed, fold_columns
<1>4. /\ b.column_rank = fold_columns(heard[p])
      /\ IsRow(b.columns, DOMAIN fold_columns(heard[p]), fold_columns(heard[p]))
  <2> HIDE DEF b
  <2> QED
    BY <1>2, BoardIs
<1>5. n \in Nat /\ DOMAIN b.columns = 1..n /\ Without(b.columns, c) = b.columns
  <2>1. n \in Nat /\ b.columns \in [1..n -> DOMAIN fold_columns(heard[p])]
    BY <1>4 DEF IsRow
  <2> HIDE DEF b, n
  <2>2. ~In(b.columns, c)
    BY <1>3, <2>1 DEF In
  <2>3. Without(b.columns, c) = b.columns
    BY <2>2 DEF Without
  <2> QED
    BY <2>1, <2>3
<1>6. n # 0 => b.column_rank[b.columns[n]] \in Rank
  BY <1>5, ColumnAt
<1>7. rank \in Rank
  BY <1>6, MiddleIs, BetweenIs DEF after, NoRank
<1>8. /\ n + 1 \in 1..(Len(b.columns) + 1)
      /\ rank = between(RankAt(b.columns, b.column_rank, n + 1 - 1),
                        RankAt(b.columns, b.column_rank, n + 1))
  <2>1. RankAt(b.columns, b.column_rank, n + 1) = NoRank
    BY <1>5 DEF RankAt, NoRank
  <2>2. CASE n = 0
    <3>1. RankAt(b.columns, b.column_rank, n + 1 - 1) = NoRank
      BY <1>5, <2>2 DEF RankAt, NoRank
    <3> QED
      BY <1>5, <2>1, <2>2, <3>1, MiddleIs
  <2>3. CASE n # 0
    <3>1. RankAt(b.columns, b.column_rank, n + 1 - 1) = b.column_rank[b.columns[n]]
      BY <1>5, <2>3 DEF RankAt
    <3> QED
      BY <1>5, <2>1, <2>3, <3>1 DEF after, NoRank
  <2> QED
    BY <2>2, <2>3
<1>9. Between(board[p], c, rank, b.columns, n + 1)
  <2> HIDE DEF rank, n
  <2> QED
    BY <1>5, <1>8 DEF Between
<1> HIDE DEF rank, n, b
<1> QED
  BY <1>1, <1>3, <1>7, <1>9, ColumnLands

\* A column that is shifted has for neighbours the two that `shift_rank` takes,
\* once it has gone from where it was.
LEMMA ShiftingColumn ==
  ASSUME RanksInv, NEW p \in Peer, NEW i, NEW target, shift_column(p, i, target)
  PROVE  RanksInv' /\ Aimed'
<1> DEFINE b == board[p]
           c == b.columns[i]
           rank == shift_rank(b, i, target)
           n == Len(b.columns)
           left == Without(b.columns, c)
           Rank0(k) == RankAt(b.columns, b.column_rank, k)
           Rank1(k) == RankAt(left, b.column_rank, k)
<1>1. /\ i \in DOMAIN b.columns /\ target \in DOMAIN b.columns
      /\ target \in {i - 1, i + 1} /\ SetColumn(p, c, rank, target)
  BY DEF shift_column
<1>2. /\ c \in DOMAIN fold_columns(heard[p]) /\ c \in Nat /\ c \notin Removed(heard[p])
  BY <1>1, ColumnAt
<1>3. /\ b.column_rank = fold_columns(heard[p])
      /\ IsRow(b.columns, DOMAIN fold_columns(heard[p]), fold_columns(heard[p]))
  <2>1. LogOK(heard[p]) /\ b = from_state(heard[p])
    BY PageShows
  <2> HIDE DEF b
  <2> QED
    BY <2>1, BoardIs
<1>4. /\ n \in Nat /\ DOMAIN b.columns = 1..n /\ i \in 1..n /\ target \in 1..n
      /\ position(b.columns, c) = i /\ In(b.columns, c)
  BY <1>1, <1>3 DEF IsRow, In
<1>5. left = [k \in 1..(n - 1) |-> IF k < i THEN b.columns[k] ELSE b.columns[k + 1]]
  <2> HIDE DEF c, b
  <2> QED
    BY <1>4 DEF Without
<1>6. n - 1 \in Nat /\ Len(left) = n - 1 /\ DOMAIN left = 1..(n - 1)
  <2>1. n - 1 \in Nat
    BY <1>4
  <2> HIDE DEF left, n
  <2> QED
    BY <1>5, <2>1
<1>7. rank = between(Rank1(target - 1), Rank1(target))
  <2>1. \A k \in 1..(n - 1) : left[k] = IF k < i THEN b.columns[k] ELSE b.columns[k + 1]
    <3> HIDE DEF left, n
    <3> QED
      BY <1>5
  <2> HIDE DEF left, n, b
  <2>2. CASE target = i - 1
    <3>1. rank = between(Rank0(target - 1), Rank0(target))
      BY <1>4, <2>2 DEF shift_rank
    <3>2. Rank0(target) = Rank1(target) /\ Rank0(target - 1) = Rank1(target - 1)
      BY <1>4, <1>6, <2>1, <2>2 DEF RankAt
    <3> QED
      BY <3>1, <3>2
  <2>3. CASE target = i + 1
    <3>1. rank = between(Rank0(target), Rank0(target + 1))
      BY <1>4, <2>3 DEF shift_rank
    <3>2. Rank0(target) = Rank1(target - 1) /\ Rank0(target + 1) = Rank1(target)
      BY <1>4, <1>6, <2>1, <2>3 DEF RankAt
    <3> QED
      BY <3>1, <3>2
  <2> QED
    BY <1>1, <2>2, <2>3
<1>8. rank \in Rank
  <2>1. ASSUME NEW k PROVE Rank0(k) \in Rank \cup {NoRank}
    BY ColumnAt DEF RankAt, NoRank
  <2>2. rank \in {between(Rank0(target - 1), Rank0(target)),
                  between(Rank0(target), Rank0(target + 1))}
    BY DEF shift_rank
  <2> HIDE DEF Rank0, rank
  <2> QED
    BY <2>1, <2>2, BetweenIs
<1>9. target \in 1..(Len(left) + 1)
  BY <1>4, <1>6
<1>10. Between(board[p], c, rank, left, target)
  <2> HIDE DEF rank, c
  <2> QED
    BY <1>7, <1>9 DEF Between
<1> HIDE DEF rank, left, c
<1> QED
  BY <1>1, <1>2, <1>8, <1>10, ColumnLands

\* A column that is renamed stays: it is given the rank it has.
LEMMA RenamingColumn ==
  ASSUME RanksInv, NEW p \in Peer, NEW i, rename_column(p, i)
  PROVE  RanksInv' /\ Aimed'
<1> DEFINE b == board[p]
           c == b.columns[i]
           seen == board'[p]
           D == DOMAIN b.column_rank
<1>1. i \in DOMAIN b.columns /\ SetColumn(p, c, b.column_rank[c], i)
  BY DEF rename_column
<1>2. /\ c \in DOMAIN fold_columns(heard[p]) /\ c \in Nat /\ c \notin Removed(heard[p])
      /\ b.column_rank[c] \in Rank
  BY <1>1, ColumnAt
<1>3. /\ RanksInv'
      /\ aim' = [page |-> p, what |-> "column", of |-> c, column |-> c, at |-> i,
                 apart |-> ColumnsApart(board[p])]
      /\ GivenRank(board[p], board'[p], c, b.column_rank[c])
  <2> DEFINE rank == b.column_rank[c]
  <2>1. rank \in Rank /\ SetColumn(p, c, rank, i)
    BY <1>1, <1>2
  <2> HIDE DEF c, rank
  <2>2. /\ RanksInv'
        /\ aim' = [page |-> p, what |-> "column", of |-> c, column |-> c, at |-> i,
                   apart |-> ColumnsApart(board[p])]
        /\ GivenRank(board[p], board'[p], c, rank)
    BY <1>2, <2>1, SettingColumn
  <2> QED
    BY <2>2 DEF rank
<1>4. c \in D /\ position(b.columns, c) = i
  <2>1. IsRow(b.columns, D, b.column_rank)
    BY <1>3 DEF GivenRank
  <2> QED
    BY <1>1, <2>1 DEF IsRow
<1>5. seen.column_rank = b.column_rank /\ seen.columns = b.columns
  <2>1. /\ b.columns = Sorted(D, b.column_rank)
        /\ b.column_rank = [d \in D |-> b.column_rank[d]]
        /\ seen.columns = Sorted(D \cup {c}, seen.column_rank)
        /\ seen.column_rank = [d \in D \cup {c} |-> seen.column_rank[d]]
        /\ seen.column_rank[c] = b.column_rank[c]
        /\ \A d \in D \ {c} : seen.column_rank[d] = b.column_rank[d]
    BY <1>3 DEF GivenRank
  <2> HIDE DEF D, seen, b, c
  <2>2. D \cup {c} = D
    BY <1>4
  <2>3. \A d \in D : seen.column_rank[d] = b.column_rank[d]
    BY <2>1
  <2>4. seen.column_rank = b.column_rank
    BY <2>1, <2>2, <2>3
  <2> QED
    BY <2>1, <2>2, <2>4
<1>6. /\ aim'.page = p /\ aim'.what = "column" /\ aim'.of = c /\ aim'.at = i
      /\ aim'.apart = ColumnsApart(b)
  BY <1>3
<1> HIDE DEF c
<1>7. OwnMovesKeepApart'
  BY <1>5, <1>6 DEF OwnMovesKeepApart, ColumnsApart
<1>8. LandsWhereAimed'
  BY <1>4, <1>5, <1>6 DEF LandsWhereAimed, Landed
<1> QED
  BY <1>3, <1>7, <1>8 DEF Aimed

-----------------------------------------------------------------------------
(* The other steps, and all of them.                                       *)

\* A card on a board is a number, and not 0.
LEMMA CardAt ==
  ASSUME RanksInv, NEW p \in Peer, NEW t \in DOMAIN board[p].rank
  PROVE  t \in Nat \ {0}
<1>1. LogOK(heard[p]) /\ board[p] = from_state(heard[p])
  BY PageShows
<1>2. /\ board[p].rank = [u \in DOMAIN Laid(heard[p]) |-> Laid(heard[p])[u].rank]
      /\ DOMAIN Laid(heard[p]) = DOMAIN fold_tasks(heard[p])
  BY <1>1, BoardIs
<1>3. DOMAIN fold_tasks(heard[p]) \subseteq Nat \ {0}
  BY <1>1, CardsAre
<1> QED
  BY <1>2, <1>3

\* What follows moves nothing by hand, and keeps the rest so: a card is taken off,
LEMMA TakingOff ==
  ASSUME RanksInv, NEW p \in Peer, NEW t, unplace_task(p, t)
  PROVE  RanksInv' /\ Aimed'
<1>1. t \in DOMAIN board[p].rank /\ emit(p, "Unplace", t, 0, NoRank)
      /\ aim' = NoAim /\ placing' = placing
  BY DEF unplace_task, NoRank
<1>2. t \in Nat
  BY <1>1, CardAt
<1>3. RanksInv'
  BY <1>1, <1>2, EmittedIs
<1> QED
  BY <1>1, <1>3, NothingAimed

\* a column is removed,
LEMMA RemovingColumn ==
  ASSUME RanksInv, NEW p \in Peer, NEW i, remove_column(p, i)
  PROVE  RanksInv' /\ Aimed'
<1>1. /\ i \in DOMAIN board[p].columns
      /\ emit(p, "RemoveColumn", 0, board[p].columns[i], NoRank)
      /\ aim' = NoAim /\ placing' = placing
  BY DEF remove_column, NoRank
<1>2. board[p].columns[i] \in Nat
  BY <1>1, ColumnAt
<1>3. RanksInv'
  BY <1>1, <1>2, EmittedIs
<1> QED
  BY <1>1, <1>3, NothingAimed

\* a place is chosen for a new card,
LEMMA Creating ==
  ASSUME RanksInv, NEW p \in Peer, NEW t \in NewCards, NEW i, create_task(p, t, i)
  PROVE  RanksInv' /\ Aimed'
<1> DEFINE c == board[p].columns[i]
           r == rank_for_drop(board[p], 0, c, Len(board[p].tasks_in[c]) + 1)
<1>1. /\ i \in DOMAIN board[p].columns
      /\ placing' = [placing EXCEPT ![p] = [card |-> t, column |-> c, rank |-> r]]
      /\ aim' = NoAim /\ UNCHANGED <<written, heard, board>>
      /\ t \notin {o.card : o \in written}
  BY DEF create_task
<1>2. t \in Nat \ {0}
  BY <1>1, RanksAssumption DEF RanksInv
<1>3. c \in DOMAIN fold_columns(heard[p]) /\ c \in Nat
  BY <1>1, ColumnAt
<1> HIDE DEF c
<1>4. r \in Rank
  BY <1>3, DropRank
<1> HIDE DEF r
<1>5. placing' \in [Peer -> {NoCard} \cup [card : Nat \ {0}, column : Nat, rank : Rank]]
  BY <1>1, <1>2, <1>3, <1>4 DEF RanksInv
<1>6. LogOK(written)'
  BY <1>1 DEF RanksInv, LogOK
<1>7. RanksInv'
  BY <1>1, <1>5, <1>6 DEF RanksInv
<1> QED
  BY <1>1, <1>7, NothingAimed

\* and taken, wherever the others have got to since;
LEMMA Finishing ==
  ASSUME RanksInv, NEW p \in Peer, finish_placement(p)
  PROVE  RanksInv' /\ Aimed'
<1> DEFINE card == placing[p].card
           column == placing[p].column
           rank == placing[p].rank
<1>1. /\ placing[p] # NoCard /\ emit(p, "Place", card, column, rank)
      /\ placing' = [placing EXCEPT ![p] = NoCard]
      /\ aim' = NoAim
  BY DEF finish_placement
<1>2. placing \in [Peer -> {NoCard} \cup [card : Nat \ {0}, column : Nat, rank : Rank]]
  BY DEF RanksInv
<1>3. card \in Nat \ {0} /\ column \in Nat /\ rank \in Rank
  BY <1>1, <1>2
<1>4. placing' \in [Peer -> {NoCard} \cup [card : Nat \ {0}, column : Nat, rank : Rank]]
  BY <1>1, <1>2
<1> HIDE DEF card, column, rank
<1>5. /\ LogOK(written)'
      /\ heard' \in [Peer -> SUBSET written']
      /\ board' = [q \in Peer |-> from_state(heard'[q])]
      /\ \A q \in Peer, o \in written' : o.by \in {0, q} => o \in heard'[q]
      /\ \E o \in written' : o.by = 0 /\ o.card = 0
  BY <1>1, <1>3, EmittedIs
<1>6. RanksInv'
  BY <1>4, <1>5 DEF RanksInv
<1> QED
  BY <1>1, <1>6, NothingAimed

\* what the others have written is heard.
LEMMA Hearing ==
  ASSUME RanksInv, NEW p \in Peer, receive_change(p)
  PROVE  RanksInv' /\ Aimed'
<1>1. /\ heard' = [heard EXCEPT ![p] = written]
      /\ board' = [board EXCEPT ![p] = from_state(written)]
      /\ aim' = NoAim /\ written' = written /\ placing' = placing
  BY DEF receive_change
<1>2. heard' \in [Peer -> SUBSET written']
  BY <1>1 DEF RanksInv
<1>3. board' = [q \in Peer |-> from_state(heard'[q])]
  BY <1>1 DEF RanksInv
<1>4. \A q \in Peer, o \in written' : o.by \in {0, q} => o \in heard'[q]
  BY <1>1 DEF RanksInv
<1>5. LogOK(written)'
  BY <1>1 DEF RanksInv, LogOK
<1>6. RanksInv'
  BY <1>1, <1>2, <1>3, <1>4, <1>5 DEF RanksInv
<1> QED
  BY <1>1, <1>6, NothingAimed

\* Every step keeps it so, and what is moved lands.
LEMMA RanksStep ==
  ASSUME RanksInv, Aimed, [RanksNext]_ranks_vars
  PROVE  RanksInv' /\ Aimed'
<1>1. CASE UNCHANGED ranks_vars
  <2>1. /\ written' = written /\ heard' = heard /\ board' = board
        /\ placing' = placing /\ aim' = aim
    BY <1>1 DEF ranks_vars
  <2>2. RanksInv'
    BY <2>1 DEF RanksInv, LogOK
  <2>3. LandsWhereAimed'
    BY <2>1 DEF Aimed, LandsWhereAimed, Landed
  <2>4. OwnMovesKeepApart'
    BY <2>1 DEF Aimed, OwnMovesKeepApart, ColumnsApart, CardsApart
  <2> QED
    BY <2>2, <2>3, <2>4 DEF Aimed
<1>2. CASE RanksNext
  <2>1. PICK p \in Peer :
          \/ \E t \in {o.card : o \in heard[p]} \ {0} :
               \/ unplace_task(p, t)
               \/ \E i \in DOMAIN board[p].columns, before \in {o.card : o \in heard[p]} :
                    drop(p, t, i, before)
          \/ \E t \in NewCards : \E i \in DOMAIN board[p].columns : create_task(p, t, i)
          \/ finish_placement(p)
          \/ \E c \in NewColumns : add_column(p, c)
          \/ \E i \in DOMAIN board[p].columns :
               \/ rename_column(p, i) \/ remove_column(p, i)
               \/ \E target \in DOMAIN board[p].columns : shift_column(p, i, target)
          \/ receive_change(p)
    BY <1>2 DEF RanksNext
  <2>2. ASSUME NEW t \in {o.card : o \in heard[p]} \ {0}, unplace_task(p, t)
        PROVE  RanksInv' /\ Aimed'
    BY <2>2, TakingOff
  <2>3. ASSUME NEW t \in {o.card : o \in heard[p]} \ {0}, NEW i, NEW before,
               drop(p, t, i, before)
        PROVE  RanksInv' /\ Aimed'
    <3>1. t \in Nat \ {0}
      BY PageShows DEF LogOK, OpOK
    <3> QED
      BY <2>3, <3>1, Dropping
  <2>4. ASSUME NEW t \in NewCards, NEW i, create_task(p, t, i)
        PROVE  RanksInv' /\ Aimed'
    BY <2>4, Creating
  <2>5. ASSUME NEW c \in NewColumns, add_column(p, c) PROVE RanksInv' /\ Aimed'
    <3>1. c \in Nat
      BY RanksAssumption
    <3> QED
      BY <2>5, <3>1, AddingColumn
  <2>6. ASSUME NEW i, rename_column(p, i) PROVE RanksInv' /\ Aimed'
    BY <2>6, RenamingColumn
  <2>7. ASSUME NEW i, remove_column(p, i) PROVE RanksInv' /\ Aimed'
    BY <2>7, RemovingColumn
  <2>8. ASSUME NEW i, NEW target, shift_column(p, i, target) PROVE RanksInv' /\ Aimed'
    BY <2>8, ShiftingColumn
  <2>9. CASE finish_placement(p)
    BY <2>9, Finishing
  <2>10. CASE receive_change(p)
    BY <2>10, Hearing
  <2> QED
    BY <2>1, <2>2, <2>3, <2>4, <2>5, <2>6, <2>7, <2>8, <2>9, <2>10
<1> QED
  BY <1>1, <1>2

\* A page shows what it has heard, no two log have one stamp, every place has a
\* rank, and the last thing done by hand has done what it was to.
THEOREM RanksSafety == RanksSpec => [](RanksInv /\ Aimed)
<1>1. RanksInit => RanksInv /\ Aimed
  <2>1. RanksInit => Aimed
    BY DEF RanksInit, Aimed, LandsWhereAimed, OwnMovesKeepApart
  <2> QED
    BY <2>1, RanksInitially
<1>2. (RanksInv /\ Aimed) /\ [RanksNext]_ranks_vars => (RanksInv /\ Aimed)'
  BY RanksStep
<1> QED
  BY <1>1, <1>2, PTL DEF RanksSpec

\* What is dropped lies above the strip it was dropped on, or last; a column
\* that is shifted goes one place over, a new one is last, and one that is
\* renamed stays (store.rs:1017-1150).
THEOREM MovesLand == RanksSpec => []LandsWhereAimed
<1>1. RanksInv /\ Aimed => LandsWhereAimed
  BY DEF Aimed
<1> QED
  BY <1>1, RanksSafety, PTL

\* No page's own moves make two ranks equal (rank.rs:42-46).
THEOREM MovesKeepApart == RanksSpec => []OwnMovesKeepApart
<1>1. RanksInv /\ Aimed => OwnMovesKeepApart
  BY DEF Aimed
<1> QED
  BY <1>1, RanksSafety, PTL

=============================================================================
