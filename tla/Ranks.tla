-------------------------------- MODULE Ranks ---------------------------------
(***************************************************************************)
(* Where things lie on a board: the ranks of pj-core/src/rank.rs, the order*)
(* board.rs makes of them, and the moves of pj-web (store.rs, ui/board.rs),*)
(* made on several pages of one board that hear of each other late.        *)
(*                                                                         *)
(* A rank is its digits, read as a fraction: <<2, 0, 1>> is 0.201 to the   *)
(* base BASE.  No rank is empty, so that << >> stands for no rank at all.  *)
(* Cards and columns are numbers, in the order of their ids; so are pages: *)
(* of two ops with one lamport that of the lower page comes first.         *)
(* Everybody may do everything here; who may is in Views and Membership.   *)
(***************************************************************************)
EXTENDS Naturals, Sequences, FiniteSets

CONSTANTS
  BASE,        \* of the digits; 62 in the code
  Peer,        \* the pages that have the board open
  Starts,      \* how to begin: with so many columns, with so many cards in the
               \* first of them, and so many ops yet to be written (a bound)
  NewCards, NewColumns  \* numbers for those to come

ASSUME RanksAssumption ==
  /\ BASE \in Nat /\ BASE > 1
  /\ Peer \subseteq Nat \ {0}
  /\ Starts \subseteq [columns : Nat \ {0}, cards : Nat, writes : Nat]
  /\ NewCards \cup NewColumns \subseteq Nat
  /\ \A s \in Starts : NewCards \cap 0..s.cards = {} /\ NewColumns \cap 0..s.columns = {}

VARIABLES
  written,   \* every op about places on the board
  heard,     \* for each page, the ops it has
  board,     \* for each page, what it shows of those
  placing,   \* for each page, the new card that is being stored, or NoCard
  aim,       \* what was last done by hand, and what it was to bring about
  writes     \* how many more ops are written

ranks_vars == <<written, heard, board, placing, aim, writes>>

NoCard == [card |-> 0]
NoAim == [page |-> 0]

-----------------------------------------------------------------------------
(* Ranks.                                                                  *)

\* Comparing strings of digits is comparing fractions.
Below(r, s) ==
  \E i \in 1..Len(s) :
    /\ \A j \in 1..(i - 1) : j <= Len(r) /\ r[j] = s[j]
    /\ i > Len(r) \/ r[i] < s[i]

\* The digits past its end are zeros.
digit(r, i) == IF i <= Len(r) THEN r[i] ELSE 0

\* The digits of `a` while the bounds leave no room, and then one between: the
\* upper bound is released past a digit of `a` that is just below its own.
midpoint(a, b) ==
  LET bounded_above(i) ==
        b # << >> /\ \A j \in 1..(i - 1) : digit(b, j) # digit(a, j) + 1
      ran_out(i) == bounded_above(i) /\ i > Len(b)
      hi(i) == IF bounded_above(i) THEN digit(b, i) ELSE BASE
      ends(i) == ran_out(i) \/ hi(i) > digit(a, i) + 1
      n == CHOOSE i \in 1..(Len(a) + Len(b) + 1) :
             ends(i) /\ \A j \in 1..(i - 1) : ~ends(j)
  IN  [i \in 1..n |->
         CASE i < n -> digit(a, i)
           [] i = n /\ ran_out(n) -> BASE \div 2
           [] OTHER -> (digit(a, n) + hi(n)) \div 2]

\* A reversed or an equal pair: after `lo`.
between(lo, hi) ==
  IF lo # << >> /\ hi # << >> /\ ~Below(lo, hi)
  THEN midpoint(lo, << >>)
  ELSE midpoint(lo, hi)

middle == midpoint(<< >>, << >>)
after(lo) == between(lo, << >>)

-----------------------------------------------------------------------------
(* A board.                                                                *)

Precedes(o, p) == o.lamport < p.lamport \/ (o.lamport = p.lamport /\ o.by < p.by)
Newest(ops) == CHOOSE o \in ops : \A p \in ops \ {o} : Precedes(p, o)

\* Things by rank, then by id.
Sorted(S, rank) ==
  LET before == [x \in S |->
        Cardinality({y \in S : Below(rank[y], rank[x]) \/ (rank[y] = rank[x] /\ y < x)})]
  IN  [i \in 1..Cardinality(S) |-> CHOOSE x \in S : before[x] = i - 1]

Removed(ops) == {o.column : o \in {p \in ops : p.op = "RemoveColumn"}}

\* The rank of each column that is left.
fold_columns(ops) ==
  LET set == {o \in ops : o.op = "SetColumn"}
  IN  [c \in {o.column : o \in set} \ Removed(ops) |->
         Newest({o \in set : o.column = c}).rank]

\* A card lies where it was last put, unless it was taken off since.
fold_tasks(ops) ==
  LET moved == {o \in ops : o.op \in {"Place", "Unplace"}}
      last == [t \in {o.card : o \in moved} |-> Newest({o \in moved : o.card = t})]
  IN  [t \in {u \in DOMAIN last : last[u].op = "Place"} |->
         [column |-> last[t].column, rank |-> last[t].rank]]

\* The cards of a removed column go to the first, if one is left.
drop_removed_columns(removed, row, tasks) ==
  [t \in DOMAIN tasks |->
     IF row # << >> /\ tasks[t].column \in removed
     THEN [tasks[t] EXCEPT !.column = row[1]]
     ELSE tasks[t]]

\* The columns in order, the cards of each (tasks_in), and the ranks of both.
from_state(ops) ==
  LET column_rank == fold_columns(ops)
      columns == Sorted(DOMAIN column_rank, column_rank)
      tasks == drop_removed_columns(Removed(ops), columns, fold_tasks(ops))
      rank == [t \in DOMAIN tasks |-> tasks[t].rank]
  IN  [columns |-> columns,
       column_rank |-> column_rank,
       tasks_in |-> [c \in DOMAIN column_rank |->
                       Sorted({t \in DOMAIN tasks : tasks[t].column = c}, rank)],
       rank |-> rank]

In(row, x) == \E i \in DOMAIN row : row[i] = x
position(row, x) == CHOOSE i \in DOMAIN row : row[i] = x

\* The cards of a column without one.
Remaining(b, c, t) ==
  LET row == b.tasks_in[c]
  IN  IF In(row, t)
      THEN [i \in 1..(Len(row) - 1) |->
              IF i < position(row, t) THEN row[i] ELSE row[i + 1]]
      ELSE row

-----------------------------------------------------------------------------
(* Places.                                                                 *)

\* The rank of the i-th of a row, if there is one.
RankAt(row, rank, i) == IF i \in DOMAIN row THEN rank[row[i]] ELSE << >>

\* A mutated form: the card that is moved is counted among its neighbours.
DropAmongAll(b, t, c, index) ==
  between(RankAt(b.tasks_in[c], b.rank, index - 1), RankAt(b.tasks_in[c], b.rank, index))

\* Between the neighbours a card will have at this index; the card that is
\* moved is not one.
rank_for_drop(b, t, c, index) ==
  LET row == Remaining(b, c, t)
  IN  between(RankAt(row, b.rank, index - 1), RankAt(row, b.rank, index))

\* Between the columns that are its neighbours once a column has gone from
\* where it was, on its way to `target`.
shift_rank(b, at, target) ==
  LET Rank(i) == RankAt(b.columns, b.column_rank, i)
  IN  IF target < at
      THEN between(Rank(target - 1), Rank(target))
      ELSE between(Rank(target), Rank(target + 1))

-----------------------------------------------------------------------------

Op(op, card, column, rank, lamport, by) ==
  [op |-> op, card |-> card, column |-> column, rank |-> rank,
   lamport |-> lamport, by |-> by]

\* The ranks of what is added at the end, one after the other.
Row(n) ==
  LET at[i \in 1..n] == IF i = 1 THEN middle ELSE after(at[i - 1])
  IN  at

genesis_ops(n) == {Op("SetColumn", 0, c, Row(n)[c], c, 0) : c \in 1..n}
Deal(s) == {Op("Place", t, 1, Row(s.cards)[t], s.columns + t, 0) : t \in 1..s.cards}

RanksInit ==
  \E s \in Starts :
    /\ written = genesis_ops(s.columns) \cup Deal(s)
    /\ writes = s.writes
    /\ heard = [p \in Peer |-> written]
    /\ board = [p \in Peer |-> from_state(written)]
    /\ placing = [p \in Peer |-> NoCard]
    /\ aim = NoAim

next_lamport(ops) ==
  1 + (CHOOSE n \in {o.lamport : o \in ops} : \A o \in ops : o.lamport <= n)

\* Stamped past all the page has, and shown at once.
emit(p, op, card, column, rank) ==
  LET new == Op(op, card, column, rank, next_lamport(heard[p]), p)
  IN  /\ writes > 0 /\ writes' = writes - 1
      /\ written' = written \cup {new}
      /\ heard' = [heard EXCEPT ![p] = @ \cup {new}]
      /\ board' = [board EXCEPT ![p] = from_state(heard[p] \cup {new})]

\* Whether no two of a row have one rank.
Apart(row, rank) == \A i, j \in DOMAIN row : rank[row[i]] = rank[row[j]] => i = j
CardsApart(b, c) == Apart(b.tasks_in[c], b.rank)
ColumnsApart(b) == Apart(b.columns, b.column_rank)

\* A card is to lie above `before`, or last; a column is to be the `at`-th.
AimsCard(p, t, c, before) ==
  aim' = [page |-> p, what |-> "card", of |-> t, column |-> c, at |-> before,
          apart |-> CardsApart(board[p], c)]
AimsColumn(p, c, at) ==
  aim' = [page |-> p, what |-> "column", of |-> c, column |-> c, at |-> at,
          apart |-> ColumnsApart(board[p])]

-----------------------------------------------------------------------------
(* Cards.                                                                  *)

\* Above `before`, or at the end where there is no such other card.
move_task(p, t, c, before) ==
  LET row == Remaining(board[p], c, t)
      target == IF In(row, before) THEN position(row, before) ELSE Len(row) + 1
  IN  /\ emit(p, "Place", t, c, rank_for_drop(board[p], t, c, target))
      /\ AimsCard(p, t, c, before)
      /\ UNCHANGED placing

\* A card that was lifted is let go on the strip above any card of a column, or
\* on the one at the end; others may have taken it off the board meanwhile.
drop(p, t, i, before) ==
  /\ \E o \in heard[p] : o.op = "Place" /\ o.card = t
  /\ i \in DOMAIN board[p].columns
  /\ LET c == board[p].columns[i]
     IN  /\ before = 0 \/ In(board[p].tasks_in[c], before)
         /\ move_task(p, t, c, before)

unplace_task(p, t) ==
  /\ t \in DOMAIN board[p].rank
  /\ emit(p, "Unplace", t, 0, << >>)
  /\ aim' = NoAim
  /\ UNCHANGED placing

\* A new card's place is chosen when its task is made, and taken when the task
\* has been stored.  (What happens to others made meanwhile is in Placement.)
create_task(p, t, i) ==
  /\ placing[p] = NoCard
  /\ t \notin {o.card : o \in written} \cup {placing[q].card : q \in Peer}
  /\ i \in DOMAIN board[p].columns
  /\ LET c == board[p].columns[i]
     IN  placing' = [placing EXCEPT ![p] =
           [card |-> t, column |-> c,
            rank |-> rank_for_drop(board[p], 0, c, Len(board[p].tasks_in[c]) + 1)]]
  /\ aim' = NoAim
  /\ UNCHANGED <<written, heard, board, writes>>

finish_placement(p) ==
  /\ placing[p] # NoCard
  /\ emit(p, "Place", placing[p].card, placing[p].column, placing[p].rank)
  /\ placing' = [placing EXCEPT ![p] = NoCard]
  /\ aim' = NoAim

-----------------------------------------------------------------------------
(* Columns.                                                                *)

SetColumn(p, c, rank, at) ==
  /\ emit(p, "SetColumn", 0, c, rank)
  /\ AimsColumn(p, c, at)
  /\ UNCHANGED placing

add_column(p, c) ==
  LET n == Len(board[p].columns)
  IN  /\ c \notin {o.column : o \in written}
      /\ SetColumn(p, c, IF n = 0 THEN middle ELSE after(board[p].column_rank[board[p].columns[n]]), n + 1)

\* A mutated form: a column that is renamed goes to the middle.
RenameAnew(p, i) ==
  /\ i \in DOMAIN board[p].columns
  /\ SetColumn(p, board[p].columns[i], middle, i)

\* The rank is carried along.
rename_column(p, i) ==
  /\ i \in DOMAIN board[p].columns
  /\ SetColumn(p, board[p].columns[i], board[p].column_rank[board[p].columns[i]], i)

shift_column(p, i, target) ==
  /\ {i, target} \subseteq DOMAIN board[p].columns
  /\ target \in {i - 1, i + 1}
  /\ SetColumn(p, board[p].columns[i], shift_rank(board[p], i, target), target)

\* Never the last one.
remove_column(p, i) ==
  /\ i \in DOMAIN board[p].columns /\ Len(board[p].columns) > 1
  /\ emit(p, "RemoveColumn", 0, board[p].columns[i], << >>)
  /\ aim' = NoAim
  /\ UNCHANGED placing

-----------------------------------------------------------------------------

\* What the others have written reaches a page.
receive_change(p) ==
  /\ heard[p] # written
  /\ heard' = [heard EXCEPT ![p] = written]
  /\ board' = [board EXCEPT ![p] = from_state(written)]
  /\ aim' = NoAim
  /\ UNCHANGED <<written, placing, writes>>

RanksNext ==
  \E p \in Peer :
    \/ \E t \in {o.card : o \in heard[p]} \ {0} :
         \/ unplace_task(p, t)
         \/ \E i \in DOMAIN board[p].columns, before \in {o.card : o \in heard[p]} :
              drop(p, t, i, before)
    \/ \E t \in NewCards : \E i \in DOMAIN board[p].columns : create_task(p, t, i)
    \/ finish_placement(p)
    \/ \E c \in NewColumns : add_column(p, c)
    \/ \E i \in DOMAIN board[p].columns :
         \/ rename_column(p, i) \/ remove_column(p, i)
         \/ \E target \in DOMAIN board[p].columns : shift_column(p, i, target)
    \/ receive_change(p)

RanksSpec == RanksInit /\ [][RanksNext]_ranks_vars

-----------------------------------------------------------------------------
(* Correctness.                                                            *)

\* Where the thing that was last moved lies on the page that moved it.
Landed ==
  LET b == board[aim.page]
  IN  IF aim.what = "column"
      THEN position(b.columns, aim.of) = aim.at
      ELSE LET row == b.tasks_in[aim.column]
               next == position(row, aim.of) + 1
           IN  /\ In(row, aim.of)
               /\ IF aim.at = 0 THEN next > Len(row)
                  ELSE next <= Len(row) /\ row[next] = aim.at

\* Whatever has been moved, added and removed by whom before: where no two
\* ranks are equal, what is dropped lies above the strip it was dropped on, or
\* last (move_task); a column that is shifted goes one place over, a new one is
\* last, and one that is renamed stays where it is ("sending a default would
\* silently reorder the board", store.rs:1079-1080).
LandsWhereAimed ==
  aim # NoAim /\ aim.apart /\ (aim.what = "card" => aim.at # aim.of) => Landed

\* What `between` is for, of every pair of bounds among these ranks (rank.rs:42-46).
BetweenIsBetween(S) ==
  \A lo, hi \in S \cup {<< >>} :
    lo = << >> \/ hi = << >> \/ Below(lo, hi) =>
      LET new == between(lo, hi)
      IN  /\ new[Len(new)] # 0
          /\ lo # << >> => Below(lo, new)
          /\ hi # << >> => Below(new, hi)

\* Nobody's own moves make two ranks equal (rank.rs:42-46): only those of two
\* who have not heard of each other do, a removed column, or a card that was a
\* while in being stored.
OwnMovesKeepApart ==
  aim # NoAim /\ aim.apart =>
    IF aim.what = "column"
    THEN ColumnsApart(board[aim.page])
    ELSE CardsApart(board[aim.page], aim.column)

-----------------------------------------------------------------------------
(* Said of the program, and not so.                                        *)

\* "an order key that no other peer will ever collide with" (rank.rs:3-4).
RanksNeverCollide ==
  \A p \in Peer :
    /\ ColumnsApart(board[p])
    /\ \A i \in DOMAIN board[p].columns : CardsApart(board[p], board[p].columns[i])

\* "Moves a task above `before`" (store.rs:1017): with equal ranks around, and
\* on the strip above the card itself, which is there to be dropped on.
DropsLand == aim # NoAim => Landed

\* "The shortest base-62 fraction strictly between" the two (rank.rs:86-87).
BetweenIsShortest(S) ==
  \A lo, hi, r \in S :
    Below(lo, r) /\ Below(r, hi) => Len(between(lo, hi)) <= Len(r)

\* A card that somebody took off the board stays off until it is put back by
\* somebody who knows.
TakenOffStaysOff ==
  [][\A p \in Peer :
       /\ aim'.page = p /\ aim' # NoAim /\ aim'.what = "card"
       => aim'.of \in DOMAIN board[p].rank]_ranks_vars

=============================================================================
