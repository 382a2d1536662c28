------------------------------ MODULE BoardFold ------------------------------
(***************************************************************************)
(* What a board's ops amount to: Board::from_state of pj-core/src/board.rs.*)
(* The bodies (pj-core/src/op.rs) are                                      *)
(*   [op |-> "SetColumn", column, rank]     [op |-> "RemoveColumn", column]*)
(*   [op |-> "Place", task, column]         [op |-> "Unplace", task]       *)
(*   [op |-> "Summarize", task, seen, title]                               *)
(*   [op |-> "SetOrganization", org]    [op |-> "SetMemberName", member]   *)
(* A column is a number, as is a rank.  A card's rank within its column,   *)
(* a column's title and the text of a name are left out: they travel with  *)
(* what is kept.                                                           *)
(***************************************************************************)
EXTENDS OpLog

IsBody(body) ==
  /\ body.op \in {"SetColumn", "RemoveColumn", "Place", "Unplace", "Summarize",
                 "SetOrganization", "SetMemberName"}
  /\ body.op \in {"SetColumn", "RemoveColumn", "Place"} => body.column \in Nat
  /\ body.op = "SetColumn" => body.rank \in Nat
  /\ body.op = "Summarize" => body.seen \in Nat
  /\ body.op = "SetMemberName" => body.member \in Key

needs(body) ==
  CASE body.op \in {"SetColumn", "RemoveColumn"} -> {WRITE_COLUMNS}
    [] body.op \in {"Place", "Unplace", "Summarize"} -> {WRITE_TASKS}
    [] body.op = "SetOrganization" -> {ADMINISTER}
    [] body.op = "SetMemberName" -> {SET_NAME}

\* The places of the application ops that count.
Applied(log) ==
  LET a == authority(log)
  IN  {i \in application_ops(log) : Entitled(a, log[i].author, needs(log[i].body))}

-----------------------------------------------------------------------------
(* Columns.                                                                *)

\* A mutated form: a column set again is no longer removed.
ColumnBroughtBack(acc, body) ==
  CASE body.op = "SetColumn" ->
         [columns |-> Put(acc.columns, body.column, body.rank),
          removed |-> acc.removed \ {body.column}]
    [] body.op = "RemoveColumn" ->
         [acc EXCEPT !.removed = @ \cup {body.column}]
    [] OTHER -> acc

ColumnStep(acc, body) ==
  CASE body.op = "SetColumn" ->
         [acc EXCEPT !.columns = Put(@, body.column, body.rank)]
    [] body.op = "RemoveColumn" ->
         [acc EXCEPT !.removed = @ \cup {body.column}]
    [] OTHER -> acc

fold_columns(log, applied) ==
  FoldAt(log, applied, [columns |-> NoEntries, removed |-> {}],
         LAMBDA acc, op : ColumnStep(acc, op.body))

\* Sorted by rank, then by id.
FirstColumn(columns) ==
  CHOOSE c \in DOMAIN columns : \A d \in DOMAIN columns \ {c} :
    columns[c] < columns[d] \/ (columns[c] = columns[d] /\ c < d)

-----------------------------------------------------------------------------
(* Cards.                                                                  *)

NoSummary == [seen |-> 0, title |-> "none"]

\* A mutated form: a card that is moved stays where it was put first.
PlacedFirst(tasks, op) ==
  IF op.body.task \in DOMAIN tasks
  THEN tasks
  ELSE Put(tasks, op.body.task,
           [column |-> op.body.column, placed_by |-> op.author,
            summary |-> NoSummary])

\* A second Place is a move: who placed the card first is kept.
Placed(tasks, op) ==
  LET placed_by == IF op.body.task \in DOMAIN tasks
                   THEN tasks[op.body.task].placed_by
                   ELSE op.author
  IN  Put(tasks, op.body.task,
          [column |-> op.body.column, placed_by |-> placed_by,
           summary |-> NoSummary])

\* The one read at the task's highest clock, and of those the last.
FreshestSummary(summaries, body) ==
  LET known == IF body.task \in DOMAIN summaries
               THEN summaries[body.task]
               ELSE NoSummary
  IN  Put(summaries, body.task,
          IF body.seen >= known.seen
          THEN [seen |-> body.seen, title |-> body.title]
          ELSE known)

TaskStep(acc, op) ==
  CASE op.body.op = "Place" -> [acc EXCEPT !.tasks = Placed(@, op)]
    [] op.body.op = "Unplace" ->
         [acc EXCEPT !.tasks = Without(@, {op.body.task})]
    [] op.body.op = "Summarize" ->
         [acc EXCEPT !.summaries = FreshestSummary(@, op.body)]
    [] OTHER -> acc

\* Summaries are applied after the cards, whichever came first.
fold_tasks(log, applied) ==
  LET folded == FoldAt(log, applied,
                       [tasks |-> NoEntries, summaries |-> NoEntries], TaskStep)
  IN  [t \in DOMAIN folded.tasks |->
         IF t \in DOMAIN folded.summaries
         THEN [folded.tasks[t] EXCEPT !.summary = folded.summaries[t]]
         ELSE folded.tasks[t]]

\* The cards of a removed column go to the first that is left, if one is.
drop_removed_columns(columns, removed, tasks) ==
  LET left == Without(columns, removed)
  IN  [columns |-> left,
       tasks |-> IF DOMAIN left = {}
                 THEN tasks
                 ELSE [t \in DOMAIN tasks |->
                         IF tasks[t].column \in removed
                         THEN [tasks[t] EXCEPT !.column = FirstColumn(left)]
                         ELSE tasks[t]]]

-----------------------------------------------------------------------------
(* Names and members.                                                      *)

\* Oneself, or anybody if one was ever to administer.
NamingAllowed(a, author, member) ==
  LET acting == ever_person(a, author)
  IN  member = acting \/ Entitled(a, acting, {ADMINISTER})

\* Whose naming each member goes by.
NameStep(a, names, op) ==
  IF op.body.op = "SetMemberName" /\ NamingAllowed(a, op.author, op.body.member)
  THEN Put(names, op.body.member, op.author)
  ELSE names

fold_names(a, log, applied) ==
  FoldAt(log, applied, NoEntries, LAMBDA names, op : NameStep(a, names, op))

\* Everybody a grant that counted has named, even if it gave them nothing, and
\* the owner.
fold_members(a) == a.ever_members \cup {Owner}

fold_organization(log, applied) ==
  FoldAt(log, applied, "none",
         LAMBDA org, op : IF op.body.op = "SetOrganization" THEN op.body.org ELSE org)

from_state(log) ==
  LET a == authority(log)
      applied == Applied(log)
      folded == fold_columns(log, applied)
      shown == drop_removed_columns(folded.columns, folded.removed,
                                    fold_tasks(log, applied))
  IN  [columns |-> shown.columns,
       tasks |-> shown.tasks,
       names |-> fold_names(a, log, applied),
       members |-> fold_members(a),
       organization |-> fold_organization(log, applied)]

\* What the buttons go by: a member is asked about as itself.
board_rights_of(log, key) ==
  LET a == authority(log)
      behind == IF key \in fold_members(a) THEN key ELSE person(a, key)
  IN  IF behind \in fold_members(a) THEN a.held[behind] ELSE NONE

=============================================================================
