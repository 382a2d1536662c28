------------------------------- MODULE TaskFold ------------------------------
(***************************************************************************)
(* What a task's ops amount to: Task::from_state of pj-core/src/task.rs.   *)
(* The bodies (TaskOp) are                                                 *)
(*   [op |-> "SetTitle", text]        [op |-> "SetDescription", text]      *)
(*   [op |-> "SetAssignee", member]   (a set: {} is nobody)                *)
(*   [op |-> "Link", to, link]        [op |-> "Unlink", to]                *)
(*   [op |-> "Attach", board]         [op |-> "Detach", board]             *)
(***************************************************************************)
EXTENDS OpLog

IsBody(body) ==
  body.op \in {"SetTitle", "SetDescription", "SetAssignee", "Link", "Unlink",
              "Attach", "Detach"}

needs(body) ==
  IF body.op \in {"Link", "Unlink"} THEN {LINK_TASKS} ELSE {WRITE_TASKS}

Applied(log) ==
  LET a == authority(log)
  IN  {i \in application_ops(log) : Entitled(a, log[i].author, needs(log[i].body))}

Blank == [title |-> "", description |-> "", assignee |-> {},
          links |-> NoEntries, boards |-> {}]

\* The ops come in their total order: to assign is to let the last one win.
Step(task, body) ==
  CASE body.op = "SetTitle" -> [task EXCEPT !.title = body.text]
    [] body.op = "SetDescription" -> [task EXCEPT !.description = body.text]
    [] body.op = "SetAssignee" -> [task EXCEPT !.assignee = body.member]
    [] body.op = "Link" -> [task EXCEPT !.links = Put(@, body.to, body.link)]
    [] body.op = "Unlink" -> [task EXCEPT !.links = Without(@, {body.to})]
    [] body.op = "Attach" -> [task EXCEPT !.boards = @ \cup {body.board}]
    [] body.op = "Detach" -> [task EXCEPT !.boards = @ \ {body.board}]

from_state(log) ==
  FoldAt(log, Applied(log), Blank, LAMBDA task, op : Step(task, op.body))

=============================================================================
