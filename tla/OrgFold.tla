------------------------------- MODULE OrgFold -------------------------------
(***************************************************************************)
(* What an organization's ops amount to: Organization::from_state of       *)
(* pj-core/src/org.rs.  The bodies (OrgOp) are                             *)
(*   [op |-> "SetMemberName", member]                                      *)
(*   [op |-> "AddProject", board]     [op |-> "RemoveProject", board]      *)
(***************************************************************************)
EXTENDS OpLog

IsBody(body) ==
  /\ body.op \in {"SetMemberName", "AddProject", "RemoveProject"}
  /\ body.op = "SetMemberName" => body.member \in Key

needs(body) ==
  IF body.op = "SetMemberName" THEN {SET_NAME} ELSE {ADMINISTER}

\* Unlike the other folds, this one looks the author up twice: whoever the
\* author's person was once a device of answers for the op.
Applied(log) ==
  LET a == authority(log)
  IN  {i \in application_ops(log) :
         Entitled(a, ever_person(a, log[i].author), needs(log[i].body))}

ProjectStep(acc, body) ==
  CASE body.op = "AddProject" ->
         [acc EXCEPT !.projects = @ \cup {body.board}]
    [] body.op = "RemoveProject" ->
         [acc EXCEPT !.removed = @ \cup {body.board}]
    [] OTHER -> acc

\* Yourself always; anybody else only as an administrator.
MayName(a, author, member) ==
  LET acting == ever_person(a, author)
  IN  member = acting \/ Entitled(a, acting, {ADMINISTER})

\* Whose naming each member goes by.
NameStep(a, names, op) ==
  IF op.body.op = "SetMemberName" /\ MayName(a, op.author, op.body.member)
  THEN Put(names, op.body.member, op.author)
  ELSE names

fold_names(a, log, applied) ==
  FoldAt(log, applied, NoEntries, LAMBDA names, op : NameStep(a, names, op))

from_state(log) ==
  LET a == authority(log)
      applied == Applied(log)
      folded == FoldAt(log, applied, [projects |-> {}, removed |-> {}],
                       LAMBDA acc, op : ProjectStep(acc, op.body))
  IN  [projects |-> folded.projects \ folded.removed,
       names |-> fold_names(a, log, applied),
       members |-> a.ever_members \cup {Owner},
       devices |-> [k \in {d \in Key : person(a, d) # d} |-> person(a, k)]]

=============================================================================
