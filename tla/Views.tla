-------------------------------- MODULE Views --------------------------------
(***************************************************************************)
(* What a client shows of a contract's state, while ops reach its node in  *)
(* any order.  Each op has its place in the total order, wherever it comes *)
(* from, so one that arrives late lands between ops that were there        *)
(* before, and the whole state is folded anew.                             *)
(*                                                                         *)
(* The invariants compare a fold with what a reader would say from the log *)
(* alone; the action properties say what an op that arrives may never undo.*)
(***************************************************************************)
EXTENDS OpLog

CONSTANTS
  Contracts,  \* the kinds looked at, of "board", "task", "org" and "user"
  Pool,       \* for each kind, the ops that may be written to it
  MaxLen      \* bound on the ops of a state

Board == INSTANCE BoardFold
Task == INSTANCE TaskFold
Org == INSTANCE OrgFold
User == INSTANCE UserFold

\* What an op of a contract can say.
IsBody(kind, body) ==
  CASE kind = "board" -> Board!IsBody(body)
    [] kind = "task" -> Task!IsBody(body)
    [] kind = "org" -> Org!IsBody(body)
    [] kind = "user" -> User!IsBody(body)

\* What can be written at all: ops, with the bodies that their contract knows.
PoolAssumption ==
  \A kind \in Contracts : \A op \in Pool[kind] :
    /\ op \in [key : Nat, scope : {Here} \cup OrgScope,
              kind : {"GRANT", "LINK_DEVICE", "UNLINK_DEVICE", "APPLICATION"},
              author : Key, target : Key, rights : SUBSET ALL,
              signed : BOOLEAN, legible : BOOLEAN, body : {op.body}]
    /\ op.kind = "APPLICATION" /\ op.legible => IsBody(kind, op.body)

\* What this client writes declares what it needs (op.rs, `envelope`), at least
\* where its effect is to last.  An op that declares less may count, and cease to
\* count when another arrives.
DeclaresNeeds ==
  \A kind \in Contracts : \A op \in Pool[kind] :
    op.kind = "APPLICATION" /\ op.legible =>
      /\ kind = "board" /\ op.body.op \in {"RemoveColumn", "Summarize"} =>
           Board!needs(op.body) \subseteq op.rights
      /\ kind = "org" /\ op.body.op = "RemoveProject" =>
           Org!needs(op.body) \subseteq op.rights

ASSUME ViewsAssumption ==
  Contracts \subseteq {"board", "task", "org", "user"} /\ PoolAssumption

VARIABLES
  contract,   \* what is open
  log,        \* its ops in their total order
  view        \* what is shown of it

views_vars == <<contract, log, view>>

Folded(kind, ops) ==
  CASE kind = "board" -> Board!from_state(ops)
    [] kind = "task" -> Task!from_state(ops)
    [] kind = "org" -> Org!from_state(ops)
    [] kind = "user" -> User!from_state(ops)

ViewsInit ==
  /\ contract \in Contracts
  /\ log = << >>
  /\ view = Folded(contract, << >>)

\* An op that is not in the state yet finds its place in it, if the contract
\* accepts it there, and the client folds what its node serves.
Receive(op, place) ==
  LET merged == InsertAt(log, place, op)
  IN  /\ Len(log) < MaxLen
      /\ op \notin Range(log)
      /\ Valid(merged)
      /\ log' = merged
      /\ view' = Folded(contract, merged)
      /\ UNCHANGED contract

ViewsNext == \E op \in Pool[contract] : \E place \in 1..(Len(log) + 1) : Receive(op, place)

ViewsSpec == ViewsInit /\ [][ViewsNext]_views_vars

-----------------------------------------------------------------------------
(* What a reader of the log would say.                                     *)

Applied ==
  CASE contract = "board" -> Board!Applied(log)
    [] contract = "task" -> Task!Applied(log)
    [] contract = "org" -> Org!Applied(log)
    [] contract = "user" -> User!Applied(log)

needs(body) ==
  CASE contract = "board" -> Board!needs(body)
    [] contract = "task" -> Task!needs(body)
    [] contract = "org" -> Org!needs(body)
    [] contract = "user" -> User!needs(body)

\* The places of the ops that say something of one kind and count, because
\* their author was ever entitled to say it.
Said(kind) ==
  LET a == authority(log)
  IN  {i \in DOMAIN log :
         /\ log[i].kind = "APPLICATION" /\ log[i].legible
         /\ log[i].body.op = kind
         /\ needs(log[i].body) \subseteq ever_rights_of(a, log[i].author)}

About(kind, field, value) == {i \in Said(kind) : log[i].body[field] = value}

\* The last of some places, 0 if there are none.
Latest(places) == Max(places \cup {0})

Everything(kind, field) == {log[i].body[field] : i \in Said(kind)}

\* Nobody's person has been somebody's device.
Plain(ops) ==
  LET a == authority(ops)
  IN  \A k \in Key : ever_person(a, ever_person(a, k)) = ever_person(a, k)

\* What declares at least what it needs counts.
WorkIsShown ==
  \A i \in DOMAIN log :
    /\ log[i].kind = "APPLICATION" /\ log[i].legible
    /\ needs(log[i].body) \subseteq log[i].rights
    => i \in Applied

-----------------------------------------------------------------------------
(* Correctness.                                                            *)

\* Nothing that was written properly and that the contract accepted is left
\* out of the view, not even after its author was removed (op.rs, `needs`;
\* the "ever, not held" of the folds).  The contract judges by what an op
\* declares and the fold by what it needs: the two must come to the same.
\* Of an organization, whose fold looks its authors up twice, where nobody is
\* both a person and a device.
AcceptedWorkIsShown == (contract = "org" => Plain(log)) => WorkIsShown

\* A board shows the cards that were placed and not taken off since, each
\* where it was last put if that column is left, by whoever put it on the
\* board first, and with the freshest of its summaries (board.rs, fold_tasks).
\* Removing columns hides no work: while one is left, no card is in one that
\* was removed (drop_removed_columns).
CardsAsPlaced ==
  contract = "board" =>
    LET off(t) == Latest(About("Unplace", "task", t))
        puts(t) == {i \in About("Place", "task", t) : i > off(t)}
        said(t) == About("Summarize", "task", t)
        freshest(t) == Latest({i \in said(t) : \A j \in said(t) :
                               log[j].body.seen <= log[i].body.seen})
    IN  /\ DOMAIN view.tasks
             = {t \in Everything("Place", "task") : puts(t) # {}}
        /\ \A t \in DOMAIN view.tasks :
             LET card == view.tasks[t]
                 put == log[Latest(puts(t))].body.column
                 gone(c) == About("RemoveColumn", "column", c) # {}
             IN  /\ card.placed_by = log[Min(puts(t))].author
                 /\ ~gone(put) => card.column = put
                 /\ gone(card.column) => DOMAIN view.columns = {}
                 /\ said(t) # {} => card.summary.title = log[freshest(t)].body.title

\* Whatever arrives, and in whatever order: a summary that was read from an
\* older state of the task never replaces one from a newer state (task.rs,
\* TaskSummary); a column that was removed does not come back because somebody,
\* who had not heard of it, renames it; nor does a project an organization has
\* removed (board.rs, fold_columns; org.rs, from_state), but for what a device of
\* a device removed (DevicesWorkIsShown).
NothingComesBack ==
  [][/\ contract = "board" =>
          /\ \A t \in DOMAIN view.tasks \cap DOMAIN view'.tasks :
               view.tasks[t].summary.seen <= view'.tasks[t].summary.seen
          /\ \A c \in Everything("RemoveColumn", "column") :
               c \notin DOMAIN view'.columns
     /\ contract = "org" /\ Plain(log') =>
          \A p \in Everything("RemoveProject", "board") :
            p \notin view'.projects]_views_vars

\* Everybody goes by the last name that they, from whichever of their keys, or
\* an administrator gave them (board.rs, fold_members; org.rs).  Said of the
\* keys that are either persons or devices: see NamedByOthers for the rest.
NamesAsGiven ==
  contract \in {"board", "org"} =>
    LET a == authority(log)
        entitled(author, k) == \/ ever_person(a, author) = k
                               \/ ADMINISTER \in ever_rights_of(a, author)
        given(k) == {i \in About("SetMemberName", "member", k) :
                       entitled(log[i].author, k)}
    IN  Plain(log) =>
          view.names = [k \in {m \in Key : given(m) # {}} |-> log[Latest(given(k))].author]

\* A task says what was last written in each of its fields, with the links and
\* the boards that were made and not unmade since (task.rs, from_state).
TaskSaysLast ==
  contract = "task" =>
    LET title == Latest(Said("SetTitle"))
        assignee == Latest(Said("SetAssignee"))
        on(b) == Latest(About("Attach", "board", b)) > Latest(About("Detach", "board", b))
        tied(t) == Latest(About("Link", "to", t)) > Latest(About("Unlink", "to", t))
    IN  /\ view.title = IF title = 0 THEN "" ELSE log[title].body.text
        /\ view.assignee = IF assignee = 0 THEN {} ELSE log[assignee].body.member
        /\ view.boards = {b \in Everything("Attach", "board") : on(b)}
        /\ DOMAIN view.links = {t \in Everything("Link", "to") : tied(t)}
        /\ \A t \in DOMAIN view.links :
             view.links[t] = log[Latest(About("Link", "to", t))].body.link

\* A profile lists a project while it was joined since it was last left, and
\* since the organization it was joined under was last left; and no project is
\* hidden by how the list is grouped (user.rs, from_state and grouped).
BookmarksAsJoined ==
  contract = "user" =>
    LET joined(b) == Latest(About("JoinedBoard", "board", b))
        under(b) == log[joined(b)].body.org
        left(b) == Latest(About("LeftBoard", "board", b)
                        \cup UNION {About("LeftOrg", "org", o) : o \in under(b)})
        listed == {b \in Everything("JoinedBoard", "board") : joined(b) > left(b)}
        groups == User!grouped(view)
    IN  /\ view.boards = [b \in listed |-> under(b)]
        /\ groups.loose \cup UNION {groups.under[o] : o \in view.orgs} = listed
        /\ view.orgs = {o \in Everything("JoinedOrg", "org") :
                          Latest(About("JoinedOrg", "org", o))
                            > Latest(About("LeftOrg", "org", o))}

\* What is done is what is shown, of every kind of contract: the four above.
ShownAsDone == CardsAsPlaced /\ NamesAsGiven /\ TaskSaysLast /\ BookmarksAsJoined

-----------------------------------------------------------------------------
(* Said of the program, and not so.                                        *)

\* A linked device acts as its person does (board.rs, "following a device link
\* to its owner"): the buttons ask what the authority would answer.
ButtonsFollowAuthority ==
  contract = "board" =>
    \A k \in Key :
      Board!board_rights_of(log, k) = rights_of(authority(log), k)

\* A device that was unlinked and linked again is dated by the link that
\* stands (user.rs: "a link/unlink/relink pair leaves no ghost").
NoGhostLinks ==
  contract = "user" =>
    \A k \in DOMAIN view.devices \ {Owner} :
      view.devices[k] > Latest({i \in DOMAIN log : /\ log[i].kind = "UNLINK_DEVICE"
                                                 /\ log[i].target = k})

\* "A device acts with exactly its person's rights" (README.md:210-211): what it
\* writes in an organization, and the contract accepts, is shown.
DevicesWorkIsShown == contract = "org" => WorkIsShown

\* Naming somebody else takes the right to administer (op.rs, `needs`).
NamedByOthers ==
  contract \in {"board", "org"} =>
    LET a == authority(log)
    IN  \A k \in DOMAIN view.names :
          \/ ever_person(a, view.names[k]) = k
          \/ ADMINISTER \in ever_rights_of(a, view.names[k])

=============================================================================
