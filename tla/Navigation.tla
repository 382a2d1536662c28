----------------------------- MODULE Navigation ------------------------------
(***************************************************************************)
(* Which page of the web client is showing, and where it is kept: the view,*)
(* the URL fragment, and the board, the organization and the task that are *)
(* held (pj-web/src/store.rs; ui/mod.rs renders them).                     *)
(*                                                                         *)
(* Writing a fragment that differs raises a hashchange event, which the    *)
(* page hears later, whoever wrote it: the client itself, or somebody      *)
(* pressing Back, Forward or a link.  Its handler goes by the URL of that  *)
(* moment, so events under way count as one.                               *)
(*                                                                         *)
(* A board is held whole (see OpenBoard, whose OneBoardAtATime says so of  *)
(* nodes that acknowledge no PUT, as those of today); a task's contents    *)
(* are left to Placement.                                                  *)
(***************************************************************************)
EXTENDS FiniteSets

CONSTANTS
  OldBoards, NewBoards,   \* boards that are there, and that may be created
  OldOrgs, NewOrgs,       \* organizations, likewise
  OrgOf,                  \* the organization a board belongs to, or None
  Tasks,                  \* tasks with cards on every board
  None

Boards == OldBoards \cup NewBoards
Orgs == OldOrgs \cup NewOrgs

ASSUME NavigationAssumption ==
  /\ OldBoards \cap NewBoards = {}
  /\ OldOrgs \cap NewOrgs = {}
  /\ Boards \cap Orgs = {}
  /\ OrgOf \in [Boards -> Orgs \cup {None}]
  /\ None \notin Boards \cup Orgs \cup Tasks

VARIABLES
  view,           \* View
  url,            \* the route in the URL fragment
  changed,        \* who wrote the fragment last and is yet to be heard:
                  \* "nobody", the "user", the client ("own"), or the client
                  \* as it closed a task ("closing")
  contract_key, pending_board, status,          \* the board
  org_key, pending_org, org_params, org_ops,    \* the organization
  selected,       \* the task that is open, or None
  proposed,       \* whether a key waits to be linked (pending_device_key)
  booted,         \* whether the connection has opened since the page loaded
  asked,          \* boards and organizations the node has yet to answer about
  created         \* the boards and organizations created here

boards == <<contract_key, pending_board, status>>
orgs == <<org_key, pending_org, org_params, org_ops>>
page == <<view, boards, orgs, selected, proposed>>
nav_vars == <<page, url, changed, booted, asked, created>>

-----------------------------------------------------------------------------
(* Routes.                                                                 *)

Route(to, id) == [to |-> to, id |-> id]
NoRoute == Route("none", None)
Me == Route("me", None)

\* A device's public key: which one does not matter here.
Link == Route("link", None)

Routes ==
  {NoRoute, Me, Link} \cup {Route("board", b) : b \in Boards}
    \cup {Route("org", g) : g \in Orgs} \cup {Route("task", t) : t \in Tasks}

\* set_hash raises an event only where it changes something.
Write(route, who) ==
  /\ url' = route
  /\ changed' = IF route = url THEN changed ELSE who

BoardInUrl == IF contract_key = None THEN NoRoute ELSE Route("board", contract_key)

-----------------------------------------------------------------------------

NoBoard ==
  /\ contract_key' = None
  /\ pending_board' = None
  /\ status' = "Idle"

NoOrg ==
  /\ org_key' = None
  /\ pending_org' = None
  /\ org_params' = None
  /\ org_ops' = {}

NavInit ==
  /\ view = "Start"
  /\ url \in Routes
  /\ changed = "nobody"
  /\ booted = FALSE
  /\ contract_key = None /\ pending_board = None /\ status = "Idle"
  /\ org_key = None /\ pending_org = None /\ org_params = None /\ org_ops = {}
  /\ selected = None
  /\ proposed = FALSE
  /\ asked = {}
  /\ created = {}

-----------------------------------------------------------------------------
(* Opening things.  Each is shared by the user's click and by the handler  *)
(* of the fragment.                                                        *)

ShowBoard(b) ==
  /\ IF contract_key = b
     THEN UNCHANGED <<contract_key, selected>>
     ELSE contract_key' = None /\ selected' = None
  /\ pending_board' = b
  /\ status' = "Loading"
  /\ view' = "Board"
  /\ asked' = asked \cup {b}
  /\ UNCHANGED <<orgs, proposed, created>>

\* A mutated form: what was held of another organization is kept.
ShowOrgKeeping(g) ==
  /\ UNCHANGED <<org_key, org_params, org_ops>>
  /\ pending_org' = g
  /\ view' = "Organization"
  /\ asked' = asked \cup {g}
  /\ UNCHANGED <<boards, selected, proposed, created>>

ShowOrg(g) ==
  /\ IF org_key = g
     THEN UNCHANGED <<org_key, org_params, org_ops>>
     ELSE org_key' = None /\ org_params' = None /\ org_ops' = {}
  /\ pending_org' = g
  /\ view' = "Organization"
  /\ asked' = asked \cup {g}
  /\ UNCHANGED <<boards, selected, proposed, created>>

ShowTask(t) ==
  /\ selected' = t
  /\ view' = "Task"
  /\ UNCHANGED <<boards, orgs, proposed, asked, created>>

ShowUser(proposal) ==
  /\ view' = "User"
  /\ proposed' = (proposal \/ proposed)
  /\ UNCHANGED <<boards, orgs, selected, asked, created>>

\* A mutated form: what was asked for stays asked for.
ShowStartStillAsking ==
  /\ view' = "Start"
  /\ contract_key' = None /\ status' = "Idle"
  /\ org_key' = None /\ org_params' = None /\ org_ops' = {}
  /\ selected' = None
  /\ UNCHANGED <<pending_board, pending_org, proposed, asked, created>>

ShowStart ==
  /\ view' = "Start"
  /\ NoBoard
  /\ NoOrg
  /\ selected' = None
  /\ UNCHANGED <<proposed, asked, created>>

-----------------------------------------------------------------------------
(* What the user does.                                                     *)

Goes(route) == Write(route, "own") /\ UNCHANGED booted

open(b) == ShowBoard(b) /\ Goes(Route("board", b))
open_org(g) == ShowOrg(g) /\ Goes(Route("org", g))
open_task_page(t) == ShowTask(t) /\ Goes(Route("task", t))
open_user_page == ShowUser(FALSE) /\ Goes(Me)
back == view # "Start" /\ ShowStart /\ Goes(NoRoute)

\* A click on a card: the board stays, with a drawer over it.
select_task(t) ==
  /\ view = "Board" /\ status = "Ready"
  /\ selected' = t
  /\ Goes(Route("task", t))
  /\ UNCHANGED <<view, boards, orgs, proposed, asked, created>>

\* The drawer's close, the page's "Board" button, and the Escape key, which is
\* listened for wherever one is.
close_task ==
  /\ selected' = None
  /\ view' = IF view = "Task" THEN "Board" ELSE view
  /\ Write(BoardInUrl, "closing")
  /\ UNCHANGED <<boards, orgs, proposed, booted, asked, created>>

\* link_device and Dismiss.
answer_proposal ==
  /\ view = "User" /\ proposed
  /\ proposed' = FALSE
  /\ UNCHANGED <<view, url, changed, booted, boards, orgs, selected, asked, created>>

Created(b) ==
  /\ booted /\ b \in NewBoards \ created
  /\ created' = created \cup {b}
  /\ contract_key' = b
  /\ pending_board' = b
  /\ status' = "Ready"
  /\ view' = "Board"
  /\ Goes(Route("board", b))
  /\ UNCHANGED <<orgs, selected, proposed, asked>>

create(b) == view = "Start" /\ OrgOf[b] = None /\ Created(b)

\* Offered on an organization's page.
create_org_project(b) ==
  /\ view = "Organization" /\ org_params # None /\ OrgOf[b] = org_params
  /\ Created(b)

create_org(g) ==
  /\ booted /\ g \in NewOrgs \ created
  /\ view = "Start"
  /\ created' = created \cup {g}
  /\ org_params' = g
  /\ org_key' = g
  /\ org_ops' = {g}
  /\ pending_org' = g
  /\ view' = "Organization"
  /\ Goes(Route("org", g))
  /\ UNCHANGED <<boards, selected, proposed, asked>>

\* Back, Forward, a bookmark, a link that was typed over.
Browse(route) ==
  /\ Write(route, "user")
  /\ UNCHANGED <<page, booted, asked, created>>

-----------------------------------------------------------------------------
(* What the page hears.                                                    *)

\* A mutated form: only what has arrived counts as held.
HeldArrived(id) == id \in {contract_key, org_key}

\* "do we already hold this thing": asked for, or open.
Held(id) == id \in {pending_board, contract_key, pending_org, org_key}

\* "are we already looking at it": only the view follows.
Look(at) ==
  /\ view' = at
  /\ UNCHANGED <<boards, orgs, selected, proposed, asked, created>>

route_changed ==
  /\ changed # "nobody"
  /\ changed' = "nobody"
  /\ UNCHANGED <<url, booted>>
  /\ CASE url.to = "board" -> IF Held(url.id) THEN Look("Board") ELSE ShowBoard(url.id)
       [] url.to = "org" ->
            IF Held(url.id) THEN Look("Organization") ELSE ShowOrg(url.id)
       [] url.to = "task" ->
            IF selected = url.id THEN Look(view) ELSE ShowTask(url.id)
       [] url.to = "me" -> ShowUser(FALSE)
       [] url.to = "link" -> ShowUser(TRUE)
       [] url.to = "none" -> IF view = "Start" THEN Look(view) ELSE ShowStart

\* The route of a page that has been loaded, read when it is first online.
on_connected ==
  /\ ~booted
  /\ booted' = TRUE
  /\ UNCHANGED <<url, changed>>
  /\ CASE url.to = "board" -> ShowBoard(url.id)
       [] url.to = "org" -> ShowOrg(url.id)
       [] url.to = "task" -> ShowTask(url.id)
       [] url.to = "me" -> ShowUser(FALSE)
       [] url.to = "link" -> ShowUser(TRUE)
       [] url.to = "none" -> Look(view)

kind_of(id) ==
  IF id \in {org_key, pending_org} THEN "Organization" ELSE "Board"

awaiting_board(id) == id \in {pending_board, contract_key}

Answered(id) == booted /\ id \in asked /\ asked' = asked \ {id}

\* on_got, receive_board.
GotBoard(b) ==
  /\ b \in Boards /\ Answered(b)
  /\ IF awaiting_board(b)
     THEN contract_key' = b /\ status' = "Ready"
     ELSE UNCHANGED <<contract_key, status>>
  /\ UNCHANGED <<view, url, changed, booted, pending_board, orgs, selected, proposed,
                 created>>

\* on_got, receive_org.  The key is believed before the parameters have been
\* read, which they may not be.
GotOrg(g, readable) ==
  /\ g \in Orgs /\ Answered(g)
  /\ IF kind_of(g) = "Organization"
     THEN /\ org_key' = g
          /\ IF readable
             THEN org_params' = g /\ org_ops' = org_ops \cup {g}
             ELSE UNCHANGED <<org_params, org_ops>>
     ELSE UNCHANGED <<org_key, org_params, org_ops>>
  /\ UNCHANGED <<view, url, changed, booted, boards, pending_org, selected, proposed,
                 created>>

Missing(id) ==
  /\ Answered(id)
  /\ status' = IF kind_of(id) = "Board" /\ awaiting_board(id) THEN "Missing" ELSE status
  /\ UNCHANGED <<view, url, changed, booted, contract_key, pending_board, orgs, selected,
                 proposed, created>>

\* receive_org_change: somebody else's change to an organization this node
\* subscribes to, because it was opened once.
ChangedOrg(g) ==
  /\ booted /\ kind_of(g) = "Organization"
  /\ org_ops' = org_ops \cup {g}
  /\ UNCHANGED <<view, url, changed, booted, boards, org_key, pending_org, org_params,
                 selected, proposed, asked, created>>

\* The connection comes back: everything held is asked for again.
resync ==
  /\ booted
  /\ asked' = asked \cup ({contract_key, org_key} \ {None})
  /\ UNCHANGED <<page, url, changed, booted, created>>

\* The page is loaded again, with the URL it has: Store::new.
Reload ==
  /\ changed' = "nobody"
  /\ booted' = FALSE
  /\ view' = "Start"
  /\ NoBoard
  /\ NoOrg
  /\ selected' = None
  /\ proposed' = FALSE
  /\ asked' = {}
  /\ UNCHANGED <<url, created>>

NavNext ==
  \/ \E b \in Boards : open(b) \/ create(b) \/ create_org_project(b) \/ GotBoard(b)
  \/ \E g \in Orgs :
       \/ open_org(g) \/ create_org(g) \/ ChangedOrg(g)
       \/ \E readable \in BOOLEAN : GotOrg(g, readable)
  \/ \E t \in Tasks : open_task_page(t) \/ select_task(t)
  \/ open_user_page \/ back \/ close_task \/ answer_proposal
  \/ \E route \in Routes : Browse(route)
  \/ route_changed \/ on_connected
  \/ \E id \in Boards \cup Orgs : Missing(id)
  \/ resync
  \/ Reload

NavSpec == NavInit /\ [][NavNext]_nav_vars

-----------------------------------------------------------------------------
(* What is on screen: App, BoardRoute and OrgPage.                         *)

Looking(id) == [at |-> "looking", id |-> id]
At(at, id) == [at |-> at, id |-> id]

screen ==
  CASE view = "Board" /\ status = "Ready" -> At("board", contract_key)
    [] view = "Board" /\ status \in {"Loading", "Missing"} -> Looking(pending_board)
    [] view = "Board" /\ status = "Idle" -> At("none", None)
    [] view = "Organization" ->
         IF org_params = None THEN Looking(pending_org) ELSE At("org", org_params)
    [] view = "Task" -> At("task", selected)
    [] view = "User" -> At("me", None)
    [] view = "Start" -> At("none", None)

\* What the top bar names.
where_you_are ==
  CASE view = "Start" -> None
    [] view = "User" -> "me"
    [] view = "Organization" -> org_params
    [] view \in {"Board", "Task"} -> contract_key

-----------------------------------------------------------------------------
(* Correctness.                                                            *)

\* Where the URL leads, as far as a screen can say.
Destinations ==
  CASE url.to = "board" -> {At("board", url.id), Looking(url.id)}
    [] url.to = "org" -> {At("org", url.id), Looking(url.id)}
    [] url.to \in {"me", "link"} -> {At("me", None)}
    [] url.to = "none" -> {At("none", None)}

\* Back and Forward make the view follow (ui/mod.rs:42), a reload returns to
\* where one was, and the address that is copied is that of what is on screen
\* (store.rs:2978-2980): once every change of the URL has been heard, the
\* screen shows what the URL names and nothing else, and the top bar names it or
\* nothing, whatever was opened, left and answered late before.  Of a task's
\* URL, only that this task is the one selected: see TaskPageComesBack.
ScreenIsOfAddress ==
  booted /\ changed = "nobody" =>
    IF url.to = "task"
    THEN selected = url.id
    ELSE /\ screen \in Destinations
         /\ url.to \in {"board", "org"} => where_you_are \in {url.id, None}

\* What is held of an organization is of one, and of the one edits go to
\* (store.rs:1270-1271: "so its state cannot bleed into the new one").
OneOrgAtATime ==
  /\ org_params \in {None, org_key}
  /\ org_ops \subseteq {pending_org}
  /\ org_key \in {None, pending_org}

\* "our own writes raise this same event, and without the check a navigation
\* would re-enter itself" (store.rs:1769-1772).
NothingReenters == [][route_changed /\ changed = "own" => UNCHANGED <<page, asked>>]_nav_vars

-----------------------------------------------------------------------------
(* Said of the program, and not so.                                        *)

\* "Back and Forward move the fragment; this is what makes the view follow"
\* (ui/mod.rs:42): the page of a task comes back as the others do.
TaskPageComesBack ==
  booted /\ changed = "nobody" /\ url.to = "task" => view \in {"Task", "Board"}

\* "Escape closes whatever is layered on top" (ui/mod.rs:33), and leaves the
\* rest where it is.
EscapeOnlyCloses ==
  [][route_changed /\ changed = "closing" => UNCHANGED <<page, asked>>]_nav_vars

\* The organization create_task makes a new task answer to.
task_org == org_params

\* "The org the task answers to, taken from the board" (store.rs:2626).
TasksAnswerToTheirBoardsOrg ==
  screen = At("board", contract_key) => task_org = OrgOf[contract_key]

\* The panel in a project's sidebar is "shown ... when the project belongs to
\* an organization we hold state for" (ui/org.rs:418): whoever it assigns, or
\* makes an admin, is from the organization that owns the project.
PanelIsOfOwner ==
  screen = At("board", contract_key) /\ OrgOf[contract_key] # None =>
    org_params \in {None, OrgOf[contract_key]}

=============================================================================
