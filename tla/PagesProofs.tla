----------------------------- MODULE PagesProofs ------------------------------
(***************************************************************************)
(* Navigation.  For any boards, organizations and tasks: what is held of an *)
(* organization is of one, the screen is that of the address, and the       *)
(* client's own writes of the address do nothing when they are heard.       *)
(*                                                                          *)
(* Membership.  For any keys and clocks: what the fold of an organization   *)
(* lets a person do, the page has a control for; what is offered counts     *)
(* when it is clicked; and what a click writes needs nothing but the proof  *)
(* that is sent along.                                                      *)
(***************************************************************************)
EXTENDS Navigation, Membership, TLAPS, WellFoundedInduction, FiniteSetTheorems

NavTypeOK ==
  /\ view \in {"Start", "Board", "Task", "User", "Organization"}
  /\ url \in Routes
  /\ changed \in {"nobody", "user", "own", "closing"}
  /\ proposed \in BOOLEAN
  /\ booted \in BOOLEAN

\* One board is asked for, and what is held is that one.
OneBoard ==
  /\ pending_board \in Boards \cup {None}
  /\ contract_key \in {None, pending_board}
  /\ status \in {"Idle", "Loading", "Missing", "Ready"}
  /\ status = "Idle" <=> pending_board = None
  /\ status = "Ready" => contract_key = pending_board

OneOrg ==
  /\ pending_org \in Orgs \cup {None}
  /\ OneOrgAtATime

\* The page is the one the URL leads to, as `route_changed` would ask.
Followed ==
  /\ url.to = "board" => view = "Board" /\ pending_board = url.id
  /\ url.to = "org" => view = "Organization" /\ pending_org = url.id
  /\ url.to = "task" => selected = url.id
  /\ url.to \in {"me", "link"} => view = "User"
  /\ url.to = "none" => view = "Start"

\* A page that has just been loaded has not looked at its URL.
JustLoaded == ~booted /\ view = "Start"

\* The client writes an address together with what it leads to, and never that
\* of a proposal.
OwnWrites == changed = "own" => Followed /\ url.to # "link"
AllHeard == changed = "nobody" => Followed \/ JustLoaded

IInv == NavTypeOK /\ OneBoard /\ OneOrg /\ OwnWrites /\ AllHeard

-----------------------------------------------------------------------------

\* A route has the parts it was made of.
LEMMA RouteFields ==
  \A to, id : Route(to, id).to = to /\ Route(to, id).id = id
  BY DEF Route

\* A URL is one of a board, an organization, a task or the user, or none.
LEMMA RouteKinds ==
  ASSUME NEW r \in Routes
  PROVE  \/ r.to = "board" /\ r.id \in Boards
         \/ r.to = "org" /\ r.id \in Orgs
         \/ r.to = "task" /\ r.id \in Tasks
         \/ r.to \in {"me", "link", "none"}
  BY RouteFields DEF Routes, NoRoute, Me, Link

\* Every route the client writes is one the fragment can hold.
LEMMA RouteTypes ==
  /\ NoRoute \in Routes /\ Me \in Routes /\ Link \in Routes
  /\ \A b \in Boards : Route("board", b) \in Routes
  /\ \A g \in Orgs : Route("org", g) \in Routes
  /\ \A t \in Tasks : Route("task", t) \in Routes
  BY DEF Routes

\* A page that is loaded with any URL satisfies the invariant.
LEMMA Initially == NavInit => IInv
  BY DEF NavInit, IInv, NavTypeOK, OneBoard, OneOrg, OneOrgAtATime, OwnWrites,
         AllHeard, JustLoaded

-----------------------------------------------------------------------------
(* What opening something establishes, whoever asks for it: the user's     *)
(* click, or the handler of the fragment (open and route_changed).         *)

\* A board is asked for and is on screen.
LEMMA BoardShown ==
  ASSUME OneBoard, OneOrg, NEW b \in Boards, ShowBoard(b)
  PROVE  OneBoard' /\ OneOrg' /\ view' = "Board" /\ pending_board' = b
         /\ proposed' = proposed
  BY NavigationAssumption DEF ShowBoard, OneBoard, OneOrg, OneOrgAtATime, orgs

\* An organization is asked for and is on screen, and what was held of another
\* is dropped.
LEMMA OrgShown ==
  ASSUME OneBoard, OneOrg, NEW g \in Orgs, ShowOrg(g)
  PROVE  OneBoard' /\ OneOrg' /\ view' = "Organization" /\ pending_org' = g
         /\ proposed' = proposed
  BY NavigationAssumption DEF ShowOrg, OneBoard, OneOrg, OneOrgAtATime, boards

\* A task is selected and is on screen.
LEMMA TaskShown ==
  ASSUME OneBoard, OneOrg, NEW t \in Tasks, ShowTask(t)
  PROVE  OneBoard' /\ OneOrg' /\ view' = "Task" /\ selected' = t
         /\ proposed' = proposed
  BY DEF ShowTask, OneBoard, OneOrg, OneOrgAtATime, boards, orgs

\* The user's own page is on screen, with a key that was proposed or without.
LEMMA UserShown ==
  ASSUME OneBoard, OneOrg, proposed \in BOOLEAN, NEW proposal \in BOOLEAN,
         ShowUser(proposal)
  PROVE  OneBoard' /\ OneOrg' /\ view' = "User" /\ proposed' \in BOOLEAN
  BY DEF ShowUser, OneBoard, OneOrg, OneOrgAtATime, boards, orgs

\* Nothing is held any more and the start page is on screen.
LEMMA StartShown ==
  ASSUME ShowStart
  PROVE  OneBoard' /\ OneOrg' /\ view' = "Start" /\ proposed' = proposed
  BY DEF ShowStart, NoBoard, NoOrg, OneBoard, OneOrg, OneOrgAtATime

\* A board that was just created is on screen with no answer awaited.
LEMMA BoardCreated ==
  ASSUME OneBoard, OneOrg, NEW b \in Boards, Created(b)
  PROVE  OneBoard' /\ OneOrg' /\ view' = "Board" /\ pending_board' = b
         /\ proposed' = proposed
  BY NavigationAssumption DEF Created, OneBoard, OneOrg, OneOrgAtATime, orgs

\* An address written together with what it leads to keeps the invariant.
LEMMA GoneTo ==
  ASSUME IInv, NEW route \in Routes, Goes(route), route.to # "link",
         NavTypeOK!1', NavTypeOK!4',
         OneBoard', OneOrg',
         url' = route => Followed'
  PROVE  IInv'
  BY DEF IInv, NavTypeOK, OwnWrites, AllHeard, Goes, Write, JustLoaded

\* So does what leaves the address, the view and what is asked for alone:
\* answers, changes, and losing the connection.
LEMMA StayedThere ==
  ASSUME IInv, OneBoard', OneOrg',
         UNCHANGED <<view, url, changed, booted, pending_board, pending_org,
                     selected>>,
         proposed' \in BOOLEAN
  PROVE  IInv'
  BY DEF IInv, NavTypeOK, OwnWrites, AllHeard, Followed, JustLoaded

-----------------------------------------------------------------------------

\* Every handler of the client keeps the invariant.
LEMMA Step == IInv /\ [NavNext]_nav_vars => IInv'
<1> SUFFICES ASSUME IInv, [NavNext]_nav_vars PROVE IInv'
  OBVIOUS
<1> USE NavigationAssumption
<1>1. OneBoard /\ OneOrg /\ proposed \in BOOLEAN
  BY DEF IInv, NavTypeOK
<1>2. ASSUME NEW b \in Boards, open(b) PROVE IInv'
  <2>1. Goes(Route("board", b)) /\ ShowBoard(b)
    BY <1>2 DEF open
  <2>2. OneBoard' /\ OneOrg' /\ view' = "Board" /\ pending_board' = b
        /\ proposed' = proposed
    BY <1>1, <2>1, BoardShown
  <2>3. Route("board", b) \in Routes /\ Route("board", b).to = "board"
        /\ Route("board", b).id = b
    BY RouteTypes, RouteFields
  <2> QED
    BY <1>1, <2>1, <2>2, <2>3, GoneTo DEF NavTypeOK, Followed
<1>3. ASSUME NEW g \in Orgs, open_org(g) PROVE IInv'
  <2>1. Goes(Route("org", g)) /\ ShowOrg(g)
    BY <1>3 DEF open_org
  <2>2. OneBoard' /\ OneOrg' /\ view' = "Organization" /\ pending_org' = g
        /\ proposed' = proposed
    BY <1>1, <2>1, OrgShown
  <2>3. Route("org", g) \in Routes /\ Route("org", g).to = "org"
        /\ Route("org", g).id = g
    BY RouteTypes, RouteFields
  <2> QED
    BY <1>1, <2>1, <2>2, <2>3, GoneTo DEF NavTypeOK, Followed
<1>4. ASSUME NEW t \in Tasks, open_task_page(t) PROVE IInv'
  <2>1. Goes(Route("task", t)) /\ ShowTask(t)
    BY <1>4 DEF open_task_page
  <2>2. OneBoard' /\ OneOrg' /\ view' = "Task" /\ selected' = t
        /\ proposed' = proposed
    BY <1>1, <2>1, TaskShown
  <2>3. Route("task", t) \in Routes /\ Route("task", t).to = "task"
        /\ Route("task", t).id = t
    BY RouteTypes, RouteFields
  <2> QED
    BY <1>1, <2>1, <2>2, <2>3, GoneTo DEF NavTypeOK, Followed
<1>5. CASE open_user_page
  <2>1. Goes(Me) /\ ShowUser(FALSE)
    BY <1>5 DEF open_user_page
  <2>2. OneBoard' /\ OneOrg' /\ view' = "User" /\ proposed' \in BOOLEAN
    BY <1>1, <2>1, UserShown
  <2>3. Me \in Routes /\ Me.to = "me"
    BY RouteTypes, RouteFields DEF Me
  <2> QED
    BY <1>1, <2>1, <2>2, <2>3, GoneTo DEF NavTypeOK, Followed
<1>6. CASE back
  <2>1. Goes(NoRoute) /\ ShowStart
    BY <1>6 DEF back
  <2>2. OneBoard' /\ OneOrg' /\ view' = "Start" /\ proposed' = proposed
    BY <2>1, StartShown
  <2>3. NoRoute \in Routes /\ NoRoute.to = "none"
    BY RouteTypes, RouteFields DEF NoRoute
  <2> QED
    BY <1>1, <2>1, <2>2, <2>3, GoneTo DEF NavTypeOK, Followed
<1>7. ASSUME NEW t \in Tasks, select_task(t) PROVE IInv'
  <2>1. Goes(Route("task", t)) /\ selected' = t
        /\ UNCHANGED <<view, boards, orgs, proposed>>
    BY <1>7 DEF select_task
  <2>2. OneBoard' /\ OneOrg' /\ view' = view /\ proposed' = proposed
    BY <1>1, <2>1 DEF OneBoard, OneOrg, OneOrgAtATime, boards, orgs
  <2>3. Route("task", t) \in Routes /\ Route("task", t).to = "task"
        /\ Route("task", t).id = t
    BY RouteTypes, RouteFields
  <2> QED
    BY <1>1, <2>1, <2>2, <2>3, GoneTo DEF NavTypeOK, Followed, IInv
<1>8. ASSUME NEW b \in Boards, Created(b) PROVE IInv'
  <2>1. Goes(Route("board", b))
    BY <1>8 DEF Created
  <2>2. OneBoard' /\ OneOrg' /\ view' = "Board" /\ pending_board' = b
        /\ proposed' = proposed
    BY <1>1, <1>8, BoardCreated
  <2>3. Route("board", b) \in Routes /\ Route("board", b).to = "board"
        /\ Route("board", b).id = b
    BY RouteTypes, RouteFields
  <2> QED
    BY <1>1, <2>1, <2>2, <2>3, GoneTo DEF NavTypeOK, Followed
<1>9. ASSUME NEW g \in Orgs, create_org(g) PROVE IInv'
  <2>1. Goes(Route("org", g))
    BY <1>9 DEF create_org
  <2>2. OneBoard' /\ OneOrg' /\ view' = "Organization" /\ pending_org' = g
        /\ proposed' = proposed
    BY <1>1, <1>9 DEF create_org, OneBoard, OneOrg, OneOrgAtATime, boards
  <2>3. Route("org", g) \in Routes /\ Route("org", g).to = "org"
        /\ Route("org", g).id = g
    BY RouteTypes, RouteFields
  <2> QED
    BY <1>1, <2>1, <2>2, <2>3, GoneTo DEF NavTypeOK, Followed
<1>10. CASE close_task
  <2>1. OneBoard' /\ OneOrg' /\ proposed' = proposed /\ booted' = booted
    BY <1>1, <1>10 DEF close_task, OneBoard, OneOrg, OneOrgAtATime, boards, orgs
  <2>2. BoardInUrl \in Routes /\ BoardInUrl.to \in {"board", "none"}
    BY <1>1, RouteTypes, RouteFields DEF BoardInUrl, OneBoard, NoRoute
  <2>3. view' = IF view = "Task" THEN "Board" ELSE view
    BY <1>10 DEF close_task
  <2>4. NavTypeOK'
    BY <1>10, <2>1, <2>2, <2>3 DEF close_task, Write, IInv, NavTypeOK
  <2>5. CASE BoardInUrl = url
    \* Nothing is written, and what the URL leads to is no task.
    <3>1. url' = url /\ changed' = changed
      BY <1>10, <2>5 DEF close_task, Write
    <3>2. Followed => Followed'
      BY <1>10, <2>2, <2>3, <2>5, <3>1 DEF close_task, Followed, boards, orgs
    <3> QED
      BY <2>1, <2>3, <2>4, <3>1, <3>2
      DEF IInv, OwnWrites, AllHeard, JustLoaded
  <2>6. CASE BoardInUrl # url
    <3>1. changed' = "closing"
      BY <1>10, <2>6 DEF close_task, Write
    <3> QED
      BY <2>1, <2>4, <3>1 DEF IInv, OwnWrites, AllHeard
  <2> QED
    BY <2>5, <2>6
<1>11. CASE answer_proposal
  <2>1. OneBoard' /\ OneOrg'
    BY <1>1, <1>11
    DEF answer_proposal, OneBoard, OneOrg, OneOrgAtATime, boards, orgs
  <2> QED
    BY <1>11, <2>1, StayedThere DEF answer_proposal, boards, orgs
<1>12. ASSUME NEW route \in Routes, Browse(route) PROVE IInv'
  <2>1. /\ OneBoard' /\ OneOrg'
        /\ UNCHANGED <<view, boards, orgs, selected, proposed, booted>>
    BY <1>1, <1>12
    DEF Browse, page, OneBoard, OneOrg, OneOrgAtATime, boards, orgs
  <2>2. CASE route = url
    BY <1>12, <2>1, <2>2, StayedThere
    DEF Browse, Write, boards, orgs, IInv, NavTypeOK
  <2>3. CASE route # url
    BY <1>12, <2>1, <2>3
    DEF Browse, Write, IInv, NavTypeOK, OwnWrites, AllHeard
  <2> QED
    BY <2>2, <2>3
<1>13. CASE route_changed
  <2>1. url' = url /\ changed' = "nobody" /\ booted' = booted
    BY <1>13 DEF route_changed
  <2> SUFFICES /\ OneBoard' /\ OneOrg' /\ Followed'
               /\ view' \in {"Start", "Board", "Task", "User", "Organization"}
               /\ proposed' \in BOOLEAN
    BY <2>1 DEF IInv, NavTypeOK, OwnWrites, AllHeard
  <2>2. ASSUME NEW at, Look(at)
        PROVE  /\ OneBoard' /\ OneOrg' /\ view' = at /\ proposed' = proposed
               /\ pending_board' = pending_board /\ pending_org' = pending_org
               /\ selected' = selected
    BY <1>1, <2>2 DEF Look, OneBoard, OneOrg, OneOrgAtATime, boards, orgs
  <2>3. CASE url.to = "board"
    <3>1. url.id \in Boards
      BY <2>3, RouteKinds DEF IInv, NavTypeOK
    <3>2. CASE Held(url.id)
      <4>1. Look("Board")
        BY <1>13, <2>3, <3>2 DEF route_changed
      <4>2. pending_board = url.id
        BY <1>1, <3>1, <3>2 DEF Held, OneBoard, OneOrg, OneOrgAtATime
      <4> QED
        BY <1>1, <2>1, <2>2, <2>3, <4>1, <4>2 DEF Followed
    <3>3. CASE ~Held(url.id)
      <4>1. ShowBoard(url.id)
        BY <1>13, <2>3, <3>3 DEF route_changed
      <4> QED
        BY <1>1, <2>1, <2>3, <3>1, <4>1, BoardShown DEF Followed
    <3> QED
      BY <3>2, <3>3
  <2>4. CASE url.to = "org"
    <3>1. url.id \in Orgs
      BY <2>4, RouteKinds DEF IInv, NavTypeOK
    <3>2. CASE Held(url.id)
      <4>1. Look("Organization")
        BY <1>13, <2>4, <3>2 DEF route_changed
      <4>2. pending_org = url.id
        BY <1>1, <3>1, <3>2 DEF Held, OneBoard, OneOrg, OneOrgAtATime
      <4> QED
        BY <1>1, <2>1, <2>2, <2>4, <4>1, <4>2 DEF Followed
    <3>3. CASE ~Held(url.id)
      <4>1. ShowOrg(url.id)
        BY <1>13, <2>4, <3>3 DEF route_changed
      <4> QED
        BY <1>1, <2>1, <2>4, <3>1, <4>1, OrgShown DEF Followed
    <3> QED
      BY <3>2, <3>3
  <2>5. CASE url.to = "task"
    <3>1. url.id \in Tasks
      BY <2>5, RouteKinds DEF IInv, NavTypeOK
    <3>2. CASE selected = url.id
      <4>1. Look(view)
        BY <1>13, <2>5, <3>2 DEF route_changed
      <4> QED
        BY <1>1, <2>1, <2>2, <2>5, <3>2, <4>1 DEF Followed, IInv, NavTypeOK
    <3>3. CASE selected # url.id
      <4>1. ShowTask(url.id)
        BY <1>13, <2>5, <3>3 DEF route_changed
      <4> QED
        BY <1>1, <2>1, <2>5, <3>1, <4>1, TaskShown DEF Followed
    <3> QED
      BY <3>2, <3>3
  <2>6. CASE url.to = "me"
    <3>1. ShowUser(FALSE)
      BY <1>13, <2>6 DEF route_changed
    <3> QED
      BY <1>1, <2>1, <2>6, <3>1, UserShown DEF Followed
  <2>7. CASE url.to = "link"
    <3>1. ShowUser(TRUE)
      BY <1>13, <2>7 DEF route_changed
    <3> QED
      BY <1>1, <2>1, <2>7, <3>1, UserShown DEF Followed
  <2>8. CASE url.to = "none"
    <3>1. CASE view = "Start"
      <4>1. Look("Start")
        BY <1>13, <2>8, <3>1 DEF route_changed
      <4> QED
        BY <1>1, <2>1, <2>2, <2>8, <4>1 DEF Followed
    <3>2. CASE view # "Start"
      <4>1. ShowStart
        BY <1>13, <2>8, <3>2 DEF route_changed
      <4> QED
        BY <1>1, <2>1, <2>8, <4>1, StartShown DEF Followed
    <3> QED
      BY <3>1, <3>2
  <2> QED
    BY <2>3, <2>4, <2>5, <2>6, <2>7, <2>8, RouteKinds DEF IInv, NavTypeOK
<1>14. CASE on_connected
  <2>1. url' = url /\ changed' = changed /\ booted' = TRUE
    BY <1>14 DEF on_connected
  <2> SUFFICES /\ OneBoard' /\ OneOrg'
               /\ changed \in {"own", "nobody"} => Followed'
               /\ view' \in {"Start", "Board", "Task", "User", "Organization"}
               /\ proposed' \in BOOLEAN
    BY <2>1 DEF IInv, NavTypeOK, OwnWrites, AllHeard
  <2>2. CASE url.to = "board"
    <3>1. url.id \in Boards /\ ShowBoard(url.id)
      BY <1>14, <2>2, RouteKinds DEF on_connected, IInv, NavTypeOK
    <3> QED
      BY <1>1, <2>1, <2>2, <3>1, BoardShown DEF Followed
  <2>3. CASE url.to = "org"
    <3>1. url.id \in Orgs /\ ShowOrg(url.id)
      BY <1>14, <2>3, RouteKinds DEF on_connected, IInv, NavTypeOK
    <3> QED
      BY <1>1, <2>1, <2>3, <3>1, OrgShown DEF Followed
  <2>4. CASE url.to = "task"
    <3>1. url.id \in Tasks /\ ShowTask(url.id)
      BY <1>14, <2>4, RouteKinds DEF on_connected, IInv, NavTypeOK
    <3> QED
      BY <1>1, <2>1, <2>4, <3>1, TaskShown DEF Followed
  <2>5. CASE url.to = "me"
    <3>1. ShowUser(FALSE)
      BY <1>14, <2>5 DEF on_connected
    <3> QED
      BY <1>1, <2>1, <2>5, <3>1, UserShown DEF Followed
  <2>6. CASE url.to = "link"
    <3>1. ShowUser(TRUE)
      BY <1>14, <2>6 DEF on_connected
    <3> QED
      BY <1>1, <2>1, <2>6, <3>1, UserShown DEF Followed
  <2>7. CASE url.to = "none"
    <3>1. Look(view)
      BY <1>14, <2>7 DEF on_connected
    <3>2. OneBoard' /\ OneOrg' /\ view' = view /\ proposed' = proposed
      BY <1>1, <3>1 DEF Look, OneBoard, OneOrg, OneOrgAtATime, boards, orgs
    <3>3. changed \in {"own", "nobody"} => view = "Start"
      BY <2>7 DEF IInv, OwnWrites, AllHeard, Followed, JustLoaded
    <3> QED
      BY <1>1, <2>1, <2>7, <3>2, <3>3 DEF Followed, IInv, NavTypeOK
  <2> QED
    BY <2>2, <2>3, <2>4, <2>5, <2>6, <2>7, RouteKinds DEF IInv, NavTypeOK
<1>15. ASSUME NEW b \in Boards, GotBoard(b) PROVE IInv'
  <2>1. OneBoard' /\ OneOrg'
    BY <1>1, <1>15
    DEF GotBoard, awaiting_board, OneBoard, OneOrg, OneOrgAtATime, orgs
  <2> QED
    BY <1>1, <1>15, <2>1, StayedThere DEF GotBoard, orgs
<1>16. ASSUME NEW g \in Orgs, NEW readable \in BOOLEAN, GotOrg(g, readable)
       PROVE  IInv'
  <2>1. OneBoard' /\ OneOrg'
    BY <1>1, <1>16 DEF GotOrg, kind_of, OneBoard, OneOrg, OneOrgAtATime, boards
  <2> QED
    BY <1>1, <1>16, <2>1, StayedThere DEF GotOrg, boards
<1>17. ASSUME NEW id \in Boards \cup Orgs, Missing(id) PROVE IInv'
  <2>1. OneBoard' /\ OneOrg'
    BY <1>1, <1>17
    DEF Missing, awaiting_board, OneBoard, OneOrg, OneOrgAtATime, orgs
  <2> QED
    BY <1>1, <1>17, <2>1, StayedThere DEF Missing, orgs
<1>18. ASSUME NEW g \in Orgs, ChangedOrg(g) PROVE IInv'
  <2>1. OneBoard' /\ OneOrg'
    BY <1>1, <1>18
    DEF ChangedOrg, kind_of, OneBoard, OneOrg, OneOrgAtATime, boards
  <2> QED
    BY <1>1, <1>18, <2>1, StayedThere DEF ChangedOrg, boards
<1>19. CASE resync
  <2>1. OneBoard' /\ OneOrg'
    BY <1>1, <1>19
    DEF resync, page, OneBoard, OneOrg, OneOrgAtATime, boards, orgs
  <2> QED
    BY <1>1, <1>19, <2>1, StayedThere DEF resync, page, boards, orgs
<1>20. CASE Reload
  <2>1. OneBoard' /\ OneOrg'
    BY <1>20 DEF Reload, NoBoard, NoOrg, OneBoard, OneOrg, OneOrgAtATime
  <2> QED
    BY <1>20, <2>1
    DEF Reload, IInv, NavTypeOK, OwnWrites, AllHeard, JustLoaded
<1>21. CASE UNCHANGED nav_vars
  <2>1. OneBoard' /\ OneOrg'
    BY <1>1, <1>21
    DEF nav_vars, page, OneBoard, OneOrg, OneOrgAtATime, boards, orgs
  <2> QED
    BY <1>1, <1>21, <2>1, StayedThere DEF nav_vars, page, boards, orgs
<1> QED
  BY <1>2, <1>3, <1>4, <1>5, <1>6, <1>7, <1>8, <1>9, <1>10, <1>11, <1>12, <1>13,
     <1>14, <1>15, <1>16, <1>17, <1>18, <1>19, <1>20, <1>21
  DEF NavNext, create, create_org_project

-----------------------------------------------------------------------------

\* In every state the client can reach: one board, one organization, and a page
\* that its URL leads to unless somebody else has written the URL since.
THEOREM Safety == NavSpec => []IInv
  BY Initially, Step, PTL DEF NavSpec

\* What is held of an organization is of one, and of the one that edits go to
\* (open_org, GotOrg, ChangedOrg): its ops never mix with another's.
THEOREM OrgsApart == NavSpec => []OneOrgAtATime
<1>1. IInv => OneOrgAtATime
  BY DEF IInv, OneOrg
<1> QED
  BY <1>1, Safety, PTL

\* A page that has heard every change of its URL shows what the URL names.
LEMMA ShownIsNamed == IInv => ScreenIsOfAddress
<1> SUFFICES ASSUME IInv, booted, changed = "nobody"
             PROVE  IF url.to = "task"
                    THEN selected = url.id
                    ELSE /\ screen \in Destinations
                         /\ url.to \in {"board", "org"} =>
                              where_you_are \in {url.id, None}
  BY DEF ScreenIsOfAddress
<1>1. Followed /\ OneBoard /\ OneOrg /\ url \in Routes
  BY DEF IInv, NavTypeOK, AllHeard, JustLoaded
<1>2. CASE url.to = "board"
  <2>1. view = "Board" /\ pending_board = url.id /\ url.id \in Boards
    BY <1>1, <1>2, RouteKinds DEF Followed
  <2>2. /\ status \in {"Loading", "Missing", "Ready"}
        /\ contract_key \in {None, url.id}
        /\ (status = "Ready" => contract_key = url.id)
    BY <1>1, <2>1, NavigationAssumption DEF OneBoard
  <2>3. screen \in {At("board", url.id), Looking(url.id)}
    BY <2>1, <2>2 DEF screen
  <2>4. where_you_are \in {url.id, None}
    BY <2>1, <2>2 DEF where_you_are
  <2> QED
    BY <1>2, <2>3, <2>4 DEF Destinations
<1>3. CASE url.to = "org"
  <2>1. view = "Organization" /\ pending_org = url.id
    BY <1>1, <1>3 DEF Followed
  <2>2. org_params \in {None, url.id}
    BY <1>1, <2>1 DEF OneOrg, OneOrgAtATime
  <2>3. screen \in {At("org", url.id), Looking(url.id)}
    BY <2>1, <2>2 DEF screen
  <2>4. where_you_are \in {url.id, None}
    BY <2>1, <2>2 DEF where_you_are
  <2> QED
    BY <1>3, <2>3, <2>4 DEF Destinations
<1>4. CASE url.to = "task"
  BY <1>1, <1>4 DEF Followed
<1>5. CASE url.to \in {"me", "link"}
  BY <1>1, <1>5 DEF Followed, screen, Destinations
<1>6. CASE url.to = "none"
  BY <1>1, <1>6 DEF Followed, screen, Destinations
<1> QED
  BY <1>1, <1>2, <1>3, <1>4, <1>5, <1>6, RouteKinds

\* Whatever was opened, left and answered late before, Back, Forward and a
\* reload end on the page that the URL names (route_changed, on_connected).
THEOREM ScreenFollows == NavSpec => []ScreenIsOfAddress
  BY ShownIsNamed, Safety, PTL

\* The check whether one is already there (route_changed, store.rs 1769-1803)
\* is enough: hearing of an address the client wrote itself changes nothing
\* and asks for nothing.
LEMMA OwnIsNoNews ==
  IInv /\ route_changed /\ changed = "own" => UNCHANGED <<page, asked>>
<1> SUFFICES ASSUME IInv, route_changed, changed = "own"
             PROVE  UNCHANGED <<page, asked>>
  OBVIOUS
<1>1. Followed /\ url.to # "link" /\ url \in Routes /\ proposed \in BOOLEAN
  BY DEF IInv, NavTypeOK, OwnWrites
<1>2. CASE url.to = "board"
  BY <1>1, <1>2 DEF route_changed, Followed, Held, Look, page
<1>3. CASE url.to = "org"
  BY <1>1, <1>3 DEF route_changed, Followed, Held, Look, page
<1>4. CASE url.to = "task"
  BY <1>1, <1>4 DEF route_changed, Followed, Look, page
<1>5. CASE url.to = "me"
  BY <1>1, <1>5 DEF route_changed, Followed, ShowUser, page
<1>6. CASE url.to = "none"
  BY <1>1, <1>6 DEF route_changed, Followed, Look, page
<1> QED
  BY <1>1, <1>2, <1>3, <1>4, <1>5, <1>6, RouteKinds

\* "Our own writes raise this same event, and without the check a navigation
\* would re-enter itself": with it, none does.
THEOREM OwnWritesAreNoNews == NavSpec => NothingReenters
<1>1. IInv /\ [NavNext]_nav_vars =>
        [route_changed /\ changed = "own" => UNCHANGED <<page, asked>>]_nav_vars
  BY OwnIsNoNews
<1> QED
  BY <1>1, Safety, PTL DEF NavSpec, NothingReenters

-----------------------------------------------------------------------------
(* Along a fold, and along what is written at once.                        *)

\* What holds of 0, and of every number up to N with the one before, holds up
\* to N.
LEMMA UpTo ==
  ASSUME NEW S, NEW N \in Nat, 0 \in S, \A n \in 1..N : n - 1 \in S => n \in S
  PROVE  0..N \subseteq S
<1> DEFINE T == (0..N) \ S
           R == OpToRel(<, Nat)
<1> SUFFICES ASSUME T # {} PROVE FALSE
  OBVIOUS
<1>1. T \subseteq Nat
  OBVIOUS
<1>2. PICK x \in T : \A y \in T : ~(<<y, x>> \in R)
  BY <1>1, NatLessThanWellFounded, WFMin
<1>3. x \in 1..N /\ x - 1 \in 0..N /\ x - 1 < x
  OBVIOUS
<1>4. <<x - 1, x>> \in R
  BY <1>3 DEF OpToRel
<1>5. x - 1 \in S
  BY <1>2, <1>3, <1>4
<1> QED
  BY <1>3, <1>5

\* The recursion that authority_in is defined by has a solution, and what every
\* op keeps holds along it.
LEMMA FoldAlong ==
  ASSUME NEW given, NEW S, Empty \in S, \A a \in S, op \in given : Fold(a, op) \in S
  PROVE  \E f \in [0..Places -> S] :
           /\ f[0] = Empty
           /\ \A n \in 1..Places : f[n] = FoldPlace(given, f[n - 1], n)
           /\ authority_in(given) = f[Places]
<1> DEFINE Body(g, n) == IF n = 0 THEN Empty ELSE FoldPlace(given, g[n - 1], n)
           upto == CHOOSE g : g = [n \in 0..Places |-> Body(g, n)]
<1>1. authority_in(given) = upto[Places]
  BY DEF authority_in
<1>2. Places \in Nat
  BY PlacesAssumption
<1>3. ASSUME NEW a \in S, NEW n PROVE FoldPlace(given, a, n) \in S
  <2>1. CASE n \in {op.key : op \in given}
    <3>1. (CHOOSE op \in given : op.key = n) \in given
      BY <2>1
    <3> QED
      BY <2>1, <3>1 DEF FoldPlace
  <2> QED
    BY <2>1 DEF FoldPlace
<1> DEFINE F == [0..Places -> S]
           M == {m \in 0..Places : \E f \in F : \A n \in 0..m : f[n] = Body(f, n)}
<1>4. 0 \in M
  <2> DEFINE f == [n \in 0..Places |-> Empty]
  <2>1. f \in F /\ \A n \in 0..0 : f[n] = Body(f, n)
    BY <1>2
  <2> HIDE DEF f, F, Body
  <2> QED
    BY <1>2, <2>1
<1>5. ASSUME NEW m \in 1..Places, m - 1 \in M PROVE m \in M
  <2>1. PICK f \in F : \A n \in 0..(m - 1) : f[n] = Body(f, n)
    BY <1>5
  <2>2. m \in 0..Places /\ m - 1 \in 0..Places /\ m # m - 1 /\ m # 0
    BY <1>2
  <2> DEFINE g == [f EXCEPT ![m] = FoldPlace(given, f[m - 1], m)]
  <2>3. g \in F
    BY <1>3, <2>1, <2>2
  <2>4. ASSUME NEW n \in 0..m PROVE g[n] = Body(g, n)
    <3>1. CASE n = m
      BY <2>1, <2>2, <3>1
    <3>2. CASE n # m
      <4>1. n \in 0..(m - 1) /\ n \in 0..Places /\ (n # 0 => n - 1 \in 0..Places /\ n - 1 # m)
        BY <1>2, <2>2, <3>2
      <4>2. \A i \in 0..Places : i # m => g[i] = f[i]
        BY <2>1
      <4>3. g[n] = f[n] /\ (n # 0 => g[n - 1] = f[n - 1])
        <5> HIDE DEF g
        <5> QED
          BY <3>2, <4>1, <4>2
      <4> HIDE DEF g
      <4> QED
        BY <2>1, <4>1, <4>3
    <3> QED
      BY <3>1, <3>2
  <2> HIDE DEF g, F, Body
  <2> QED
    BY <2>2, <2>3, <2>4
<1>6. Places \in M
  <2> HIDE DEF M
  <2> QED
    BY <1>2, <1>4, <1>5, UpTo
<1>7. PICK f \in F : \A n \in 0..Places : f[n] = Body(f, n)
  BY <1>6
<1>8. f = [n \in 0..Places |-> Body(f, n)]
  BY <1>7
<1>9. upto = [n \in 0..Places |-> Body(upto, n)]
  <2> HIDE DEF Body
  <2> QED
    BY <1>8
<1>10. upto[0] = Empty /\ \A n \in 1..Places : upto[n] = FoldPlace(given, upto[n - 1], n)
  <2> HIDE DEF upto
  <2>1. \A n \in 0..Places : upto[n] = Body(upto, n)
    BY <1>9
  <2> QED
    BY <1>2, <2>1
<1>11. upto \in F
  <2> DEFINE Q == {n \in 0..Places : upto[n] \in S}
  <2> HIDE DEF upto
  <2>1. 0 \in Q
    BY <1>2, <1>10
  <2>2. ASSUME NEW n \in 1..Places, n - 1 \in Q PROVE n \in Q
    BY <1>3, <1>10, <2>2
  <2>3. 0..Places \subseteq Q
    <3> HIDE DEF Q
    <3> QED
      BY <1>2, <2>1, <2>2, UpTo
  <2> HIDE DEF Body
  <2> QED
    BY <1>9, <2>3
<1> HIDE DEF upto
<1> QED
  BY <1>1, <1>10, <1>11

\* What every op keeps holds of what comes of them all.
LEMMA FoldStays ==
  ASSUME NEW given, NEW S, Empty \in S, \A a \in S, op \in given : Fold(a, op) \in S
  PROVE  authority_in(given) \in S
<1>1. PICK f \in [0..Places -> S] : authority_in(given) = f[Places]
  BY FoldAlong
<1> QED
  BY <1>1, PlacesAssumption

\* So has the recursion by which several writes are made.
Writes(f, p, c, drafts) ==
  /\ f[0] = [log |-> log[c], known |-> known[p][c], batches |-> << >>]
  /\ \A i \in 1..Len(drafts) : f[i] = Emit(p, f[i - 1], drafts[i])

LEMMA EmittedAlong ==
  ASSUME NEW p, NEW c, NEW drafts, Len(drafts) \in Nat
  PROVE  \E f : Writes(f, p, c, drafts) /\ Emitted(p, c, drafts) = f[Len(drafts)]
<1> DEFINE N == Len(drafts)
           base == [log |-> log[c], known |-> known[p][c], batches |-> << >>]
           Body(g, i) == IF i = 0 THEN base ELSE Emit(p, g[i - 1], drafts[i])
           after == CHOOSE g : g = [i \in 0..N |-> Body(g, i)]
           M == {m \in 0..N : \E f : f = [i \in 0..m |-> Body(f, i)]}
<1>1. Emitted(p, c, drafts) = after[N]
  BY DEF Emitted
<1> HIDE DEF base
<1>2. 0 \in M
  <2> DEFINE f == [i \in 0..0 |-> base]
  <2>1. \A i \in 0..0 : Body(f, i) = base
    OBVIOUS
  <2>2. f = [i \in 0..0 |-> Body(f, i)]
    <3> HIDE DEF Body
    <3> QED
      BY <2>1
  <2> HIDE DEF f, Body
  <2> QED
    BY <2>2
<1>3. ASSUME NEW m \in 1..N, m - 1 \in M PROVE m \in M
  <2>1. PICK f : f = [i \in 0..(m - 1) |-> Body(f, i)]
    BY <1>3
  <2> DEFINE g == [i \in 0..m |-> IF i = m THEN Emit(p, f[m - 1], drafts[m]) ELSE f[i]]
  <2>2. \A i \in 0..(m - 1) : f[i] = Body(f, i)
    <3> HIDE DEF Body
    <3> QED
      BY <2>1
  <2>3. \A i \in 0..(m - 1) : g[i] = f[i]
    OBVIOUS
  <2>4. g[m] = Emit(p, f[m - 1], drafts[m])
    OBVIOUS
  <2>5. ASSUME NEW i \in 0..m PROVE g[i] = Body(g, i)
    <3> HIDE DEF g
    <3>1. CASE i = m
      BY <2>3, <2>4, <3>1
    <3>2. CASE i # m
      <4>1. i \in 0..(m - 1) /\ (i # 0 => i - 1 \in 0..(m - 1))
        BY <3>2
      <4> QED
        BY <2>2, <2>3, <4>1
    <3> QED
      BY <3>1, <3>2
  <2>6. g = [i \in 0..m |-> Body(g, i)]
    <3> HIDE DEF Body
    <3>1. g = [i \in 0..m |-> g[i]]
      OBVIOUS
    <3> HIDE DEF g
    <3> QED
      BY <2>5, <3>1
  <2>7. m \in 0..N
    OBVIOUS
  <2> HIDE DEF g, Body
  <2> QED
    BY <2>6, <2>7
<1>4. N \in M
  <2> HIDE DEF M
  <2> QED
    BY <1>2, <1>3, UpTo
<1>5. after = [i \in 0..N |-> Body(after, i)]
  <2> HIDE DEF Body
  <2> QED
    BY <1>4
<1>6. after[0] = base /\ \A i \in 1..N : after[i] = Emit(p, after[i - 1], drafts[i])
  <2> HIDE DEF after
  <2>1. \A i \in 0..N : after[i] = Body(after, i)
    <3> HIDE DEF Body
    <3> QED
      BY <1>5
  <2> QED
    BY <2>1
<1> HIDE DEF after
<1> QED
  BY <1>1, <1>6 DEF base, Writes

-----------------------------------------------------------------------------
(* What is written.                                                        *)

\* What an op of a contract looks like: nobody grants part of what a member or
\* an admin may, and in an organization no device is vouched for or released.
Kinds == {"GRANT", "LINK_DEVICE", "UNLINK_DEVICE", "APPLICATION"}

MemberOp(c, op) ==
  /\ op \in [key : {0}, scope : {Here}, kind : Kinds, author : Key, target : Key,
             rights : SUBSET ALL, signed : {TRUE}, legible : {TRUE},
             body : {op.body}, n : Nat, lamport : {op.lamport}]
  /\ op.kind = "GRANT" => op.rights \in {NONE, MEMBER, ADMIN}
  /\ c = "org" => op.kind \notin {"LINK_DEVICE", "UNLINK_DEVICE"}

\* A contract's ops, each with a number of its own.
GoodLog(c, s) ==
  /\ s \in Seq(Range(s))
  /\ \A op \in Range(s) : MemberOp(c, op) /\ op.n \in 1..Len(s)

GoodDraft(c, d) ==
  /\ d.kind \in Kinds /\ d.target \in Key /\ d.rights \in SUBSET ALL
  /\ d.kind = "GRANT" => d.rights \in {NONE, MEMBER, ADMIN}
  /\ c = "org" => d.kind \notin {"LINK_DEVICE", "UNLINK_DEVICE"}

\* A draft becomes an op.
LEMMA SignedIs ==
  ASSUME NEW c, NEW d, GoodDraft(c, d), NEW p \in Key, NEW n \in Nat, NEW lamport
  PROVE  LET op == Signed(p, d, n, lamport)
         IN  /\ MemberOp(c, op)
             /\ op.author = p /\ op.kind = d.kind /\ op.target = d.target
             /\ op.rights = d.rights /\ op.n = n
BY DEF Signed, MemberOp, GoodDraft

\* An op is put somewhere among the others.
LEMMA InsertedIs ==
  ASSUME NEW s, s \in Seq(Range(s)), NEW op
  PROVE  /\ Inserted(s, op) \in Seq(Range(Inserted(s, op)))
         /\ Len(Inserted(s, op)) = Len(s) + 1
         /\ Range(Inserted(s, op)) = Range(s) \cup {op}
         /\ LET place == 1 + Cardinality({i \in DOMAIN s : Precedes(s[i], op)})
            IN  /\ place \in 1..(Len(s) + 1)
                /\ \A i \in 1..(Len(s) + 1) :
                     Inserted(s, op)[i] = IF i < place THEN s[i]
                                          ELSE IF i = place THEN op ELSE s[i - 1]
<1> DEFINE S == Range(s) \cup {op}
           earlier == {i \in DOMAIN s : Precedes(s[i], op)}
           place == 1 + Cardinality(earlier)
<1>1. s \in Seq(S) /\ op \in S /\ Len(s) \in Nat /\ DOMAIN s = 1..Len(s)
  OBVIOUS
<1>2. place \in 1..(Len(s) + 1)
  <2>1. IsFiniteSet(1..Len(s)) /\ Cardinality(1..Len(s)) = Len(s)
    <3>1. Len(s) = Len(s) - 1 + 1
      BY <1>1
    <3> QED
      BY <1>1, <3>1, FS_Interval
  <2>2. earlier \subseteq 1..Len(s)
    BY <1>1
  <2> HIDE DEF earlier
  <2>3. IsFiniteSet(earlier) /\ Cardinality(earlier) <= Len(s)
    BY <2>1, <2>2, FS_Subset
  <2>4. Cardinality(earlier) \in Nat
    BY <2>3, FS_CardinalityType
  <2> QED
    BY <1>1, <2>3, <2>4
<1> DEFINE before == SubSeq(s, 1, place - 1)
           after == SubSeq(s, place, Len(s))
           t == before \o <<op>> \o after
<1>3. Inserted(s, op) = t
  BY DEF Inserted, InsertAt
<1> HIDE DEF S, place
<1>4. /\ before \in Seq(S) /\ Len(before) = place - 1
      /\ \A i \in 1..(place - 1) : before[i] = s[i]
  BY <1>1, <1>2
<1>5. /\ after \in Seq(S) /\ Len(after) = Len(s) + 1 - place
      /\ \A i \in 1..(Len(s) + 1 - place) : after[i] = s[place + i - 1]
  BY <1>1, <1>2
<1> HIDE DEF before, after
<1> DEFINE head == before \o <<op>>
<1>6. /\ head \in Seq(S) /\ Len(head) = place
      /\ \A i \in 1..place : head[i] = IF i < place THEN s[i] ELSE op
  BY <1>1, <1>2, <1>4
<1>7. t = head \o after
  OBVIOUS
<1> HIDE DEF head, t
<1>8. t \in Seq(S) /\ Len(t) = Len(s) + 1
  BY <1>1, <1>2, <1>5, <1>6, <1>7
<1>9. ASSUME NEW i \in 1..(Len(s) + 1)
      PROVE  t[i] = IF i < place THEN s[i] ELSE IF i = place THEN op ELSE s[i - 1]
  <2>1. t[i] = IF i <= place THEN head[i] ELSE after[i - place]
    BY <1>1, <1>2, <1>5, <1>6, <1>7
  <2>2. ~(i <= place) => after[i - place] = s[i - 1]
    BY <1>1, <1>2, <1>5
  <2> QED
    BY <1>2, <1>6, <2>1, <2>2
<1>10. DOMAIN t = 1..(Len(s) + 1)
  BY <1>1, <1>8
<1>11. Range(t) = Range(s) \cup {op}
  <2>1. ASSUME NEW i \in 1..(Len(s) + 1) PROVE t[i] \in S
    BY <1>8, <1>10
  <2>2. t[place] = op
    BY <1>2, <1>9
  <2>3. ASSUME NEW i \in 1..Len(s) PROVE \E j \in 1..(Len(s) + 1) : t[j] = s[i]
    <3>1. CASE i < place
      <4>1. i \in 1..(Len(s) + 1)
        BY <1>1
      <4>2. t[i] = s[i]
        BY <1>9, <3>1, <4>1
      <4> QED
        BY <4>1, <4>2
    <3>2. CASE ~(i < place)
      <4>1. i + 1 \in 1..(Len(s) + 1) /\ ~(i + 1 < place) /\ i + 1 # place /\ (i + 1) - 1 = i
        BY <1>1, <1>2, <3>2
      <4>2. t[i + 1] = s[i]
        BY <1>9, <4>1
      <4> QED
        BY <4>1, <4>2
    <3> QED
      BY <3>1, <3>2
  <2>4. Range(t) \subseteq S
    BY <1>10, <2>1 DEF Range
  <2>5. S \subseteq Range(t)
    BY <1>1, <1>2, <1>10, <2>2, <2>3 DEF Range, S
  <2> QED
    BY <2>4, <2>5 DEF S
<1> QED
  BY <1>2, <1>3, <1>8, <1>9, <1>11 DEF S, place

-----------------------------------------------------------------------------
(* Several writes.                                                         *)

\* What a page has written comes on top of what was there; it knows what it knew
\* and what it wrote.
Continues(p, c, acc) ==
  /\ GoodLog(c, acc.log)
  /\ Len(log[c]) <= Len(acc.log)
  /\ Range(log[c]) \subseteq Range(acc.log)
  /\ \A op \in Range(acc.log) \ Range(log[c]) : op.author = p
  /\ known[p][c] \subseteq acc.known /\ acc.known \in SUBSET Nat
  /\ \A n \in acc.known \ known[p][c] : n > Len(log[c])

\* Each of the drafts has gone out, signed, with every proof there was.
SentWithProofs(p, c, drafts, batches) ==
  \A i \in DOMAIN batches :
    LET batch == batches[i]
    IN  /\ MemberOp(c, batch.op) /\ batch.op.author = p
        /\ \E draft \in Range(drafts) :
             /\ batch.op.kind = draft.kind /\ batch.op.target = draft.target
             /\ batch.op.rights = draft.rights
        /\ p = Owner => batch.proofs = {}
        /\ p # Owner =>
             /\ Proofs(p, Numbered(log[c], known[p][c])) \subseteq batch.proofs
             /\ \A op \in batch.proofs :
                  /\ MemberOp(c, op) /\ op.author = Owner /\ op.kind = "GRANT"
                  /\ op.target = p /\ op.rights # NONE

\* One write.
LEMMA EmitContinues ==
  ASSUME NEW p \in Key, NEW c, GoodLog(c, log[c]), NEW drafts, NEW draft \in Range(drafts),
         GoodDraft(c, draft),
         NEW acc, Continues(p, c, acc),
         acc.batches \in Seq(Range(acc.batches)),
         SentWithProofs(p, c, drafts, acc.batches)
  PROVE  LET next == Emit(p, acc, draft)
         IN  /\ Continues(p, c, next)
             /\ next.batches \in Seq(Range(next.batches))
             /\ SentWithProofs(p, c, drafts, next.batches)
<1> DEFINE held == Numbered(acc.log, acc.known)
           op == Signed(p, draft, Len(acc.log) + 1, next_lamport(held))
           batch == [op |-> op, proofs |-> authority_proofs(p, held)]
           next == Emit(p, acc, draft)
<1>1. /\ next.log = Inserted(acc.log, op)
      /\ next.known = acc.known \cup {op.n}
      /\ next.batches = Append(acc.batches, batch)
  BY DEF Emit
<1> HIDE DEF next
<1>2. Len(acc.log) \in Nat /\ Len(log[c]) \in Nat
  BY DEF Continues, GoodLog
<1>3. /\ MemberOp(c, op) /\ op.author = p /\ op.kind = draft.kind
      /\ op.target = draft.target /\ op.rights = draft.rights /\ op.n = Len(acc.log) + 1
  BY <1>2, SignedIs
<1> HIDE DEF op
<1>4. /\ next.log \in Seq(Range(next.log)) /\ Len(next.log) = Len(acc.log) + 1
      /\ Range(next.log) = Range(acc.log) \cup {op}
  <2>1. acc.log \in Seq(Range(acc.log))
    BY DEF Continues, GoodLog
  <2>2. /\ Inserted(acc.log, op) \in Seq(Range(Inserted(acc.log, op)))
        /\ Len(Inserted(acc.log, op)) = Len(acc.log) + 1
        /\ Range(Inserted(acc.log, op)) = Range(acc.log) \cup {op}
    BY <2>1, InsertedIs
  <2> QED
    BY <1>1, <2>2
<1>5. Continues(p, c, next)
  <2>1. GoodLog(c, next.log)
    <3>1. ASSUME NEW x \in Range(next.log)
          PROVE  MemberOp(c, x) /\ x.n \in 1..(Len(acc.log) + 1)
      BY <1>2, <1>3, <1>4 DEF Continues, GoodLog
    <3> QED
      BY <1>4, <3>1 DEF GoodLog
  <2> QED
    BY <1>1, <1>2, <1>3, <1>4, <2>1 DEF Continues
<1>6. /\ batch.op = op
      /\ p = Owner => batch.proofs = {}
      /\ p # Owner => batch.proofs = Proofs(p, held)
  BY DEF authority_proofs
<1>7. Proofs(p, Numbered(log[c], known[p][c])) \subseteq Proofs(p, held)
  BY DEF Proofs, Numbered, Continues
<1>8. \A x \in Proofs(p, held) :
        /\ MemberOp(c, x) /\ x.author = Owner /\ x.kind = "GRANT"
        /\ x.target = p /\ x.rights # NONE
  BY DEF Proofs, Numbered, Continues, GoodLog
<1> HIDE DEF batch, held
<1> DEFINE B == Range(acc.batches) \cup {batch}
<1>9. acc.batches \in Seq(B) /\ batch \in B
  OBVIOUS
<1>10. /\ next.batches \in Seq(B)
       /\ DOMAIN next.batches = 1..(Len(acc.batches) + 1)
       /\ DOMAIN acc.batches = 1..Len(acc.batches)
       /\ Len(acc.batches) \in Nat
       /\ \A i \in DOMAIN acc.batches : next.batches[i] = acc.batches[i]
       /\ next.batches[Len(acc.batches) + 1] = batch
  <2> HIDE DEF B
  <2> QED
    BY <1>1, <1>9
<1>11. next.batches \in Seq(Range(next.batches))
  <2>1. Len(next.batches) = Len(acc.batches) + 1
    BY <1>10
  <2>2. \A i \in 1..Len(next.batches) : next.batches[i] \in Range(next.batches)
    BY <1>10, <2>1 DEF Range
  <2> HIDE DEF B
  <2> QED
    BY <1>10, <2>1, <2>2
<1>12. SentWithProofs(p, c, drafts, next.batches)
  <2> SUFFICES ASSUME NEW i \in DOMAIN next.batches
               PROVE  /\ MemberOp(c, next.batches[i].op) /\ next.batches[i].op.author = p
                      /\ \E d \in Range(drafts) :
                           /\ next.batches[i].op.kind = d.kind
                           /\ next.batches[i].op.target = d.target
                           /\ next.batches[i].op.rights = d.rights
                      /\ p = Owner => next.batches[i].proofs = {}
                      /\ p # Owner =>
                           /\ Proofs(p, Numbered(log[c], known[p][c]))
                                \subseteq next.batches[i].proofs
                           /\ \A x \in next.batches[i].proofs :
                                /\ MemberOp(c, x) /\ x.author = Owner /\ x.kind = "GRANT"
                                /\ x.target = p /\ x.rights # NONE
    BY DEF SentWithProofs
  <2>1. CASE i \in DOMAIN acc.batches
    BY <1>10, <2>1 DEF SentWithProofs
  <2>2. CASE i \notin DOMAIN acc.batches
    <3>1. i = Len(acc.batches) + 1
      BY <1>10, <2>2
    <3> QED
      BY <1>3, <1>6, <1>7, <1>8, <1>10, <3>1
  <2> QED
    BY <2>1, <2>2
<1> QED
  BY <1>5, <1>11, <1>12 DEF next

\* All of them.
LEMMA EmittedContinues ==
  ASSUME NEW p \in Key, NEW c, GoodLog(c, log[c]), known[p][c] \in SUBSET Nat,
         NEW drafts, Len(drafts) \in Nat, DOMAIN drafts = 1..Len(drafts),
         \A draft \in Range(drafts) : GoodDraft(c, draft)
  PROVE  LET done == Emitted(p, c, drafts)
         IN  /\ Continues(p, c, done)
             /\ SentWithProofs(p, c, drafts, done.batches)
<1> DEFINE N == Len(drafts)
<1>1. N \in Nat /\ N \in 0..N /\ 0 \in 0..N
  OBVIOUS
<1>2. PICK f : Writes(f, p, c, drafts) /\ Emitted(p, c, drafts) = f[N]
  BY EmittedAlong
<1> HIDE DEF N
<1> DEFINE Good(acc) == /\ Continues(p, c, acc)
                        /\ acc.batches \in Seq(Range(acc.batches))
                        /\ SentWithProofs(p, c, drafts, acc.batches)
           S == {i \in 0..N : Good(f[i])}
<1>3. 0 \in S
  <2>1. f[0].log = log[c] /\ f[0].known = known[p][c] /\ f[0].batches = << >>
    BY <1>2 DEF Writes
  <2>2. Continues(p, c, f[0])
    <3>1. Len(log[c]) \in Nat
      BY DEF GoodLog
    <3> QED
      BY <2>1, <3>1 DEF Continues
  <2>3. f[0].batches \in Seq(Range(f[0].batches)) /\ DOMAIN f[0].batches = {}
    BY <2>1
  <2> QED
    BY <1>1, <2>2, <2>3 DEF SentWithProofs
<1>4. ASSUME NEW i \in 1..N, i - 1 \in S PROVE i \in S
  <2>1. drafts[i] \in Range(drafts)
    BY <1>1 DEF Range, N
  <2>2. Good(Emit(p, f[i - 1], drafts[i]))
    BY <1>4, <2>1, EmitContinues
  <2> HIDE DEF Good
  <2> QED
    BY <1>1, <1>2, <2>2 DEF Writes, N
<1>5. N \in S
  <2> HIDE DEF S
  <2> QED
    BY <1>1, <1>3, <1>4, UpTo
<1> QED
  BY <1>2, <1>5 DEF N

-----------------------------------------------------------------------------
(* Drafts.                                                                 *)

\* What a control of a page writes: of application ops names alone, and nobody
\* vouches for themselves.
ClickDraft(p, d) ==
  /\ d.kind = "APPLICATION" => d.rights = {SET_NAME}
  /\ d.kind = "LINK_DEVICE" => d.target # p

\* A row of drafts.
Row(c, drafts) ==
  /\ Len(drafts) \in Nat /\ DOMAIN drafts = 1..Len(drafts)
  /\ \A draft \in Range(drafts) : GoodDraft(c, draft)

ClickRow(p, drafts) == \A draft \in Range(drafts) : ClickDraft(p, draft)

LEMMA GrantIs ==
  ASSUME NEW c, NEW k \in Key, NEW p, NEW rights \in {NONE, MEMBER, ADMIN}
  PROVE  GoodDraft(c, Grant(k, rights)) /\ ClickDraft(p, Grant(k, rights))
BY DEF Grant, GoodDraft, ClickDraft, Kinds, NONE, MEMBER, ADMIN, ALL, SET_NAME,
  WRITE_TASKS, WRITE_COLUMNS, LINK_TASKS, MAY_GRANT, MAY_APPOINT, ADMINISTER

LEMMA NameIs ==
  ASSUME NEW c, NEW k, NEW p
  PROVE  GoodDraft(c, Name(k)) /\ ClickDraft(p, Name(k))
BY KeysAssumption DEF Name, Says, GoodDraft, ClickDraft, Kinds, MEMBER, ADMIN, ALL, SET_NAME

\* A device is vouched for, or released.
LEMMA VouchIs ==
  ASSUME NEW k \in Key, NEW p
  PROVE  GoodDraft("board", Vouch(k)) /\ (k # p => ClickDraft(p, Vouch(k)))
BY DEF Vouch, GoodDraft, ClickDraft, Kinds, NONE

LEMMA ReleaseIs ==
  ASSUME NEW k \in Key, NEW p
  PROVE  GoodDraft("board", Release(k)) /\ ClickDraft(p, Release(k))
BY DEF Release, GoodDraft, ClickDraft, Kinds, NONE

\* One draft or two.
LEMMA OneDraft ==
  ASSUME NEW c, NEW d, GoodDraft(c, d)
  PROVE  /\ Row(c, <<d>>)
         /\ \A p : ClickDraft(p, d) => ClickRow(p, <<d>>)
<1>1. Len(<<d>>) = 1 /\ DOMAIN <<d>> = 1..1 /\ <<d>>[1] = d
  OBVIOUS
<1>2. Range(<<d>>) = {d}
  BY <1>1 DEF Range
<1> QED
  BY <1>1, <1>2 DEF Row, ClickRow

LEMMA TwoDrafts ==
  ASSUME NEW c, NEW d, NEW e, GoodDraft(c, d), GoodDraft(c, e)
  PROVE  /\ Row(c, <<d, e>>)
         /\ \A p : ClickDraft(p, d) /\ ClickDraft(p, e) => ClickRow(p, <<d, e>>)
<1>1. Len(<<d, e>>) = 2 /\ DOMAIN <<d, e>> = 1..2 /\ <<d, e>>[1] = d /\ <<d, e>>[2] = e
  OBVIOUS
<1>2. Range(<<d, e>>) = {d, e}
  BY <1>1 DEF Range
<1> QED
  BY <1>1, <1>2 DEF Row, ClickRow

\* A grant and a name for each of some keys.
LEMMA AppointmentsAre ==
  ASSUME NEW keys \in SUBSET Key
  PROVE  /\ Appointments(keys) \in Seq(Range(Appointments(keys)))
         /\ \A d \in Range(Appointments(keys)) :
              \E k \in Key : d = Grant(k, ADMIN) \/ d = Name(k)
         /\ \A k \in keys : Grant(k, ADMIN) \in Range(Appointments(keys))
<1> DEFINE row == SetToSeq(keys)
           N == Cardinality(keys)
<1>1. /\ N \in Nat /\ row \in [1..N -> keys]
      /\ \A k \in keys : \E j \in 1..N : row[j] = k
  <2>1. IsFiniteSet(keys)
    BY PageAssumption, FS_Subset
  <2>2. N \in Nat
    BY <2>1, FS_CardinalityType
  <2>3. ExistsBijection(1..N, keys)
    BY <2>1, FS_CardinalityType
  <2>4. \E f \in [1..N -> keys] : IsInjective(f)
    <3>1. PICK f : f \in Bijection(1..N, keys)
      BY <2>3 DEF ExistsBijection
    <3>2. f \in [1..N -> keys] /\ \A a, b \in 1..N : f[a] = f[b] => a = b
      BY <3>1 DEF Bijection, Injection, IsInjective
    <3> QED
      BY <3>2 DEF IsInjective
  <2>5. row \in [1..N -> keys] /\ IsInjective(row)
    BY <2>2, <2>4 DEF SetToSeq
  <2> HIDE DEF row
  <2>6. row \in Injection(1..N, keys)
    BY <2>5 DEF Injection, IsInjective
  <2>7. Cardinality(1..N) = N
    BY <2>2, FS_Interval
  <2>8. row \in Surjection(1..N, keys)
    BY <2>1, <2>6, <2>7, FS_Injection
  <2> QED
    BY <2>2, <2>5, <2>8 DEF Surjection
<1>2. Len(row) = N
  <2> HIDE DEF row
  <2>1. row \in Seq(keys) /\ DOMAIN row = 1..N
    BY <1>1
  <2> QED
    BY <1>1, <2>1
<1> DEFINE D == {Grant(k, ADMIN) : k \in Key} \cup {Name(k) : k \in Key}
           all == [i \in 1..(2 * N) |->
                     IF i % 2 = 1 THEN Grant(row[(i + 1) \div 2], ADMIN)
                     ELSE Name(row[i \div 2])]
<1>3. Appointments(keys) = all
  BY <1>2 DEF Appointments
<1> HIDE DEF row, N
<1>4. ASSUME NEW i \in 1..(2 * N)
      PROVE  all[i] \in D
  <2>1. CASE i % 2 = 1
    <3>1. (i + 1) \div 2 \in 1..N
      BY <1>1, <2>1
    <3>2. row[(i + 1) \div 2] \in Key
      BY <1>1, <3>1
    <3>3. all[i] = Grant(row[(i + 1) \div 2], ADMIN)
      BY <2>1
    <3> QED
      BY <3>2, <3>3
  <2>2. CASE i % 2 # 1
    <3>1. i \div 2 \in 1..N
      BY <1>1, <2>2
    <3>2. row[i \div 2] \in Key
      BY <1>1, <3>1
    <3>3. all[i] = Name(row[i \div 2])
      BY <2>2
    <3> QED
      BY <3>2, <3>3
  <2> QED
    BY <2>1, <2>2
<1>5. DOMAIN all = 1..(2 * N) /\ 2 * N \in Nat
  BY <1>1
<1>6. ASSUME NEW k \in keys PROVE Grant(k, ADMIN) \in Range(all)
  <2>1. PICK j \in 1..N : row[j] = k
    BY <1>1
  <2>2. /\ 2 * j - 1 \in 1..(2 * N) /\ (2 * j - 1) % 2 = 1
        /\ ((2 * j - 1) + 1) \div 2 = j
    BY <1>1
  <2>3. all[2 * j - 1] = Grant(k, ADMIN)
    BY <2>1, <2>2
  <2> HIDE DEF all
  <2> QED
    BY <1>5, <2>2, <2>3 DEF Range
<1>7. all = [i \in 1..(2 * N) |-> all[i]]
  OBVIOUS
<1> HIDE DEF all
<1>8. all \in Seq(Range(all))
  <2>1. \A i \in 1..(2 * N) : all[i] \in Range(all)
    BY <1>5 DEF Range
  <2>2. all \in [1..(2 * N) -> Range(all)]
    BY <1>7, <2>1
  <2> QED
    BY <1>5, <2>2
<1>9. \A d \in Range(all) : d \in D
  BY <1>4, <1>5 DEF Range
<1> QED
  BY <1>3, <1>8, <1>9, <1>6

LEMMA AppointmentsAreClicks ==
  ASSUME NEW keys \in SUBSET Key, NEW p
  PROVE  Row("board", Appointments(keys)) /\ ClickRow(p, Appointments(keys))
<1>1. /\ Len(Appointments(keys)) \in Nat
      /\ DOMAIN Appointments(keys) = 1..Len(Appointments(keys))
  BY AppointmentsAre
<1>2. ASSUME NEW d \in Range(Appointments(keys))
      PROVE  GoodDraft("board", d) /\ ClickDraft(p, d)
  <2>1. PICK k \in Key : d = Grant(k, ADMIN) \/ d = Name(k)
    BY AppointmentsAre
  <2> QED
    BY <2>1, GrantIs, NameIs
<1> QED
  BY <1>1, <1>2 DEF Row, ClickRow

-----------------------------------------------------------------------------
(* Who may do what.                                                        *)

LEMMA OneRoot == Roots = {Owner} /\ Owner \in Key
BY KeysAssumption, PageAssumption DEF Roots

\* An op of a contract turns an Authority into an Authority.
LEMMA FoldTyped ==
  ASSUME NEW a \in Authorities, NEW op,
         op.author \in Key, op.target \in Key, op.rights \subseteq ALL
  PROVE  Fold(a, op) \in Authorities
<1>1. ApplyGrant(a, op.author, op.target, op.rights) \in Authorities
  <2>1. Conferred(a, op.author, op.rights) \in SUBSET ALL
    BY DEF Conferred
  <2> QED
    BY <2>1 DEF ApplyGrant, Authorities
<1>2. ApplyLink(a, op.author, op.target) \in Authorities
  BY DEF ApplyLink, Authorities, person
<1>3. ApplyUnlink(a, op.author, op.target) \in Authorities
  BY DEF ApplyUnlink, Authorities
<1> QED
  BY <1>1, <1>2, <1>3 DEF Fold

LEMMA EmptyTyped == Empty \in Authorities
BY KeysAssumption DEF Empty, Authorities, NONE, ALL, Roots

\* In an organization everybody acts for themselves, nobody holds what they have
\* never held, whoever holds something is listed, and only the founder may appoint.
Tiered(a) ==
  /\ a \in Authorities
  /\ \A k \in Key : person(a, k) = k /\ a.held[k] \subseteq a.ever_held[k]
  /\ \A k \in Key : a.held[k] # NONE => k \in a.ever_members
  /\ \A k \in Key \ {Owner} : MAY_APPOINT \notin a.held[k]

LEMMA FoldTiered ==
  ASSUME NEW a, Tiered(a), NEW op, MemberOp("org", op)
  PROVE  Tiered(Fold(a, op))
<1>1. /\ op.kind \in {"GRANT", "APPLICATION"} /\ op.legible
      /\ op.author \in Key /\ op.target \in Key /\ op.rights \subseteq ALL
      /\ op.kind = "GRANT" => MAY_APPOINT \notin op.rights
  BY DEF MemberOp, Kinds, NONE, MEMBER, ADMIN, MAY_APPOINT, MAY_GRANT, WRITE_TASKS,
    WRITE_COLUMNS, LINK_TASKS, ADMINISTER, SET_NAME
<1>2. CASE op.kind = "APPLICATION" \/ ~GrantHonoured(a, op.author, op.target, op.rights)
  BY <1>1, <1>2 DEF Fold, is_authority, ApplyGrant
<1>3. CASE op.kind = "GRANT" /\ GrantHonoured(a, op.author, op.target, op.rights)
  <2> DEFINE c == Conferred(a, op.author, op.rights)
             b == Fold(a, op)
  <2>1. /\ b.person_of = a.person_of
        /\ b.held = [a.held EXCEPT ![op.target] = c]
        /\ b.ever_held = [a.ever_held EXCEPT ![op.target] = @ \cup c]
        /\ b.ever_members = a.ever_members \cup {op.target}
    BY <1>1, <1>3 DEF Fold, is_authority, ApplyGrant
  <2>2. MAY_APPOINT \notin c
    BY <1>1, <1>3 DEF Conferred
  <2>3. b \in Authorities
    BY <1>1, FoldTyped DEF Tiered
  <2>4. a.held \in [Key -> SUBSET ALL] /\ a.ever_held \in [Key -> SUBSET ALL]
    BY DEF Tiered, Authorities
  <2> HIDE DEF b, c
  <2>5. ASSUME NEW k \in Key
        PROVE  /\ b.held[k] = IF k = op.target THEN c ELSE a.held[k]
               /\ b.ever_held[k] = IF k = op.target THEN a.ever_held[k] \cup c
                                   ELSE a.ever_held[k]
    BY <2>1, <2>4
  <2>6. \A k \in Key : person(b, k) = k
    BY <2>1 DEF Tiered, person
  <2>7. \A k \in Key : b.held[k] \subseteq b.ever_held[k]
    BY <2>5 DEF Tiered
  <2>8. \A k \in Key \ {Owner} : MAY_APPOINT \notin b.held[k]
    BY <2>2, <2>5 DEF Tiered
  <2>9. \A k \in Key : b.held[k] # NONE => k \in b.ever_members
    BY <2>1, <2>5 DEF Tiered
  <2> QED
    BY <2>3, <2>6, <2>7, <2>8, <2>9 DEF Tiered, b
<1> QED
  BY <1>1, <1>2, <1>3

LEMMA EmptyTiered == Tiered(Empty)
<1>1. /\ \A k \in Key : person(Empty, k) = k /\ Empty.held[k] \subseteq Empty.ever_held[k]
      /\ \A k \in Key \ {Owner} : Empty.held[k] = NONE
      /\ Owner \in Empty.ever_members
  BY OneRoot DEF Empty, person
<1> QED
  BY <1>1, EmptyTyped DEF Tiered, NONE

\* What a page makes of the ops it has.
LEMMA RefoldIs ==
  ASSUME NEW c, NEW s, GoodLog(c, s), NEW numbers
  PROVE  /\ refold(s, numbers) \in Authorities
         /\ c = "org" => Tiered(refold(s, numbers))
<1> DEFINE given == {op \in Stamped(s) : op.n \in numbers}
<1>1. ASSUME NEW op \in given
      PROVE  \E i \in DOMAIN s : op = [s[i] EXCEPT !.key = i]
  BY DEF Stamped
<1>2. ASSUME NEW op \in given
      PROVE  \E x \in Range(s) : /\ MemberOp(c, x) /\ \A a : Fold(a, op) = Fold(a, x)
  <2>1. PICK i \in DOMAIN s : op = [s[i] EXCEPT !.key = i]
    BY <1>1
  <2>2. s[i] \in Range(s)
    BY DEF Range
  <2>3. MemberOp(c, s[i])
    BY <2>2 DEF GoodLog
  <2>4. /\ op.kind = s[i].kind /\ op.legible = s[i].legible /\ op.author = s[i].author
        /\ op.target = s[i].target /\ op.rights = s[i].rights
    BY <2>1, <2>3 DEF MemberOp
  <2> QED
    BY <2>2, <2>3, <2>4 DEF Fold, is_authority
<1> HIDE DEF given
<1>3. authority_in(given) \in Authorities
  <2>1. \A a \in Authorities, op \in given : Fold(a, op) \in Authorities
    BY <1>2, FoldTyped DEF MemberOp
  <2> QED
    BY <2>1, EmptyTyped, FoldStays
<1>4. ASSUME c = "org" PROVE Tiered(authority_in(given))
  <2> DEFINE S == {a \in Authorities : Tiered(a)}
  <2>1. Empty \in S
    BY EmptyTyped, EmptyTiered
  <2>2. ASSUME NEW a \in S, NEW op \in given PROVE Fold(a, op) \in S
    <3>1. PICK x : MemberOp(c, x) /\ Fold(a, op) = Fold(a, x)
      BY <1>2
    <3>2. Tiered(Fold(a, x))
      BY <1>4, <3>1, FoldTiered
    <3> QED
      BY <3>1, <3>2 DEF Tiered
  <2>3. authority_in(given) \in S
    <3> HIDE DEF S
    <3> QED
      BY <2>1, <2>2, FoldStays
  <2> QED
    BY <2>3
<1> QED
  BY <1>3, <1>4 DEF refold, given

-----------------------------------------------------------------------------
(* What a node makes of a write that comes by itself.                      *)

\* An op takes nothing from what anybody has ever been, and makes a device of
\* nobody but whom it vouches for.
LEMMA FoldGrows ==
  ASSUME NEW a \in Authorities, NEW c, NEW op, MemberOp(c, op)
  PROVE  /\ Fold(a, op) \in Authorities
         /\ \A k \in Key :
              /\ a.ever_held[k] \subseteq Fold(a, op).ever_held[k]
              /\ ever_person(Fold(a, op), k) =
                   IF op.kind = "LINK_DEVICE" /\ LinkHonoured(a, op.author, op.target)
                      /\ k = op.target /\ ever_person(a, k) = k
                   THEN person(a, op.author)
                   ELSE ever_person(a, k)
<1>1. /\ op.kind \in Kinds /\ op.legible
      /\ op.author \in Key /\ op.target \in Key /\ op.rights \subseteq ALL
  BY DEF MemberOp
<1>2. Fold(a, op) \in Authorities
  BY <1>1, FoldTyped
<1>3. /\ a.ever_held \in [Key -> SUBSET ALL] /\ a.ever_person_of \in [Key -> Key]
  BY DEF Authorities
<1>4. CASE op.kind = "APPLICATION"
  BY <1>2, <1>4 DEF Fold, is_authority
<1>5. CASE op.kind = "GRANT"
  <2>1. Fold(a, op) = ApplyGrant(a, op.author, op.target, op.rights)
    BY <1>1, <1>5 DEF Fold, is_authority
  <2>2. CASE ~GrantHonoured(a, op.author, op.target, op.rights)
    BY <1>2, <1>5, <2>1, <2>2 DEF ApplyGrant
  <2>3. CASE GrantHonoured(a, op.author, op.target, op.rights)
    <3> DEFINE b == Fold(a, op)
               d == Conferred(a, op.author, op.rights)
    <3>1. /\ b.ever_held = [a.ever_held EXCEPT ![op.target] = @ \cup d]
          /\ b.ever_person_of = a.ever_person_of
      BY <2>1, <2>3 DEF ApplyGrant
    <3> HIDE DEF b, d
    <3>2. \A k \in Key : a.ever_held[k] \subseteq b.ever_held[k]
      BY <1>3, <3>1
    <3> QED
      BY <1>2, <1>5, <3>1, <3>2 DEF b, ever_person
  <2> QED
    BY <2>2, <2>3
<1>6. CASE op.kind = "LINK_DEVICE"
  <2>1. Fold(a, op) = ApplyLink(a, op.author, op.target)
    BY <1>1, <1>6 DEF Fold, is_authority
  <2>2. CASE ~LinkHonoured(a, op.author, op.target)
    BY <1>2, <1>6, <2>1, <2>2 DEF ApplyLink
  <2>3. CASE LinkHonoured(a, op.author, op.target)
    <3> DEFINE b == Fold(a, op)
    <3>1. /\ b.ever_held = a.ever_held
          /\ b.ever_person_of = [a.ever_person_of EXCEPT
               ![op.target] = IF @ = op.target THEN person(a, op.author) ELSE @]
      BY <2>1, <2>3 DEF ApplyLink
    <3> HIDE DEF b
    <3>2. \A k \in Key : b.ever_person_of[k] =
            IF k = op.target /\ a.ever_person_of[k] = k
            THEN person(a, op.author) ELSE a.ever_person_of[k]
      BY <1>3, <3>1
    <3> QED
      BY <1>2, <1>6, <2>3, <3>1, <3>2 DEF b, ever_person
  <2> QED
    BY <2>2, <2>3
<1>7. CASE op.kind = "UNLINK_DEVICE"
  <2>1. Fold(a, op) = ApplyUnlink(a, op.author, op.target)
    BY <1>1, <1>7 DEF Fold, is_authority
  <2> QED
    BY <1>2, <1>7, <2>1 DEF ApplyUnlink, ever_person
<1> QED
  BY <1>1, <1>4, <1>5, <1>6, <1>7 DEF Kinds

\* What a click writes.
Clicked(op) ==
  /\ op.kind = "APPLICATION" => op.rights = {SET_NAME}
  /\ op.kind = "LINK_DEVICE" => op.target # op.author

\* An op in its place is folded, and admitted, as the op.
LEMMA Placed ==
  ASSUME NEW c, NEW op, MemberOp(c, op), NEW i \in Nat
  PROVE  LET placed == [op EXCEPT !.key = i]
         IN  /\ placed.key = i
             /\ admits(placed) /\ placed.signed
             /\ \A a : Fold(a, placed) = Fold(a, op)
             /\ \A a : Permitted(a, placed) = Permitted(a, op)
<1> DEFINE placed == [op EXCEPT !.key = i]
<1>1. /\ placed.key = i /\ placed.scope = Here /\ placed.signed
      /\ placed.kind = op.kind /\ placed.legible = op.legible
      /\ placed.author = op.author /\ placed.target = op.target
      /\ placed.rights = op.rights
  BY DEF MemberOp
<1> HIDE DEF placed
<1>2. is_authority(placed) = is_authority(op)
  BY <1>1 DEF is_authority
<1>3. \A a : Fold(a, placed) = Fold(a, op)
  BY <1>1, <1>2 DEF Fold
<1>4. \A a : Permitted(a, placed) = Permitted(a, op)
  BY <1>1, <1>2 DEF Permitted
<1> QED
  BY <1>1, <1>3, <1>4 DEF placed, admits

LEMMA RightsThereAre ==
  ALL # NONE /\ SET_NAME \in ALL /\ SET_NAME \in MEMBER /\ MEMBER \subseteq ADMIN
BY DEF ALL, ADMIN, MEMBER, NONE, SET_NAME

\* The founder's writes need no proof.
LEMMA FounderIsTaken ==
  ASSUME NEW c, NEW op, MemberOp(c, op), op.author = Owner, Clicked(op)
  PROVE  Valid(<<op>>)
<1> DEFINE placed == [op EXCEPT !.key = 1]
           S == {a \in Authorities : ever_person(a, Owner) = Owner /\ a.ever_held[Owner] = ALL}
<1>1. Stamped(<<op>>) = {placed}
  BY DEF Stamped
<1>2. /\ admits(placed) /\ placed.signed
      /\ \A a : Fold(a, placed) = Fold(a, op)
      /\ \A a : Permitted(a, placed) = Permitted(a, op)
  BY Placed
<1> HIDE DEF placed
<1>3. Empty \in S
  BY EmptyTyped, OneRoot DEF Empty, ever_person
<1>4. ASSUME NEW a \in S PROVE Fold(a, op) \in S
  <2>1. Fold(a, op) \in Authorities /\ a.ever_held[Owner] \subseteq Fold(a, op).ever_held[Owner]
    BY FoldGrows, OneRoot
  <2>2. Fold(a, op).ever_held[Owner] \subseteq ALL
    BY <2>1, OneRoot DEF Authorities
  <2>3. ever_person(Fold(a, op), Owner) = Owner
    BY FoldGrows, OneRoot DEF Clicked
  <2> QED
    BY <2>1, <2>2, <2>3
<1>5. authority_in({placed}) \in S
  <2> HIDE DEF S
  <2> QED
    BY <1>2, <1>3, <1>4, FoldStays
<1>6. ever_rights_of(authority_in({placed}), Owner) = ALL
  BY <1>5 DEF ever_rights_of
<1>7. Permitted(authority_in({placed}), op)
  BY <1>6, RightsThereAre DEF Permitted, Clicked, is_authority
<1> QED
  BY <1>1, <1>2, <1>7 DEF Valid, validate_in

\* Two ops, one after the other.
LEMMA FoldOfTwo ==
  ASSUME NEW c, NEW x, NEW y, MemberOp(c, x), MemberOp(c, y)
  PROVE  authority_in(Stamped(<<x, y>>)) = Fold(Fold(Empty, x), y)
<1> DEFINE x1 == [x EXCEPT !.key = 1]
           y2 == [y EXCEPT !.key = 2]
           given == {x1, y2}
<1>1. Stamped(<<x, y>>) = given
  <2>1. DOMAIN <<x, y>> = 1..2 /\ <<x, y>>[1] = x /\ <<x, y>>[2] = y
    OBVIOUS
  <2>2. 1..2 = {1, 2}
    OBVIOUS
  <2> QED
    BY <2>1, <2>2 DEF Stamped
<1>2. /\ x1.key = 1 /\ y2.key = 2
      /\ \A a : Fold(a, x1) = Fold(a, x)
      /\ \A a : Fold(a, y2) = Fold(a, y)
  BY Placed
<1> HIDE DEF x1, y2
<1>3. \A a \in Authorities, op \in given : Fold(a, op) \in Authorities
  BY <1>2, FoldGrows
<1>4. PICK f \in [0..Places -> Authorities] :
        /\ f[0] = Empty
        /\ \A n \in 1..Places : f[n] = FoldPlace(given, f[n - 1], n)
        /\ authority_in(given) = f[Places]
  <2> HIDE DEF given
  <2> QED
    BY <1>3, EmptyTyped, FoldAlong
<1>5. Places \in Nat /\ Places >= 2
  BY PlacesAssumption, PageAssumption
<1>6. f[1] = Fold(Empty, x)
  <2>1. f[1] = FoldPlace(given, f[0], 1)
    <3>1. 1 \in 1..Places /\ 1 - 1 = 0
      BY <1>5
    <3>2. f[1] = FoldPlace(given, f[1 - 1], 1)
      BY <1>4, <3>1
    <3> QED
      BY <3>1, <3>2
  <2>2. (CHOOSE op \in given : op.key = 1) = x1
    BY <1>2
  <2> QED
    BY <1>2, <1>4, <2>1, <2>2 DEF FoldPlace
<1>7. f[2] = Fold(f[1], y)
  <2>1. f[2] = FoldPlace(given, f[1], 2)
    <3>1. 2 \in 1..Places /\ 2 - 1 = 1
      BY <1>5
    <3>2. f[2] = FoldPlace(given, f[2 - 1], 2)
      BY <1>4, <3>1
    <3> QED
      BY <3>1, <3>2
  <2>2. (CHOOSE op \in given : op.key = 2) = y2
    BY <1>2
  <2> QED
    BY <1>2, <2>1, <2>2 DEF FoldPlace
<1> DEFINE S == {n \in 0..Places : n >= 2 => f[n] = f[2]}
<1>8. 0 \in S
  BY <1>5
<1>9. ASSUME NEW n \in 1..Places, n - 1 \in S PROVE n \in S
  <2>1. CASE n <= 2
    BY <1>5, <2>1
  <2>2. CASE n > 2
    <3>1. n \notin {op.key : op \in given}
      BY <1>2, <2>2
    <3>2. f[n] = f[n - 1]
      BY <1>4, <3>1 DEF FoldPlace
    <3> QED
      BY <1>9, <2>2, <3>2
  <2> QED
    BY <2>1, <2>2
<1>10. Places \in S
  <2> HIDE DEF S
  <2> QED
    BY <1>5, <1>8, <1>9, UpTo
<1> QED
  BY <1>1, <1>4, <1>5, <1>6, <1>7, <1>10

\* Anybody else's need one grant by the founder.
LEMMA ProofIsEnough ==
  ASSUME NEW c, NEW p \in Key, p # Owner,
         NEW proof, MemberOp(c, proof), proof.author = Owner, proof.kind = "GRANT",
         proof.target = p, proof.rights # NONE,
         NEW op, MemberOp(c, op), op.author = p, Clicked(op)
  PROVE  Valid(<<proof, op>>)
<1> DEFINE a == Fold(Empty, proof)
           b == Fold(a, op)
<1>1. MEMBER \subseteq proof.rights /\ proof.rights \subseteq ALL
  BY RightsThereAre DEF MemberOp
<1>2. /\ a \in Authorities
      /\ a.ever_held[p] = proof.rights /\ a.ever_held[Owner] = ALL
      /\ person(a, p) = p /\ ever_person(a, p) = p /\ ever_person(a, Owner) = Owner
  <2>1. a \in Authorities
    BY EmptyTyped, FoldGrows
  <2>2. /\ Empty.held = [k \in Key |-> IF k \in Roots THEN ALL ELSE NONE]
        /\ Empty.ever_held = [k \in Key |-> IF k \in Roots THEN ALL ELSE NONE]
        /\ \A k \in Key : Empty.person_of[k] = k /\ Empty.ever_person_of[k] = k
    BY DEF Empty
  <2>3. rights_of(Empty, Owner) = ALL
    BY <2>2, OneRoot DEF rights_of, person
  <2>4. MAY_GRANT \in ALL /\ MAY_APPOINT \in ALL
    BY DEF ALL, ADMIN
  <2>5. GrantHonoured(Empty, Owner, p, proof.rights)
    BY <2>3, <2>4, OneRoot DEF GrantHonoured, MayGrantTo
  <2>6. Conferred(Empty, Owner, proof.rights) = proof.rights
    BY <1>1, <2>3, <2>4 DEF Conferred
  <2>7. a = ApplyGrant(Empty, Owner, p, proof.rights)
    BY DEF Fold, is_authority, MemberOp
  <2>8. /\ a.ever_held = [Empty.ever_held EXCEPT ![p] = @ \cup proof.rights]
        /\ a.person_of = Empty.person_of /\ a.ever_person_of = Empty.ever_person_of
    BY <2>5, <2>6, <2>7 DEF ApplyGrant
  <2> HIDE DEF a
  <2>9. a.ever_held[p] = proof.rights /\ a.ever_held[Owner] = ALL
    BY <2>2, <2>8, OneRoot DEF NONE
  <2> QED
    BY <2>1, <2>2, <2>8, <2>9, OneRoot DEF person, ever_person
<1> HIDE DEF a
<1>3. /\ b \in Authorities
      /\ MEMBER \subseteq b.ever_held[p] /\ ALL \subseteq b.ever_held[Owner]
      /\ ever_person(b, p) = p /\ ever_person(b, Owner) \in {Owner, p}
  BY <1>1, <1>2, FoldGrows, OneRoot DEF Clicked
<1> HIDE DEF b
<1>4. MEMBER \subseteq ever_rights_of(b, p) /\ ever_rights_of(b, Owner) # NONE
  BY <1>3, RightsThereAre DEF ever_rights_of, NONE
<1>5. Permitted(b, proof) /\ Permitted(b, op)
  BY <1>4, RightsThereAre DEF Permitted, Clicked, is_authority, NONE
<1>6. authority_in(Stamped(<<proof, op>>)) = b
  BY FoldOfTwo DEF a, b
<1>7. Stamped(<<proof, op>>) = {[proof EXCEPT !.key = 1], [op EXCEPT !.key = 2]}
  <2>1. /\ DOMAIN <<proof, op>> = {1, 2}
        /\ <<proof, op>>[1] = proof /\ <<proof, op>>[2] = op
    OBVIOUS
  <2> QED
    BY <2>1 DEF Stamped
<1>8. \A x \in Stamped(<<proof, op>>) : admits(x) /\ x.signed /\ Permitted(b, x)
  <2> DEFINE x1 == [proof EXCEPT !.key = 1]
             y2 == [op EXCEPT !.key = 2]
  <2>1. admits(x1) /\ x1.signed /\ Permitted(b, x1)
    <3>1. admits(x1) /\ x1.signed /\ \A d : Permitted(d, x1) = Permitted(d, proof)
      BY Placed
    <3> HIDE DEF x1
    <3> QED
      BY <1>5, <3>1
  <2>2. admits(y2) /\ y2.signed /\ Permitted(b, y2)
    <3>1. admits(y2) /\ y2.signed /\ \A d : Permitted(d, y2) = Permitted(d, op)
      BY Placed
    <3> HIDE DEF y2
    <3> QED
      BY <1>5, <3>1
  <2>3. Stamped(<<proof, op>>) = {x1, y2}
    BY <1>7
  <2> HIDE DEF x1, y2
  <2> QED
    BY <2>1, <2>2, <2>3
<1> QED
  BY <1>6, <1>8 DEF Valid, validate_in

-----------------------------------------------------------------------------
(* The invariant.                                                          *)

\* Every op of a contract is one that the code writes, with a number of its own,
\* and by no page's reckoning may anybody but the founder appoint admins of the
\* organization.
MembersInv ==
  /\ DOMAIN log = Contract /\ \A c \in Contract : GoodLog(c, log[c])
  /\ known \in [Page -> [Contract -> SUBSET Nat]]
  /\ folded \in [Page -> [Contract -> Authorities]]
  /\ \A p \in Page : Tiered(folded[p]["org"])

LEMMA ContractsAre == "org" \in Contract /\ "board" \in Contract /\ Contract = {"org", "board"}
BY DEF Contract

\* With a new fold in one place.
LEMMA PagesStay ==
  ASSUME MembersInv, NEW p \in Page, NEW c \in Contract,
         NEW numbers \in SUBSET Nat, NEW a \in Authorities, c = "org" => Tiered(a)
  PROVE  /\ [known EXCEPT ![p][c] = numbers] \in [Page -> [Contract -> SUBSET Nat]]
         /\ [folded EXCEPT ![p][c] = a] \in [Page -> [Contract -> Authorities]]
         /\ \A q \in Page : Tiered([folded EXCEPT ![p][c] = a][q]["org"])
<1>1. /\ known \in [Page -> [Contract -> SUBSET Nat]]
      /\ folded \in [Page -> [Contract -> Authorities]]
      /\ \A q \in Page : Tiered(folded[q]["org"])
  BY DEF MembersInv
<1>2. [known EXCEPT ![p][c] = numbers] \in [Page -> [Contract -> SUBSET Nat]]
  BY <1>1
<1>3. [folded EXCEPT ![p][c] = a] \in [Page -> [Contract -> Authorities]]
  BY <1>1
<1>4. ASSUME NEW q \in Page PROVE Tiered([folded EXCEPT ![p][c] = a][q]["org"])
  <2>1. [folded EXCEPT ![p][c] = a][q]["org"] =
          IF q = p /\ c = "org" THEN a ELSE folded[q]["org"]
    BY <1>1, ContractsAre
  <2> QED
    BY <1>1, <2>1
<1> QED
  BY <1>2, <1>3, <1>4

LEMMA MembersInitially == MembersInit => MembersInv /\ WritesStandAlone
<1> SUFFICES ASSUME MembersInit PROVE MembersInv /\ WritesStandAlone
  OBVIOUS
<1> DEFINE first == Signed(Owner, Name(Owner), 1, 1)
<1>1. MemberOp("org", first) /\ first.n = 1
  BY NameIs, SignedIs, OneRoot
<1> HIDE DEF first
<1>2. /\ DOMAIN log = Contract /\ log["org"] = <<first>> /\ log["board"] = << >>
      /\ known = [p \in Page |-> [c \in Contract |->
                    IF c = "org" /\ p = Owner THEN {1} ELSE {}]]
      /\ folded = [p \in Page |-> [c \in Contract |-> refold(log[c], known[p][c])]]
      /\ last = Nothing
  BY ContractsAre DEF MembersInit, first
<1>3. \A c \in Contract : GoodLog(c, log[c])
  <2>1. GoodLog("org", log["org"])
    <3>1. Len(<<first>>) = 1 /\ DOMAIN <<first>> = 1..1 /\ <<first>>[1] = first
      OBVIOUS
    <3>2. Range(<<first>>) = {first}
      BY <3>1 DEF Range
    <3>3. <<first>> \in Seq({first})
      OBVIOUS
    <3> QED
      BY <1>1, <1>2, <3>1, <3>2, <3>3 DEF GoodLog
  <2>2. GoodLog("board", log["board"])
    BY <1>2 DEF GoodLog, Range
  <2> QED
    BY <2>1, <2>2, ContractsAre
<1>4. known \in [Page -> [Contract -> SUBSET Nat]]
  BY <1>2
<1>5. ASSUME NEW p \in Page, NEW c \in Contract
      PROVE  folded[p][c] \in Authorities /\ (c = "org" => Tiered(folded[p][c]))
  BY <1>2, <1>3, RefoldIs
<1>6. folded \in [Page -> [Contract -> Authorities]]
  BY <1>2, <1>5
<1>7. \A p \in Page : Tiered(folded[p]["org"])
  BY <1>5, ContractsAre
<1>8. WritesStandAlone
  BY <1>2 DEF WritesStandAlone, TakenByAnyNode, Nothing
<1> QED
  BY <1>2, <1>3, <1>4, <1>6, <1>7, <1>8 DEF MembersInv

\* A click.
LEMMA ClickKeeps ==
  ASSUME MembersInv, NEW p \in Page, NEW c \in Contract, NEW what, NEW whom,
         NEW drafts, Row(c, drafts), ClickRow(p, drafts), Click(p, c, what, whom, drafts)
  PROVE  MembersInv' /\ WritesStandAlone'
<1> DEFINE done == Emitted(p, c, drafts)
<1>1. p \in Key
  BY PageAssumption
<1>2. /\ DOMAIN log = Contract /\ \A d \in Contract : GoodLog(d, log[d])
      /\ known \in [Page -> [Contract -> SUBSET Nat]]
  BY DEF MembersInv
<1>3. Continues(p, c, done) /\ SentWithProofs(p, c, drafts, done.batches)
  BY <1>1, <1>2, EmittedContinues DEF Row
<1>4. /\ log' = [log EXCEPT ![c] = done.log]
      /\ known' = [known EXCEPT ![p][c] = done.known]
      /\ folded' = [folded EXCEPT ![p][c] = refold(done.log, done.known)]
      /\ last'.page = p /\ last'.at = c /\ last'.batches = done.batches
  BY DEF Click
<1> HIDE DEF done
<1>5. GoodLog(c, done.log) /\ done.known \in SUBSET Nat
  BY <1>3 DEF Continues
<1> DEFINE a == refold(done.log, done.known)
<1>6. a \in Authorities /\ (c = "org" => Tiered(a))
  BY <1>5, RefoldIs
<1> HIDE DEF a
<1>7. MembersInv'
  <2>1. DOMAIN log' = Contract /\ \A d \in Contract : GoodLog(d, log'[d])
    BY <1>2, <1>4, <1>5
  <2>2. /\ known' \in [Page -> [Contract -> SUBSET Nat]]
        /\ folded' \in [Page -> [Contract -> Authorities]]
        /\ \A q \in Page : Tiered(folded'[q]["org"])
    <3> DEFINE numbers == done.known
    <3>1. numbers \in SUBSET Nat
      BY <1>5
    <3>2. /\ known' = [known EXCEPT ![p][c] = numbers]
          /\ folded' = [folded EXCEPT ![p][c] = a]
      BY <1>4 DEF a
    <3> HIDE DEF numbers
    <3> QED
      BY <1>6, <3>1, <3>2, PagesStay
  <2> QED
    BY <2>1, <2>2 DEF MembersInv
<1>8. log'[c] = done.log /\ known'[p][c] = done.known
  BY <1>2, <1>4
<1>9. ASSUME NEW i \in DOMAIN done.batches PROVE Clicked(done.batches[i].op)
  <2>1. PICK draft \in Range(drafts) :
          /\ done.batches[i].op.kind = draft.kind
          /\ done.batches[i].op.target = draft.target
          /\ done.batches[i].op.rights = draft.rights
    BY <1>3 DEF SentWithProofs
  <2>2. done.batches[i].op.author = p
    BY <1>3 DEF SentWithProofs
  <2> QED
    BY <2>1, <2>2 DEF ClickRow, ClickDraft, Clicked
<1>10. CASE p = Owner
  <2>1. ASSUME NEW i \in DOMAIN done.batches
        PROVE  done.batches[i].proofs = {} /\ Valid(<<done.batches[i].op>>)
    BY <1>3, <1>9, <1>10, FounderIsTaken DEF SentWithProofs
  <2>2. TakenByAnyNode'
    BY <1>4, <2>1 DEF TakenByAnyNode
  <2> QED
    BY <1>7, <2>2 DEF WritesStandAlone
<1>11. CASE p # Owner
  <2>1. SUFFICES ASSUME NEW i \in DOMAIN done.log,
                        done.log[i].n \in done.known,
                        done.log[i].kind = "GRANT", done.log[i].author = Owner,
                        done.log[i].target = p, MEMBER \subseteq done.log[i].rights
                 PROVE  TakenByAnyNode'
    BY <1>4, <1>7, <1>8, <1>11 DEF WritesStandAlone
  <2> DEFINE given == done.log[i]
  <2>2. given \in Range(done.log)
    BY DEF Range
  <2>3. given \in Range(log[c])
    BY <1>3, <1>11, <2>1, <2>2 DEF Continues
  <2>4. given.n \in known[p][c]
    <3>1. given.n \in 1..Len(log[c]) /\ Len(log[c]) \in Nat
      BY <1>2, <2>3 DEF GoodLog
    <3>2. ~(given.n > Len(log[c]))
      BY <3>1
    <3> QED
      BY <1>3, <2>1, <3>2 DEF Continues
  <2>5. given.rights # NONE
    BY <2>1, RightsThereAre DEF NONE
  <2>6. given \in Proofs(p, Numbered(log[c], known[p][c]))
    BY <2>1, <2>3, <2>4, <2>5 DEF Proofs, Numbered
  <2>7. ASSUME NEW j \in DOMAIN done.batches
        PROVE  /\ done.batches[j].proofs # {}
               /\ \A proof \in done.batches[j].proofs : Valid(<<proof, done.batches[j].op>>)
    <3>1. /\ MemberOp(c, done.batches[j].op) /\ done.batches[j].op.author = p
          /\ given \in done.batches[j].proofs
          /\ \A proof \in done.batches[j].proofs :
               /\ MemberOp(c, proof) /\ proof.author = Owner /\ proof.kind = "GRANT"
               /\ proof.target = p /\ proof.rights # NONE
      BY <1>3, <1>11, <2>6 DEF SentWithProofs
    <3> QED
      BY <1>1, <1>9, <1>11, <3>1, ProofIsEnough
  <2> QED
    BY <1>4, <2>7 DEF TakenByAnyNode
<1> QED
  BY <1>7, <1>10, <1>11

\* Which a page of the organization allows.
LEMMA ClickOrgKeeps ==
  ASSUME MembersInv, NEW p \in Page, NEW k \in Key, ClickOrg(p, k)
  PROVE  MembersInv' /\ WritesStandAlone'
<1>1. p \in Key /\ "org" \in Contract
  BY PageAssumption, ContractsAre
<1>2. \A rights \in {NONE, MEMBER, ADMIN} :
        /\ Row("org", <<Grant(k, rights)>>) /\ ClickRow(p, <<Grant(k, rights)>>)
        /\ Row("org", <<Grant(p, rights)>>) /\ ClickRow(p, <<Grant(p, rights)>>)
        /\ Row("org", <<Grant(k, rights), Name(k)>>)
        /\ ClickRow(p, <<Grant(k, rights), Name(k)>>)
  BY <1>1, GrantIs, NameIs, OneDraft, TwoDrafts
<1>3. \/ Click(p, "org", "invite", k, invite_to_org(k, MEMBER))
      \/ Click(p, "org", "appoint", k, invite_to_org(k, ADMIN))
      \/ Click(p, "org", "appoint", k, promote_in_org(k))
      \/ Click(p, "org", "remove", k, remove_from_org(k))
      \/ Click(p, "org", "remove", p, leave_org(p))
  BY DEF ClickOrg
<1>4. \E what, whom, drafts : Row("org", drafts) /\ ClickRow(p, drafts)
                              /\ Click(p, "org", what, whom, drafts)
  BY <1>2, <1>3 DEF invite_to_org, promote_in_org, remove_from_org, leave_org
<1> QED
  BY <1>1, <1>4, ClickKeeps

\* Which the sidebar of a project allows.
LEMMA ClickBoardKeeps ==
  ASSUME MembersInv, NEW p \in Page, NEW k \in Key, ClickBoard(p, k)
  PROVE  MembersInv' /\ WritesStandAlone'
<1>1. p \in Key /\ "board" \in Contract
  BY PageAssumption, ContractsAre
<1>2. \A rights \in {NONE, MEMBER, ADMIN} :
        /\ Row("board", <<Grant(k, rights)>>) /\ ClickRow(p, <<Grant(k, rights)>>)
        /\ Row("board", <<Grant(k, rights), Name(k)>>)
        /\ ClickRow(p, <<Grant(k, rights), Name(k)>>)
  BY <1>1, GrantIs, NameIs, OneDraft, TwoDrafts
<1>3. Row("board", sync_org_admins(p)) /\ ClickRow(p, sync_org_admins(p))
  <2>1. admins(seen(p, "org")) \ admins(seen(p, "board")) \in SUBSET Key
    BY DEF admins
  <2> QED
    BY <2>1, AppointmentsAreClicks DEF sync_org_admins
<1>4. k # p => Row("board", <<Vouch(k)>>) /\ ClickRow(p, <<Vouch(k)>>)
  BY VouchIs, OneDraft
<1>5. Row("board", <<Release(k)>>) /\ ClickRow(p, <<Release(k)>>)
  BY ReleaseIs, OneDraft
<1>6. \/ Click(p, "board", "invite", k, <<Grant(k, MEMBER), Name(k)>>)
      \/ Click(p, "board", "remove", k, <<Grant(k, NONE)>>)
      \/ Click(p, "board", "assign", k, <<Grant(k, MEMBER), Name(k)>>)
      \/ Click(p, "board", "sync", p, sync_org_admins(p))
      \/ k # p /\ Click(p, "board", "link", k, <<Vouch(k)>>)
      \/ Click(p, "board", "unlink", k, <<Release(k)>>)
  BY DEF ClickBoard, invite, remove, assign_from_org, link_device, unlink_device, may_link
<1>7. \E what, whom, drafts : Row("board", drafts) /\ ClickRow(p, drafts)
                              /\ Click(p, "board", what, whom, drafts)
  BY <1>2, <1>3, <1>4, <1>5, <1>6
<1> QED
  BY <1>1, <1>7, ClickKeeps

\* A page catches up.
LEMMA FetchKeeps ==
  ASSUME MembersInv, NEW p \in Page, NEW c \in Contract, Fetch(p, c)
  PROVE  MembersInv' /\ WritesStandAlone'
<1> DEFINE numbers == 1..Len(log[c])
           a == refold(log[c], numbers)
<1>1. GoodLog(c, log[c])
  BY DEF MembersInv
<1>2. numbers \in SUBSET Nat
  OBVIOUS
<1> HIDE DEF numbers
<1>3. a \in Authorities /\ (c = "org" => Tiered(a))
  BY <1>1, RefoldIs
<1>4. /\ log' = log /\ last' = Nothing
      /\ known' = [known EXCEPT ![p][c] = numbers]
      /\ folded' = [folded EXCEPT ![p][c] = a]
  BY DEF Fetch, numbers
<1> HIDE DEF a
<1>5. MembersInv'
  <2>1. /\ known' \in [Page -> [Contract -> SUBSET Nat]]
        /\ folded' \in [Page -> [Contract -> Authorities]]
        /\ \A q \in Page : Tiered(folded'[q]["org"])
    BY <1>2, <1>3, <1>4, PagesStay
  <2> QED
    BY <1>4, <2>1 DEF MembersInv
<1>6. WritesStandAlone'
  BY <1>4 DEF WritesStandAlone, TakenByAnyNode, Nothing
<1> QED
  BY <1>5, <1>6

\* The first state of a project.
LEMMA GenesisIs ==
  ASSUME NEW p \in Key, NEW drafts, drafts \in Seq(Range(drafts)),
         \A d \in Range(drafts) : GoodDraft("board", d)
  PROVE  LET genesis == [i \in DOMAIN drafts |-> Signed(p, drafts[i], i, i)]
         IN  GoodLog("board", genesis) /\ DOMAIN genesis \in SUBSET Nat
<1> DEFINE N == Len(drafts)
           genesis == [i \in DOMAIN drafts |-> Signed(p, drafts[i], i, i)]
<1>1. N \in Nat /\ DOMAIN drafts = 1..N
  OBVIOUS
<1>2. genesis = [i \in 1..N |-> genesis[i]] /\ DOMAIN genesis = 1..N
  BY <1>1
<1>3. ASSUME NEW i \in 1..N PROVE MemberOp("board", genesis[i]) /\ genesis[i].n = i
  <2>1. drafts[i] \in Range(drafts)
    BY <1>1 DEF Range
  <2> QED
    BY <1>1, <2>1, SignedIs
<1> HIDE DEF genesis, N
<1>4. genesis \in Seq(Range(genesis)) /\ Len(genesis) = N
  <2>1. \A i \in 1..N : genesis[i] \in Range(genesis)
    BY <1>2 DEF Range
  <2>2. genesis \in [1..N -> Range(genesis)]
    BY <1>2, <2>1
  <2> QED
    BY <1>1, <2>2
<1>5. \A op \in Range(genesis) : MemberOp("board", op) /\ op.n \in 1..N
  BY <1>2, <1>3 DEF Range
<1> QED
  BY <1>1, <1>2, <1>4, <1>5 DEF GoodLog, genesis

\* The founder starts a project.
LEMMA FoundProjectKeeps ==
  ASSUME MembersInv, NEW p \in Page, FoundProject(p)
  PROVE  MembersInv' /\ WritesStandAlone'
<1> DEFINE keys == admins(seen(p, "org")) \ {Owner}
           belongs == Says({ADMINISTER}, [op |-> "SetOrganization", org |-> "org"])
           added == Says({ADMINISTER}, [op |-> "AddProject", board |-> "board"])
           drafts == <<belongs>> \o Appointments(keys)
           genesis == [i \in DOMAIN drafts |-> Signed(p, drafts[i], i, i)]
           told == Emitted(p, "org", <<added>>)
           a == refold(genesis, DOMAIN genesis)
<1>1. p \in Key
  BY PageAssumption
<1>2. /\ log' = [c \in Contract |-> IF c = "org" THEN told.log ELSE genesis]
      /\ known' = [known EXCEPT ![p] =
                     [c \in Contract |-> IF c = "org" THEN told.known ELSE DOMAIN genesis]]
      /\ folded' = [folded EXCEPT ![p]["board"] = a]
      /\ last' = Nothing
  BY DEF FoundProject
<1>3. GoodDraft("board", belongs) /\ GoodDraft("org", added)
  BY OneRoot DEF GoodDraft, Says, Kinds, ALL, ADMIN, NONE, ADMINISTER
<1>4. drafts \in Seq(Range(drafts)) /\ \A d \in Range(drafts) : GoodDraft("board", d)
  <2>1. keys \in SUBSET Key
    BY DEF admins
  <2> HIDE DEF keys
  <2> DEFINE rest == Appointments(keys)
             S == {belongs} \cup Range(rest)
  <2>2. rest \in Seq(Range(rest)) /\ \A d \in Range(rest) : GoodDraft("board", d)
    BY <2>1, AppointmentsAreClicks, AppointmentsAre DEF Row
  <2> HIDE DEF rest, belongs
  <2>3. drafts \in Seq(S)
    <3>1. <<belongs>> \in Seq(S) /\ rest \in Seq(S)
      BY <2>2
    <3> HIDE DEF S
    <3> QED
      BY <3>1 DEF rest
  <2> HIDE DEF drafts
  <2>4. Range(drafts) \subseteq S
    BY <2>3 DEF Range
  <2>5. drafts \in Seq(Range(drafts))
    <3>1. \A i \in 1..Len(drafts) : drafts[i] \in Range(drafts)
      BY <2>3 DEF Range
    <3> HIDE DEF S
    <3> QED
      BY <2>3, <3>1
  <2> QED
    BY <1>3, <2>2, <2>4, <2>5 DEF belongs
<1> HIDE DEF drafts
<1>5. GoodLog("board", genesis) /\ DOMAIN genesis \in SUBSET Nat
  BY <1>1, <1>4, GenesisIs
<1> HIDE DEF genesis
<1>6. GoodLog("org", told.log) /\ told.known \in SUBSET Nat
  <2>1. GoodLog("org", log["org"]) /\ known[p]["org"] \in SUBSET Nat
    BY ContractsAre DEF MembersInv
  <2>2. Row("org", <<added>>)
    BY <1>3, OneDraft
  <2>3. Continues(p, "org", told)
    BY <1>1, <2>1, <2>2, EmittedContinues DEF Row
  <2> QED
    BY <2>3 DEF Continues
<1> HIDE DEF told, belongs, added, keys
<1>7. a \in Authorities
  BY <1>5, RefoldIs
<1> HIDE DEF a
<1>8. MembersInv'
  <2>1. DOMAIN log' = Contract /\ \A c \in Contract : GoodLog(c, log'[c])
    BY <1>2, <1>5, <1>6, ContractsAre
  <2>2. known' \in [Page -> [Contract -> SUBSET Nat]]
    <3>1. [c \in Contract |-> IF c = "org" THEN told.known ELSE DOMAIN genesis]
            \in [Contract -> SUBSET Nat]
      BY <1>5, <1>6
    <3> QED
      BY <1>2, <3>1 DEF MembersInv
  <2>3. /\ folded' \in [Page -> [Contract -> Authorities]]
        /\ \A q \in Page : Tiered(folded'[q]["org"])
    <3>1. "board" \in Contract /\ "board" # "org" /\ {} \in SUBSET Nat
      BY ContractsAre
    <3> QED
      BY <1>2, <1>7, <3>1, PagesStay
  <2> QED
    BY <2>1, <2>2, <2>3 DEF MembersInv
<1>9. WritesStandAlone'
  BY <1>2 DEF WritesStandAlone, TakenByAnyNode, Nothing
<1> QED
  BY <1>8, <1>9

\* Every step.
LEMMA MembersStep ==
  ASSUME MembersInv, WritesStandAlone, [MembersNext]_members_vars
  PROVE  MembersInv' /\ WritesStandAlone'
<1>1. CASE MembersNext
  <2>1. PICK p \in Page : \/ \E k \in Key : ClickOrg(p, k) \/ ClickBoard(p, k)
                          \/ FoundProject(p)
                          \/ \E c \in Contract : Fetch(p, c)
    BY <1>1 DEF MembersNext
  <2> QED
    BY <2>1, ClickOrgKeeps, ClickBoardKeeps, FoundProjectKeeps, FetchKeeps
<1>2. CASE UNCHANGED members_vars
  <2>1. log' = log /\ known' = known /\ folded' = folded /\ last' = last
    BY <1>2 DEF members_vars
  <2>2. MembersInv'
    BY <2>1 DEF MembersInv
  <2>3. WritesStandAlone'
    BY <2>1 DEF WritesStandAlone, TakenByAnyNode
  <2> QED
    BY <2>2, <2>3
<1> QED
  BY <1>1, <1>2

\* Whoever a person may put out, or make an administrator, there is a control
\* for it.
LEMMA PowerIsOffered == MembersInv => EveryPowerIsOffered
<1> SUFFICES ASSUME MembersInv, NEW p \in Page, NEW k \in Key, Loaded(p, "org")
             PROVE  LET a == seen(p, "org")
                    IN  /\ active(a, k) /\ ~active(ApplyGrant(a, p, k, NONE), k) =>
                             can_remove(p, k) \/ (k = p /\ may_leave(p))
                        /\ active(a, k) /\ ~is_admin_role(a, k)
                            /\ is_admin_role(ApplyGrant(a, p, k, ADMIN), k) =>
                             can_promote(p, k)
  BY DEF EveryPowerIsOffered
<1> DEFINE a == seen(p, "org")
<1>1. p \in Key /\ Tiered(a)
  BY PageAssumption DEF MembersInv, seen
<1> HIDE DEF a
<1>2. rights_of(a, p) = a.held[p] /\ person(a, p) = p /\ person_of(a, p) = p
  BY <1>1 DEF Tiered, rights_of, person_of, person
<1>3. MAY_GRANT \in a.held[p] => may(a, p, MAY_GRANT)
  BY <1>1, <1>2 DEF Tiered, may, active, members, NONE
<1>4. is_org_founder(p) <=> p = Owner
  BY <1>2 DEF is_org_founder, a
<1>5. MAY_APPOINT \in a.held[p] => p = Owner
  BY <1>1 DEF Tiered
<1>6. ASSUME active(a, k), ~active(ApplyGrant(a, p, k, NONE), k)
      PROVE  can_remove(p, k) \/ (k = p /\ may_leave(p))
  <2>1. GrantHonoured(a, p, k, NONE)
    BY <1>6 DEF ApplyGrant
  <2>2. k # Owner
    BY <2>1, OneRoot DEF GrantHonoured
  <2>3. CASE k = p
    <3>1. is_org_member(p)
      BY <1>2, <1>6, <2>3 DEF is_org_member, a
    <3> QED
      BY <1>4, <2>2, <2>3, <3>1 DEF may_leave
  <2>4. CASE k # p
    <3>1. MayGrantTo(a, p, k)
      BY <1>2, <2>1, <2>4 DEF GrantHonoured, Resigning
    <3>2. is_org_admin(p)
      BY <1>2, <1>3, <3>1 DEF MayGrantTo, is_org_admin, a
    <3>3. is_admin_role(a, k) => is_org_founder(p)
      BY <1>2, <1>4, <1>5, <3>1 DEF MayGrantTo, is_admin_role
    <3> QED
      BY <1>6, <2>2, <3>2, <3>3 DEF can_remove, a
  <2> QED
    BY <2>3, <2>4
<1>7. ASSUME active(a, k), ~is_admin_role(a, k),
             is_admin_role(ApplyGrant(a, p, k, ADMIN), k)
      PROVE  can_promote(p, k)
  <2>1. GrantHonoured(a, p, k, ADMIN)
    BY <1>7 DEF ApplyGrant
  <2>2. ApplyGrant(a, p, k, ADMIN).held[k] = Conferred(a, p, ADMIN)
    <3>1. a.held \in [Key -> SUBSET ALL]
      BY <1>1 DEF Tiered, Authorities
    <3> QED
      BY <2>1, <3>1 DEF ApplyGrant
  <2>3. MAY_APPOINT \in rights_of(a, p)
    BY <1>7, <2>2 DEF Conferred, is_admin_role
  <2> QED
    BY <1>2, <1>4, <1>5, <1>7, <2>3 DEF can_promote, a
<1> QED
  BY <1>6, <1>7 DEF a

-----------------------------------------------------------------------------

\* Whatever is clicked, founded and fetched, in whatever order, only the founder
\* appoints and a write is taken wherever the founder's grant is sent along.
THEOREM MembersSafety == MembersSpec => [](MembersInv /\ WritesStandAlone)
<1>1. MembersInit => MembersInv /\ WritesStandAlone
  BY MembersInitially
<1>2. (MembersInv /\ WritesStandAlone) /\ [MembersNext]_members_vars
        => (MembersInv /\ WritesStandAlone)'
  BY MembersStep
<1> QED
  BY <1>1, <1>2, PTL DEF MembersSpec

\* Whoever the fold would let a person put out of the organization, or make an
\* administrator of it, there is a control for it (ui/org.rs:275-286, 231).
THEOREM PowersAreOffered == MembersSpec => []EveryPowerIsOffered
<1>1. MembersInv => EveryPowerIsOffered
  BY PowerIsOffered
<1> QED
  BY <1>1, MembersSafety, PTL

\* A write by somebody the founder's own grant let in is taken, with the grant
\* that goes with it, by a node that has heard nothing else (store.rs:1387-1393).
THEOREM NoWriteNeedsMore == MembersSpec => []WritesStandAlone
BY MembersSafety, PTL

-----------------------------------------------------------------------------
(* Where a write comes among the others.                                    *)

Ordered(s) ==
  /\ \A i, j \in 1..Len(s) : i < j => Precedes(s[i], s[j])
  /\ \A op \in Range(s) : op.lamport \in Nat

\* A set of the first so many numbers that has with every number those before it.
LEMMA FirstOnes ==
  ASSUME NEW N \in Nat, NEW D \in SUBSET (1..N),
         \A i \in 1..N, j \in D : i < j => i \in D
  PROVE  \E m \in 0..N : D = 1..m /\ Cardinality(D) = m
<1> DEFINE T == {n \in 0..N : \E m \in 0..n : D \cap (1..n) = 1..m}
<1>1. 0 \in T
  OBVIOUS
<1>2. ASSUME NEW n \in 1..N, n - 1 \in T PROVE n \in T
  <2>1. PICK m \in 0..(n - 1) : D \cap (1..(n - 1)) = 1..m
    BY <1>2
  <2>2. n \in 0..N /\ m \in 0..n
    OBVIOUS
  <2>3. CASE n \in D
    <3>1. D \cap (1..n) = 1..n
      BY <2>3
    <3> QED
      BY <2>2, <3>1
  <2>4. CASE n \notin D
    <3>1. D \cap (1..n) = D \cap (1..(n - 1))
      BY <2>4
    <3> QED
      BY <2>1, <2>2, <3>1
  <2> QED
    BY <2>3, <2>4
<1>3. N \in T
  <2>1. 0..N \subseteq T
    <3> HIDE DEF T
    <3> QED
      BY <1>1, <1>2, UpTo
  <2> HIDE DEF T
  <2> QED
    BY <2>1
<1>4. PICK m \in 0..N : D \cap (1..N) = 1..m
  BY <1>3
<1>5. D = 1..m
  BY <1>4
<1>6. Cardinality(1..m) = m
  BY FS_Interval
<1> QED
  BY <1>5, <1>6

\* What precedes what precedes an op precedes it; of two ops with numbers of
\* their own one precedes the other.
LEMMA PrecedesIsOrder ==
  ASSUME NEW x, NEW y, NEW z,
         x.lamport \in Nat, y.lamport \in Nat, z.lamport \in Nat,
         x.n \in Nat, y.n \in Nat, z.n \in Nat
  PROVE  /\ Precedes(x, y) /\ Precedes(y, z) => Precedes(x, z)
         /\ x.n # y.n => Precedes(x, y) \/ Precedes(y, x)
<1>1. Precedes(x, y) /\ Precedes(y, z) => Precedes(x, z)
  BY DEF Precedes
<1>2. x.n # y.n => Precedes(x, y) \/ Precedes(y, x)
  BY DEF Precedes
<1> QED
  BY <1>1, <1>2

\* An op with a number of its own is put behind those that precede it, and before
\* the others.
LEMMA InsertedBetween ==
  ASSUME NEW c, NEW s, GoodLog(c, s), Ordered(s),
         NEW op, MemberOp(c, op), op.lamport \in Nat, op.n = Len(s) + 1
  PROVE  \E m \in 0..Len(s) :
           /\ \A i \in 1..Len(s) : i <= m <=> Precedes(s[i], op)
           /\ \A i \in 1..(Len(s) + 1) :
                Inserted(s, op)[i] = IF i <= m THEN s[i] ELSE IF i = m + 1 THEN op ELSE s[i - 1]
<1> DEFINE N == Len(s)
           D == {i \in DOMAIN s : Precedes(s[i], op)}
<1>1. N \in Nat /\ DOMAIN s = 1..N /\ \A i \in 1..N : s[i] \in Range(s)
  BY DEF GoodLog, Range
<1>2. \A i \in 1..N : s[i].lamport \in Nat /\ s[i].n \in Nat /\ s[i].n # op.n
  BY <1>1 DEF GoodLog, Ordered
<1>3. ASSUME NEW i \in 1..N, NEW j \in D, i < j PROVE i \in D
  <2>1. Precedes(s[i], s[j]) /\ Precedes(s[j], op)
    BY <1>1, <1>3 DEF Ordered
  <2>2. op.n \in Nat
    BY DEF MemberOp
  <2> QED
    BY <1>1, <1>2, <2>1, <2>2, PrecedesIsOrder
<1>4. PICK m \in 0..N : D = 1..m /\ Cardinality(D) = m
  <2>1. D \in SUBSET (1..N)
    BY <1>1
  <2> HIDE DEF D
  <2> QED
    BY <1>1, <1>3, <2>1, FirstOnes
<1>5. \A i \in 1..N : i <= m <=> Precedes(s[i], op)
  BY <1>1, <1>4
<1>6. \A i \in 1..(N + 1) :
        Inserted(s, op)[i] = IF i < 1 + m THEN s[i] ELSE IF i = 1 + m THEN op ELSE s[i - 1]
  BY <1>4, InsertedIs DEF GoodLog
<1>7. \A i \in 1..(N + 1) : i < 1 + m <=> i <= m
  OBVIOUS
<1> QED
  BY <1>5, <1>6, <1>7

\* The order stays.
LEMMA InsertedOrdered ==
  ASSUME NEW c, NEW s, GoodLog(c, s), Ordered(s),
         NEW op, MemberOp(c, op), op.lamport \in Nat, op.n = Len(s) + 1
  PROVE  Ordered(Inserted(s, op))
<1> DEFINE t == Inserted(s, op)
           N == Len(s)
<1>1. PICK m \in 0..N :
        /\ \A i \in 1..N : i <= m <=> Precedes(s[i], op)
        /\ \A i \in 1..(N + 1) :
             t[i] = IF i <= m THEN s[i] ELSE IF i = m + 1 THEN op ELSE s[i - 1]
  BY InsertedBetween
<1>2. Len(t) = N + 1 /\ Range(t) = Range(s) \cup {op} /\ N \in Nat
  <2>1. s \in Seq(Range(s))
    BY DEF GoodLog
  <2>2. N \in Nat
    BY <2>1
  <2> QED
    BY <2>1, <2>2, InsertedIs
<1>3. \A i \in 1..N : s[i] \in Range(s) /\ s[i].lamport \in Nat /\ s[i].n \in 1..N
  <2>1. \A i \in 1..N : s[i] \in Range(s)
    BY DEF GoodLog, Range
  <2> QED
    BY <2>1 DEF GoodLog, Ordered
<1> HIDE DEF t
<1>4. op.n \in Nat
  BY DEF MemberOp
<1>5. \A i \in 1..N : ~(i <= m) => Precedes(op, s[i])
  BY <1>1, <1>2, <1>3, <1>4, PrecedesIsOrder
<1>6. ASSUME NEW i \in 1..(N + 1), NEW j \in 1..(N + 1), i < j PROVE Precedes(t[i], t[j])
  <2>1. CASE j <= m
    BY <1>1, <1>2, <1>6, <2>1 DEF Ordered
  <2>2. CASE j = m + 1
    BY <1>1, <1>2, <1>6, <2>2
  <2>3. CASE j > m + 1 /\ i <= m
    <3>1. j - 1 \in 1..N /\ i \in 1..N /\ i < j - 1 /\ t[i] = s[i] /\ t[j] = s[j - 1]
      BY <1>1, <1>2, <1>6, <2>3
    <3> QED
      BY <3>1 DEF Ordered
  <2>4. CASE j > m + 1 /\ i = m + 1
    <3>1. j - 1 \in 1..N /\ ~(j - 1 <= m) /\ t[i] = op /\ t[j] = s[j - 1]
      BY <1>1, <1>2, <1>6, <2>4
    <3> QED
      BY <1>5, <3>1
  <2>5. CASE i > m + 1
    <3>1. j - 1 \in 1..N /\ i - 1 \in 1..N /\ i - 1 < j - 1 /\ t[i] = s[i - 1] /\ t[j] = s[j - 1]
      BY <1>1, <1>2, <1>6, <2>5
    <3> QED
      BY <3>1 DEF Ordered
  <2> QED
    BY <1>1, <1>2, <1>6, <2>1, <2>2, <2>3, <2>4, <2>5
<1>7. \A x \in Range(t) : x.lamport \in Nat
  BY <1>2 DEF Ordered
<1> QED
  BY <1>2, <1>6, <1>7 DEF Ordered, t


-----------------------------------------------------------------------------
(* What a page makes of a contract's ops, once there is one more.           *)

\* Ops of a contract.
OpsOf(c, s) == s \in Seq(Range(s)) /\ \A op \in Range(s) : MemberOp(c, op)

\* The fold of the ops with these numbers, place by place.
Folds(f, s, numbers) ==
  /\ f[0] = Empty
  /\ \A i \in 1..Places :
       f[i] = IF i \in 1..Len(s) /\ s[i].n \in numbers THEN Fold(f[i - 1], s[i]) ELSE f[i - 1]

LEMMA RefoldAlong ==
  ASSUME NEW c, NEW s, OpsOf(c, s), NEW numbers
  PROVE  \E f : Folds(f, s, numbers) /\ refold(s, numbers) = f[Places]
<1> DEFINE given == {op \in Stamped(s) : op.n \in numbers}
           placed(i) == [s[i] EXCEPT !.key = i]
<1>1. DOMAIN s = 1..Len(s) /\ Len(s) \in Nat
  BY DEF OpsOf
<1>2. ASSUME NEW i \in 1..Len(s)
      PROVE  /\ MemberOp(c, s[i])
             /\ placed(i).key = i /\ placed(i).n = s[i].n
             /\ \A a : Fold(a, placed(i)) = Fold(a, s[i])
  <2>1. s[i] \in Range(s) /\ i \in Nat
    BY <1>1 DEF Range
  <2>2. MemberOp(c, s[i])
    BY <2>1 DEF OpsOf
  <2>3. placed(i).n = s[i].n
    BY <2>2 DEF MemberOp
  <2> QED
    BY <2>1, <2>2, <2>3, Placed
<1>3. given = {placed(i) : i \in {j \in 1..Len(s) : s[j].n \in numbers}}
  <2>1. Stamped(s) = {placed(i) : i \in 1..Len(s)}
    BY <1>1 DEF Stamped
  <2> HIDE DEF placed
  <2> QED
    BY <1>2, <2>1
<1> HIDE DEF given, placed
<1>4. ASSUME NEW a, NEW i \in 1..Places
      PROVE  FoldPlace(given, a, i) =
               IF i \in 1..Len(s) /\ s[i].n \in numbers THEN Fold(a, s[i]) ELSE a
  <2>1. CASE i \in 1..Len(s) /\ s[i].n \in numbers
    <3>1. placed(i) \in given /\ \A op \in given : op.key = i => op = placed(i)
      BY <1>2, <1>3, <2>1
    <3>2. (CHOOSE op \in given : op.key = i) = placed(i)
      BY <1>2, <2>1, <3>1
    <3>3. i \in {op.key : op \in given}
      BY <1>2, <2>1, <3>1
    <3> QED
      BY <1>2, <2>1, <3>2, <3>3 DEF FoldPlace
  <2>2. CASE ~(i \in 1..Len(s) /\ s[i].n \in numbers)
    <3>1. i \notin {op.key : op \in given}
      BY <1>2, <1>3, <2>2
    <3> QED
      BY <2>2, <3>1 DEF FoldPlace
  <2> QED
    BY <2>1, <2>2
<1>5. \A a \in Authorities, op \in given : Fold(a, op) \in Authorities
  <2>1. ASSUME NEW a \in Authorities, NEW op \in given PROVE Fold(a, op) \in Authorities
    <3>1. PICK i \in 1..Len(s) : op = placed(i)
      BY <1>3
    <3>2. Fold(a, op) = Fold(a, s[i]) /\ MemberOp(c, s[i])
      BY <1>2, <3>1
    <3> QED
      BY <3>2, FoldTyped DEF MemberOp
  <2> QED
    BY <2>1
<1>6. PICK f \in [0..Places -> Authorities] :
        /\ f[0] = Empty
        /\ \A n \in 1..Places : f[n] = FoldPlace(given, f[n - 1], n)
        /\ authority_in(given) = f[Places]
  BY <1>5, EmptyTyped, FoldAlong
<1>7. refold(s, numbers) = f[Places]
  BY <1>6 DEF refold, given
<1>8. Folds(f, s, numbers)
  BY <1>4, <1>6 DEF Folds
<1> QED
  BY <1>7, <1>8

\* One more op, put somewhere.
Between(s, t, m, op) ==
  /\ Len(s) \in Nat /\ m \in 0..Len(s) /\ Len(t) = Len(s) + 1
  /\ \A i \in 1..(Len(s) + 1) :
       t[i] = IF i <= m THEN s[i] ELSE IF i = m + 1 THEN op ELSE s[i - 1]

\* Up to its place nothing changes.
LEMMA FoldUpToThere ==
  ASSUME NEW s, NEW t, NEW m, NEW op, Between(s, t, m, op), Len(t) <= Places,
         NEW K, NEW L, \A i \in 1..m : s[i].n \in K <=> s[i].n \in L,
         NEW f, NEW g, Folds(f, s, K), Folds(g, t, L)
  PROVE  g[m] = f[m]
<1> DEFINE T == {i \in 0..m : g[i] = f[i]}
<1>1. Places \in Nat /\ m \in Nat /\ m <= Len(s) /\ Len(s) + 1 <= Places
  BY PlacesAssumption DEF Between
<1>2. 0 \in T
  BY <1>1 DEF Folds
<1>3. ASSUME NEW i \in 1..m, i - 1 \in T PROVE i \in T
  <2>1. i \in 1..Places /\ i \in 1..Len(s) /\ i \in 1..Len(t) /\ t[i] = s[i]
    BY <1>1 DEF Between
  <2>2. g[i - 1] = f[i - 1] /\ (s[i].n \in K <=> s[i].n \in L)
    BY <1>3
  <2> QED
    BY <2>1, <2>2 DEF Folds
<1>4. 0..m \subseteq T
  <2> HIDE DEF T
  <2> QED
    BY <1>1, <1>2, <1>3, UpTo
<1> QED
  BY <1>1, <1>4

\* Nor does an op change anything for those who do not have it.
LEMMA UnknownIsNoChange ==
  ASSUME NEW c, NEW s, NEW t, OpsOf(c, s), OpsOf(c, t),
         NEW m, NEW op, Between(s, t, m, op), Len(t) <= Places,
         NEW K, op.n \notin K
  PROVE  refold(t, K) = refold(s, K)
<1>1. Places \in Nat /\ m \in Nat /\ Len(s) \in Nat /\ m <= Len(s) /\ Len(s) + 1 <= Places
  BY PlacesAssumption DEF Between
<1>2. PICK f : Folds(f, s, K) /\ refold(s, K) = f[Places]
  BY RefoldAlong
<1>3. PICK g : Folds(g, t, K) /\ refold(t, K) = g[Places]
  BY RefoldAlong
<1>4. g[m] = f[m]
  BY <1>2, <1>3, FoldUpToThere
<1>5. g[m + 1] = f[m]
  <2>1. m + 1 \in 1..Places /\ m + 1 \in 1..(Len(s) + 1) /\ (m + 1) - 1 = m
    BY <1>1
  <2>2. t[m + 1] = op
    BY <2>1 DEF Between
  <2> QED
    BY <1>3, <1>4, <2>1, <2>2 DEF Folds
<1> DEFINE N == Places - (m + 1)
           T == {i \in 0..N : g[(m + 1) + i] = f[m + i]}
<1>6. 0 \in T
  BY <1>1, <1>5
<1>7. ASSUME NEW i \in 1..N, i - 1 \in T PROVE i \in T
  <2>1. /\ i \in 0..N /\ i - 1 \in 0..N /\ (m + 1) + i \in 1..Places /\ m + i \in 1..Places
        /\ ((m + 1) + i) - 1 = (m + 1) + (i - 1) /\ (m + i) - 1 = m + (i - 1)
        /\ ~((m + 1) + i <= m) /\ (m + 1) + i # m + 1 /\ ((m + 1) + i) - 1 = m + i
    BY <1>1
  <2>2. (m + 1) + i \in 1..Len(t) <=> m + i \in 1..Len(s)
    BY <1>1, <2>1 DEF Between
  <2>3. m + i \in 1..Len(s) => t[(m + 1) + i] = s[m + i]
    BY <1>1, <2>1, <2>2 DEF Between
  <2>4. g[(m + 1) + (i - 1)] = f[m + (i - 1)]
    BY <1>7
  <2>5. g[(m + 1) + i] = IF m + i \in 1..Len(s) /\ s[m + i].n \in K
                         THEN Fold(f[m + (i - 1)], s[m + i]) ELSE f[m + (i - 1)]
    BY <1>3, <2>1, <2>2, <2>3, <2>4 DEF Folds
  <2>6. f[m + i] = IF m + i \in 1..Len(s) /\ s[m + i].n \in K
                   THEN Fold(f[m + (i - 1)], s[m + i]) ELSE f[m + (i - 1)]
    BY <1>2, <2>1 DEF Folds
  <2> QED
    BY <2>1, <2>5, <2>6
<1>8. g[Places] = f[Places - 1]
  <2>1. N \in Nat /\ N \in 0..N /\ (m + 1) + N = Places /\ m + N = Places - 1
    BY <1>1
  <2>2. 0..N \subseteq T
    <3> HIDE DEF T, N
    <3> QED
      BY <1>6, <1>7, <2>1, UpTo
  <2>3. g[(m + 1) + N] = f[m + N]
    BY <2>1, <2>2
  <2> QED
    BY <2>1, <2>3
<1>9. f[Places] = f[Places - 1]
  <2>1. Places \in 1..Places /\ ~(Places \in 1..Len(s))
    BY <1>1
  <2> QED
    BY <1>2, <2>1 DEF Folds
<1> QED
  BY <1>2, <1>3, <1>8, <1>9

\* Who has it, and nothing that comes after it, goes by it last of all.
LEMMA LastIsFoldedLast ==
  ASSUME NEW c, NEW s, NEW t, OpsOf(c, s), OpsOf(c, t),
         NEW m, NEW op, Between(s, t, m, op), Len(t) <= Places,
         NEW K, NEW L, op.n \in L,
         \A i \in 1..Len(s) : IF i <= m THEN s[i].n \in K <=> s[i].n \in L
                              ELSE s[i].n \notin K /\ s[i].n \notin L
  PROVE  refold(t, L) = Fold(refold(s, K), op)
<1>1. Places \in Nat /\ m \in Nat /\ Len(s) \in Nat /\ m <= Len(s) /\ Len(s) + 1 <= Places
  BY PlacesAssumption DEF Between
<1>2. PICK f : Folds(f, s, K) /\ refold(s, K) = f[Places]
  BY RefoldAlong
<1>3. PICK g : Folds(g, t, L) /\ refold(t, L) = g[Places]
  BY RefoldAlong
<1>4. g[m] = f[m]
  <2>1. \A i \in 1..m : s[i].n \in K <=> s[i].n \in L
    BY <1>1
  <2> QED
    BY <1>2, <1>3, <2>1, FoldUpToThere
<1>5. g[m + 1] = Fold(f[m], op)
  <2>1. m + 1 \in 1..Places /\ m + 1 \in 1..(Len(s) + 1) /\ (m + 1) - 1 = m /\ op.n \in L
    BY <1>1
  <2>2. t[m + 1] = op /\ m + 1 \in 1..Len(t)
    BY <2>1 DEF Between
  <2> QED
    BY <1>3, <1>4, <2>1, <2>2 DEF Folds
<1>6. f[Places] = f[m]
  <2> DEFINE N == Places - m
             T == {i \in 0..N : f[m + i] = f[m]}
  <2>1. 0 \in T /\ N \in Nat /\ m + N = Places
    BY <1>1
  <2>2. ASSUME NEW i \in 1..N, i - 1 \in T PROVE i \in T
    <3>1. /\ i \in 0..N /\ m + i \in 1..Places /\ (m + i) - 1 = m + (i - 1)
          /\ ~(m + i <= m)
      BY <1>1
    <3>2. ~(m + i \in 1..Len(s) /\ s[m + i].n \in K)
      BY <3>1
    <3> QED
      BY <1>2, <2>2, <3>1, <3>2 DEF Folds
  <2>3. 0..N \subseteq T
    <3> HIDE DEF T, N
    <3> QED
      BY <2>1, <2>2, UpTo
  <2> QED
    BY <2>1, <2>3
<1>7. g[Places] = g[m + 1]
  <2> DEFINE N == Places - (m + 1)
             T == {i \in 0..N : g[(m + 1) + i] = g[m + 1]}
  <2>1. 0 \in T /\ N \in Nat /\ (m + 1) + N = Places
    BY <1>1
  <2>2. ASSUME NEW i \in 1..N, i - 1 \in T PROVE i \in T
    <3>1. /\ i \in 0..N /\ (m + 1) + i \in 1..Places
          /\ ((m + 1) + i) - 1 = (m + 1) + (i - 1)
          /\ ~((m + 1) + i <= m) /\ (m + 1) + i # m + 1 /\ ((m + 1) + i) - 1 = m + i
          /\ ~(m + i <= m)
      BY <1>1
    <3>2. ~((m + 1) + i \in 1..Len(t) /\ t[(m + 1) + i].n \in L)
      <4>1. SUFFICES ASSUME (m + 1) + i \in 1..Len(t) PROVE t[(m + 1) + i].n \notin L
        OBVIOUS
      <4>2. m + i \in 1..Len(s) /\ t[(m + 1) + i] = s[m + i]
        BY <1>1, <3>1, <4>1 DEF Between
      <4> QED
        BY <3>1, <4>2
    <3> QED
      BY <1>3, <2>2, <3>1, <3>2 DEF Folds
  <2>3. 0..N \subseteq T
    <3> HIDE DEF T, N
    <3> QED
      BY <2>1, <2>2, UpTo
  <2> QED
    BY <2>1, <2>3
<1> QED
  BY <1>2, <1>3, <1>5, <1>6, <1>7

-----------------------------------------------------------------------------
(* What comes of what a page writes.                                        *)

\* The next clock is ahead of those of all the ops that are known.
LEMMA NextIsAhead ==
  ASSUME NEW s, s \in Seq(Range(s)), \A op \in Range(s) : op.lamport \in Nat, NEW K
  PROVE  /\ next_lamport(Numbered(s, K)) \in Nat
         /\ \A op \in Numbered(s, K) : op.lamport < next_lamport(Numbered(s, K))
<1> DEFINE N == Len(s)
           clocks(m) == {0} \cup {s[i].lamport : i \in {j \in 1..m : s[j].n \in K}}
           T == {m \in 0..N : \E n \in clocks(m) : \A k \in clocks(m) : k <= n}
           all == {0} \cup {op.lamport : op \in Numbered(s, K)}
<1>1. N \in Nat /\ \A i \in 1..N : s[i] \in Range(s) /\ s[i].lamport \in Nat
  BY DEF Range
<1>2. Range(s) = {s[i] : i \in 1..N}
  BY DEF Range
<1>3. all = clocks(N)
  BY <1>2 DEF Numbered
<1>4. 0 \in T
  BY <1>1
<1>5. ASSUME NEW m \in 1..N, m - 1 \in T PROVE m \in T
  <2>1. PICK n \in clocks(m - 1) : \A k \in clocks(m - 1) : k <= n
    BY <1>5
  <2>2. m \in 0..N /\ \A i \in 1..(m - 1) : i \in 1..N
    BY <1>1
  <2>3. clocks(m - 1) \subseteq Nat
    BY <1>1, <2>2
  <2>4. clocks(m) = IF s[m].n \in K THEN clocks(m - 1) \cup {s[m].lamport} ELSE clocks(m - 1)
    <3>1. \A j : j \in 1..m <=> j \in 1..(m - 1) \/ j = m
      BY <2>2
    <3> QED
      BY <3>1
  <2> HIDE DEF clocks
  <2>5. \A k \in clocks(m) : k <= n \/ (s[m].n \in K /\ k = s[m].lamport)
    BY <2>1, <2>4
  <2>6. CASE s[m].n \in K /\ n < s[m].lamport
    <3>1. s[m].lamport \in clocks(m) /\ s[m].lamport \in Nat
      BY <1>1, <2>4, <2>6
    <3>2. \A k \in clocks(m - 1) : k <= s[m].lamport
      BY <2>1, <2>3, <2>6, <3>1
    <3>3. \A k \in clocks(m) : k <= s[m].lamport
      BY <2>4, <3>1, <3>2
    <3> QED
      BY <2>2, <3>1, <3>3
  <2>7. CASE ~(s[m].n \in K /\ n < s[m].lamport)
    <3>1. n \in clocks(m)
      BY <2>1, <2>4
    <3>2. \A k \in clocks(m) : k <= n
      BY <1>1, <2>1, <2>3, <2>4, <2>7
    <3> QED
      BY <2>2, <3>1, <3>2
  <2> QED
    BY <2>6, <2>7
<1>6. N \in T
  <2>1. 0..N \subseteq T
    <3> HIDE DEF T
    <3> QED
      BY <1>1, <1>4, <1>5, UpTo
  <2>2. N \in 0..N
    BY <1>1
  <2> HIDE DEF T
  <2> QED
    BY <2>1, <2>2
<1>7. \E n \in all : \A k \in all : k <= n
  BY <1>3, <1>6
<1>8. all \subseteq Nat
  BY <1>1, <1>3
<1> HIDE DEF all
<1>9. Largest(all) \in all /\ \A k \in all : k <= Largest(all)
  BY <1>7 DEF Largest
<1>10. next_lamport(Numbered(s, K)) = Largest(all) + 1
  BY DEF next_lamport, all
<1>11. \A op \in Numbered(s, K) : op.lamport \in all
  BY DEF all
<1> DEFINE most == Largest(all)
<1>12. most \in Nat /\ next_lamport(Numbered(s, K)) = most + 1
  BY <1>8, <1>9, <1>10
<1>13. ASSUME NEW op \in Numbered(s, K) PROVE op.lamport \in Nat /\ op.lamport <= most
  BY <1>8, <1>9, <1>11
<1> HIDE DEF most
<1>14. \A op \in Numbered(s, K) : op.lamport < most + 1
  BY <1>12, <1>13
<1> QED
  BY <1>12, <1>14

\* Ops in their order, some of which are known.
Tidy(c, s, K) == GoodLog(c, s) /\ Ordered(s) /\ K \subseteq 1..Len(s)

\* An op that says what a draft says.
Drafted(c, p, draft, op) ==
  /\ MemberOp(c, op)
  /\ op.author = p /\ op.kind = draft.kind /\ op.target = draft.target
  /\ op.rights = draft.rights /\ op.body = draft.body

\* It is the last that is known.
LastKnown(s, K, op) ==
  \E j \in 1..Len(s) :
    /\ s[j] = op /\ op.n \in K
    /\ \A i \in 1..Len(s) : s[i].n \in K => i <= j

\* One write.
LEMMA EmitIsTidy ==
  ASSUME NEW p \in Key, NEW c, NEW draft, GoodDraft(c, draft),
         NEW acc, Tidy(c, acc.log, acc.known)
  PROVE  LET next == Emit(p, acc, draft)
         IN  /\ Tidy(c, next.log, next.known)
             /\ Len(next.log) = Len(acc.log) + 1
             /\ \E op : /\ Drafted(c, p, draft, op)
                        /\ LastKnown(next.log, next.known, op)
                        /\ next.known = acc.known \cup {op.n} /\ op.n = Len(acc.log) + 1
                        /\ \E m : /\ Between(acc.log, next.log, m, op)
                                  /\ \A i \in 1..Len(acc.log) : acc.log[i].n \in acc.known => i <= m
<1> DEFINE s == acc.log
           K == acc.known
           N == Len(s)
           lamport == next_lamport(Numbered(s, K))
           op == Signed(p, draft, N + 1, lamport)
           next == Emit(p, acc, draft)
           t == Inserted(s, op)
<1>1. next.log = t /\ next.known = K \cup {op.n}
  BY DEF Emit
<1>2. /\ N \in Nat /\ s \in Seq(Range(s)) /\ \A i \in 1..N : s[i] \in Range(s)
      /\ \A x \in Range(s) : x.lamport \in Nat /\ x.n \in 1..N /\ MemberOp(c, x)
  BY DEF Tidy, GoodLog, Ordered, Range
<1>3. Drafted(c, p, draft, op) /\ op.n = N + 1 /\ op.lamport = lamport
  <2>1. N + 1 \in Nat
    BY <1>2
  <2>2. op.n = N + 1 /\ op.lamport = lamport /\ op.body = draft.body
    BY DEF Signed
  <2> QED
    BY <2>1, <2>2, SignedIs DEF Drafted
<1> HIDE DEF op, next
<1>4. lamport \in Nat /\ \A x \in Numbered(s, K) : x.lamport < lamport
  BY <1>2, NextIsAhead
<1> HIDE DEF lamport
<1>5. MemberOp(c, op)
  BY <1>3 DEF Drafted
<1>6. GoodLog(c, s) /\ Ordered(s) /\ K \subseteq 1..N
  BY DEF Tidy
<1>7. /\ t \in Seq(Range(t)) /\ Len(t) = N + 1 /\ Range(t) = Range(s) \cup {op}
  BY <1>2, InsertedIs
<1>8. Ordered(t)
  BY <1>3, <1>4, <1>5, <1>6, InsertedOrdered
<1> HIDE DEF s, K
<1>9. PICK m \in 0..N :
        /\ \A i \in 1..N : i <= m <=> Precedes(s[i], op)
        /\ \A i \in 1..(N + 1) :
             t[i] = IF i <= m THEN s[i] ELSE IF i = m + 1 THEN op ELSE s[i - 1]
  <2>1. op.lamport \in Nat /\ op.n = Len(s) + 1
    BY <1>3, <1>4
  <2> QED
    BY <1>5, <1>6, <2>1, InsertedBetween
<1> HIDE DEF t
<1>10. GoodLog(c, t)
  <2>1. \A x \in Range(t) : MemberOp(c, x) /\ x.n \in 1..(N + 1)
    BY <1>2, <1>3, <1>5, <1>7
  <2> QED
    BY <1>7, <2>1 DEF GoodLog
<1>11. Between(s, t, m, op)
  BY <1>2, <1>7, <1>9 DEF Between
<1>12. \A i \in 1..N : s[i].n \in K => i <= m
  <2>1. ASSUME NEW i \in 1..N, s[i].n \in K PROVE Precedes(s[i], op)
    <3>1. s[i].lamport < lamport
      BY <1>2, <1>4, <2>1 DEF Numbered
    <3> QED
      BY <1>3, <3>1 DEF Precedes
  <2> QED
    BY <1>9, <2>1
<1>13. LastKnown(t, K \cup {op.n}, op)
  <2>1. m + 1 \in 1..(N + 1) /\ t[m + 1] = op
    BY <1>2, <1>9
  <2>2. ASSUME NEW i \in 1..(N + 1), t[i].n \in K \cup {op.n}, i > m + 1 PROVE FALSE
    <3>1. i - 1 \in 1..N /\ ~(i - 1 <= m) /\ t[i] = s[i - 1]
      BY <1>2, <1>9, <2>2
    <3>2. s[i - 1].n # op.n
      BY <1>2, <1>3, <3>1
    <3> QED
      BY <1>12, <2>2, <3>1, <3>2
  <2>3. \A i \in 1..(N + 1) : t[i].n \in K \cup {op.n} => i <= m + 1
    BY <1>2, <2>2
  <2> QED
    BY <1>7, <2>1, <2>3 DEF LastKnown
<1>14. Tidy(c, t, K \cup {op.n})
  <2>1. ASSUME NEW k \in K \cup {op.n} PROVE k \in 1..Len(t)
    <3>1. k \in 1..N \/ k = N + 1
      BY <1>3, <1>6
    <3> QED
      BY <1>2, <1>7, <3>1
  <2> QED
    BY <1>8, <1>10, <2>1 DEF Tidy
<1> QED
  BY <1>1, <1>3, <1>7, <1>11, <1>12, <1>13, <1>14 DEF next, s, K

\* What it makes of what the page has, and of what others have.
LEMMA EmitFolds ==
  ASSUME NEW p \in Key, NEW c, NEW draft, GoodDraft(c, draft),
         NEW acc, Tidy(c, acc.log, acc.known), Len(acc.log) < Places
  PROVE  LET next == Emit(p, acc, draft)
         IN  /\ \E op : /\ Drafted(c, p, draft, op)
                        /\ LastKnown(next.log, next.known, op)
                        /\ refold(next.log, next.known) = Fold(refold(acc.log, acc.known), op)
             /\ \A K \in SUBSET (1..Len(acc.log)) : refold(next.log, K) = refold(acc.log, K)
<1> DEFINE next == Emit(p, acc, draft)
           N == Len(acc.log)
<1>1. PICK op : /\ Drafted(c, p, draft, op)
                /\ LastKnown(next.log, next.known, op)
                /\ next.known = acc.known \cup {op.n} /\ op.n = N + 1
                /\ \E m : /\ Between(acc.log, next.log, m, op)
                          /\ \A i \in 1..N : acc.log[i].n \in acc.known => i <= m
  BY EmitIsTidy
<1>2. PICK m : /\ Between(acc.log, next.log, m, op)
               /\ \A i \in 1..N : acc.log[i].n \in acc.known => i <= m
  BY <1>1
<1>3. Len(next.log) = N + 1 /\ GoodLog(c, next.log) /\ GoodLog(c, acc.log)
  BY EmitIsTidy DEF Tidy
<1> HIDE DEF next
<1>4. N \in Nat /\ Len(next.log) <= Places
  BY <1>3, PlacesAssumption DEF GoodLog
<1>5. refold(next.log, next.known) = Fold(refold(acc.log, acc.known), op)
  <2>1. \A i \in 1..N : acc.log[i].n # op.n
    <3>1. \A i \in 1..N : acc.log[i] \in Range(acc.log)
      BY <1>3 DEF GoodLog, Range
    <3> QED
      BY <1>1, <1>3, <1>4, <3>1 DEF GoodLog
  <2>2. OpsOf(c, acc.log) /\ OpsOf(c, next.log)
    BY <1>3 DEF GoodLog, OpsOf
  <2>3. /\ op.n \in next.known
        /\ \A i \in 1..N : IF i <= m THEN acc.log[i].n \in acc.known <=> acc.log[i].n \in next.known
                            ELSE acc.log[i].n \notin acc.known /\ acc.log[i].n \notin next.known
    BY <1>1, <1>2, <2>1
  <2> QED
    BY <1>2, <1>4, <2>2, <2>3, LastIsFoldedLast
<1>6. ASSUME NEW K \in SUBSET (1..N) PROVE refold(next.log, K) = refold(acc.log, K)
  <2>1. op.n \notin K
    BY <1>1, <1>4
  <2>2. OpsOf(c, acc.log) /\ OpsOf(c, next.log)
    BY <1>3 DEF GoodLog, OpsOf
  <2> QED
    BY <1>2, <1>4, <2>1, <2>2, UnknownIsNoChange
<1> QED
  BY <1>1, <1>5, <1>6 DEF next

\* All of them, one after the other.
LEMMA EmittedFolds ==
  ASSUME NEW p \in Key, NEW c, Tidy(c, log[c], known[p][c]),
         NEW drafts, Row(c, drafts), Len(Emitted(p, c, drafts).log) <= Places
  PROVE  LET done == Emitted(p, c, drafts)
             N == Len(drafts)
         IN  /\ Tidy(c, done.log, done.known) /\ Len(log[c]) <= Len(done.log)
             /\ \E a : /\ a[0] = refold(log[c], known[p][c])
                       /\ a[N] = refold(done.log, done.known)
                       /\ \A i \in 1..N : \E op : /\ Drafted(c, p, drafts[i], op)
                                                  /\ a[i] = Fold(a[i - 1], op)
             /\ \A K \in SUBSET (1..Len(log[c])) : refold(done.log, K) = refold(log[c], K)
             /\ N > 0 => \E op : /\ Drafted(c, p, drafts[N], op)
                                 /\ LastKnown(done.log, done.known, op)
<1> DEFINE N == Len(drafts)
           done == Emitted(p, c, drafts)
<1>1. N \in Nat /\ N \in 0..N /\ 0 \in 0..N /\ DOMAIN drafts = 1..N
  BY DEF Row
<1>2. PICK f : Writes(f, p, c, drafts) /\ done = f[N]
  BY <1>1, EmittedAlong
<1> HIDE DEF done
<1>3. \A i \in 1..N : GoodDraft(c, drafts[i])
  BY <1>1 DEF Row, Range
<1>4. /\ f[0].log = log[c] /\ f[0].known = known[p][c]
      /\ \A i \in 1..N : f[i] = Emit(p, f[i - 1], drafts[i])
  BY <1>2 DEF Writes
<1> HIDE DEF N
<1> DEFINE L == Len(log[c])
<1>5. L \in Nat
  BY DEF Tidy, GoodLog
<1> HIDE DEF L
<1> DEFINE T == {i \in 0..N : Tidy(c, f[i].log, f[i].known) /\ Len(f[i].log) = L + i}
<1>6. 0..N \subseteq T
  <2>1. 0 \in T
    BY <1>1, <1>4, <1>5 DEF L
  <2>2. ASSUME NEW i \in 1..N, i - 1 \in T PROVE i \in T
    <3>1. Tidy(c, f[i - 1].log, f[i - 1].known) /\ Len(f[i - 1].log) = L + (i - 1)
      BY <2>2
    <3>2. /\ Tidy(c, Emit(p, f[i - 1], drafts[i]).log, Emit(p, f[i - 1], drafts[i]).known)
          /\ Len(Emit(p, f[i - 1], drafts[i]).log) = Len(f[i - 1].log) + 1
      BY <1>3, <3>1, EmitIsTidy
    <3>3. i \in 0..N /\ L + (i - 1) + 1 = L + i
      BY <1>1, <1>5
    <3> QED
      BY <1>4, <3>1, <3>2, <3>3
  <2> HIDE DEF T
  <2> QED
    BY <1>1, <2>1, <2>2, UpTo
<1>7. \A i \in 0..N : Tidy(c, f[i].log, f[i].known) /\ Len(f[i].log) = L + i
  BY <1>6
<1> HIDE DEF T
<1>8. L + N <= Places
  BY <1>1, <1>2, <1>7 DEF done
<1>9. ASSUME NEW i \in 1..N
      PROVE  /\ \E op : /\ Drafted(c, p, drafts[i], op)
                        /\ LastKnown(f[i].log, f[i].known, op)
                        /\ refold(f[i].log, f[i].known) =
                             Fold(refold(f[i - 1].log, f[i - 1].known), op)
             /\ \A K \in SUBSET (1..(L + (i - 1))) :
                  refold(f[i].log, K) = refold(f[i - 1].log, K)
  <2>1. i - 1 \in 0..N /\ L + (i - 1) < Places
    BY <1>1, <1>5, <1>8, PlacesAssumption
  <2>2. Tidy(c, f[i - 1].log, f[i - 1].known) /\ Len(f[i - 1].log) = L + (i - 1)
    BY <1>7, <2>1
  <2>3. GoodDraft(c, drafts[i]) /\ f[i] = Emit(p, f[i - 1], drafts[i])
    BY <1>3, <1>4
  <2>4. Len(f[i - 1].log) < Places
    BY <2>1, <2>2
  <2> QED
    BY <2>2, <2>3, <2>4, EmitFolds
<1> DEFINE a == [i \in 0..N |-> refold(f[i].log, f[i].known)]
<1>10. /\ a[0] = refold(log[c], known[p][c])
      /\ a[N] = refold(done.log, done.known)
      /\ \A i \in 1..N : \E op : Drafted(c, p, drafts[i], op) /\ a[i] = Fold(a[i - 1], op)
  <2>1. \A i \in 1..N : i \in 0..N /\ i - 1 \in 0..N
    BY <1>1
  <2> QED
    BY <1>1, <1>2, <1>4, <1>9, <2>1
<1> HIDE DEF a
<1>11. ASSUME NEW K \in SUBSET (1..L) PROVE refold(done.log, K) = refold(log[c], K)
  <2> DEFINE U == {i \in 0..N : refold(f[i].log, K) = refold(log[c], K)}
  <2>1. 0 \in U
    BY <1>1, <1>4
  <2>2. ASSUME NEW i \in 1..N, i - 1 \in U PROVE i \in U
    <3>1. K \in SUBSET (1..(L + (i - 1))) /\ i \in 0..N
      BY <1>1, <1>5
    <3>2. refold(f[i].log, K) = refold(f[i - 1].log, K)
      BY <1>9, <3>1
    <3> QED
      BY <2>2, <3>1, <3>2
  <2>3. 0..N \subseteq U
    <3> HIDE DEF U
    <3> QED
      BY <1>1, <2>1, <2>2, UpTo
  <2> QED
    BY <1>1, <1>2, <2>3
<1>12. Tidy(c, done.log, done.known) /\ Len(done.log) = L + N
  BY <1>1, <1>2, <1>7
<1>13. L <= L + N
  BY <1>1, <1>5
<1>14. N > 0 => \E op : Drafted(c, p, drafts[N], op) /\ LastKnown(done.log, done.known, op)
  <2>1. N > 0 => N \in 1..N
    BY <1>1
  <2> QED
    BY <1>2, <1>9, <2>1
<1> QED
  BY <1>10, <1>11, <1>12, <1>13, <1>14 DEF L, N, done

-----------------------------------------------------------------------------
(* What the page shows of it.                                               *)

\* A row of steps, each taken from what the one before came to, can be taken.
Steps(N, S) == [S \X (1..N) -> S]
TakenAlong(f, N, S, base, step) ==
  f \in [0..N -> S] /\ f[0] = base /\ \A i \in 1..N : f[i] = step[<<f[i - 1], i>>]

LEMMA StepsAlong ==
  ASSUME NEW N \in Nat, NEW S, NEW base \in S, NEW step \in Steps(N, S)
  PROVE  \E f : TakenAlong(f, N, S, base, step)
<1> DEFINE Taken(f, m) == f[0] = base /\ \A i \in 1..m : f[i] = step[<<f[i - 1], i>>]
           M == {m \in 0..N : \E f \in [0..N -> S] : Taken(f, m)}
<1>1. 0 \in M
  <2> DEFINE f == [i \in 0..N |-> base]
  <2>1. f \in [0..N -> S] /\ Taken(f, 0)
    OBVIOUS
  <2> HIDE DEF f, Taken
  <2> QED
    BY <2>1
<1>2. step \in [S \X (1..N) -> S]
  BY DEF Steps
<1>3. ASSUME NEW m \in 1..N, m - 1 \in M PROVE m \in M
  <2>1. PICK f \in [0..N -> S] : Taken(f, m - 1)
    BY <1>3
  <2> DEFINE g == [f EXCEPT ![m] = step[<<f[m - 1], m>>]]
  <2>2. m \in 0..N /\ m - 1 \in 0..N /\ m # 0
    OBVIOUS
  <2>3. g \in [0..N -> S]
    BY <1>2, <2>2
  <2>4. \A i \in 0..N : g[i] = IF i = m THEN step[<<f[m - 1], m>>] ELSE f[i]
    BY <2>2
  <2> HIDE DEF g
  <2>5. Taken(g, m)
    <3>1. g[0] = base
      BY <2>1, <2>2, <2>4
    <3>2. ASSUME NEW i \in 1..m PROVE g[i] = step[<<g[i - 1], i>>]
      <4>1. i \in 0..N /\ i - 1 \in 0..N /\ i - 1 # m
        BY <2>2
      <4>2. g[i - 1] = f[i - 1]
        BY <2>4, <4>1
      <4>3. CASE i = m
        BY <2>4, <4>1, <4>2, <4>3
      <4>4. CASE i # m
        <5>1. i \in 1..(m - 1)
          BY <4>4
        <5>2. g[i] = f[i]
          BY <2>4, <4>1, <4>4
        <5> QED
          BY <2>1, <4>2, <5>1, <5>2
      <4> QED
        BY <4>3, <4>4
    <3> QED
      BY <3>1, <3>2
  <2> HIDE DEF Taken
  <2> QED
    BY <2>2, <2>3, <2>5
<1>4. N \in M
  <2>1. N \in 0..N
    OBVIOUS
  <2> HIDE DEF M
  <2> QED
    BY <1>1, <1>3, <2>1, UpTo
<1> QED
  BY <1>4 DEF TakenAlong

\* The ops a page has, in their order: of the first so many.
Picks(f, s, K) ==
  /\ f[0] = << >>
  /\ \A i \in 1..Len(s) : f[i] = IF s[i].n \in K THEN Append(f[i - 1], s[i]) ELSE f[i - 1]

LEMMA PickedAlong ==
  ASSUME NEW p, NEW c, GoodLog(c, log[c])
  PROVE  \E f \in [0..Len(log[c]) -> Seq(Range(log[c]))] :
           Picks(f, log[c], known[p][c]) /\ ops(p, c) = f[Len(log[c])]
<1> DEFINE s == log[c]
           K == known[p][c]
           N == Len(s)
           S == Seq(Range(s))
           none == << >>
           places == {i \in DOMAIN s : s[i].n \in K}
           Body(g, i) == IF i = 0 THEN none
                         ELSE IF i \in places THEN Append(g[i - 1], s[i])
                         ELSE g[i - 1]
           upto == CHOOSE g : g = [i \in 0..N |-> Body(g, i)]
           step == [x \in S \X (1..N) |->
                      IF s[x[2]].n \in K THEN Append(x[1], s[x[2]]) ELSE x[1]]
<1>1. N \in Nat /\ DOMAIN s = 1..N /\ \A i \in 1..N : s[i] \in Range(s)
  BY DEF GoodLog, Range
<1>2. ops(p, c) = upto[N]
  BY DEF ops, FoldAt
<1>3. \A i \in 1..N : i \in places <=> s[i].n \in K
  BY <1>1
<1> HIDE DEF places
<1>4. \A w \in S, i \in 1..N : Append(w, s[i]) \in S
  BY <1>1
<1>5. none \in S
  OBVIOUS
<1> HIDE DEF S, K, s, N, none
<1>6. step \in Steps(N, S)
  <2>1. ASSUME NEW x \in S \X (1..N)
        PROVE  (IF s[x[2]].n \in K THEN Append(x[1], s[x[2]]) ELSE x[1]) \in S
    <3>1. x[1] \in S /\ x[2] \in 1..N
      OBVIOUS
    <3> QED
      BY <1>4, <3>1
  <2> QED
    BY <2>1 DEF Steps
<1>7. \A w \in S, i \in 1..N : step[<<w, i>>] = IF s[i].n \in K THEN Append(w, s[i]) ELSE w
  OBVIOUS
<1> HIDE DEF step
<1>8. PICK f : f \in [0..N -> S] /\ f[0] = none /\ \A i \in 1..N : f[i] = step[<<f[i - 1], i>>]
  BY <1>1, <1>5, <1>6, StepsAlong DEF TakenAlong
<1>9. \A i \in 1..N : f[i - 1] \in S
  BY <1>1, <1>8
<1>10. \A i \in 0..N : f[i] = Body(f, i)
  <2>1. \A i \in 1..N : f[i] = IF i \in places THEN Append(f[i - 1], s[i]) ELSE f[i - 1]
    BY <1>3, <1>7, <1>8, <1>9
  <2>2. \A i \in 0..N : i # 0 => i \in 1..N
    BY <1>1
  <2> QED
    BY <1>8, <2>1, <2>2
<1> HIDE DEF Body
<1>11. f = [i \in 0..N |-> Body(f, i)]
  BY <1>8, <1>10
<1>12. upto = [i \in 0..N |-> Body(upto, i)]
  BY <1>11
<1> HIDE DEF upto
<1>13. \A i \in 0..N : upto[i] = Body(upto, i)
  BY <1>12
<1>14. upto[0] = none
  BY <1>1, <1>13 DEF Body
<1>15. \A i \in 1..N : upto[i] = IF s[i].n \in K THEN Append(upto[i - 1], s[i]) ELSE upto[i - 1]
  BY <1>1, <1>3, <1>13 DEF Body
<1>16. upto \in [0..N -> S]
  <2> DEFINE Q == {i \in 0..N : upto[i] \in S}
  <2>1. 0 \in Q
    BY <1>1, <1>5, <1>14
  <2>2. ASSUME NEW i \in 1..N, i - 1 \in Q PROVE i \in Q
    BY <1>1, <1>4, <1>15, <2>2
  <2>3. 0..N \subseteq Q
    <3> HIDE DEF Q
    <3> QED
      BY <1>1, <2>1, <2>2, UpTo
  <2> QED
    BY <1>12, <2>3
<1>17. Picks(upto, s, K)
  BY <1>14, <1>15 DEF Picks, N, none
<1> QED
  BY <1>2, <1>16, <1>17 DEF s, K, N, S

\* Ops in a row, and one more.
LEMMA AuthorityOfMore ==
  ASSUME NEW c, NEW w, OpsOf(c, w), NEW x, MemberOp(c, x), Len(w) < Places
  PROVE  /\ OpsOf(c, Append(w, x))
         /\ authority(Append(w, x)) = Fold(authority(w), x)
<1> DEFINE t == Append(w, x)
           N == Len(w)
<1>1. N \in Nat /\ DOMAIN w = 1..N /\ w \in Seq(Range(w)) /\ Places \in Nat
  BY PlacesAssumption DEF OpsOf
<1>2. /\ t \in Seq(Range(w) \cup {x}) /\ Len(t) = N + 1 /\ DOMAIN t = 1..(N + 1)
      /\ \A i \in 1..(N + 1) : t[i] = IF i <= N THEN w[i] ELSE x
  BY <1>1
<1> HIDE DEF t
<1>3. OpsOf(c, t)
  <2>1. \A i \in 1..(N + 1) : t[i] \in Range(t) /\ t[i] \in Range(w) \cup {x}
    BY <1>2 DEF Range
  <2>2. Range(t) \subseteq Range(w) \cup {x}
    BY <1>2, <2>1 DEF Range
  <2>3. t \in Seq(Range(t))
    BY <1>1, <1>2, <2>1
  <2> QED
    BY <2>2, <2>3 DEF OpsOf
<1>4. ASSUME NEW s, OpsOf(c, s) PROVE authority(s) = refold(s, Nat)
  <2>1. ASSUME NEW op \in Stamped(s) PROVE op.n \in Nat
    <3>1. PICK i \in DOMAIN s : op = [s[i] EXCEPT !.key = i]
      BY DEF Stamped
    <3>2. MemberOp(c, s[i])
      BY <1>4 DEF OpsOf, Range
    <3> QED
      BY <3>1, <3>2 DEF MemberOp
  <2>2. {op \in Stamped(s) : op.n \in Nat} = Stamped(s)
    BY <2>1
  <2> QED
    BY <2>2 DEF authority, refold
<1>5. Between(w, t, N, x)
  BY <1>1, <1>2 DEF Between
<1>6. x.n \in Nat /\ Len(t) <= Places
  BY <1>1, <1>2 DEF MemberOp
<1>7. refold(t, Nat) = Fold(refold(w, Nat), x)
  BY <1>1, <1>3, <1>5, <1>6, LastIsFoldedLast
<1> QED
  BY <1>3, <1>4, <1>7 DEF t

-----------------------------------------------------------------------------
\* An organization's fold finds the same people as the pages'.
LEMMA OrgAuthority == \A w : Org!authority(w) = authority(w)
<1>1. \A a, x, y, r : Org!ApplyGrant(a, x, y, r) = ApplyGrant(a, x, y, r)
  BY DEF Org!ApplyGrant, ApplyGrant, Org!GrantHonoured, GrantHonoured, Org!Conferred, Conferred,
    Org!Resigning, Resigning, Org!MayGrantTo, MayGrantTo, Org!rights_of, rights_of,
    Org!person, person, Org!Roots, Roots, Org!NONE, NONE, Org!MAY_GRANT, MAY_GRANT,
    Org!MAY_APPOINT, MAY_APPOINT
<1>2. \A a, x, y : /\ Org!ApplyLink(a, x, y) = ApplyLink(a, x, y)
                   /\ Org!ApplyUnlink(a, x, y) = ApplyUnlink(a, x, y)
  BY DEF Org!ApplyLink, ApplyLink, Org!LinkHonoured, LinkHonoured, Org!rights_of, rights_of,
    Org!person, person, Org!NONE, NONE, Org!ApplyUnlink, ApplyUnlink,
    Org!UnlinkHonoured, UnlinkHonoured
<1>3. \A a, op : Org!Fold(a, op) = Fold(a, op)
  BY <1>1, <1>2 DEF Org!Fold, Fold, Org!is_authority, is_authority
<1>4. \A given, a, n : Org!FoldPlace(given, a, n) = FoldPlace(given, a, n)
  BY <1>3 DEF Org!FoldPlace, FoldPlace
<1>5. Org!Empty = Empty
  BY DEF Org!Empty, Empty, Org!Roots, Roots, Org!ALL, ALL, Org!ADMIN, ADMIN, Org!MEMBER, MEMBER,
    Org!NONE, NONE, Org!MAY_GRANT, MAY_GRANT, Org!MAY_APPOINT, MAY_APPOINT,
    Org!ADMINISTER, ADMINISTER, Org!SET_NAME, SET_NAME, Org!WRITE_TASKS, WRITE_TASKS,
    Org!WRITE_COLUMNS, WRITE_COLUMNS, Org!LINK_TASKS, LINK_TASKS
<1>6. \A given : Org!authority_in(given) = authority_in(given)
  BY <1>4, <1>5 DEF Org!authority_in, authority_in
<1> QED
  BY <1>6 DEF Org!authority, authority, Org!Stamped, Stamped

\* A board's fold finds the same people as the pages'.
LEMMA BoardAuthority == \A w : Board!authority(w) = authority(w)
<1>1. \A a, x, y, r : Board!ApplyGrant(a, x, y, r) = ApplyGrant(a, x, y, r)
  BY DEF Board!ApplyGrant, ApplyGrant, Board!GrantHonoured, GrantHonoured, Board!Conferred, Conferred,
    Board!Resigning, Resigning, Board!MayGrantTo, MayGrantTo, Board!rights_of, rights_of,
    Board!person, person, Board!Roots, Roots, Board!NONE, NONE, Board!MAY_GRANT, MAY_GRANT,
    Board!MAY_APPOINT, MAY_APPOINT
<1>2. \A a, x, y : /\ Board!ApplyLink(a, x, y) = ApplyLink(a, x, y)
                   /\ Board!ApplyUnlink(a, x, y) = ApplyUnlink(a, x, y)
  BY DEF Board!ApplyLink, ApplyLink, Board!LinkHonoured, LinkHonoured, Board!rights_of, rights_of,
    Board!person, person, Board!NONE, NONE, Board!ApplyUnlink, ApplyUnlink,
    Board!UnlinkHonoured, UnlinkHonoured
<1>3. \A a, op : Board!Fold(a, op) = Fold(a, op)
  BY <1>1, <1>2 DEF Board!Fold, Fold, Board!is_authority, is_authority
<1>4. \A given, a, n : Board!FoldPlace(given, a, n) = FoldPlace(given, a, n)
  BY <1>3 DEF Board!FoldPlace, FoldPlace
<1>5. Board!Empty = Empty
  BY DEF Board!Empty, Empty, Board!Roots, Roots, Board!ALL, ALL, Board!ADMIN, ADMIN, Board!MEMBER, MEMBER,
    Board!NONE, NONE, Board!MAY_GRANT, MAY_GRANT, Board!MAY_APPOINT, MAY_APPOINT,
    Board!ADMINISTER, ADMINISTER, Board!SET_NAME, SET_NAME, Board!WRITE_TASKS, WRITE_TASKS,
    Board!WRITE_COLUMNS, WRITE_COLUMNS, Board!LINK_TASKS, LINK_TASKS
<1>6. \A given : Board!authority_in(given) = authority_in(given)
  BY <1>4, <1>5 DEF Board!authority_in, authority_in
<1> QED
  BY <1>6 DEF Board!authority, authority, Board!Stamped, Stamped

\* Of a name that is the last thing said, in an organization.
LEMMA OrgNames ==
  ASSUME NEW w, OpsOf("org", w), Len(w) > 0, NEW k, NEW p,
         Drafted("org", p, Name(k), w[Len(w)]),
         LET a == authority(w)
         IN  /\ SET_NAME \in ever_rights_of(a, ever_person(a, p))
             /\ k = ever_person(a, p) \/ ADMINISTER \in ever_rights_of(a, ever_person(a, p))
  PROVE  LET names == Org!from_state(w).names IN k \in DOMAIN names /\ names[k] = p
<1> DEFINE N == Len(w)
           a == authority(w)
           applied == Org!Applied(w)
           Body(g, i) == IF i = 0 THEN Org!NoEntries
                         ELSE IF i \in applied THEN Org!NameStep(a, g[i - 1], w[i])
                         ELSE g[i - 1]
           upto == CHOOSE g : g = [i \in 0..N |-> Body(g, i)]
<1>1. N \in Nat /\ DOMAIN w = 1..N /\ N \in 1..N /\ \A i \in 1..N : MemberOp("org", w[i])
  BY DEF OpsOf, Range
<1>2. Org!from_state(w).names = upto[N]
  BY OrgAuthority DEF Org!from_state, Org!fold_names, Org!FoldAt
<1>3. /\ w[N].kind = "APPLICATION" /\ w[N].legible /\ w[N].author = p
      /\ w[N].body = [op |-> "SetMemberName", member |-> k]
  BY <1>1 DEF Drafted, Name, Says, MemberOp
<1>4. w[N].body.op = "SetMemberName" /\ w[N].body.member = k
  BY <1>3
<1>5. \A r : Org!Entitled(a, r, {SET_NAME}) <=> SET_NAME \in ever_rights_of(a, r)
  BY DEF Org!Entitled, Org!ever_rights_of, ever_rights_of, Org!ever_person, ever_person
<1>6. N \in applied
  <2>1. Org!needs(w[N].body) = {SET_NAME}
    BY <1>4 DEF Org!needs, Org!SET_NAME, SET_NAME
  <2> HIDE DEF a
  <2>2. N \in Org!application_ops(w)
    BY <1>1, <1>3 DEF Org!application_ops
  <2> QED
    BY <1>3, <1>5, <2>1, <2>2, OrgAuthority
      DEF Org!Applied, a, Org!ever_person, ever_person
<1>7. Org!MayName(a, p, k)
  <2>1. Org!Entitled(a, ever_person(a, p), {ADMINISTER})
          <=> ADMINISTER \in ever_rights_of(a, ever_person(a, p))
    BY DEF Org!Entitled, Org!ever_rights_of, ever_rights_of, Org!ever_person, ever_person
  <2> QED
    BY <2>1 DEF Org!MayName, Org!ever_person, ever_person, Org!ADMINISTER, ADMINISTER
<1> HIDE DEF applied, a
<1> DEFINE M == {w[i].body.member : i \in 1..N}
           S == UNION {[D -> Key] : D \in SUBSET M}
           none == Org!NoEntries
           step == [x \in S \X (1..N) |->
                      IF x[2] \in applied THEN Org!NameStep(a, x[1], w[x[2]]) ELSE x[1]]
<1>8. none \in S
  <2>1. none \in [{} -> Key]
    BY DEF Org!NoEntries
  <2> QED
    BY <2>1
<1>9. ASSUME NEW map \in S, NEW i \in 1..N PROVE Org!NameStep(a, map, w[i]) \in S
  <2>1. PICK D \in SUBSET M : map \in [D -> Key]
    OBVIOUS
  <2> DEFINE m == w[i].body.member
             next == Org!Put(map, m, w[i].author)
  <2>2. D \cup {m} \in SUBSET M /\ w[i].author \in Key
    BY <1>1 DEF MemberOp
  <2> HIDE DEF m
  <2>3. next \in [D \cup {m} -> Key]
    BY <2>1, <2>2 DEF Org!Put
  <2> HIDE DEF next
  <2>4. next \in S
    BY <2>2, <2>3
  <2> HIDE DEF S
  <2> QED
    BY <2>4 DEF Org!NameStep, next, m
<1> HIDE DEF S, none, N
<1>10. step \in Steps(N, S)
  <2>1. ASSUME NEW x \in S \X (1..N)
        PROVE  (IF x[2] \in applied THEN Org!NameStep(a, x[1], w[x[2]]) ELSE x[1]) \in S
    <3>1. x[1] \in S /\ x[2] \in 1..N
      OBVIOUS
    <3> QED
      BY <1>9, <3>1
  <2> QED
    BY <2>1 DEF Steps
<1>11. \A map \in S, i \in 1..N :
         step[<<map, i>>] = IF i \in applied THEN Org!NameStep(a, map, w[i]) ELSE map
  OBVIOUS
<1> HIDE DEF step
<1>12. PICK f : TakenAlong(f, N, S, none, step)
  <2>1. N \in Nat
    BY <1>1
  <2> QED
    BY <1>8, <1>10, <2>1, StepsAlong
<1>13. \A i \in 0..N : f[i] = Body(f, i)
  <2>1. \A i \in 1..N : f[i - 1] \in S
    BY <1>1, <1>12 DEF TakenAlong
  <2>2. \A i \in 1..N :
          f[i] = IF i \in applied THEN Org!NameStep(a, f[i - 1], w[i]) ELSE f[i - 1]
    BY <1>11, <1>12, <2>1 DEF TakenAlong
  <2>3. \A i \in 0..N : i # 0 => i \in 1..N
    BY <1>1
  <2> QED
    BY <1>12, <2>2, <2>3 DEF none, TakenAlong
<1> HIDE DEF Body
<1>14. f = [i \in 0..N |-> Body(f, i)]
  BY <1>12, <1>13 DEF TakenAlong
<1>15. upto = [i \in 0..N |-> Body(upto, i)]
  BY <1>14
<1> HIDE DEF upto
<1>16. upto[N] = Body(upto, N)
  BY <1>1, <1>15
<1>17. upto[N] = Org!NameStep(a, upto[N - 1], w[N])
  BY <1>1, <1>6, <1>16 DEF Body
<1>18. upto[N] = Org!Put(upto[N - 1], k, p)
  BY <1>3, <1>4, <1>7, <1>17 DEF Org!NameStep, N
<1>19. k \in DOMAIN Org!Put(upto[N - 1], k, p) /\ Org!Put(upto[N - 1], k, p)[k] = p
  BY DEF Org!Put
<1> QED
  BY <1>2, <1>18, <1>19 DEF N

\* And on a board.
LEMMA BoardNames ==
  ASSUME NEW w, OpsOf("board", w), Len(w) > 0, NEW k, NEW p,
         Drafted("board", p, Name(k), w[Len(w)]),
         LET a == authority(w)
         IN  /\ SET_NAME \in ever_rights_of(a, p)
             /\ k = ever_person(a, p) \/ ADMINISTER \in ever_rights_of(a, ever_person(a, p))
  PROVE  LET names == Board!from_state(w).names IN k \in DOMAIN names /\ names[k] = p
<1> DEFINE N == Len(w)
           a == authority(w)
           applied == Board!Applied(w)
           Body(g, i) == IF i = 0 THEN Board!NoEntries
                         ELSE IF i \in applied THEN Board!NameStep(a, g[i - 1], w[i])
                         ELSE g[i - 1]
           upto == CHOOSE g : g = [i \in 0..N |-> Body(g, i)]
<1>1. N \in Nat /\ DOMAIN w = 1..N /\ N \in 1..N /\ \A i \in 1..N : MemberOp("board", w[i])
  BY DEF OpsOf, Range
<1>2. Board!from_state(w).names = upto[N]
  BY BoardAuthority DEF Board!from_state, Board!fold_names, Board!FoldAt
<1>3. /\ w[N].kind = "APPLICATION" /\ w[N].legible /\ w[N].author = p
      /\ w[N].body = [op |-> "SetMemberName", member |-> k]
  BY <1>1 DEF Drafted, Name, Says, MemberOp
<1>4. w[N].body.op = "SetMemberName" /\ w[N].body.member = k
  BY <1>3
<1>5. \A r : Board!Entitled(a, r, {SET_NAME}) <=> SET_NAME \in ever_rights_of(a, r)
  BY DEF Board!Entitled, Board!ever_rights_of, ever_rights_of, Board!ever_person, ever_person
<1>6. N \in applied
  <2>1. Board!needs(w[N].body) = {SET_NAME}
    BY <1>4 DEF Board!needs, Board!SET_NAME, SET_NAME
  <2> HIDE DEF a
  <2>2. N \in Board!application_ops(w)
    BY <1>1, <1>3 DEF Board!application_ops
  <2> QED
    BY <1>3, <1>5, <2>1, <2>2, BoardAuthority
      DEF Board!Applied, a, Board!ever_person, ever_person
<1>7. Board!NamingAllowed(a, p, k)
  <2>1. Board!Entitled(a, ever_person(a, p), {ADMINISTER})
          <=> ADMINISTER \in ever_rights_of(a, ever_person(a, p))
    BY DEF Board!Entitled, Board!ever_rights_of, ever_rights_of, Board!ever_person, ever_person
  <2> QED
    BY <2>1 DEF Board!NamingAllowed, Board!ever_person, ever_person, Board!ADMINISTER, ADMINISTER
<1> HIDE DEF applied, a
<1> DEFINE M == {w[i].body.member : i \in 1..N}
           S == UNION {[D -> Key] : D \in SUBSET M}
           none == Board!NoEntries
           step == [x \in S \X (1..N) |->
                      IF x[2] \in applied THEN Board!NameStep(a, x[1], w[x[2]]) ELSE x[1]]
<1>8. none \in S
  <2>1. none \in [{} -> Key]
    BY DEF Board!NoEntries
  <2> QED
    BY <2>1
<1>9. ASSUME NEW map \in S, NEW i \in 1..N PROVE Board!NameStep(a, map, w[i]) \in S
  <2>1. PICK D \in SUBSET M : map \in [D -> Key]
    OBVIOUS
  <2> DEFINE m == w[i].body.member
             next == Board!Put(map, m, w[i].author)
  <2>2. D \cup {m} \in SUBSET M /\ w[i].author \in Key
    BY <1>1 DEF MemberOp
  <2> HIDE DEF m
  <2>3. next \in [D \cup {m} -> Key]
    BY <2>1, <2>2 DEF Board!Put
  <2> HIDE DEF next
  <2>4. next \in S
    BY <2>2, <2>3
  <2> HIDE DEF S
  <2> QED
    BY <2>4 DEF Board!NameStep, next, m
<1> HIDE DEF S, none, N
<1>10. step \in Steps(N, S)
  <2>1. ASSUME NEW x \in S \X (1..N)
        PROVE  (IF x[2] \in applied THEN Board!NameStep(a, x[1], w[x[2]]) ELSE x[1]) \in S
    <3>1. x[1] \in S /\ x[2] \in 1..N
      OBVIOUS
    <3> QED
      BY <1>9, <3>1
  <2> QED
    BY <2>1 DEF Steps
<1>11. \A map \in S, i \in 1..N :
         step[<<map, i>>] = IF i \in applied THEN Board!NameStep(a, map, w[i]) ELSE map
  OBVIOUS
<1> HIDE DEF step
<1>12. PICK f : TakenAlong(f, N, S, none, step)
  <2>1. N \in Nat
    BY <1>1
  <2> QED
    BY <1>8, <1>10, <2>1, StepsAlong
<1>13. \A i \in 0..N : f[i] = Body(f, i)
  <2>1. \A i \in 1..N : f[i - 1] \in S
    BY <1>1, <1>12 DEF TakenAlong
  <2>2. \A i \in 1..N :
          f[i] = IF i \in applied THEN Board!NameStep(a, f[i - 1], w[i]) ELSE f[i - 1]
    BY <1>11, <1>12, <2>1 DEF TakenAlong
  <2>3. \A i \in 0..N : i # 0 => i \in 1..N
    BY <1>1
  <2> QED
    BY <1>12, <2>2, <2>3 DEF none, TakenAlong
<1> HIDE DEF Body
<1>14. f = [i \in 0..N |-> Body(f, i)]
  BY <1>12, <1>13 DEF TakenAlong
<1>15. upto = [i \in 0..N |-> Body(upto, i)]
  BY <1>14
<1> HIDE DEF upto
<1>16. upto[N] = Body(upto, N)
  BY <1>1, <1>15
<1>17. upto[N] = Board!NameStep(a, upto[N - 1], w[N])
  BY <1>1, <1>6, <1>16 DEF Body
<1>18. upto[N] = Board!Put(upto[N - 1], k, p)
  BY <1>3, <1>4, <1>7, <1>17 DEF Board!NameStep, N
<1>19. k \in DOMAIN Board!Put(upto[N - 1], k, p) /\ Board!Put(upto[N - 1], k, p)[k] = p
  BY DEF Board!Put
<1> QED
  BY <1>2, <1>18, <1>19 DEF N

\* The ops a page has say of everybody what the page goes by, and the last of them
\* is the last it knows.
LEMMA OpsAre ==
  ASSUME NEW p, NEW c, Tidy(c, log[c], known[p][c]), Len(log[c]) <= Places
  PROVE  /\ OpsOf(c, ops(p, c))
         /\ authority(ops(p, c)) = refold(log[c], known[p][c])
         /\ \A op : LastKnown(log[c], known[p][c], op) =>
                      Len(ops(p, c)) > 0 /\ ops(p, c)[Len(ops(p, c))] = op
<1> DEFINE s == log[c]
           K == known[p][c]
           N == Len(s)
<1>1. /\ N \in Nat /\ N \in 0..N /\ 0 \in 0..N /\ Places \in Nat /\ N <= Places
      /\ GoodLog(c, s) /\ OpsOf(c, s)
      /\ \A i \in 1..N : s[i] \in Range(s) /\ MemberOp(c, s[i])
  <2>1. GoodLog(c, s)
    BY DEF Tidy
  <2>2. N \in Nat /\ \A i \in 1..N : s[i] \in Range(s)
    BY <2>1 DEF GoodLog, Range
  <2> QED
    BY <2>1, <2>2, PlacesAssumption DEF GoodLog, OpsOf
<1>2. PICK f \in [0..N -> Seq(Range(s))] : Picks(f, s, K) /\ ops(p, c) = f[N]
  BY <1>1, PickedAlong
<1>3. PICK g : Folds(g, s, K) /\ refold(s, K) = g[Places]
  BY <1>1, RefoldAlong
<1> HIDE DEF s, K, N
<1> DEFINE T == {i \in 0..N : /\ OpsOf(c, f[i]) /\ Len(f[i]) <= i
                              /\ authority(f[i]) = g[i]}
<1>4. 0..N \subseteq T
  <2>1. 0 \in T
    <3>1. f[0] = << >> /\ g[0] = Empty
      BY <1>2, <1>3 DEF Picks, Folds
    <3>2. OpsOf(c, << >>) /\ Len(<< >>) = 0
      BY DEF OpsOf, Range
    <3>3. authority(<< >>) = Empty
      <4>1. Stamped(<< >>) = {}
        BY DEF Stamped
      <4>2. authority_in({}) = Empty
        <5> DEFINE S == {Empty}
                   given == {}
        <5>1. Empty \in S /\ \A a \in S, op \in given : Fold(a, op) \in S
          OBVIOUS
        <5> HIDE DEF S, given
        <5>2. authority_in(given) \in S
          BY <5>1, FoldStays
        <5> QED
          BY <5>2 DEF S, given
      <4> QED
        BY <4>1, <4>2 DEF authority
    <3> QED
      BY <1>1, <3>1, <3>2, <3>3
  <2>2. ASSUME NEW i \in 1..N, i - 1 \in T PROVE i \in T
    <3>1. /\ i \in 0..N /\ i - 1 \in 0..N /\ i \in 1..Places
          /\ OpsOf(c, f[i - 1]) /\ Len(f[i - 1]) <= i - 1 /\ authority(f[i - 1]) = g[i - 1]
      BY <1>1, <2>2
    <3>2. f[i - 1] \in Seq(Range(s)) /\ Len(f[i - 1]) \in Nat
      BY <1>2, <3>1
    <3>3. Len(f[i - 1]) < Places /\ Len(f[i - 1]) <= i
      BY <1>1, <3>1, <3>2
    <3>4. /\ f[i] = IF s[i].n \in K THEN Append(f[i - 1], s[i]) ELSE f[i - 1]
          /\ g[i] = IF s[i].n \in K THEN Fold(g[i - 1], s[i]) ELSE g[i - 1]
      BY <1>2, <1>3, <3>1 DEF Picks, Folds, N
    <3>5. CASE s[i].n \in K
      <4>1. /\ OpsOf(c, Append(f[i - 1], s[i]))
            /\ authority(Append(f[i - 1], s[i])) = Fold(authority(f[i - 1]), s[i])
        BY <1>1, <3>1, <3>3, AuthorityOfMore
      <4>2. Len(Append(f[i - 1], s[i])) = Len(f[i - 1]) + 1
        BY <1>1, <3>2
      <4>3. Len(f[i]) <= i
        BY <3>1, <3>2, <3>4, <3>5, <4>2
      <4> QED
        BY <3>1, <3>4, <3>5, <4>1, <4>3
    <3>6. CASE s[i].n \notin K
      BY <3>1, <3>3, <3>4, <3>6
    <3> QED
      BY <3>5, <3>6
  <2> HIDE DEF T
  <2> QED
    BY <1>1, <2>1, <2>2, UpTo
<1>5. OpsOf(c, f[N]) /\ authority(f[N]) = g[N]
  BY <1>1, <1>4
<1>6. g[Places] = g[N]
  <2> DEFINE M == Places - N
             U == {i \in 0..M : g[N + i] = g[N]}
  <2>1. 0 \in U /\ M \in Nat /\ N + M = Places
    BY <1>1
  <2>2. ASSUME NEW i \in 1..M, i - 1 \in U PROVE i \in U
    <3>1. i \in 0..M /\ N + i \in 1..Places /\ (N + i) - 1 = N + (i - 1) /\ ~(N + i \in 1..N)
      BY <1>1
    <3> QED
      BY <1>3, <2>2, <3>1 DEF Folds, N
  <2>3. 0..M \subseteq U
    <3> HIDE DEF U, M
    <3> QED
      BY <2>1, <2>2, UpTo
  <2> QED
    BY <2>1, <2>3
<1>7. ASSUME NEW op, LastKnown(s, K, op) PROVE Len(f[N]) > 0 /\ f[N][Len(f[N])] = op
  <2>1. PICK j \in 1..N : s[j] = op /\ op.n \in K /\ \A i \in 1..N : s[i].n \in K => i <= j
    BY <1>7 DEF LastKnown, N
  <2>2. f[j] = Append(f[j - 1], op) /\ f[j - 1] \in Seq(Range(s)) /\ op \in Range(s)
    <3>1. j \in 1..N /\ j - 1 \in 0..N
      BY <1>1
    <3> QED
      BY <1>1, <1>2, <2>1, <3>1 DEF Picks, N
  <2>3. Len(f[j]) > 0 /\ f[j][Len(f[j])] = op
    BY <2>2
  <2> DEFINE M == N - j
             U == {i \in 0..M : f[j + i] = f[j]}
  <2>4. 0 \in U /\ M \in Nat /\ j + M = N
    BY <1>1
  <2>5. ASSUME NEW i \in 1..M, i - 1 \in U PROVE i \in U
    <3>1. /\ i \in 0..M /\ j + i \in 1..N /\ (j + i) - 1 = j + (i - 1)
          /\ ~(j + i <= j)
      BY <1>1
    <3>2. s[j + i].n \notin K
      BY <2>1, <3>1
    <3> QED
      BY <1>2, <2>5, <3>1, <3>2 DEF Picks, N
  <2>6. 0..M \subseteq U
    <3> HIDE DEF U, M
    <3> QED
      BY <2>4, <2>5, UpTo
  <2>7. f[N] = f[j]
    <3>1. M \in 0..M
      BY <2>4
    <3>2. f[j + M] = f[j]
      BY <2>6, <3>1
    <3> QED
      BY <2>4, <3>2
  <2> QED
    BY <2>3, <2>7
<1> QED
  BY <1>2, <1>3, <1>5, <1>6, <1>7 DEF s, K, N

-----------------------------------------------------------------------------
(* Who holds what.                                                          *)

\* The founder holds everything; nobody else may appoint; who may let people in is
\* an admin in full; nobody holds what they never held; who holds anything may give
\* names, and is listed; and whose device somebody first was had that right once.
Shaped(c, a) ==
  /\ a \in Authorities
  /\ a.held[Owner] = ALL
  /\ \A k \in Key \ {Owner} :
       MAY_APPOINT \notin a.held[k] /\ (MAY_GRANT \in a.held[k] => ADMIN \subseteq a.held[k])
  /\ \A k \in Key : a.held[k] \subseteq a.ever_held[k]
  /\ \A k \in Key : a.held[k] # NONE => SET_NAME \in a.held[k] /\ k \in a.ever_members
  /\ \A k \in Key : ever_person(a, k) # k => SET_NAME \in a.ever_held[ever_person(a, k)]
  /\ c = "org" => \A k \in Key : person(a, k) = k /\ ever_person(a, k) = k

LEMMA AdminsThereAre ==
  /\ MAY_GRANT \in ADMIN /\ MAY_GRANT \notin MEMBER /\ MAY_GRANT \notin NONE
  /\ MAY_APPOINT \notin ADMIN /\ MAY_APPOINT \notin MEMBER /\ MAY_APPOINT \notin NONE
  /\ MEMBER \subseteq ADMIN /\ ADMIN \subseteq ALL /\ MAY_APPOINT \in ALL /\ MAY_GRANT \in ALL
  /\ SET_NAME \in MEMBER /\ SET_NAME \in ADMIN /\ ADMINISTER \in ADMIN /\ MEMBER # NONE
  /\ MAY_GRANT # MAY_APPOINT
BY DEF ALL, ADMIN, MEMBER, NONE, SET_NAME, WRITE_TASKS, WRITE_COLUMNS, LINK_TASKS,
  ADMINISTER, MAY_GRANT, MAY_APPOINT

LEMMA NamingIsNoGrant == SET_NAME # MAY_GRANT /\ SET_NAME # MAY_APPOINT
BY DEF SET_NAME, MAY_GRANT, MAY_APPOINT

\* What is conferred of what may be asked.
LEMMA ConferredIs ==
  ASSUME NEW c, NEW a, Shaped(c, a), NEW p \in Key, NEW rights \in {NONE, MEMBER, ADMIN}
  PROVE  /\ person(a, p) = Owner => Conferred(a, p, rights) = rights
         /\ person(a, p) # Owner =>
              /\ MAY_APPOINT \notin rights_of(a, p)
              /\ MAY_GRANT \notin Conferred(a, p, rights)
         /\ MAY_APPOINT \notin Conferred(a, p, rights)
         /\ Conferred(a, p, rights) \subseteq rights
         /\ MAY_GRANT \in rights_of(a, p) /\ rights = MEMBER => Conferred(a, p, rights) = MEMBER
<1>1. person(a, p) \in Key
  BY DEF Shaped, Authorities, person
<1>2. CASE person(a, p) = Owner
  <2>1. rights_of(a, p) = ALL
    BY <1>2 DEF Shaped, rights_of
  <2>2. Conferred(a, p, rights) = rights
    BY <2>1, AdminsThereAre DEF Conferred, NONE
  <2> QED
    BY <1>2, <2>2, AdminsThereAre
<1>3. CASE person(a, p) # Owner
  <2>1. /\ MAY_APPOINT \notin rights_of(a, p)
        /\ MAY_GRANT \in rights_of(a, p) => ADMIN \subseteq rights_of(a, p)
    BY <1>1, <1>3 DEF Shaped, rights_of
  <2>2. Conferred(a, p, rights) = (rights \cap rights_of(a, p)) \ {MAY_GRANT, MAY_APPOINT}
    BY <2>1 DEF Conferred
  <2> QED
    BY <1>3, <2>1, <2>2, AdminsThereAre
<1> QED
  BY <1>2, <1>3

\* A grant.
LEMMA GrantShaped ==
  ASSUME NEW c, NEW a, Shaped(c, a), NEW p \in Key, NEW k \in Key,
         NEW rights \in {NONE, MEMBER, ADMIN}
  PROVE  LET b == ApplyGrant(a, p, k, rights)
         IN  /\ Shaped(c, b)
             /\ b.person_of = a.person_of /\ b.ever_person_of = a.ever_person_of
             /\ members(a) \subseteq members(b)
             /\ \A j \in Key : /\ j # k => b.held[j] = a.held[j]
                               /\ a.ever_held[j] \subseteq b.ever_held[j]
             /\ IF GrantHonoured(a, p, k, rights)
                THEN k # Owner /\ b.held[k] = Conferred(a, p, rights)
                ELSE b = a
<1> DEFINE b == ApplyGrant(a, p, k, rights)
           d == Conferred(a, p, rights)
<1>1. CASE ~GrantHonoured(a, p, k, rights)
  BY <1>1 DEF ApplyGrant
<1>2. CASE GrantHonoured(a, p, k, rights)
  <2>1. /\ b.person_of = a.person_of /\ b.ever_person_of = a.ever_person_of
        /\ b.held = [a.held EXCEPT ![k] = d]
        /\ b.ever_held = [a.ever_held EXCEPT ![k] = @ \cup d]
        /\ b.ever_members = a.ever_members \cup {k}
        /\ b = [held |-> b.held, ever_held |-> b.ever_held, person_of |-> b.person_of,
                ever_person_of |-> b.ever_person_of, ever_members |-> b.ever_members]
    BY <1>2 DEF ApplyGrant
  <2>2. /\ MAY_APPOINT \notin d /\ d \subseteq rights /\ rights \subseteq ALL
        /\ MAY_GRANT \in d => ADMIN \subseteq d
        /\ d # NONE => SET_NAME \in d
    <3>1. rights \subseteq ALL
      BY AdminsThereAre DEF NONE
    <3>2. MAY_GRANT \in d => person(a, p) = Owner
      BY ConferredIs
    <3>3. MAY_GRANT \in d => d = rights
      BY <3>2, ConferredIs
    <3>4. MAY_GRANT \in d => rights = ADMIN
      BY <3>3, AdminsThereAre
    <3>5. ASSUME d # NONE PROVE SET_NAME \in d
      <4>1. rights # NONE
        BY <3>5, ConferredIs DEF NONE
      <4>2. MAY_GRANT \in rights_of(a, p)
        BY <1>2, <4>1 DEF GrantHonoured, Resigning, MayGrantTo
      <4>3. SET_NAME \in rights_of(a, p)
        <5>1. person(a, p) \in Key /\ a.held[person(a, p)] # NONE
          BY <4>2 DEF Shaped, Authorities, person, rights_of, NONE
        <5> QED
          BY <5>1 DEF Shaped, rights_of
      <4> QED
        BY <4>1, <4>3, AdminsThereAre, NamingIsNoGrant DEF Conferred
    <3> QED
      BY <3>1, <3>3, <3>4, <3>5, ConferredIs
  <2>3. k # Owner
    BY <1>2, OneRoot DEF GrantHonoured
  <2>4. /\ a.held \in [Key -> SUBSET ALL] /\ a.ever_held \in [Key -> SUBSET ALL]
        /\ a.person_of \in [Key -> Key] /\ a.ever_person_of \in [Key -> Key]
        /\ a.ever_members \in SUBSET Key
    BY DEF Shaped, Authorities
  <2> HIDE DEF b, d
  <2>5. \A j \in Key : /\ b.held[j] = IF j = k THEN d ELSE a.held[j]
                       /\ b.ever_held[j] = IF j = k THEN a.ever_held[j] \cup d
                                           ELSE a.ever_held[j]
    BY <2>1, <2>4
  <2>6. b \in Authorities
    <3>1. b.held \in [Key -> SUBSET ALL] /\ b.ever_held \in [Key -> SUBSET ALL]
      BY <2>1, <2>2, <2>4
    <3> QED
      BY <2>1, <2>4, <3>1 DEF Authorities
  <2>7. Shaped(c, b)
    <3>1. b.held[Owner] = ALL
      BY <2>3, <2>5, OneRoot DEF Shaped
    <3>2. \A j \in Key \ {Owner} : /\ MAY_APPOINT \notin b.held[j]
                                   /\ MAY_GRANT \in b.held[j] => ADMIN \subseteq b.held[j]
      BY <2>2, <2>5 DEF Shaped
    <3>3. \A j \in Key : /\ b.held[j] \subseteq b.ever_held[j]
                         /\ a.ever_held[j] \subseteq b.ever_held[j]
      BY <2>5 DEF Shaped
    <3>4. \A j \in Key : /\ person(b, j) = person(a, j)
                         /\ ever_person(b, j) = ever_person(a, j) /\ ever_person(a, j) \in Key
      BY <2>1, <2>4 DEF person, ever_person
    <3>5. \A j \in Key : b.held[j] # NONE => SET_NAME \in b.held[j] /\ j \in b.ever_members
      BY <2>1, <2>2, <2>5 DEF Shaped
    <3>6. \A j \in Key : ever_person(b, j) # j => SET_NAME \in b.ever_held[ever_person(b, j)]
      BY <3>3, <3>4 DEF Shaped
    <3> QED
      BY <2>6, <3>1, <3>2, <3>3, <3>4, <3>5, <3>6 DEF Shaped
  <2>8. members(a) \subseteq members(b)
    BY <2>1 DEF members
  <2> QED
    BY <1>2, <2>1, <2>3, <2>5, <2>7, <2>8 DEF b, d
<1> QED
  BY <1>1, <1>2

\* A link.
LEMMA LinkShaped ==
  ASSUME NEW a, Shaped("board", a), NEW p \in Key, NEW k \in Key
  PROVE  Shaped("board", ApplyLink(a, p, k))
<1> DEFINE b == ApplyLink(a, p, k)
<1>1. CASE ~LinkHonoured(a, p, k)
  BY <1>1 DEF ApplyLink
<1>2. CASE LinkHonoured(a, p, k)
  <2>1. /\ a.person_of \in [Key -> Key] /\ a.ever_person_of \in [Key -> Key]
        /\ person(a, p) \in Key
    BY DEF Shaped, Authorities, person
  <2>2. /\ b.held = a.held /\ b.ever_held = a.ever_held /\ b.ever_members = a.ever_members
        /\ b.ever_person_of = [a.ever_person_of EXCEPT
             ![k] = IF @ = k THEN person(a, p) ELSE @]
    BY <1>2 DEF ApplyLink
  <2>3. b \in Authorities
    BY <1>2, <2>1 DEF ApplyLink, Shaped, Authorities
  <2>4. SET_NAME \in a.ever_held[person(a, p)]
    <3>1. a.held[person(a, p)] # NONE
      BY <1>2 DEF LinkHonoured, rights_of
    <3> QED
      BY <2>1, <3>1 DEF Shaped
  <2> HIDE DEF b
  <2>5. ASSUME NEW j \in Key, ever_person(b, j) # j
        PROVE  SET_NAME \in b.ever_held[ever_person(b, j)]
    <3>1. ever_person(b, j) \in {ever_person(a, j), person(a, p)}
      BY <2>1, <2>2 DEF ever_person
    <3> QED
      BY <2>2, <2>4, <2>5, <3>1 DEF Shaped
  <2>6. Shaped("board", b)
    BY <2>2, <2>3, <2>5 DEF Shaped
  <2> QED
    BY <2>6 DEF b
<1> QED
  BY <1>1, <1>2

\* And a release.
LEMMA UnlinkShaped ==
  ASSUME NEW a, Shaped("board", a), NEW p \in Key, NEW k \in Key
  PROVE  Shaped("board", ApplyUnlink(a, p, k))
<1> DEFINE b == ApplyUnlink(a, p, k)
<1>1. b \in Authorities
  BY DEF ApplyUnlink, Shaped, Authorities
<1>2. /\ b.held = a.held /\ b.ever_held = a.ever_held /\ b.ever_members = a.ever_members
      /\ b.ever_person_of = a.ever_person_of
  BY DEF ApplyUnlink
<1> HIDE DEF b
<1>3. Shaped("board", b)
  BY <1>1, <1>2 DEF Shaped, ever_person
<1> QED
  BY <1>3 DEF b

LEMMA FoldShaped ==
  ASSUME NEW c \in Contract, NEW a, Shaped(c, a), NEW op, MemberOp(c, op)
  PROVE  Shaped(c, Fold(a, op))
<1>1. /\ op.kind \in Kinds /\ op.legible /\ op.author \in Key /\ op.target \in Key
      /\ op.kind = "GRANT" => op.rights \in {NONE, MEMBER, ADMIN}
      /\ c = "org" => op.kind \notin {"LINK_DEVICE", "UNLINK_DEVICE"}
  BY DEF MemberOp
<1>2. CASE op.kind = "APPLICATION"
  BY <1>2 DEF Fold, is_authority
<1>3. CASE op.kind = "GRANT"
  <2>1. Fold(a, op) = ApplyGrant(a, op.author, op.target, op.rights)
    BY <1>1, <1>3 DEF Fold, is_authority
  <2>2. op.author \in Key /\ op.target \in Key /\ op.rights \in {NONE, MEMBER, ADMIN}
    BY <1>1, <1>3
  <2>3. Shaped(c, ApplyGrant(a, op.author, op.target, op.rights))
    BY <2>2, GrantShaped
  <2> QED
    BY <2>1, <2>3
<1>4. CASE op.kind = "LINK_DEVICE"
  <2>1. Fold(a, op) = ApplyLink(a, op.author, op.target) /\ c = "board"
    BY <1>1, <1>4, ContractsAre DEF Fold, is_authority
  <2> QED
    BY <1>1, <2>1, LinkShaped
<1>5. CASE op.kind = "UNLINK_DEVICE"
  <2>1. Fold(a, op) = ApplyUnlink(a, op.author, op.target) /\ c = "board"
    BY <1>1, <1>5, ContractsAre DEF Fold, is_authority
  <2> QED
    BY <1>1, <2>1, UnlinkShaped
<1> QED
  BY <1>1, <1>2, <1>3, <1>4, <1>5 DEF Kinds

\* Whatever a page has.
LEMMA RefoldShaped ==
  ASSUME NEW c \in Contract, NEW s, GoodLog(c, s), NEW numbers
  PROVE  Shaped(c, refold(s, numbers))
<1>1. PICK f : Folds(f, s, numbers) /\ refold(s, numbers) = f[Places]
  <2>1. OpsOf(c, s)
    BY DEF GoodLog, OpsOf
  <2> QED
    BY <2>1, RefoldAlong
<1>2. \A i \in 1..Len(s) : MemberOp(c, s[i])
  BY DEF GoodLog, Range
<1> DEFINE T == {i \in 0..Places : Shaped(c, f[i])}
<1>3. 0 \in T
  <2>1. Shaped(c, Empty)
    <3>1. /\ Empty.held[Owner] = ALL /\ \A k \in Key \ {Owner} : Empty.held[k] = NONE
          /\ \A k \in Key : /\ Empty.held[k] = Empty.ever_held[k]
                            /\ person(Empty, k) = k /\ ever_person(Empty, k) = k
          /\ Owner \in Empty.ever_members /\ SET_NAME \in ALL
      BY OneRoot, RightsThereAre DEF Empty, person, ever_person
    <3> QED
      BY <3>1, EmptyTyped, AdminsThereAre DEF Shaped
  <2> QED
    BY <1>1, <2>1, PlacesAssumption DEF Folds
<1>4. ASSUME NEW i \in 1..Places, i - 1 \in T PROVE i \in T
  <2>1. Shaped(c, f[i - 1]) /\ i \in 0..Places
    BY <1>4
  <2> QED
    BY <1>1, <1>2, <2>1, FoldShaped DEF Folds
<1>5. 0..Places \subseteq T
  <2> HIDE DEF T
  <2> QED
    BY <1>3, <1>4, PlacesAssumption, UpTo
<1> QED
  BY <1>1, <1>5, PlacesAssumption

-----------------------------------------------------------------------------
(* What a click is for, of an Authority.                                    *)

LEMMA HeldIsActive ==
  ASSUME NEW c, NEW a, Shaped(c, a), NEW k \in Key, NEW right, right \in a.held[k]
  PROVE  active(a, k)
BY DEF Shaped, active, members, NONE

\* Who may let somebody in does.
LEMMA InviteCounts ==
  ASSUME NEW c, NEW a, Shaped(c, a), NEW p \in Key, NEW k \in Key
  PROVE  LET b == ApplyGrant(a, p, k, MEMBER)
         IN  /\ MAY_GRANT \in rights_of(a, p) <=> MAY_GRANT \in rights_of(b, p)
             /\ MAY_GRANT \in rights_of(b, p) => active(b, k) /\ MEMBER \subseteq b.held[k]
<1> DEFINE b == ApplyGrant(a, p, k, MEMBER)
           P == person(a, p)
<1>1. /\ Shaped(c, b) /\ b.person_of = a.person_of
      /\ \A j \in Key : j # k => b.held[j] = a.held[j]
      /\ IF GrantHonoured(a, p, k, MEMBER)
         THEN k # Owner /\ b.held[k] = Conferred(a, p, MEMBER)
         ELSE b = a
  BY GrantShaped
<1> HIDE DEF b
<1>2. P \in Key /\ rights_of(a, p) = a.held[P] /\ rights_of(b, p) = b.held[P]
  BY <1>1 DEF Shaped, Authorities, person, rights_of
<1>3. MAY_GRANT \notin Conferred(a, p, MEMBER)
  BY ConferredIs, AdminsThereAre
<1>4. CASE ~GrantHonoured(a, p, k, MEMBER)
  <2>1. SUFFICES ASSUME MAY_GRANT \in rights_of(a, p)
                 PROVE  active(a, k) /\ MEMBER \subseteq a.held[k]
    BY <1>1, <1>4 DEF b
  <2>2. CASE k = Owner
    <3>1. a.held[k] = ALL
      BY <2>2 DEF Shaped
    <3> QED
      BY <3>1, HeldIsActive, AdminsThereAre
  <2>3. CASE k # Owner
    <3>1. MAY_GRANT \in a.held[k]
      BY <1>4, <2>1, <2>3, OneRoot DEF GrantHonoured, MayGrantTo
    <3> QED
      BY <2>3, <3>1, HeldIsActive, AdminsThereAre DEF Shaped
  <2> QED
    BY <2>2, <2>3
<1>5. CASE GrantHonoured(a, p, k, MEMBER)
  <2>1. MAY_GRANT \notin b.held[k]
    BY <1>1, <1>3, <1>5
  <2>2. ASSUME MAY_GRANT \in a.held[P] PROVE P # k
    <3>1. SUFFICES ASSUME P = k PROVE FALSE
      OBVIOUS
    <3>2. MAY_APPOINT \in rights_of(a, p)
      BY <1>2, <1>5, <2>2, <3>1, AdminsThereAre DEF GrantHonoured, Resigning, MayGrantTo, NONE
    <3> QED
      BY <1>1, <1>5, <3>1, <3>2, ConferredIs
  <2>3. MAY_GRANT \in a.held[P] <=> MAY_GRANT \in b.held[P]
    BY <1>1, <1>2, <2>1, <2>2
  <2>4. ASSUME MAY_GRANT \in rights_of(b, p) PROVE active(b, k) /\ MEMBER \subseteq b.held[k]
    <3>1. Conferred(a, p, MEMBER) = MEMBER
      BY <1>2, <2>3, <2>4, ConferredIs
    <3> QED
      BY <1>1, <1>5, <3>1, HeldIsActive, AdminsThereAre
  <2> QED
    BY <1>2, <2>3, <2>4 DEF b
<1> QED
  BY <1>4, <1>5

\* The founder makes admins, and unmakes none by it.
LEMMA AppointCounts ==
  ASSUME NEW c, NEW a, Shaped(c, a), NEW p \in Key, NEW k \in Key, person(a, p) = Owner
  PROVE  LET b == ApplyGrant(a, p, k, ADMIN)
         IN  MAY_GRANT \in b.held[k] /\ admins(a) \subseteq admins(b)
<1> DEFINE b == ApplyGrant(a, p, k, ADMIN)
<1>1. /\ Shaped(c, b)
      /\ \A j \in Key : j # k => b.held[j] = a.held[j]
      /\ IF GrantHonoured(a, p, k, ADMIN)
         THEN k # Owner /\ b.held[k] = Conferred(a, p, ADMIN)
         ELSE b = a
  BY GrantShaped
<1> HIDE DEF b
<1>2. Conferred(a, p, ADMIN) = ADMIN /\ rights_of(a, p) = ALL
  BY ConferredIs DEF Shaped, rights_of
<1>3. MAY_GRANT \in b.held[k]
  <2>1. CASE GrantHonoured(a, p, k, ADMIN)
    BY <1>1, <1>2, <2>1, AdminsThereAre
  <2>2. CASE ~GrantHonoured(a, p, k, ADMIN)
    <3>1. k = Owner
      BY <1>2, <2>2, OneRoot, AdminsThereAre DEF GrantHonoured, MayGrantTo
    <3> QED
      BY <1>1, <3>1, AdminsThereAre DEF Shaped
  <2> QED
    BY <2>1, <2>2
<1>4. ASSUME NEW j \in Key, MAY_GRANT \in a.held[j] PROVE j \in admins(b)
  <2>1. MAY_GRANT \in b.held[j]
    BY <1>1, <1>3, <1>4
  <2> QED
    BY <1>1, <2>1, HeldIsActive DEF admins, is_admin_role
<1> QED
  BY <1>3, <1>4 DEF b, admins, is_admin_role

\* Whom the rules let a person put out is out.
LEMMA RemoveCounts ==
  ASSUME NEW c, NEW a, Shaped(c, a), NEW p \in Key, NEW k \in Key, k # Owner
  PROVE  LET b == ApplyGrant(a, p, k, NONE)
         IN  /\ GrantHonoured(a, p, k, NONE) => ~active(b, k)
             /\ /\ MAY_GRANT \in rights_of(a, p)
                /\ is_admin_role(b, k) => MAY_APPOINT \in rights_of(b, p)
                => ~active(b, k)
<1> DEFINE b == ApplyGrant(a, p, k, NONE)
<1>1. IF GrantHonoured(a, p, k, NONE) THEN b.held[k] = Conferred(a, p, NONE) ELSE b = a
  BY GrantShaped
<1>2. Conferred(a, p, NONE) = NONE
  BY ConferredIs DEF NONE
<1> HIDE DEF b
<1>3. GrantHonoured(a, p, k, NONE) => ~active(b, k)
  BY <1>1, <1>2 DEF active
<1>4. ASSUME MAY_GRANT \in rights_of(a, p), is_admin_role(b, k) => MAY_APPOINT \in rights_of(b, p)
      PROVE  GrantHonoured(a, p, k, NONE)
  <2>1. SUFFICES ASSUME b = a PROVE GrantHonoured(a, p, k, NONE)
    BY <1>1
  <2> QED
    BY <1>4, <2>1, OneRoot DEF GrantHonoured, MayGrantTo, is_admin_role
<1> QED
  BY <1>3, <1>4 DEF b

-----------------------------------------------------------------------------
(* What is written, of an Authority.                                        *)

LEMMA GrantFolds ==
  ASSUME NEW c, NEW p, NEW k, NEW rights, NEW op, Drafted(c, p, Grant(k, rights), op), NEW a
  PROVE  Fold(a, op) = ApplyGrant(a, p, k, rights)
<1>1. op.kind = "GRANT" /\ op.author = p /\ op.target = k /\ op.rights = rights /\ op.legible
  BY DEF Drafted, Grant, MemberOp
<1> QED
  BY <1>1 DEF Fold, is_authority

LEMMA NameFolds ==
  ASSUME NEW c, NEW p, NEW k, NEW op, Drafted(c, p, Name(k), op), NEW a
  PROVE  Fold(a, op) = a
<1>1. op.kind = "APPLICATION"
  BY DEF Drafted, Name, Says
<1> QED
  BY <1>1 DEF Fold, is_authority

\* What comes of some drafts.
ComesOf(c, p, drafts, a, b) ==
  \E f : /\ f[0] = a /\ f[Len(drafts)] = b
         /\ \A i \in 1..Len(drafts) : \E op : /\ Drafted(c, p, drafts[i], op)
                                              /\ f[i] = Fold(f[i - 1], op)

LEMMA OneComes ==
  ASSUME NEW c, NEW p, NEW k, NEW rights, NEW a, NEW b,
         ComesOf(c, p, <<Grant(k, rights)>>, a, b)
  PROVE  b = ApplyGrant(a, p, k, rights)
<1> DEFINE drafts == <<Grant(k, rights)>>
<1>1. Len(drafts) = 1 /\ drafts[1] = Grant(k, rights) /\ 1 \in 1..1 /\ 1 - 1 = 0
  OBVIOUS
<1> HIDE DEF drafts
<1>2. PICK f : /\ f[0] = a /\ f[1] = b
               /\ \E op : Drafted(c, p, Grant(k, rights), op) /\ f[1] = Fold(f[0], op)
  BY <1>1 DEF ComesOf, drafts
<1> QED
  BY <1>2, GrantFolds

LEMMA TwoCome ==
  ASSUME NEW c, NEW p, NEW k, NEW rights, NEW a, NEW b,
         ComesOf(c, p, <<Grant(k, rights), Name(k)>>, a, b)
  PROVE  b = ApplyGrant(a, p, k, rights)
<1> DEFINE drafts == <<Grant(k, rights), Name(k)>>
<1>1. /\ Len(drafts) = 2 /\ drafts[1] = Grant(k, rights) /\ drafts[2] = Name(k)
      /\ 1 \in 1..2 /\ 2 \in 1..2 /\ 1 - 1 = 0 /\ 2 - 1 = 1
  OBVIOUS
<1>2. ComesOf(c, p, drafts, a, b)
  OBVIOUS
<1> HIDE DEF drafts
<1>3. PICK f : /\ f[0] = a /\ f[2] = b
               /\ \E op : Drafted(c, p, Grant(k, rights), op) /\ f[1] = Fold(f[0], op)
               /\ \E op : Drafted(c, p, Name(k), op) /\ f[2] = Fold(f[1], op)
  <2>1. PICK f : /\ f[0] = a /\ f[2] = b
                 /\ \A i \in 1..2 : \E op : /\ Drafted(c, p, drafts[i], op)
                                            /\ f[i] = Fold(f[i - 1], op)
    BY <1>2, <1>1 DEF ComesOf
  <2>2. \E op : Drafted(c, p, drafts[1], op) /\ f[1] = Fold(f[1 - 1], op)
    BY <1>1, <2>1
  <2>3. \E op : Drafted(c, p, drafts[2], op) /\ f[2] = Fold(f[2 - 1], op)
    BY <1>1, <2>1
  <2> QED
    BY <1>1, <2>1, <2>2, <2>3
<1> QED
  BY <1>3, GrantFolds, NameFolds

\* Of a grant to, and a name for, each of some keys, by the founder.
LEMMA AppointmentsCome ==
  ASSUME NEW p \in Key, NEW keys \in SUBSET Key, NEW a, NEW b, Shaped("board", a),
         ComesOf("board", p, Appointments(keys), a, b)
  PROVE  /\ b.person_of = a.person_of /\ Shaped("board", b)
         /\ person(a, p) = Owner => admins(a) \subseteq admins(b) /\ keys \subseteq admins(b)
<1> DEFINE drafts == Appointments(keys)
           N == Len(drafts)
<1>1. /\ N \in Nat /\ DOMAIN drafts = 1..N
      /\ \A i \in 1..N : \E k \in Key : drafts[i] = Grant(k, ADMIN) \/ drafts[i] = Name(k)
      /\ \A k \in keys : \E i \in 1..N : drafts[i] = Grant(k, ADMIN)
  <2>1. drafts \in Seq(Range(drafts))
    BY AppointmentsAre
  <2>2. N \in Nat /\ DOMAIN drafts = 1..N
    BY <2>1
  <2> HIDE DEF drafts
  <2>3. \A i \in 1..N : drafts[i] \in Range(drafts)
    BY <2>2 DEF Range
  <2>4. \A k \in keys : Grant(k, ADMIN) \in Range(drafts)
    BY AppointmentsAre DEF drafts
  <2>5. \A k \in keys : \E i \in 1..N : drafts[i] = Grant(k, ADMIN)
    BY <2>2, <2>4 DEF Range
  <2> QED
    BY <2>2, <2>3, <2>5, AppointmentsAre DEF drafts
<1>2. PICK f : /\ f[0] = a /\ f[N] = b
               /\ \A i \in 1..N : \E op : /\ Drafted("board", p, drafts[i], op)
                                          /\ f[i] = Fold(f[i - 1], op)
  BY DEF ComesOf
<1> HIDE DEF drafts, N
<1> DEFINE Good(i) == /\ Shaped("board", f[i]) /\ f[i].person_of = a.person_of
                      /\ person(a, p) = Owner =>
                           /\ admins(a) \subseteq admins(f[i])
                           /\ \A j \in 1..i : \A k \in Key :
                                drafts[j] = Grant(k, ADMIN) => k \in admins(f[i])
           T == {i \in 0..N : Good(i)}
<1>3. 0 \in T
  BY <1>1, <1>2
<1>4. ASSUME NEW i \in 1..N, i - 1 \in T PROVE i \in T
  <2> DEFINE x == f[i - 1]
  <2>1. Good(i - 1) /\ i \in 0..N
    BY <1>4
  <2>2. PICK op : Drafted("board", p, drafts[i], op) /\ f[i] = Fold(x, op)
    BY <1>2
  <2>3. PICK k \in Key : drafts[i] = Grant(k, ADMIN) \/ drafts[i] = Name(k)
    BY <1>1
  <2>4. \A j \in 1..i : j \in 1..(i - 1) \/ j = i
    BY <2>1
  <2>5. CASE drafts[i] = Grant(k, ADMIN)
    <3>1. f[i] = ApplyGrant(x, p, k, ADMIN)
      BY <2>2, <2>5, GrantFolds
    <3>2. Shaped("board", f[i]) /\ f[i].person_of = a.person_of
      <4>1. Shaped("board", x) /\ x.person_of = a.person_of /\ ADMIN \in {NONE, MEMBER, ADMIN}
        BY <2>1
      <4> HIDE DEF x, Good
      <4>2. LET b1 == ApplyGrant(x, p, k, ADMIN)
            IN  Shaped("board", b1) /\ b1.person_of = x.person_of
        BY <4>1, GrantShaped
      <4> QED
        BY <3>1, <4>1, <4>2
    <3>3. ASSUME person(a, p) = Owner
          PROVE  /\ admins(x) \subseteq admins(f[i])
                 /\ k \in admins(f[i])
      <4>1. person(x, p) = Owner
        BY <2>1, <3>3 DEF person
      <4>2. MAY_GRANT \in f[i].held[k] /\ admins(x) \subseteq admins(f[i])
        BY <2>1, <3>1, <4>1, AppointCounts
      <4>3. active(f[i], k)
        BY <3>2, <4>2, HeldIsActive
      <4> QED
        BY <4>2, <4>3 DEF admins, is_admin_role
    <3>4. ASSUME NEW j \in Key, drafts[i] = Grant(j, ADMIN) PROVE j = k
      <4>1. Grant(j, ADMIN).target = j /\ Grant(k, ADMIN).target = k
        BY DEF Grant
      <4> HIDE DEF Good
      <4> QED
        BY <2>5, <3>4, <4>1
    <3> QED
      BY <2>1, <2>4, <3>2, <3>3, <3>4
  <2>6. CASE drafts[i] = Name(k)
    <3>1. f[i] = x
      BY <2>2, <2>6, NameFolds
    <3>2. \A j : drafts[i] # Grant(j, ADMIN)
      BY <2>6 DEF Grant, Name, Says
    <3> QED
      BY <2>1, <2>4, <3>1, <3>2
  <2> QED
    BY <2>3, <2>5, <2>6
<1>5. Good(N)
  <2>1. 0..N \subseteq T
    <3> HIDE DEF T
    <3> QED
      BY <1>1, <1>3, <1>4, UpTo
  <2> QED
    BY <1>1, <2>1
<1> QED
  BY <1>1, <1>2, <1>5

-----------------------------------------------------------------------------
(* What the controls ask about, and what comes of the drafts behind them.   *)

\* What a click is for, names aside, by the fold of its contract and that of
\* the organization.
RightsDone(a, org, p, what, whom) ==
  CASE what \in {"invite", "assign"} ->
         /\ MAY_GRANT \in rights_of(a, p)
         /\ active(a, whom) /\ MEMBER \subseteq a.held[whom]
    [] what = "appoint" -> is_admin_role(a, whom)
    [] what = "remove" -> ~active(a, whom)
    [] what = "sync" -> admins(org) \subseteq admins(a)
    [] OTHER -> TRUE

\* InVain, by a fold.
Vain(c, a, p, what, whom) ==
  /\ c = "board"
  /\ \/ ActsForAnother(a, p)
     \/ what \in {"invite", "assign"} /\ NamesForAnother(a, p)
     \/ what = "assign" /\ ~may(a, p, MAY_GRANT)
     \/ /\ what = "sync" \/ (what = "remove" /\ is_admin_role(a, whom) /\ whom # Owner)
        /\ ~may(a, p, MAY_APPOINT)

\* Who acts for themselves goes by their own rights.
LEMMA OwnRights ==
  ASSUME NEW a, NEW p, ~ActsForAnother(a, p), NEW right, may(a, p, right)
  PROVE  right \in rights_of(a, p)
BY DEF ActsForAnother, may, rights_of

\* And did before they let anybody in.
LEMMA OwnRightsBefore ==
  ASSUME NEW a, NEW b, NEW p, ~ActsForAnother(b, p), NEW right, may(a, p, right),
         b.person_of = a.person_of, members(a) \subseteq members(b)
  PROVE  right \in rights_of(a, p)
<1>1. person(b, p) = person(a, p)
  BY DEF person
<1>2. person_of(a, p) = person(a, p)
  BY <1>1 DEF ActsForAnother, person_of
<1> QED
  BY <1>2 DEF may, rights_of

\* Of an organization, whatever is offered.
LEMMA OrgOffers ==
  ASSUME NEW p \in Key, NEW k \in Key, Shaped("org", seen(p, "org")), NEW b
  PROVE  LET a == seen(p, "org")
             Comes(drafts) == ComesOf("org", p, drafts, a, b)
         IN  /\ MayInvite(p) /\ Comes(invite_to_org(k, MEMBER)) =>
                  RightsDone(b, b, p, "invite", k)
             /\ MayInviteAdmin(p) /\ Comes(invite_to_org(k, ADMIN)) =>
                  RightsDone(b, b, p, "appoint", k)
             /\ can_promote(p, k) /\ Comes(promote_in_org(k)) =>
                  RightsDone(b, b, p, "appoint", k)
             /\ can_remove(p, k) /\ Comes(remove_from_org(k)) =>
                  RightsDone(b, b, p, "remove", k)
             /\ may_leave(p) /\ Comes(leave_org(p)) =>
                  RightsDone(b, b, p, "remove", p)
<1> DEFINE a == seen(p, "org")
<1>1. /\ Shaped("org", a) /\ person(a, p) = p /\ rights_of(a, p) = a.held[p]
      /\ person_of(a, p) = p /\ a.held[Owner] = ALL
  BY DEF Shaped, rights_of, person_of
<1>2. /\ is_org_admin(p) => MAY_GRANT \in rights_of(a, p)
      /\ is_org_founder(p) <=> p = Owner
  BY <1>1 DEF is_org_admin, is_org_founder, may
<1> HIDE DEF a
<1>3. ASSUME MayInvite(p), ComesOf("org", p, invite_to_org(k, MEMBER), a, b)
      PROVE  RightsDone(b, b, p, "invite", k)
  <2>1. b = ApplyGrant(a, p, k, MEMBER)
    BY <1>3, TwoCome DEF invite_to_org
  <2>2. MAY_GRANT \in rights_of(b, p) /\ active(b, k) /\ MEMBER \subseteq b.held[k]
    BY <1>1, <1>2, <1>3, <2>1, InviteCounts DEF MayInvite
  <2> QED
    BY <2>2 DEF RightsDone
<1>4. ASSUME is_org_founder(p), b = ApplyGrant(a, p, k, ADMIN)
      PROVE  RightsDone(b, b, p, "appoint", k)
  <2>1. person(a, p) = Owner
    BY <1>1, <1>2, <1>4
  <2>2. MAY_GRANT \in b.held[k]
    BY <1>1, <1>4, <2>1, AppointCounts
  <2> QED
    BY <2>2 DEF RightsDone, is_admin_role
<1>5. ASSUME MayInviteAdmin(p), ComesOf("org", p, invite_to_org(k, ADMIN), a, b)
      PROVE  RightsDone(b, b, p, "appoint", k)
  BY <1>4, <1>5, TwoCome DEF invite_to_org, MayInviteAdmin
<1>6. ASSUME can_promote(p, k), ComesOf("org", p, promote_in_org(k), a, b)
      PROVE  RightsDone(b, b, p, "appoint", k)
  BY <1>4, <1>6, OneComes DEF promote_in_org, can_promote
<1>7. ASSUME can_remove(p, k), ComesOf("org", p, remove_from_org(k), a, b)
      PROVE  RightsDone(b, b, p, "remove", k)
  <2>1. b = ApplyGrant(a, p, k, NONE)
    BY <1>7, OneComes DEF remove_from_org
  <2>2. /\ k # Owner
        /\ IF is_admin_role(a, k) THEN is_org_founder(p) ELSE is_org_admin(p)
    BY <1>7 DEF can_remove, a
  <2>3. MayGrantTo(a, p, k)
    <3>1. p = Owner => MAY_GRANT \in rights_of(a, p) /\ MAY_APPOINT \in rights_of(a, p)
      BY <1>1, AdminsThereAre
    <3> QED
      BY <1>2, <2>2, <3>1 DEF MayGrantTo, is_admin_role
  <2>4. GrantHonoured(a, p, k, NONE)
    BY <2>2, <2>3, OneRoot DEF GrantHonoured
  <2>5. ~active(b, k)
    BY <1>1, <2>1, <2>2, <2>4, RemoveCounts
  <2> QED
    BY <2>5 DEF RightsDone
<1>8. ASSUME may_leave(p), ComesOf("org", p, leave_org(p), a, b)
      PROVE  RightsDone(b, b, p, "remove", p)
  <2>1. b = ApplyGrant(a, p, p, NONE)
    BY <1>8, OneComes DEF leave_org
  <2>2. p # Owner
    BY <1>2, <1>8 DEF may_leave
  <2>3. GrantHonoured(a, p, p, NONE)
    BY <1>1, <2>2, OneRoot DEF GrantHonoured, Resigning
  <2>4. ~active(b, p)
    BY <1>1, <2>1, <2>2, <2>3, RemoveCounts
  <2> QED
    BY <2>4 DEF RightsDone
<1> QED
  BY <1>3, <1>5, <1>6, <1>7, <1>8 DEF a

\* Of a project, whatever is offered and not in vain.
LEMMA BoardOffers ==
  ASSUME NEW p \in Key, NEW k \in Key, Shaped("board", seen(p, "board")), NEW b
  PROVE  LET a == seen(p, "board")
             org == seen(p, "org")
             Comes(drafts) == ComesOf("board", p, drafts, a, b)
         IN  /\ may_invite(p) /\ Comes(<<Grant(k, MEMBER), Name(k)>>)
                /\ ~Vain("board", b, p, "invite", k) =>
                  RightsDone(b, org, p, "invite", k)
             /\ Comes(<<Grant(k, MEMBER), Name(k)>>) /\ ~Vain("board", b, p, "assign", k) =>
                  RightsDone(b, org, p, "assign", k)
             /\ removable(p, k) /\ Comes(<<Grant(k, NONE)>>)
                /\ ~Vain("board", b, p, "remove", k) =>
                  RightsDone(b, org, p, "remove", k)
             /\ Comes(sync_org_admins(p)) /\ ~Vain("board", b, p, "sync", p) =>
                  RightsDone(b, org, p, "sync", p)
             /\ RightsDone(b, org, p, "link", k) /\ RightsDone(b, org, p, "unlink", k)
<1> DEFINE a == seen(p, "board")
           org == seen(p, "org")
<1>1. /\ Shaped("board", a)
      /\ OnBoard(p, MAY_GRANT) => may(a, p, MAY_GRANT)
  BY DEF OnBoard
<1> HIDE DEF a, org
<1>2. ASSUME ComesOf("board", p, <<Grant(k, MEMBER), Name(k)>>, a, b),
             \/ may_invite(p) /\ ~Vain("board", b, p, "invite", k)
             \/ ~Vain("board", b, p, "assign", k)
      PROVE  RightsDone(b, org, p, "invite", k) /\ RightsDone(b, org, p, "assign", k)
  <2>1. b = ApplyGrant(a, p, k, MEMBER)
    BY <1>2, TwoCome
  <2>2. b.person_of = a.person_of /\ members(a) \subseteq members(b)
    BY <1>1, <2>1, GrantShaped
  <2>3. ~ActsForAnother(b, p) /\ (may(b, p, MAY_GRANT) \/ may(a, p, MAY_GRANT))
    BY <1>1, <1>2 DEF Vain, may_invite
  <2>4. MAY_GRANT \in rights_of(b, p) \/ MAY_GRANT \in rights_of(a, p)
    BY <2>2, <2>3, OwnRights, OwnRightsBefore
  <2>5. MAY_GRANT \in rights_of(b, p) /\ active(b, k) /\ MEMBER \subseteq b.held[k]
    BY <1>1, <2>1, <2>4, InviteCounts
  <2> QED
    BY <2>5 DEF RightsDone
<1>3. ASSUME removable(p, k), ComesOf("board", p, <<Grant(k, NONE)>>, a, b),
             ~Vain("board", b, p, "remove", k)
      PROVE  RightsDone(b, org, p, "remove", k)
  <2>1. b = ApplyGrant(a, p, k, NONE) /\ k # Owner
    BY <1>3, OneComes DEF removable
  <2>2. b.person_of = a.person_of /\ members(a) \subseteq members(b)
    BY <1>1, <2>1, GrantShaped
  <2>3. ~ActsForAnother(b, p) /\ (is_admin_role(b, k) => may(b, p, MAY_APPOINT))
    BY <1>3, <2>1 DEF Vain
  <2>4. /\ MAY_GRANT \in rights_of(a, p)
        /\ is_admin_role(b, k) => MAY_APPOINT \in rights_of(b, p)
    BY <1>1, <1>3, <2>2, <2>3, OwnRights, OwnRightsBefore DEF removable
  <2>5. ~active(b, k)
    BY <1>1, <2>1, <2>4, RemoveCounts
  <2> QED
    BY <2>5 DEF RightsDone
<1>4. ASSUME ComesOf("board", p, sync_org_admins(p), a, b), ~Vain("board", b, p, "sync", p)
      PROVE  RightsDone(b, org, p, "sync", p)
  <2> DEFINE keys == admins(org) \ admins(a)
  <2>1. keys \in SUBSET Key
    BY DEF admins
  <2>2. ComesOf("board", p, Appointments(keys), a, b)
    BY <1>4 DEF sync_org_admins, a, org
  <2> HIDE DEF keys
  <2>3. /\ b.person_of = a.person_of /\ Shaped("board", b)
        /\ person(a, p) = Owner => admins(a) \subseteq admins(b) /\ keys \subseteq admins(b)
    BY <1>1, <2>1, <2>2, AppointmentsCome
  <2>4. person(b, p) = Owner
    <3>1. MAY_APPOINT \in b.held[person(b, p)]
      BY <1>4, OwnRights DEF Vain, rights_of
    <3>2. person(b, p) \in Key
      BY <2>3 DEF Shaped, Authorities, person
    <3> QED
      BY <2>3, <3>1, <3>2 DEF Shaped
  <2>5. person(a, p) = Owner
    BY <2>3, <2>4 DEF person
  <2>6. admins(org) \subseteq admins(b)
    BY <2>3, <2>5 DEF keys
  <2> QED
    BY <2>6 DEF RightsDone
<1>5. RightsDone(b, org, p, "link", k) /\ RightsDone(b, org, p, "unlink", k)
  BY DEF RightsDone
<1> QED
  BY <1>2, <1>3, <1>4, <1>5 DEF a, org

-----------------------------------------------------------------------------
(* What a page shows after a click.                                        *)

\* The ops of a contract are in their total order, and a page goes by the fold
\* of those it has.
KeptInv ==
  /\ \A c \in Contract : Ordered(log[c])
  /\ \A p \in Page, c \in Contract :
       /\ known[p][c] \subseteq 1..Len(log[c])
       /\ folded[p][c] = refold(log[c], known[p][c])

\* The places are enough.
Room == \A c \in Contract : Len(log[c]) <= Places

\* The last click did what it is for, and a name it gave was the last word.
ClickedInv ==
  last.what # "none" =>
    /\ last.page \in Page /\ last.at \in Contract /\ last.whom \in Key
    /\ last.what \in {"invite", "assign"} =>
         \E op : /\ Drafted(last.at, last.page, Name(last.whom), op)
                 /\ LastKnown(log[last.at], known[last.page][last.at], op)
    /\ \/ Vain(last.at, folded[last.page][last.at], last.page, last.what, last.whom)
       \/ RightsDone(folded[last.page][last.at], folded[last.page]["org"],
                     last.page, last.what, last.whom)

LEMMA PageIsTidy ==
  ASSUME MembersInv, KeptInv, NEW p \in Page, NEW c \in Contract
  PROVE  /\ Tidy(c, log[c], known[p][c]) /\ Shaped(c, folded[p][c])
         /\ OpsOf(c, log[c]) /\ Len(log[c]) \in Nat
<1>1. GoodLog(c, log[c])
  BY DEF MembersInv
<1>2. Shaped(c, folded[p][c])
  BY <1>1, RefoldShaped DEF KeptInv
<1> QED
  BY <1>1, <1>2 DEF Tidy, KeptInv, GoodLog, OpsOf

\* A click, that does what it is for unless it is in vain.
LEMMA ClickServes ==
  ASSUME MembersInv, KeptInv, Room', NEW p \in Page, NEW c \in Contract,
         NEW what, NEW whom \in Key, NEW drafts, Row(c, drafts),
         Click(p, c, what, whom, drafts),
         what \in {"invite", "assign"} => Len(drafts) > 0 /\ drafts[Len(drafts)] = Name(whom),
         \A b : /\ ComesOf(c, p, drafts, seen(p, c), b)
                /\ ~Vain(c, b, p, what, whom)
                => RightsDone(b, IF c = "org" THEN b ELSE seen(p, "org"), p, what, whom)
  PROVE  KeptInv' /\ ClickedInv'
<1> DEFINE done == Emitted(p, c, drafts)
           L == done.log
           K == done.known
           b == refold(L, K)
<1>1. /\ p \in Key /\ DOMAIN log = Contract
      /\ known \in [Page -> [Contract -> SUBSET Nat]]
      /\ folded \in [Page -> [Contract -> Authorities]]
  BY PageAssumption DEF MembersInv
<1>2. /\ log' = [log EXCEPT ![c] = L]
      /\ known' = [known EXCEPT ![p][c] = K]
      /\ folded' = [folded EXCEPT ![p][c] = b]
      /\ last'.page = p /\ last'.at = c /\ last'.what = what /\ last'.whom = whom
      /\ ahead' = ahead
  BY DEF Click
<1>3. Tidy(c, log[c], known[p][c]) /\ Len(log[c]) \in Nat
  BY PageIsTidy
<1>4. Len(L) <= Places
  <2>1. log'[c] = L /\ Len(log'[c]) <= Places
    BY <1>1, <1>2 DEF Room
  <2> QED
    BY <2>1
<1>5. /\ Tidy(c, L, K) /\ Len(log[c]) <= Len(L)
      /\ \E f : /\ f[0] = refold(log[c], known[p][c])
                /\ f[Len(drafts)] = b
                /\ \A i \in 1..Len(drafts) : \E op : /\ Drafted(c, p, drafts[i], op)
                                                     /\ f[i] = Fold(f[i - 1], op)
      /\ \A J \in SUBSET (1..Len(log[c])) : refold(L, J) = refold(log[c], J)
      /\ Len(drafts) > 0 => \E op : /\ Drafted(c, p, drafts[Len(drafts)], op)
                                    /\ LastKnown(L, K, op)
  BY <1>1, <1>3, <1>4, EmittedFolds
<1> HIDE DEF done
<1>6. K \subseteq 1..Len(L) /\ Ordered(L) /\ Len(L) \in Nat
  BY <1>5 DEF Tidy, GoodLog
<1> HIDE DEF L, K
<1>7. seen(p, c) = refold(log[c], known[p][c])
  BY DEF seen, KeptInv
<1> DEFINE a == refold(log[c], known[p][c])
<1> HIDE DEF a, b
<1>8. ComesOf(c, p, drafts, a, b)
  <2>1. PICK f : /\ f[0] = a
                 /\ f[Len(drafts)] = b
                 /\ \A i \in 1..Len(drafts) : \E op : /\ Drafted(c, p, drafts[i], op)
                                                      /\ f[i] = Fold(f[i - 1], op)
    BY <1>5 DEF a
  <2> QED
    BY <2>1 DEF ComesOf
<1>9. /\ log'[c] = L /\ known'[p][c] = K /\ folded'[p][c] = b
      /\ folded'[p]["org"] = IF c = "org" THEN b ELSE folded[p]["org"]
  BY <1>1, <1>2, ContractsAre
<1>10. KeptInv'
  <2>1. ASSUME NEW d \in Contract PROVE Ordered(log[d])'
    <3>1. Ordered(log'[d])
      BY <1>1, <1>2, <1>6 DEF KeptInv
    <3> QED
      BY <1>2, <3>1 DEF Ordered, Precedes
  <2>2. ASSUME NEW q \in Page, NEW d \in Contract
        PROVE  /\ known'[q][d] \subseteq 1..Len(log'[d])
               /\ folded'[q][d] = refold(log'[d], known'[q][d])
    <3>1. CASE q = p /\ d = c
      BY <1>6, <1>9, <3>1 DEF b
    <3>2. CASE q # p \/ d # c
      <4>1. known'[q][d] = known[q][d] /\ folded'[q][d] = folded[q][d]
        BY <1>1, <1>2, <3>2
      <4>2. known[q][d] \subseteq 1..Len(log[d]) /\ folded[q][d] = refold(log[d], known[q][d])
        BY DEF KeptInv
      <4>3. CASE d = c
        <5>1. refold(L, known[q][d]) = refold(log[c], known[q][d])
          BY <1>5, <4>2, <4>3
        <5>2. 1..Len(log[c]) \subseteq 1..Len(L)
          BY <1>3, <1>5, <1>6
        <5> QED
          BY <1>9, <4>1, <4>2, <4>3, <5>1, <5>2
      <4>4. CASE d # c
        <5>1. log'[d] = log[d]
          BY <1>2, <4>4
        <5> QED
          BY <4>1, <4>2, <5>1
      <4> QED
        BY <4>3, <4>4
    <3> QED
      BY <3>1, <3>2
  <2> QED
    BY <2>1, <2>2 DEF KeptInv
<1>11. ClickedInv'
  <2>1. what \in {"invite", "assign"} => \E op : Drafted(c, p, Name(whom), op) /\ LastKnown(L, K, op)
    BY <1>5
  <2>2. \/ Vain(c, b, p, what, whom)
        \/ RightsDone(b, IF c = "org" THEN b ELSE folded[p]["org"], p, what, whom)
    BY <1>7, <1>8 DEF seen, a
  <2> QED
    BY <1>2, <1>9, <2>1, <2>2 DEF ClickedInv
<1> QED
  BY <1>10, <1>11

LEMMA ClickOrgServes ==
  ASSUME MembersInv, KeptInv, Room', NEW p \in Page, NEW k \in Key, ClickOrg(p, k)
  PROVE  KeptInv' /\ ClickedInv'
<1>1. p \in Key /\ "org" \in Contract
  BY PageAssumption, ContractsAre
<1>2. Shaped("org", seen(p, "org"))
  BY <1>1, PageIsTidy DEF seen
<1>3. \A j \in Key, rights \in {NONE, MEMBER, ADMIN} :
        Row("org", <<Grant(j, rights)>>) /\ Row("org", <<Grant(j, rights), Name(j)>>)
  BY <1>1, GrantIs, NameIs, OneDraft, TwoDrafts
<1>4. CASE MayInvite(p) /\ Click(p, "org", "invite", k, invite_to_org(k, MEMBER))
  <2> DEFINE drafts == invite_to_org(k, MEMBER)
  <2>1. Row("org", drafts)
    BY <1>3 DEF invite_to_org
  <2>2. Len(drafts) > 0 /\ drafts[Len(drafts)] = Name(k)
    BY DEF invite_to_org
  <2> HIDE DEF drafts
  <2>3. \A b : ComesOf("org", p, drafts, seen(p, "org"), b) => RightsDone(b, b, p, "invite", k)
    BY <1>1, <1>2, <1>4, OrgOffers DEF drafts
  <2>4. Click(p, "org", "invite", k, drafts)
    BY <1>4 DEF drafts
  <2> QED
    BY <1>1, <2>1, <2>2, <2>3, <2>4, ClickServes
<1>5. CASE MayInviteAdmin(p) /\ Click(p, "org", "appoint", k, invite_to_org(k, ADMIN))
  <2> DEFINE drafts == invite_to_org(k, ADMIN)
  <2>1. Row("org", drafts)
    BY <1>3 DEF invite_to_org
  <2> HIDE DEF drafts
  <2>2. \A b : ComesOf("org", p, drafts, seen(p, "org"), b) => RightsDone(b, b, p, "appoint", k)
    BY <1>1, <1>2, <1>5, OrgOffers DEF drafts
  <2>3. Click(p, "org", "appoint", k, drafts)
    BY <1>5 DEF drafts
  <2> QED
    BY <1>1, <2>1, <2>2, <2>3, ClickServes
<1>6. CASE can_promote(p, k) /\ Click(p, "org", "appoint", k, promote_in_org(k))
  <2> DEFINE drafts == promote_in_org(k)
  <2>1. Row("org", drafts)
    BY <1>3 DEF promote_in_org
  <2> HIDE DEF drafts
  <2>2. \A b : ComesOf("org", p, drafts, seen(p, "org"), b) => RightsDone(b, b, p, "appoint", k)
    BY <1>1, <1>2, <1>6, OrgOffers DEF drafts
  <2>3. Click(p, "org", "appoint", k, drafts)
    BY <1>6 DEF drafts
  <2> QED
    BY <1>1, <2>1, <2>2, <2>3, ClickServes
<1>7. CASE can_remove(p, k) /\ Click(p, "org", "remove", k, remove_from_org(k))
  <2> DEFINE drafts == remove_from_org(k)
  <2>1. Row("org", drafts)
    BY <1>3 DEF remove_from_org
  <2> HIDE DEF drafts
  <2>2. \A b : ComesOf("org", p, drafts, seen(p, "org"), b) => RightsDone(b, b, p, "remove", k)
    BY <1>1, <1>2, <1>7, OrgOffers DEF drafts
  <2>3. Click(p, "org", "remove", k, drafts)
    BY <1>7 DEF drafts
  <2> QED
    BY <1>1, <2>1, <2>2, <2>3, ClickServes
<1>8. CASE may_leave(p) /\ Click(p, "org", "remove", p, leave_org(p))
  <2> DEFINE drafts == leave_org(p)
  <2>1. Row("org", drafts)
    BY <1>1, <1>3 DEF leave_org
  <2> HIDE DEF drafts
  <2>2. \A b : ComesOf("org", p, drafts, seen(p, "org"), b) => RightsDone(b, b, p, "remove", p)
    BY <1>1, <1>2, <1>8, OrgOffers DEF drafts
  <2>3. Click(p, "org", "remove", p, drafts)
    BY <1>8 DEF drafts
  <2> QED
    BY <1>1, <2>1, <2>2, <2>3, ClickServes
<1> QED
  BY <1>4, <1>5, <1>6, <1>7, <1>8 DEF ClickOrg

LEMMA ClickBoardServes ==
  ASSUME MembersInv, KeptInv, Room', NEW p \in Page, NEW k \in Key, ClickBoard(p, k)
  PROVE  KeptInv' /\ ClickedInv'
<1>1. p \in Key /\ "board" \in Contract /\ "board" # "org"
  BY PageAssumption, ContractsAre
<1>2. Shaped("board", seen(p, "board"))
  BY <1>1, PageIsTidy DEF seen
<1>3. \A rights \in {NONE, MEMBER, ADMIN} :
        Row("board", <<Grant(k, rights)>>) /\ Row("board", <<Grant(k, rights), Name(k)>>)
  BY GrantIs, NameIs, OneDraft, TwoDrafts
<1>4. CASE may_invite(p) /\ Click(p, "board", "invite", k, <<Grant(k, MEMBER), Name(k)>>)
  <2> DEFINE drafts == <<Grant(k, MEMBER), Name(k)>>
  <2>1. Row("board", drafts)
    BY <1>3
  <2>2. Len(drafts) > 0 /\ drafts[Len(drafts)] = Name(k)
    OBVIOUS
  <2>3. Click(p, "board", "invite", k, drafts)
    BY <1>4
  <2>4. \A b : ComesOf("board", p, drafts, seen(p, "board"), b) /\ ~Vain("board", b, p, "invite", k)
               => RightsDone(b, seen(p, "org"), p, "invite", k)
    BY <1>1, <1>2, <1>4, BoardOffers
  <2> HIDE DEF drafts
  <2> QED
    BY <1>1, <2>1, <2>2, <2>3, <2>4, ClickServes
<1>5. CASE removable(p, k) /\ Click(p, "board", "remove", k, <<Grant(k, NONE)>>)
  <2> DEFINE drafts == <<Grant(k, NONE)>>
  <2>1. Row("board", drafts)
    BY <1>3
  <2>2. Click(p, "board", "remove", k, drafts)
    BY <1>5
  <2>3. \A b : ComesOf("board", p, drafts, seen(p, "board"), b) /\ ~Vain("board", b, p, "remove", k)
               => RightsDone(b, seen(p, "org"), p, "remove", k)
    BY <1>1, <1>2, <1>5, BoardOffers
  <2> HIDE DEF drafts
  <2> QED
    BY <1>1, <2>1, <2>2, <2>3, ClickServes
<1>6. CASE Click(p, "board", "sync", p, sync_org_admins(p))
  <2> DEFINE drafts == sync_org_admins(p)
  <2>1. Row("board", drafts)
    <3>1. admins(seen(p, "org")) \ admins(seen(p, "board")) \in SUBSET Key
      BY DEF admins
    <3> QED
      BY <3>1, AppointmentsAreClicks DEF sync_org_admins
  <2> HIDE DEF drafts
  <2>2. \A b : ComesOf("board", p, drafts, seen(p, "board"), b) /\ ~Vain("board", b, p, "sync", p)
               => RightsDone(b, seen(p, "org"), p, "sync", p)
    BY <1>1, <1>2, BoardOffers DEF drafts
  <2>3. Click(p, "board", "sync", p, drafts)
    BY <1>6 DEF drafts
  <2> QED
    BY <1>1, <2>1, <2>2, <2>3, ClickServes
<1>7. CASE Click(p, "board", "link", k, <<Vouch(k)>>)
  <2> DEFINE drafts == <<Vouch(k)>>
  <2>1. Row("board", drafts)
    BY VouchIs, OneDraft
  <2>2. Click(p, "board", "link", k, drafts)
    BY <1>7
  <2> HIDE DEF drafts
  <2>3. \A b : RightsDone(b, seen(p, "org"), p, "link", k)
    BY DEF RightsDone
  <2> QED
    BY <1>1, <2>1, <2>2, <2>3, ClickServes
<1>8. CASE Click(p, "board", "unlink", k, <<Release(k)>>)
  <2> DEFINE drafts == <<Release(k)>>
  <2>1. Row("board", drafts)
    BY ReleaseIs, OneDraft
  <2>2. Click(p, "board", "unlink", k, drafts)
    BY <1>8
  <2> HIDE DEF drafts
  <2>3. \A b : RightsDone(b, seen(p, "org"), p, "unlink", k)
    BY DEF RightsDone
  <2> QED
    BY <1>1, <2>1, <2>2, <2>3, ClickServes
<1>9. CASE Click(p, "board", "assign", k, <<Grant(k, MEMBER), Name(k)>>)
  <2> DEFINE drafts == <<Grant(k, MEMBER), Name(k)>>
  <2>1. Row("board", drafts)
    BY <1>3
  <2>2. Len(drafts) > 0 /\ drafts[Len(drafts)] = Name(k)
    OBVIOUS
  <2>3. Click(p, "board", "assign", k, drafts)
    BY <1>9
  <2>4. \A b : ComesOf("board", p, drafts, seen(p, "board"), b) /\ ~Vain("board", b, p, "assign", k)
               => RightsDone(b, seen(p, "org"), p, "assign", k)
    BY <1>1, <1>2, <1>9, BoardOffers
  <2> HIDE DEF drafts
  <2> QED
    BY <1>1, <2>1, <2>2, <2>3, <2>4, ClickServes
<1>10. \/ may_invite(p) /\ Click(p, "board", "invite", k, <<Grant(k, MEMBER), Name(k)>>)
       \/ removable(p, k) /\ Click(p, "board", "remove", k, <<Grant(k, NONE)>>)
       \/ Click(p, "board", "assign", k, <<Grant(k, MEMBER), Name(k)>>)
       \/ Click(p, "board", "sync", p, sync_org_admins(p))
       \/ Click(p, "board", "link", k, <<Vouch(k)>>)
       \/ Click(p, "board", "unlink", k, <<Release(k)>>)
  BY DEF ClickBoard, invite, remove, assign_from_org, link_device, unlink_device
<1> QED
  BY <1>4, <1>5, <1>6, <1>7, <1>8, <1>9, <1>10

\* The first state of a project.
LEMMA FoundProjectServes ==
  ASSUME MembersInv, KeptInv, Room', NEW p \in Page, FoundProject(p)
  PROVE  KeptInv' /\ ClickedInv'
<1> DEFINE keys == admins(seen(p, "org")) \ {Owner}
           belongs == Says({ADMINISTER}, [op |-> "SetOrganization", org |-> "org"])
           added == Says({ADMINISTER}, [op |-> "AddProject", board |-> "board"])
           drafts == <<belongs>> \o Appointments(keys)
           genesis == [i \in DOMAIN drafts |-> Signed(p, drafts[i], i, i)]
           told == Emitted(p, "org", <<added>>)
           b == refold(genesis, DOMAIN genesis)
<1>1. /\ p \in Key /\ "org" \in Contract /\ "board" \in Contract
      /\ known \in [Page -> [Contract -> SUBSET Nat]]
      /\ folded \in [Page -> [Contract -> Authorities]]
  BY PageAssumption, ContractsAre DEF MembersInv
<1>2. /\ log["board"] = << >>
      /\ log' = [c \in Contract |-> IF c = "org" THEN told.log ELSE genesis]
      /\ known' = [known EXCEPT ![p] =
                     [c \in Contract |-> IF c = "org" THEN told.known ELSE DOMAIN genesis]]
      /\ folded' = [folded EXCEPT ![p]["board"] = b]
      /\ last' = Nothing /\ ahead' = ahead
  BY DEF FoundProject
<1>3. DOMAIN drafts = 1..Len(drafts) /\ Len(drafts) \in Nat
  <2>1. keys \in SUBSET Key
    BY DEF admins
  <2> HIDE DEF keys, belongs
  <2>2. Appointments(keys) \in Seq(Range(Appointments(keys)))
    BY <2>1, AppointmentsAre
  <2> DEFINE rest == Appointments(keys)
             S == {belongs} \cup Range(rest)
  <2>3. <<belongs>> \in Seq(S) /\ rest \in Seq(S)
    BY <2>2
  <2> HIDE DEF S, rest
  <2>4. <<belongs>> \o rest \in Seq(S)
    BY <2>3
  <2> QED
    BY <2>4 DEF rest
<1> HIDE DEF drafts
<1>4. /\ DOMAIN genesis = 1..Len(genesis) /\ Len(genesis) \in Nat
      /\ \A i \in 1..Len(genesis) : genesis[i].lamport = i
  <2>1. genesis = [i \in 1..Len(drafts) |-> Signed(p, drafts[i], i, i)]
    BY <1>3
  <2>2. \A i \in 1..Len(drafts) : genesis[i].lamport = i
    BY <2>1 DEF Signed
  <2> HIDE DEF genesis
  <2>3. DOMAIN genesis = 1..Len(drafts) /\ Len(genesis) = Len(drafts)
    BY <1>3, <2>1
  <2> QED
    BY <1>3, <2>2, <2>3
<1> HIDE DEF genesis
<1>5. Ordered(genesis)
  <2>1. \A i, j \in 1..Len(genesis) : i < j => Precedes(genesis[i], genesis[j])
    BY <1>4 DEF Precedes
  <2>2. \A op \in Range(genesis) : op.lamport \in Nat
    BY <1>4 DEF Range
  <2> QED
    BY <2>1, <2>2 DEF Ordered
<1>6. PICK op : Drafted("org", p, added, op)
                /\ /\ Tidy("org", told.log, told.known)
                   /\ Len(log["org"]) <= Len(told.log)
                   /\ refold(told.log, told.known) = Fold(refold(log["org"], known[p]["org"]), op)
                   /\ \A J \in SUBSET (1..Len(log["org"])) :
                        refold(told.log, J) = refold(log["org"], J)
  <2> DEFINE row == <<added>>
             A == refold(log["org"], known[p]["org"])
             B == refold(told.log, told.known)
  <2>1. Row("org", row) /\ Len(row) = 1 /\ row[1] = added
    <3>1. GoodDraft("org", added)
      BY OneRoot DEF GoodDraft, Says, Kinds, ALL, ADMIN, NONE, ADMINISTER
    <3> HIDE DEF added
    <3> QED
      BY <3>1, OneDraft
  <2>2. Len(told.log) <= Places
    <3>1. log'["org"] = told.log /\ Len(log'["org"]) <= Places
      BY <1>1, <1>2 DEF Room
    <3> QED
      BY <3>1
  <2>3. Tidy("org", log["org"], known[p]["org"])
    BY <1>1, PageIsTidy
  <2> HIDE DEF row, added
  <2>4. told = Emitted(p, "org", row)
    BY DEF row
  <2> HIDE DEF told
  <2>5. /\ Tidy("org", told.log, told.known) /\ Len(log["org"]) <= Len(told.log)
        /\ \E f : /\ f[0] = A
                  /\ f[Len(row)] = B
                  /\ \A i \in 1..Len(row) : \E op : /\ Drafted("org", p, row[i], op)
                                                    /\ f[i] = Fold(f[i - 1], op)
        /\ \A J \in SUBSET (1..Len(log["org"])) : refold(told.log, J) = refold(log["org"], J)
    <3> DEFINE done == Emitted(p, "org", row)
               X == done.log
               Y == done.known
    <3>1. Len(X) <= Places
      BY <2>2, <2>4
    <3>2. /\ Tidy("org", X, Y) /\ Len(log["org"]) <= Len(X)
          /\ \E f : /\ f[0] = refold(log["org"], known[p]["org"])
                    /\ f[Len(row)] = refold(X, Y)
                    /\ \A i \in 1..Len(row) : \E op : /\ Drafted("org", p, row[i], op)
                                                      /\ f[i] = Fold(f[i - 1], op)
          /\ \A J \in SUBSET (1..Len(log["org"])) : refold(X, J) = refold(log["org"], J)
          /\ Len(row) > 0 => \E op : /\ Drafted("org", p, row[Len(row)], op)
                                     /\ LastKnown(X, Y, op)
      BY <1>1, <2>1, <2>3, <3>1, EmittedFolds
    <3>3. X = told.log /\ Y = told.known
      BY <2>4
    <3> HIDE DEF X, Y
    <3> QED
      BY <3>2, <3>3
  <2> HIDE DEF A, B
  <2>6. PICK f : /\ f[0] = A /\ f[Len(row)] = B
                 /\ \A i \in 1..Len(row) : \E op : /\ Drafted("org", p, row[i], op)
                                                   /\ f[i] = Fold(f[i - 1], op)
    BY <2>5
  <2>7. 1 \in 1..1 /\ 1 - 1 = 0
    OBVIOUS
  <2>8. \E op : Drafted("org", p, added, op) /\ B = Fold(A, op)
    <3>1. \E op : Drafted("org", p, row[1], op) /\ f[1] = Fold(f[1 - 1], op)
      BY <2>1, <2>6, <2>7
    <3> QED
      BY <2>1, <2>6, <2>7, <3>1
  <2> QED
    BY <2>5, <2>8 DEF A, B
<1>7. refold(told.log, told.known) = refold(log["org"], known[p]["org"])
  <2>1. op.kind = "APPLICATION"
    BY <1>6 DEF Drafted, Says
  <2> HIDE DEF told, added
  <2> QED
    BY <1>6, <2>1 DEF Fold, is_authority
<1>8. /\ told.known \subseteq 1..Len(told.log) /\ Ordered(told.log)
      /\ Len(told.log) \in Nat /\ Len(log["org"]) \in Nat
  <2> HIDE DEF told
  <2>1. Len(log["org"]) \in Nat
    BY <1>1, PageIsTidy
  <2>2. Tidy("org", told.log, told.known)
    BY <1>6
  <2> QED
    BY <2>1, <2>2 DEF Tidy, GoodLog
<1> HIDE DEF told, added, keys, belongs
<1>9. /\ log'["org"] = told.log /\ log'["board"] = genesis
      /\ known'[p]["org"] = told.known /\ known'[p]["board"] = DOMAIN genesis
      /\ folded'[p]["org"] = folded[p]["org"] /\ folded'[p]["board"] = b
      /\ \A q \in Page \ {p}, c \in Contract : /\ known'[q][c] = known[q][c]
                                               /\ folded'[q][c] = folded[q][c]
  <2>1. /\ log'["org"] = told.log /\ log'["board"] = genesis
        /\ known'[p]["org"] = told.known /\ known'[p]["board"] = DOMAIN genesis
    BY <1>1, <1>2
  <2> HIDE DEF b
  <2>2. folded'[p]["org"] = folded[p]["org"] /\ folded'[p]["board"] = b
    BY <1>1, <1>2
  <2>3. \A q \in Page \ {p}, c \in Contract : /\ known'[q][c] = known[q][c]
                                              /\ folded'[q][c] = folded[q][c]
    BY <1>1, <1>2
  <2> QED
    BY <2>1, <2>2, <2>3
<1>10. KeptInv'
  <2>1. ASSUME NEW d \in Contract PROVE Ordered(log[d])'
    <3>1. Ordered(log'[d])
      BY <1>5, <1>8, <1>9, ContractsAre
    <3> QED
      BY <1>2, <3>1 DEF Ordered, Precedes
  <2>2. ASSUME NEW q \in Page
        PROVE  /\ known'[q]["org"] \subseteq 1..Len(log'["org"])
               /\ folded'[q]["org"] = refold(log'["org"], known'[q]["org"])
    <3>1. /\ known[q]["org"] \subseteq 1..Len(log["org"])
          /\ folded[q]["org"] = refold(log["org"], known[q]["org"])
      BY <1>1 DEF KeptInv
    <3>2. CASE q = p
      BY <1>7, <1>8, <1>9, <3>1, <3>2
    <3>3. CASE q # p
      <4>1. 1..Len(log["org"]) \subseteq 1..Len(told.log)
        BY <1>6, <1>8
      <4>2. refold(told.log, known[q]["org"]) = refold(log["org"], known[q]["org"])
        BY <1>6, <3>1
      <4> QED
        BY <1>1, <1>9, <3>1, <3>3, <4>1, <4>2
    <3> QED
      BY <3>2, <3>3
  <2>3. ASSUME NEW q \in Page
        PROVE  /\ known'[q]["board"] \subseteq 1..Len(log'["board"])
               /\ folded'[q]["board"] = refold(log'["board"], known'[q]["board"])
    <3>1. CASE q = p
      BY <1>4, <1>9, <3>1 DEF b
    <3>2. CASE q # p
      <4>1. known[q]["board"] = {}
        <5>1. known[q]["board"] \subseteq 1..0
          BY <1>1, <1>2 DEF KeptInv
        <5> QED
          BY <5>1
      <4>2. folded[q]["board"] = refold(log["board"], {})
        BY <1>1, <4>1 DEF KeptInv
      <4>3. \A s : refold(s, {}) = authority_in({})
        BY DEF refold
      <4> QED
        BY <1>1, <1>9, <3>2, <4>1, <4>2, <4>3
    <3> QED
      BY <3>1, <3>2
  <2> QED
    BY <2>1, <2>2, <2>3, ContractsAre DEF KeptInv
<1>11. ClickedInv'
  BY <1>2 DEF ClickedInv, Nothing
<1> QED
  BY <1>10, <1>11

LEMMA FetchServes ==
  ASSUME MembersInv, KeptInv, NEW p \in Page, NEW c \in Contract, Fetch(p, c)
  PROVE  KeptInv' /\ ClickedInv'
<1> DEFINE K == 1..Len(log[c])
           b == refold(log[c], K)
<1>1. /\ known \in [Page -> [Contract -> SUBSET Nat]]
      /\ folded \in [Page -> [Contract -> Authorities]]
  BY DEF MembersInv
<1>2. /\ log' = log /\ ahead' = ahead /\ last' = Nothing
      /\ known' = [known EXCEPT ![p][c] = K]
      /\ folded' = [folded EXCEPT ![p][c] = b]
  BY DEF Fetch
<1>3. ASSUME NEW d \in Contract PROVE Ordered(log[d])'
  <2>1. Ordered(log[d])
    BY DEF KeptInv
  <2> QED
    BY <1>2, <2>1 DEF Ordered, Precedes
<1>4. ASSUME NEW q \in Page, NEW d \in Contract
      PROVE  /\ known'[q][d] \subseteq 1..Len(log'[d])
             /\ folded'[q][d] = refold(log'[d], known'[q][d])
  <2>1. CASE q = p /\ d = c
    BY <1>1, <1>2, <2>1
  <2>2. CASE q # p \/ d # c
    <3> HIDE DEF K, b
    <3>1. known'[q][d] = known[q][d] /\ folded'[q][d] = folded[q][d]
      BY <1>1, <1>2, <2>2
    <3> QED
      BY <1>2, <3>1 DEF KeptInv
  <2> QED
    BY <2>1, <2>2
<1>5. KeptInv'
  BY <1>3, <1>4 DEF KeptInv
<1>6. ClickedInv'
  BY <1>2 DEF ClickedInv, Nothing
<1> QED
  BY <1>5, <1>6

LEMMA ServedInitially == MembersInit => KeptInv /\ ClickedInv
<1> SUFFICES ASSUME MembersInit PROVE KeptInv /\ ClickedInv
  OBVIOUS
<1> DEFINE first == Signed(Owner, Name(Owner), 1, 1)
<1>1. first.lamport = 1
  BY DEF Signed
<1> HIDE DEF first
<1>2. /\ log["org"] = <<first>> /\ log["board"] = << >>
      /\ known = [p \in Page |-> [c \in Contract |->
                    IF c = "org" /\ p = Owner THEN {1} ELSE {}]]
      /\ folded = [p \in Page |-> [c \in Contract |-> refold(log[c], known[p][c])]]
      /\ last = Nothing
  BY ContractsAre DEF MembersInit, first
<1>3. Ordered(log["org"]) /\ Len(log["org"]) = 1
  <2>1. Len(<<first>>) = 1 /\ <<first>>[1] = first /\ DOMAIN <<first>> = 1..1
    OBVIOUS
  <2>2. Range(<<first>>) = {first}
    BY <2>1 DEF Range
  <2> QED
    BY <1>1, <1>2, <2>1, <2>2 DEF Ordered
<1>4. Ordered(log["board"])
  BY <1>2 DEF Ordered, Range
<1>5. ASSUME NEW p \in Page, NEW c \in Contract
      PROVE  /\ known[p][c] \subseteq 1..Len(log[c])
             /\ folded[p][c] = refold(log[c], known[p][c])
  <2>1. known[p][c] = IF c = "org" /\ p = Owner THEN {1} ELSE {}
    BY <1>2
  <2>2. folded[p][c] = refold(log[c], known[p][c])
    BY <1>2
  <2>3. {1} \subseteq 1..1
    OBVIOUS
  <2> QED
    BY <1>3, <2>1, <2>2, <2>3
<1>6. KeptInv
  BY <1>3, <1>4, <1>5, ContractsAre DEF KeptInv
<1>7. ClickedInv
  BY <1>2 DEF ClickedInv, Nothing
<1> QED
  BY <1>6, <1>7

LEMMA ServedStep ==
  ASSUME MembersInv, KeptInv, ClickedInv, Room', [MembersNext]_members_vars
  PROVE  KeptInv' /\ ClickedInv'
<1>1. CASE MembersNext
  <2>1. PICK p \in Page : \/ \E k \in Key : ClickOrg(p, k) \/ ClickBoard(p, k)
                          \/ FoundProject(p)
                          \/ \E c \in Contract : Fetch(p, c)
    BY <1>1 DEF MembersNext
  <2> QED
    BY <2>1, ClickOrgServes, ClickBoardServes, FoundProjectServes, FetchServes
<1>2. CASE UNCHANGED members_vars
  <2>1. /\ log' = log /\ known' = known /\ folded' = folded /\ last' = last
        /\ ahead' = ahead
    BY <1>2 DEF members_vars
  <2>2. KeptInv'
    <3>1. ASSUME NEW d \in Contract PROVE Ordered(log[d])'
      <4>1. Ordered(log[d])
        BY DEF KeptInv
      <4> QED
        BY <2>1, <4>1 DEF Ordered, Precedes
    <3> QED
      BY <2>1, <3>1 DEF KeptInv
  <2>3. ClickedInv'
    BY <2>1 DEF ClickedInv
  <2> QED
    BY <2>2, <2>3
<1> QED
  BY <1>1, <1>2

\* Somebody is called what was said last, by one who may say so.
LEMMA NamesAreKept ==
  ASSUME MembersInv, KeptInv, Room, NEW p \in Page, NEW c \in Contract, NEW k \in Key,
         NEW op, Drafted(c, p, Name(k), op), LastKnown(log[c], known[p][c], op),
         MAY_GRANT \in rights_of(seen(p, c), p),
         LET a == seen(p, c)
         IN  c = "board" => ever_person(a, ever_person(a, p)) = person(a, p)
  PROVE  LET names == IF c = "org" THEN Org!from_state(ops(p, c)).names
                      ELSE Board!from_state(ops(p, c)).names
         IN  k \in DOMAIN names /\ names[k] = p
<1> DEFINE w == ops(p, c)
           a == folded[p][c]
           P == person(a, p)
<1>1. Shaped(c, a) /\ Tidy(c, log[c], known[p][c])
  BY PageIsTidy
<1>2. OpsOf(c, w) /\ authority(w) = a /\ Len(w) > 0 /\ w[Len(w)] = op
  <2>1. Len(log[c]) <= Places /\ a = refold(log[c], known[p][c])
    BY DEF Room, KeptInv
  <2>2. /\ OpsOf(c, w) /\ authority(w) = refold(log[c], known[p][c])
        /\ Len(w) > 0 /\ w[Len(w)] = op
    BY <1>1, <2>1, OpsAre
  <2> HIDE DEF w, a
  <2> QED
    BY <2>1, <2>2
<1>3. p \in Key /\ seen(p, c) = a
  BY PageAssumption DEF seen
<1> HIDE DEF w, a
<1>4. P \in Key /\ ever_person(a, p) \in Key /\ a.held[P] \subseteq a.ever_held[P]
  BY <1>1, <1>3 DEF Shaped, Authorities, person, ever_person
<1>5. ADMIN \subseteq a.held[P]
  <2>1. MAY_GRANT \in a.held[P]
    BY <1>3 DEF rights_of
  <2> QED
    BY <1>1, <1>4, <2>1, AdminsThereAre DEF Shaped
<1>6. SET_NAME \in a.ever_held[P] /\ ADMINISTER \in a.ever_held[P]
  BY <1>4, <1>5, AdminsThereAre
<1>7. CASE c = "org"
  <2>1. ever_person(a, p) = p /\ P = p
    BY <1>1, <1>3, <1>7 DEF Shaped
  <2>2. SET_NAME \in ever_rights_of(a, p) /\ ADMINISTER \in ever_rights_of(a, p)
    BY <1>6, <2>1 DEF ever_rights_of
  <2> QED
    BY <1>2, <1>7, <2>1, <2>2, OrgNames DEF w
<1>8. CASE c = "board"
  <2>1. ADMINISTER \in ever_rights_of(a, ever_person(a, p))
    BY <1>3, <1>6, <1>8 DEF ever_rights_of
  <2>2. SET_NAME \in ever_rights_of(a, p)
    <3>1. CASE ever_person(a, p) = p
      BY <1>3, <1>6, <1>8, <3>1 DEF ever_rights_of
    <3>2. CASE ever_person(a, p) # p
      BY <1>1, <1>3, <3>2 DEF Shaped, ever_rights_of
    <3> QED
      BY <3>1, <3>2
  <2> QED
    BY <1>2, <1>8, <2>1, <2>2, BoardNames DEF w
<1> QED
  BY <1>7, <1>8, ContractsAre

LEMMA ServedIsKept == MembersInv /\ KeptInv /\ ClickedInv /\ Room => OffersAreKept
<1> DEFINE p == last.page
           c == last.at
           k == last.whom
           a == seen(p, c)
<1> SUFFICES ASSUME MembersInv, KeptInv, ClickedInv, Room,
                    last.what # "none", ~InVain(p, c, last.what, k)
             PROVE  Done(p, c, last.what, k)
  BY DEF OffersAreKept
<1>1. /\ p \in Page /\ c \in Contract /\ k \in Key
      /\ last.what \in {"invite", "assign"} =>
           \E op : Drafted(c, p, Name(k), op) /\ LastKnown(log[c], known[p][c], op)
      /\ \/ Vain(c, a, p, last.what, k)
         \/ RightsDone(a, seen(p, "org"), p, last.what, k)
  BY DEF ClickedInv, seen
<1>2. ~Vain(c, a, p, last.what, k)
  BY DEF InVain, Vain, may_invite, OnBoard
<1>3. RightsDone(a, seen(p, "org"), p, last.what, k)
  BY <1>1, <1>2
<1> DEFINE names == IF c = "org" THEN Org!from_state(ops(p, c)).names
                    ELSE Board!from_state(ops(p, c)).names
<1>4. last.what \in {"invite", "assign"} => k \in DOMAIN names /\ names[k] = p
  <2> SUFFICES ASSUME last.what \in {"invite", "assign"} PROVE k \in DOMAIN names /\ names[k] = p
    OBVIOUS
  <2>1. PICK op : Drafted(c, p, Name(k), op) /\ LastKnown(log[c], known[p][c], op)
    BY <1>1
  <2>2. MAY_GRANT \in rights_of(a, p)
    BY <1>3 DEF RightsDone
  <2>3. c = "board" => ever_person(a, ever_person(a, p)) = person(a, p)
    BY <1>2 DEF Vain, ActsForAnother, NamesForAnother
  <2> HIDE DEF p, c, k
  <2> QED
    BY <1>1, <2>1, <2>2, <2>3, NamesAreKept
<1> HIDE DEF names, a
<1> QED
  BY <1>3, <1>4 DEF Done, RightsDone, a, names

\* Whatever the pages offer counts when it is clicked, but for what InVain names,
\* of any number of people and pages, whoever has seen what of the others' ops and
\* whosever clocks are ahead (ui/org.rs:275-286, envelope_state.rs:316-355).  The
\* places of the total order are those of the model, and must be enough.
THEOREM OffersCount == MembersSpec /\ []Room => []OffersAreKept
<1>1. MembersInit => KeptInv /\ ClickedInv
  BY ServedInitially
<1>2. /\ MembersInv /\ KeptInv /\ ClickedInv
      /\ Room' /\ [MembersNext]_members_vars
      => (KeptInv /\ ClickedInv)'
  BY ServedStep
<1>3. MembersInv /\ KeptInv /\ ClickedInv /\ Room => OffersAreKept
  BY ServedIsKept
<1>4. MembersSpec => []MembersInv
  BY MembersSafety, PTL
<1> QED
  BY <1>1, <1>2, <1>3, <1>4, PTL DEF MembersSpec

===============================================================================
