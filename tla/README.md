# freenet-pj: models and proofs

freenet-pj is a project board on Freenet. A board, a task, an organization and
a user are contracts; a contract's state is a set of signed ops that peers
merge; everything a page shows is a fold over such a set. The web client holds
one websocket to a node and drives it through callbacks. This directory models
the places where that design is easy to get wrong: what the contracts accept,
what is made of what they accept, how the client's callbacks interleave, and
what its pages let people do. TLC checks the models; TLAPS proves what matters
most of the contracts and of the client.

Paths below are relative to `src/crates`: `core` is `pj-core/src`, `web` is
`pj-web/src`.

## 1. The system

| part | state it keeps | operations | what makes it correct |
|---|---|---|---|
| rights (`core/rights.rs`) | bits of a `u64` | union, intersection, contains | they are sets |
| authority fold (`core/envelope_state.rs` 122-399) | `Authority`: what each person holds, has ever held, and the person behind each device, now and at first | one step per GRANT, LINK_DEVICE, UNLINK_DEVICE, over the ops in their total order | nobody ends with a right no root gave; history is not disowned |
| envelope state (`core/envelope_state.rs`, `envelope.rs`, `op.rs`) | a map from OpId to signed op | merge, accept_in, validate_in, summary, delta_since | what was accepted stays accepted and reaches everybody, in any order |
| contracts (`pj-board-contract`, `pj-task-contract`, `pj-org-contract`, `pj-user-contract`) | the envelope state, as bytes | validate_state, update_state, summarize_state, get_state_delta | an update is all or nothing, part by part |
| board, task, org and user folds (`core/board.rs`, `task.rs`, `org.rs`, `user.rs`, `devices.rs`) | none: pure functions of an envelope state | from_state, summary, summary_is_stale | the same set gives every peer the same picture |
| registry (`core/registry.rs`, `pj-registry-contract`; `web/store.rs` 380-386, 453-458, 1521-1592) | a set of signed listings; in the page, one pending listing | accept, merge, browse; publish, send, flush | the earliest claim on a target wins everywhere; a listing is sent once it is known whether the directory exists |
| connection (`web/node.rs`, `web/store.rs` 305-376, 524-584, 2148-2196) | sockets, OUTBOX, IS_OPEN, ATTEMPT, the banner | open, close, backoff, Retry, dispatch and flush, resync | no edit is lost, and the page gets back on line by itself |
| open board and publishing (`web/store.rs` 1596-2011, 2198-2270, 2574-2601, 2746-2793) | the board on screen, its ops, what is being waited for, the publish badge | create, open, back, confirm, retry, and every answer about a board | ops of two boards never mix; the badge tells the truth |
| task placement (`web/store.rs` 1630-1737, 2093-2135, 2310-2450, 2603-2744) | the task in hand, one pending placement, the open card, a queue of old cards | create_task, select, close, place_when_stored, convert, retire, and every answer about a task | a card leads to a stored task, once, on the right board, under its own title; each old card becomes one task |
| links and routes (`web/store.rs` 1596-1670, 1740-1850, 1940-2011; `web/ui/mod.rs`) | the view, the URL fragment, and which board, organization and task are held | open, leave, create, Back, Forward, a link, a reload | the screen is that of the address |
| membership (`web/store.rs` 1354-1490, 2142-2196, 2274-2291, 2797-2881; `web/ui/org.rs`, `panels.rs`) | none of its own | admit, promote, name, assign, remove, leave | what is offered is granted, and what may be done is offered |
| ranks (`core/rank.rs`, `core/board.rs` 198-295; `web/store.rs` 1017-1171; `web/ui/board.rs`) | a fraction for each card and column | between, drop, shift, add, rename | a thing lands where it was dropped |
| legacy recovery (`core/legacy.rs`) | none | decode_all, recover_tasks, recover_names, legacy_op_count | old ops are read as what they were |
| profile (`web/store.rs` 698-1010; `web/ui/user.rs`; `core/user.rs`) | the profile of whoever the page acts as | load, create, bookmark, forget, name, link | it is that user's, it says what was done last, and it gets stored |
| identity (`pj-identity-delegate`, `web/identity.rs`, `web/store.rs` 588-716) | a seed per generation of the delegate, and the key in use | ask, adopt, restore | the user stays who they are across upgrades |
| preferences (`pj-prefs-proto`, `pj-prefs-delegate`, `web/store.rs` 1868-1906) | a blob of settings | load, save, switch the theme | a setting survives builds that do not know it |
| user interface (`web/ui`) | none of its own | views over the store, and the controls named above | - |
| ids, parameters, encodings | none | hash, encode, parse | - |

How they meet. The client signs ops and sends each as a delta, or a whole state
on resync, to its node; the node calls the contract on it and passes it on to
other peers; answers and updates come back as events that `Store::handle`
dispatches by instance id. The authority fold is what `validate_in` asks about
every op, and what the folds and the client ask before showing or offering
anything. A task honours the certificates of its organization, which are the
organization's GRANT ops carried along. Secrets (the identity's seed, the
settings) are kept by delegates in the node, which answer like contracts do.

What is hard. On the contract side: parts of updates arrive late, twice, in any
order or never; an op's meaning depends on all the ops of a lower clock,
including those that arrive later; an update of several parts may fail at the
second. In the client: every answer comes through a few variables that several
requests share; a PUT is not acknowledged, so storing is inferred from
reading back, on timers nobody cancels; sockets are replaced and their handlers
are not taken off; the address bar is written by two parties and heard later;
what a button does is judged by readers whose ops are not those of the page.
Each place is listed in PROJECT.json under `hazards`.

## 2. Modules

| module | models | extends |
|---|---|---|
| `Rights` | `core/rights.rs` | |
| `AuthorityFold` | the operators of `fold_authority`: a grant, a link, an unlink, applied to an `Authority` | `Rights` |
| `Authority`, `AuthorityProofs` | the fold as a state machine over any sequence of authority ops | `AuthorityFold` |
| `EnvelopeState` | what a set of ops means: the fold over it, and `validate_in` | `AuthorityFold` |
| `GrowOnlySets` | abstract specification: sets that only grow, by whole batches | |
| `Replicas`, `ReplicasProofs` | peers, the network and the four contract functions, for any policy `Accepts`; that they implement `GrowOnlySets` | |
| `ContractReplicas` | `Replicas` with `EnvelopeState`'s policy (theorems in `ReplicasProofs`) | `EnvelopeState`, `Replicas` |
| `OpLog` | an op of any of the four contracts, the total order, and whether an op is honoured when it is shown | `EnvelopeState` |
| `BoardFold`, `TaskFold`, `OrgFold`, `UserFold` | the `from_state` of each contract, op by op | `OpLog` |
| `Views`, `ViewsProofs` | a page that receives ops in any order and shows the fold of what it has | the four folds |
| `Ranks`, `BoardProofs` | where cards and columns lie, moved on pages that hear of each other late | |
| `LegacyOps` | what ops of one build read as in another, and the recovery of old cards | |
| `Membership`, `PagesProofs` | the controls for people, on several keys' pages | `OpLog`, `BoardFold`, `OrgFold` |
| `Connection`, `SessionProofs` | sockets, outbox, backoff, resync | |
| `Identity`, `SessionProofs` | the seed, across generations of the delegate that keeps it | |
| `Directory`, `SessionProofs` | the registry contract, and pages that instantiate, update and search it | |
| `OpenBoard`, `BoardProofs` | the board on screen and its publish badge | |
| `Placement`, `PlacementProofs` | creating a task and putting its card on a board; converting old cards | |
| `Navigation`, `PagesProofs` | the address, the screen, and what is held for it | |
| `Profile`, `PersonalProofs` | the profile: loading, writing, storing, under one identity or two | |
| `Preferences`, `PersonalProofs` | the settings, in tabs and in the delegate | |
| `MCAuthority`, `MCReplicas`, `MCOpenBoard`, `MCPlacement`, `MCIdentity`, `MCLegacy` | constants for TLC | the module of that name |
| `MCSession` | constants, and how a page starts | `Connection`, `Identity`, `Directory` |
| `MCViews` | constants, and what a page keeps and shows | `Views`, `Ranks`, `Profile`, `Preferences`, `MCLegacy` |
| `MCPages` | constants, and what a browser's pages do | `Navigation`, `Membership` |

`MCSession`, `MCViews` and `MCPages` hold components that do not share state.
Their variable `subject` says which of them moves, and the others stay in one
state; so one run explores each on its own, and every action of each.

**Authority.** `authority` is the `Authority` struct, with a function in place
of each map: a key absent from `held` has no rights, and one absent from
`person_of` stands for itself. An action is one iteration of the loop in
`fold_authority`. Nothing a contract can check limits the order in which ops
are folded, so any key may author anything at any time; an op the fold ignores
leaves `authority` alone. There are two history variables: `issued`, the rights
that grants by a root have asked for, by name, and `signer`, the key that signed
the op folded last, so that a property can say whose word did something.
`ever_members` is the keys that are in the maps at all: a grant of nothing puts
one there, and the lists of members show it as inactive.

**EnvelopeState, Replicas, ContractReplicas.** An op is a record of what the
policy looks at: its place in the total order (which ends in a content hash, so
it is the OpId too), scope, kind, author, target, rights, whether it is signed
and whether its body decodes. A signature is not part of the id, so a badly signed
copy has the id of the original, and which of the two a peer holds depends on
what `or_insert` met first. `state[p]` is what peer p stores. `Submit` is a
client's update at its own node; `Summarize` and `Offer` put summaries and
deltas, perhaps stale, into a network that may drop anything; `Receive` is
`update_state` with one part or two; `Exchange` is one whole round of
synchronisation, on which liveness rests. `Replicas` takes its policy as a
parameter so that what holds for every policy can be proved once.

**OpLog, the folds and Views.** An op is a record with its place in the total
order, its author, kind and operands; titles and texts are model values. Each
fold is a recursive function along the log (`FoldAt`) that takes a step at each
place that counts, as `from_state` loops; what it yields is a record of the
fields a page shows. `IsBody` says what an op of each contract can say, and
`PoolAssumption` that what is written, and can be read, says one of these things:
the variants of the enums in `op.rs`. `Views` has three variables: which contract
is open, the ops received,
and the view folded from them. `Receive` is `accept_in` of one op followed by
the refold. The properties compare a fold with a definition by set comprehension
(the last op on a field, the ops after the last removal), which mentions no
order of arrival and no intermediate state. A client merges what its node sends
without judging it; a union that the contract refuses is `PeersCanMerge`'s
business, so `Views` takes only what the contract accepts.

**Ranks.** A rank is its sequence of digits, to a base that is a parameter (62
in the code), so that gaps fill up within a few moves. The loop
of `midpoint` is written out as what it does: it copies digits of the lower bound
up to the first place at which it ends, where there is room or the upper bound has
run out, and the upper bound counts until the lower one's digit has been just below
its own. That what `between` returns lies strictly between any two bounds is proved
(section 4), and is an assumption of `MCViews` too, so that TLC evaluates it for
every pair of ranks of up to three digits. Each page has
the ops it has heard and the board folded from them; a move reads the one and
writes the other. `aim` is what the last move was to bring about.

**LegacyOps.** bincode writes the index of a variant and then its fields, and
ignores what is left over, so an op of any build reads as whatever has its index
and fits. `entries` is the board's log, written to by an old build, this one and
a newer one; `ReadAs` is decoding, and the recovery of tasks and names and the
count of old ops are as in `legacy.rs`.

**Membership.** `log` is every op written to an organization and to a project of
its, `known` what each page has of them and `folded` what it makes of that. A
click writes a batch of ops, with the proofs that `authority_proofs` sends
along. Clocks may be ahead of one another. The properties compare what a page
offers, what a click writes and what every reader makes of it. The account page
also writes to the open board: a key can be vouched for there or released, any
key but one's own, since what the profile lists (`ui/user.rs`) may have been linked
while no board was open. Renaming oneself there (`set_display_name`,
`web/store.rs` 885-925) is left out: it writes a name, which no control goes by.
`InVain` lists the situations in which a click of a project's sidebar does nothing,
or half of what it says, by who is behind the key that clicks.

**Connection.** A handler of the page runs to its end, so it is one step,
together with the microtask that flushes the outbox. A request is the set of
edits in it. A socket is connecting, open, broken (gone, and nobody knows) or
closed; what is written into a broken one disappears.

**OpenBoard.** `contract_key`, `pending_board`, `params`, `ops`, the status and
`publish` are the store's own fields; an op set is represented by the boards
whose ops are in it. Requests and answers are sets, so anything may overtake
anything. An answer may lack a state or parameters, or hold what does not decode
(`receive_board`): the page has then taken the board's address and nothing else,
and what it signs is refused. `timers` is the bag of `set_timeout` callbacks that
have not run: none is ever cancelled. `acknowledges` is a choice of the node, made once:
whether it acknowledges PUTs. The node this client was written against does not
(`web/store.rs` 2581-2587), and only of such a node do `OneBoardAtATime` and
`BadgeIsAboutOpenBoard` speak.

**Placement.** `pending_placement` and `pending_fetch` are the two slots that
every placement and every fetch share; `cards` and `summaries` are the ops
written to boards, with the board or the task they are really about, which is
what the code does not record. Old cards wait in `legacy_queue`, the one whose
task is being stored is `converting`, and `retired` are the tombstones. The
constant `Patient` is about the user, not the code: a patient user lets one
placement end before doing anything else, and reloads the page on hearing that
one has failed.

**Navigation.** A route is an address of a board, an organization, a task, the
account page or a proposed key. Writing a fragment that differs makes a
hashchange event, heard later, whoever wrote it; `changed` remembers who wrote
last. `screen` is what is drawn, and what the top bar calls it. What a board or
a task holds is left to `OpenBoard` and `Placement`.

**Profile.** A profile's address is made from its owner's key, so it can be
asked for and written to before it is known to exist. `wire` and `answers` are
queues, which a lost connection empties; `outbox` waits for the next one.
`stored` is the network's. `meant` is a history variable: what the user last did
about each board. The user does anything at any time. What is done about a board
while there is something about it that the page has yet to hear (`Unheard`), and
the profile is still being asked for or sent, is done "in the dark": its clock may
be too low to count, and `ListSaysWhatWasDone` does not speak of it. `EarlyActsCount`
says that nothing is, and is refuted (section 3).

**Preferences.** `secret` is the delegate's blob, `prefs` what each tab has of
it, `asking` and `told` the two directions. The delegate may refuse any request, a
load as well as a save, and a page that hears so goes on from no settings. Nothing is
assumed of the user, who may switch the theme before the settings have come, and
keep several tabs. `trouble` and `guessed` are history variables that name what has
gone wrong: of each tab, since it was loaded, that a request was lost or refused,
that the theme was switched while an answer was awaited, or that another tab's
settings were kept after it had its own; of all of them, that a tab has saved
settings it had not been told, or had been refused. The properties speak of what is
left, and that there is nothing else is what they say.

**Identity.** `secret[g]` is what generation g of the delegate keeps,
`requests` and `answers` are the two directions between the page and the node,
and `identity`, `identity_requested` and `migrating` are the page's own. A seed
is numbered by the load of the page and the generation whose entropy it came
from, so that two created seeds always differ. `mine` is a history variable:
the seed under which the user has made something. The constant `Careful` is
about the user: a careful one lets the identity settle before reloading or
restoring a key. A delegate may refuse any request (`Refuse`): the node does not
keep the seed, or the delegate cannot read the request or speaks another version
of the protocol. `Ordered` is about the node. The node copies nothing from one
generation to the next, which is why `ask_predecessors` exists; the comment at
`web/contract.rs:245-249` that an application-side migration is "not yet built"
is older than the code that builds it.

**Directory.** Each page has a node of its own with `directory`, the contract's
state there. `presence`, `pending` and `registry` are the store's
`registry_presence`, `pending_listing` and `registry`. A page that does not know
whether the contract exists holds its listing; whoever says whether it does
flushes it. `Merges` says what a node does when asked to instantiate a contract
it has, and `Patient` whether a user creates a second board before the page
knows. `created` is a day, and `MAX_CLOCK_SKEW` one. `claims` are the listings that
stand, one for each target, and `browse` the newest `BROWSE_LIMIT` of them, which is
what a page shows.

## 3. Runs

| run | bounds | shows |
|---|---|---|
| `authority` | owner and two others (symmetric), four kinds of grant; 1 369 870 states | no right from nowhere; no admin but by a root's word; admins unmade only by their own word or that of an appointer |
| `replicas` | two peers, five batches (six ops, two of them in one batch), two forged parts, two parts and two summaries in flight; 69 116 states | states stay valid, work is vouched for, any two peers can merge, and all of it implements `GrowOnlySets` |
| `replicas_live` | three peers, five ops | every accepted op reaches everybody |
| `open_board` | two boards created, left and opened again, two attempts, one timer waiting, a node that acknowledges PUTs or one that does not, answers that can be read or cannot; 1 838 956 states | one board at a time; the badge is about the board on screen and goes away only when that is stored; storing always ends |
| `session` | six sockets, two edits to a board and one to a task; three generations, any of them skipped, four loads, one restored key; two pages, two boards, one rival claim from the future, one forgery, two days, one board shown at a time, one reload or outage; 511 964 states | every edit to the board reaches the node, and none is ever without somebody to bring it there; the page signs as what the next load finds, and as the same person across rebuilds; an identity arrives; a page's own listings are in the directory or on their way, a claim is displaced only by an earlier one, and news arrives everywhere |
| `placement` | two tasks of one's own, one other, two boards, one or two old cards, two attempts, a patient user; about 976 000 states | cards and summaries are true; a created task gets its card or the user is told; an old card is retired on its own board, if it is the only one not before it is replaced, and comes back once |
| `views` | up to four ops out of a pool of twelve to twenty-two for each kind of contract; two pages with up to three ops between them, ranks to base three; up to four ops of three builds; a profile under two identities, two writes, two requests under way, two outages; two tabs, two clicks, two reloads or outages; 1 347 612 states | every accepted op whose author may is shown; cards, names, a task's fields and bookmarks are what a definition without order says; what was removed stays removed; a drop lands where it was aimed and one's own moves keep things apart; old cards come back as they were last shown; the profile is the user's own, says what was last done by who could know what was there, and is stored; settings of other builds survive, and the theme shown is the one that comes back, but for what is named under Preferences |
| `pages` | two boards to create, one organization that is there and one to create, one task; three people, two of them with a page, up to three grants, links and releases, the founder's clock ahead or nobody's; 2 142 544 states | the screen is that of the address; one organization at a time; the page's own writes of the address do nothing when heard; what is offered is granted, but for what `InVain` names, every power is offered somewhere, and a member's write stands by itself on a peer that has only what was sent with it |

Four runs are expected to fail, each because the code does not do what its own
comments say:

| run | what TLC finds |
|---|---|
| `admin_unmade` | The owner makes Ann an admin (clock 1) and unmakes her (clock 2); Ann, whose node has not seen that, admits Mel (clock 3), who writes (clock 4). One peer holds 1, 3, 4 and another 1, 2; both are valid. Their union is not: in it Ann's grant confers nothing, Mel was never entitled to anything, and neither peer can take what the other has. |
| `identity_lost` | A page of a new generation asks its delegate, which makes a seed; the page is reloaded before an earlier generation has answered. The next load is told the seed is not new, asks nobody, and the user is somebody else from then on. |
| `card_lost` | Two old cards are converted. The first task is stored and gets its card; its timer, which nothing cancels, then fires, finds the placement of the second old card pending, and asks for the first task again. That answer finishes the second placement: the second old card is retired though its task has not been seen to be stored. |
| `misread` | `legacy_op_count` takes an op of this build, the link of a board to its organization, for an old `MoveTask`, and subtracts it from the entries it cannot read. An entry of a newer build then goes unmentioned on a board with nothing old on it. |

More properties state what a comment, or the README of the repository, says and
TLC refutes. Each stands under its own heading at the end of its module. To
see a counterexample, put the property in place of those of the configuration
named, with the constants given (without `SYMMETRY`; where the configuration
says `FairSpec`, the specification without fairness is enough for all but the
temporal ones):

| property | configuration | constants | what happens |
|---|---|---|---|
| `OwnerNeverShort` | `MCAuthority_safety` | | a member links the owner's own key as a device, and it then acts with the member's rights |
| `NoDeviceChain` | `MCAuthority_safety` | | a device's person becomes a device |
| `DeviceActsInFull` | `MCAuthority_safety` | | the two maps of devices disagree about one of them |
| `FirstRetryAfterOneSecond` | `MCSession_start` | | the first wait is two seconds |
| `TaskEditsReachNode` | `MCSession_start` | | an edit to the open task written into a dead connection is never offered again: `resync` covers the board, the organization and the profile |
| `IdentityAfterOutage` | `MCSession_start` | | the one question is lost with the connection, and `resync` asks no delegate |
| `SamePerson` | `MCIdentity_lost` | `Generations = 3`, `Careful = TRUE`, `Ordered = FALSE` | an older generation answers before a newer one and is believed |
| `RestoredStays` | `MCIdentity_lost` | | a late answer of an old generation replaces the key just restored |
| `EveryBoardListed` | `MCSession_start` | `Faults = 0`, `Patient = FALSE` | of two boards created before the page knows of the directory, one is never listed |
| `DirectoryOnlyGrows` | `MCSession_start` | `Merges = FALSE` | a page that was told nobody has the directory overwrites it |
| `ClaimsStandInSearch` | `MCSession_start` | | a later claim under another name shows for that name |
| `AskedBeforeUnconfirmed` | `MCOpenBoard_safety` | `MaxTimers = 2` | a timer left over from before "Publish again" counts for the new attempt |
| `CardsAreTrue` | `MCPlacement_user` | `Patient = FALSE` | while a task is being stored another card is opened, and its arrival writes the new card, or a title on the wrong one |
| `CreatedIsPlacedOrTold` | `MCPlacement_user` | `Others = {}`, `Board = {b1}`, `Patient = FALSE` | two tasks in quick succession share one slot; one is stored, gets no card, and nobody is told |
| `OldCardsComeBackOnce` | `MCPlacement_user` | `Patient = FALSE` | a conversion that was given up leaves its card in `converting`, and the next task created by hand retires it |
| `CardsWhereWanted` | `MCPlacement_user` | `Patient = FALSE` | a card on the board that is open when the task reads back |
| `ToldMeansNoCard` | `MCPlacement_user` | | the last question and giving up are one step, and the answer still writes the card |
| `ButtonsFollowAuthority` | `MCViews_all` | `Contracts <- Boards` | the rights by which a page shows its buttons to a key are not those the authority gives it |
| `NoGhostLinks` | `MCViews_all` | `Contracts <- Users` | a device unlinked and linked again is dated by its first link |
| `NamedByOthers` | `MCViews_all` | `Contracts <- Orgs` | a device of a device names people with the rights of a third person |
| `DevicesWorkIsShown` | `MCViews_all` | `Contracts <- Orgs` | what a device's device adds to an organization is accepted with one person's rights and judged with another's when it is shown: so of the owner's own device, once the owner's key has been linked as a member's device |
| `RanksNeverCollide` | `MCViews_all` | | two pages put cards into one gap and give them one rank |
| `DropsLand` | `MCViews_all` | | a card dropped between two of equal rank, or onto the strip above itself, lands elsewhere |
| `TakenOffStaysOff` | `MCViews_all` | | a card moved by somebody who has not heard that it was taken off is back |
| `OrganizationWasGiven` | `MCLegacy_misread` | `Written <- Writings` | an old op reads as a link to an organization nobody gave the board |
| `OldCardsAreHidden` | `MCLegacy_misread` | `Written <- Writings` | an old op reads as a card of no task |
| `NamesStand` | `MCLegacy_misread` | `Written <- Writings` | converting writes an old name over one given since |
| `NewProfilesAreStored` | `MCViews_all` | | the PUT of a new profile is lost, and `resync` updates what nobody has |
| `ForgottenStaysForgotten` | `MCViews_all` | | `resync` asks for the open board, which is then bookmarked again |
| `EarlyActsCount` | `MCViews_all` | | what is written before the profile has come, as `boot` itself does for a board's address, may have a clock too low to count |
| `NoSaveBeforeLoad` | `MCViews_all` | | the theme switched before the settings have come is saved |
| `NoSettingWiped` | `MCViews_all` | | and that save loses the settings that were there |
| `EarlySwitchesStay` | `MCViews_all` | | and the answer to the load, heard after, shows the theme that was kept before it |
| `TaskPageComesBack` | `MCPages_all` | | Back to a task's address selects the task, and another page stays on screen |
| `EscapeOnlyCloses` | `MCPages_all` | | closing a task rewrites the address, and hearing of it opens the board again |
| `TasksAnswerToTheirBoardsOrg` | `MCPages_all` | | a new task answers to the organization that is held, which need not be its board's |
| `PanelIsOfOwner` | `MCPages_all` | | the sidebar's panel is that of the organization that is held |
| `NoButtonLies` | `MCPages_all` | | a button about somebody who has been removed does nothing |
| `InviteRidesAlong` | `MCPages_all` | `Page <- Three` | the one grant sent along with a member's first write is not the one it needs |

No comment promises `NothingTakenByInviting` of `Membership`, and it does not hold
either (`MCPages_all`): to invite an administrator of the organization as a
member is to unmake them.

`BetweenIsShortest(ShortRanks)`, in place of `BetweenIsBetween` in the assumption
of `MCViews`, is refuted too: what `between` returns lies strictly between its
bounds, and is not always the shortest fraction that does.

Properties that are stated and have no run of their own: those of `Authority`,
`Replicas` and `Connection` that are proved (section 4), and `ConnectionSettles` of
`Connection`, `OnlyNewSeedsReplaced` of `Identity` and the type invariants of
the client's modules, which TLC confirms in the configuration of each.

**Why the bounds are enough.** Three keys are the fewest with a root, an admin
and somebody the admin appoints or claims as a device; the theorems cover more
keys and an organization's roots. Two peers and two parts in flight allow every
overtaking and duplication of two messages, and two parts per update are enough
for the first to succeed and the second to fail. Six sockets are enough for the
backoff to reach its cap, a stale socket to open after its successor was made,
and a timer and Retry to make two at once. Two boards or tasks of one's own and
one of somebody else's let an answer about each arrive while another is open;
two attempts are the fewest with a retry that is not the last. `MaxSockets` and
`MaxTimers` are bounds of the models; `Attempts` is a constant of the code (15
there). The backoff's 30 s cap is the code's. Four ops are the fewest with a
column, a card in it, something that removes either and something that comes
late. Three generations are the fewest with two earlier ones that may both hold
a seed, and four loads visit them and come back once. In `Directory` two days
let the rival's claim, two days ahead, come of age while one's own stands. To
base three a gap is full after two moves into it, where to base 62 it takes six
or so. Three grants are the fewest with an invitation, a promotion and a removal; most of
what `InVain` speaks of takes longer chains of links and releases, and is left to
the theorem, which has no bound. No contract gets more than eight ops, and there are twelve places.
Two identities and two writes are the fewest with a write under each, or one that
goes out and one that has to wait; with three writes and one outage the profile
alone has 3 579 194 states and shows nothing else. Two tabs and two switches let each
tab save what the other has not heard of. With `BROWSE_LIMIT` one, the second board
takes the place of the first.

**Fairness.** `Replicas`: each pair of peers goes on synchronising, the
network's promise. `Connection`: timers fire, a connection attempt ends, a
dead connection is noticed; nothing is assumed of the user, and failures are
finite because sockets are. `Identity`: the timer that asks fires, delegates
answer, answers arrive. `Directory`: nodes answer, answers arrive, nodes that
have the contract synchronise and tell their subscribers. `OpenBoard`: timers
fire; the node owes nothing. `Placement`: timers fire; the node need not answer.
`Profile`: the node takes requests and answers arrive, and the page connects
again, which `Connection` shows under weaker assumptions.

**Deadlock** is not checked in five runs, where a bound ends the behaviour:
`session` once every socket permitted has been used, after the last load, or once
everything has been created and everybody knows; `views` once the log is full and
all writes are made; `pages` once all grants are; `identity_lost` and `misread` likewise.

## 4. Proofs

Each component's proofs state an inductive invariant, a lemma that every step
keeps it, or one lemma for each action, and the theorems that follow. Each
property of the runs that is proved is proved for any values of the constants;
where the run's constants say that the user waits (`Patient` of `Placement` and
`Directory`, `Careful` of `Identity`), or what the node does, the theorem assumes the
same, and no more.

| module | proves, of the runs' properties |
|---|---|
| `AuthorityProofs` | `NoForgedRight`, `TwoTiers`, `AdminsUnmadeByAppointers` |
| `ReplicasProofs` | `StatesStayValid`, `ImplementsGrowOnlySets`, `WorkIsVouchedFor`; `PeersCanMerge` if only roots grant and nobody is linked |
| `ViewsProofs` | `AcceptedWorkIsShown`, `ShownAsDone`, `NothingComesBack` |
| `SessionProofs` | `NoEditAbandoned`, `NextLoadAgrees`, `SamePerson`, `OwnListingsCount`, `ClaimsStand` |
| `BoardProofs` | `OneBoardAtATime`, `BadgeIsAboutOpenBoard`, `SettledMeansStored`; `LandsWhereAimed`, `OwnMovesKeepApart`, and `BetweenIsBetween` of all ranks |
| `PlacementProofs` | `CardsAreTrue`, `OldCardsComeBackOnce` |
| `PagesProofs` | `OneOrgAtATime`, `ScreenIsOfAddress`, `NothingReenters`, `OffersAreKept`, `EveryPowerIsOffered`, `WritesStandAlone` |
| `PersonalProofs` | `OwnProfile`, `ListSaysWhatWasDone`, `OthersSettingsKept`, `ThemeComesBack` |

**Authority.** `AuthorityProofs` proves, for any set of keys, any roots and any
rights a grant may name, the type invariant and `NoForgedRight` and `TwoTiers`
of the `authority` run; and that the roots keep every right they have
(`RootsKeepAll`), that behind each device there is a person who has had standing
(`VouchersHadStanding`), that what was ever held grows (`EverHeldGrows`), that
present rights were held before (`HeldWasHeld`), that a device passes from one
person to another only by way of itself (`NeverRepointed`), and that an admin is
unmade only by an op that it signed itself, or a device of its, or that somebody
signed who may appoint (`AdminsUnmadeByAppointers`, about `signer`: an admin may
grant nothing to anybody, and the fold does not honour it of a peer). The
invariants need one another: only together are they inductive, and `IInv` is
their conjunction. That present rights were held is what makes an admin's
standing count towards what the admin confers, and the type puts a key behind
every key. The argument for `NoForgedRight` is that a grant confers at most what
its author holds, so the union of all that roots have issued bounds every
holding, whoever passes it on.

**Replicas.** `ReplicasProofs` proves, for any peers, any batches, any forgeries
and any network, that peers hold only valid states of ops that were written, that
what travels is a copy (`PartsAreCopies`), that no step makes a peer forget
(`NothingForgotten`), and that the replicas implement `GrowOnlySets`. Three
assumptions about the policy are used, all stated in `Replicas`: ids are content
addresses, the empty state is acceptable, and an acceptable state has no forged
op. TLC evaluates them for the real policy. The refinement maps `sets` to
`state`; `Submit` is an `Add`, `Receive` and `Exchange` are a `CatchUp`, because
an update of two parts adds a subset of what some peers already have, and the
rest stutters. Copies are needed for `CatchUp`, validity because an update that
changes nothing must leave a valid state.

**ContractReplicas.** For the real policy the same module proves
`WorkIsVouchedFor`. What an op's author may do depends on the fold over the
authority ops of a set, which is a recursive function of the place in the total
order; the lemmas show by induction on the place that the function exists, that
it yields an `Authority` at every place, and that at every place whoever was ever
given a right, and whoever is behind a device, has the chain of grants and links
in the set (`Certified`). `PeersCanMerge` is not so (run
`admin_unmade`); it is proved where only roots grant and nobody is linked
(`RootsGrant`, as on a board whose organization appoints no admins). Then what a
key was ever given at a place is the union of what the roots' grants before it
name (`GrantedUpTo`), which can only be more in the union of two states.

**Views.** `ViewsProofs` proves `AcceptedWorkIsShown`, `ShownAsDone` and
`NothingComesBack`, for any keys, any ops whose bodies are of the contract's kinds
(`PoolAssumption`) and any order of arrival. A fold takes one op at a time, a reader
speaks of the last op on a field and of the ops after the last removal. So each fold
has a closed form
(`TaskAt`, `Bookmarks`, `Standing`, `Kept`, ...), a statement in terms of last
places about the first n ops of the log, which one more op is shown to move as
the fold's step does (`TaskMoves`, `BookmarksAre`, ...); a recursive function and
its closed form, which start alike and go on alike, are alike at the end
(`SameUpTo`). `ViewsInv` says that the page shows the fold of what it has, and
that the contract accepts that. Of cards, the fold's map of tasks and the removal
of columns afterwards have a closed form each. That accepted work is shown rests
on `DeclaredWasHeld`: what an op declares, its author has ever held by the end of
the fold, which is what `validate_in` asked. Organizations look an author up
twice: with `Plain` (nobody's person has been somebody's device) the second time
changes nothing, and without it the property is refuted (`DevicesWorkIsShown`).
`NothingComesBack` compares what is shown before and after one more op, which moves
every later op on by a place. What is shown is as fresh as all that was said of it
(`LastingIsShown`, from the closed forms), and what was said stays said
(`SaidStaysSaid`). The latter takes an assumption, `DeclaresNeeds`: a summary and a
removal declare the rights they need, as `envelope` makes every op of this client
do (op.rs). The contract holds an op to what it declares and no more, so an op that
declares too little may count, and cease to count when an unlinking arrives ahead
of it. TLC evaluates the assumption for the ops of the `views` run.

**Navigation.** `PagesProofs` proves `OneOrgAtATime`, `ScreenIsOfAddress`
and `NothingReenters` for any boards, organizations and tasks. That the screen is
that of the address is not inductive. What is: a page that has heard every change
of its URL is where `route_changed` would take it (`Followed`); until it has
booted it has looked at nothing (`JustLoaded`); an address the page wrote itself
already agrees with the page (`OwnWrites`), which is what makes hearing of it
empty; and the board and the organization that are held are those last asked for.
The proof needs no contract to be both a board and an organization.

**Membership.** `PagesProofs` proves `EveryPowerIsOffered` and `WritesStandAlone` for
any keys, any clocks that are ahead and any number of grants, where the founder of
the organization owns its projects (`PageAssumption`). Pages have heard different
ops, and any op may land anywhere in the order, so nothing is known of a page's fold
but what every op the code writes keeps: for that, `FoldStays` proves once that what
holds of the empty Authority and is kept by each op holds of `authority_in` of them
all. Ops of an organization grant members' and admins' rights and link nobody, which
keeps everybody their own person and the founder the only one who may appoint
(`Tiered`); then the rules of the controls and of the fold coincide. Ops have numbers
of their own (`GoodLog`), what a click writes comes on top of what was there, and
each batch carries the proofs that were there before (`Continues`,
`SentWithProofs`, by induction along what is written at once); so the grant that
`WritesStandAlone` speaks of was there to be sent. That a node with nothing takes
the two is the fold of two ops, worked out (`FoldOfTwo`, `ProofIsEnough`).

`OffersAreKept` is about what comes after the click: that the op just written is
the last word, by the fold of the page that wrote it. `KeptInv` says that a
contract's ops are in their total order and that a page goes by the fold of those it
has. An op is stamped past all the page has, so that in the order it comes after
all of those, though not after all there are (`NextIsAhead`, `EmitIsTidy`). Then
the page's new fold is the old one with the op folded last (`LastIsFoldedLast`),
and nobody else's fold is changed by it (`UnknownIsNoChange`): each a comparison of
two recursive functions, place by place, along logs that differ by one op. What is
left is about one Authority: whoever is offered a control may do by the fold's
rules what it does (`OrgOffers`, `BoardOffers`, with `Shaped` for what every op the
code writes keeps), and the name that is given comes last of what the page folds, so
that it stands (`OpsAre`, `OrgNames`, `BoardNames`). The theorem assumes `Room`: the
order of the model has `Places` places, where that of the code has no last one, and
a log may not outgrow them. What `InVain` excepts is what the proof could not do
without, and so it is complete, and it says when: the board's controls go by the
rights of the person behind a key now, the fold by those of the key's person at
first or of that person's own person, and links and releases take these apart.

**OpenBoard.** `BoardProofs` proves `OneBoardAtATime`, `BadgeIsAboutOpenBoard`
and `SettledMeansStored` for any boards, attempts and timers. `IInv` adds that
answers are true when they are given and stay so, a node forgetting no board
(`AnswersAreTrue`), whether or not they can be read, that there is no badge without a board to retry
(`BadgeHasBoard`), and, of a node that acknowledges no PUT, that what has arrived
is of the board last asked for (`OneBoard`). The third is what an acknowledgement
would break: it takes the page back to a board it has left.

**Ranks.** `BoardProofs` proves `BetweenIsBetween` for ranks of any length to any
base (`BetweenAlways`), and `LandsWhereAimed` and `OwnMovesKeepApart` for any pages
and any number of columns, cards and ops. Comparing strings is comparing fractions,
digits past the end being zeros, since no rank ends in a zero (`BelowIsLess`); so
ranks are in one order (`BelowIsOrder`), and what `midpoint` returns is told by the
place where it ends, which is there because the bounds have ends (`MidpointIs`).
A sorted row has each thing behind as many as are ahead of it, which is what sorting
by counting comes to (`SortedIs`, from `AheadGrows`). Then `Lands` says of any row in
which no two ranks are equal: a thing that is taken out of it and given the rank
between the neighbours it will have at the k-th place comes to lie there, with what
was k-th of the others next, and no two ranks are equal still. Each move is an
instance, once it is known that the board a page shows is the fold of what it has
heard (`RanksInv`) and that the op just written is the last word on its card or column
and leaves all else where it was (`PlacedNow`, `SetNow`), since it is stamped past
all the page has (`EmittedIs`). For a shifted column that says that the two
neighbours `shift_rank` looks up among all columns are those it will have among the
others. Nothing is assumed of what the others write meanwhile but that no two ops
have one stamp.

**Placement.** `PlacementProofs` proves `CardsAreTrue` and `OldCardsComeBackOnce`
for any tasks, boards, old cards and attempts, and a patient user; types hold
whatever the user does. With a patient user one task at a time is in hand: open,
asked for, or waiting for its card (`InHand`); then the one answer that can write
a card is about the task whose card is owed, and shows that task (`Truthful`).
What is offered for conversion, waits for it or is being converted is an old card
of the board that is open (`Places`): that much holds with a queue. That an old
card comes back once needs more, and the code gives it only where every board has
at most one old card (`Alone`; with two, run `card_lost`): nothing ever waits
(`InTurn`), the card being converted has one task and no tombstone yet, and what
is retired is not offered again (`Conversions`, `OneCardEach`).

**Connection.** `SessionProofs` proves `NoEditAbandoned` and `RecoveryUnderWay` for
any edits and any number of sockets. The second is inductive but for types. The first
is about three mechanisms that cover for one another, and `SocketsCover` says how:
while the socket that requests are written into is closed, a timer is waiting to
replace it, so that what is written is lost only on a broken one, which will be
noticed; and when the page takes the next opening for its first, after which nothing
is offered again, that is so because the user has retried, and what the user did not
wait for, a timer or an earlier socket, is still to come and will offer everything. A
Retry that called the timer off would abandon edits: that is the mutant of
`NoEditAbandoned`.

**Identity.** `SessionProofs` proves `NextLoadAgrees` and `SamePerson` for any
number of generations and loads, a careful user and delegates that answer in the
order they are asked. The invariant is a list of the stages a page goes through:
it has asked its own generation (`Starting`), which has made a seed (`Made`), so it
asks the earlier ones, newest first, and the seed it will first hear of is the one
the user works under (`Searching`); that seed is being put in place of the new one
(`Replacing`); it is kept (`Settling`). Each action leads from a stage to itself or
the next. A refused seed or a lost connection leaves the stages; the properties
do not speak of what follows (`spoiled`).

**Directory.** `SessionProofs` proves `OwnListingsCount` and `ClaimsStand` for
any pages, boards, rivals and days, for nodes that merge and users who wait; these
two are the assumptions of each theorem. `ClaimsStand` says of what a page shows that
its claim stands, and that no later one is shown, whatever `BROWSE_LIMIT` is.
`DirectoryInv` adds that an update is sent
only where there is something to update (`UpdatesLand`), that what a page holds
back it shows (`HeldIsShown`), and that what a page was told is still there
(`ToldIsKept`). That only an earlier claim displaces another needs that among
the listings of a target one comes first, which the library's theorem on
well-founded orders gives for days and again for hashes.

**Profile.** `PersonalProofs` proves `OwnProfile` for any users and boards, and with
no assumption about the user: every request waiting or on its way, every answer
and every profile stored is of the one it is about, so an answer about an earlier
identity is told from one about this. `GoodRequests` and `GoodAnswers` are the
strengthening. It proves `ListSaysWhatWasDone`, with no assumption about the user
either. What is done about a board comes last if its clock is past all there is about
that board, which needs all of that to be known: `KnownOf` says so of a board about
which something has been done that counts, and stays so, since all that is on its way
afterwards is what the page had. A user who waits has it by another route: whoever
has heard of the profile, with nothing on its way, knows all of it, since what is not
known is asked for later in the queue or about to be heard (`Informed`,
`WillBeHeard`), which the two queues, taken apart at their heads, keep.

**Preferences.** `PersonalProofs` proves `OthersSettingsKept` for any number of
tabs: as long as nobody has saved what they could not know, what is kept, what a
tab has that was not refused, what it is saving and what it is being told agree as
to settings of other builds (`Agreed`). It proves `ThemeComesBack` for any number of
tabs, whatever is switched, refused and loaded again elsewhere: a tab without trouble
is in step (`InStep`), which is to say that what it will next be told, what its last
save will keep, or what is kept, is what it has, and it shows the theme it has. Of
two tabs the later save wins, and the other, which is then behind, shows what it
showed.

**Only model-checked.** Liveness everywhere: the prover has no rule for fairness.
`PeersCanMerge` with admins and devices holds in the `replicas` run because the ops
there include none that unmakes an admin. Of the rest no proof has been
attempted, or none has been finished:
- `RecoveredAsShown`: a comparison of two readings of a log, op by op.
- `BadgeIsAboutOpenBoard` on a node that acknowledges, of which it says
  nothing.

What a recursive definition computes for every input is out of reach where the
recursion follows data; along a log it is not, since the places of a log are
numbers and well-founded induction on them needs no operator as a parameter.

## 5. Not modelled, and the plan

Left out for good: encodings, hashes and signatures (an op verifies or it does
not), the parsing of links and keys that somebody pastes, the clipboard, logging
and the text of notices; of the user interface, the fields of the task page, the
list of the directory and the layout, which keep no state that anything else
depends on. Of the identity, what a restored one does to what is on screen; of a
rank, that one which is not canonical is refused, since the program makes none.

Planned: `Cards`: a task and the boards it is on together. A summary carries the
task's `lamport`, the greatest clock among its ops, so two different reads
can have an equal one; whether the fresher always wins is a question for
`TaskFold`, `Placement` and `BoardFold` composed.
