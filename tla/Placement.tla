----------------------------- MODULE Placement ------------------------------
(***************************************************************************)
(* Putting a new task's card on a board, in the web client                 *)
(* (pj-web/src/store.rs).  A task is a contract of its own: it is sent to  *)
(* the node with a PUT and its card is written once the node serves it     *)
(* back.  The answers go through the same few variables as those about a   *)
(* task that is being opened.                                              *)
(*                                                                         *)
(* The node acknowledges no PUT (store.rs:2581-2587), takes requests in    *)
(* any order, and its answers arrive in any order; two identical requests  *)
(* or answers in flight count as one.  The user has the right to write on  *)
(* every board, and a board is loaded as soon as it is opened.             *)
(*                                                                         *)
(* Old cards, from before tasks were contracts, are converted by the same  *)
(* means: each becomes a task whose card replaces it, one after another,   *)
(* and is then retired with a tombstone on the board.                      *)
(***************************************************************************)
EXTENDS Naturals, Sequences, SequencesExt, FiniteSets, Bags

CONSTANTS
  Mine,      \* tasks this user may create
  Old,       \* what old cards the boards may hold: functions from Board to
             \* sequences of them, in the order they were made
  Others,    \* tasks with a card on every board already
  Board,
  None,
  Attempts,  \* PUBLISH_CONFIRM_ATTEMPTS
  Patient    \* whether the user lets one placement end before doing more

Task == Mine \cup Others

ASSUME TasksAssumption ==
  /\ Mine \cap Others = {}
  /\ None \notin Task \cup Board
  /\ Attempts \in Nat \ {0}
  /\ Patient \in BOOLEAN

OldCards == UNION {ToSet(f[b]) : f \in Old, b \in Board}

\* Every old card is somewhere, and on one board only.
ASSUME OldAssumption ==
  /\ Old \subseteq [Board -> Seq(OldCards)]
  /\ None \notin OldCards
  /\ \A f \in Old : \A b, c \in Board : b # c => ToSet(f[b]) \cap ToSet(f[c]) = {}

VARIABLES
  board,       \* the open board, or None
  selected,    \* the card that is open, or None
  task_key,          \* the task in hand, or None
  task_params,       \* the task edits to it are signed for, or None
  task_ops,          \* the tasks whose ops are in its op set
  pending_fetch,     \* pending_task_fetch: the task asked for, or None
  pending_placement, \* the task whose card is owed, or None
  timers,      \* the bag of placements that wait for their timer
  requests, answers, installed,  \* as in OpenBoard
  old,            \* the old cards of each board
  legacy_tasks,   \* those the page offers to convert
  legacy_queue,   \* those that wait for their turn, which comes from the end
  converting,     \* the one whose task is being stored, or None
  migrating_board,
  retired,        \* the tombstones written: <<old card, board>>
  cards,       \* the cards written: <<task, board>>
  summaries,   \* the summaries written: <<card's task, summarised task>>
  wanted,      \* history: <<task, board it was created on>>
  replaces,    \* history: <<task, old card it was made of>>
  told         \* history: tasks the user was told have no card

task == <<task_key, task_params, task_ops, pending_fetch>>
network == <<requests, answers, installed>>
legacy == <<legacy_tasks, legacy_queue, converting, migrating_board>>
written == <<cards, summaries, retired>>
history == <<old, wanted, replaces, told>>
vars == <<board, selected, task, pending_placement, timers, network, legacy,
          written, history>>

Get(t) == [ask |-> "Get", task |-> t]
Put(t) == [ask |-> "Put", task |-> t]
Answer(a, t) == [answer |-> a, task |-> t]

\* A patient user waits for the card, or reloads the page on hearing there is
\* none, and closes a task before making another or going elsewhere.
Free == Patient => pending_placement = None /\ timers = EmptyBag

\* Tasks that have not been created yet, and whether there are so many left (a
\* bound: the old cards that are offered can all be converted).
Unused == Mine \ {w[1] : w \in wanted}
AtLeast(n) == Cardinality(Unused) >= n

-----------------------------------------------------------------------------

Init ==
  /\ board \in Board
  /\ selected = None
  /\ task_key = None
  /\ task_params = None
  /\ task_ops = {}
  /\ pending_fetch = None
  /\ pending_placement = None
  /\ timers = EmptyBag
  /\ requests = {}
  /\ answers = {}
  /\ installed = Others
  /\ old \in Old
  /\ legacy_tasks = old[board]
  /\ legacy_queue = << >>
  /\ converting = None
  /\ migrating_board = FALSE
  /\ retired = {}
  /\ cards = Others \X Board
  /\ summaries = {}
  /\ wanted = {}
  /\ replaces = {}
  /\ told = {}

-----------------------------------------------------------------------------
(* What the user does.                                                     *)

drop_task == task_key' = None /\ task_params' = None /\ task_ops' = {}

\* select_task and fetch_task.
Select(t) ==
  /\ Free
  /\ board # None /\ <<t, board>> \in cards
  /\ selected' = t
  /\ IF task_key = t
     THEN UNCHANGED <<task, requests>>
     ELSE /\ drop_task
          /\ pending_fetch' = t
          /\ requests' = requests \cup {Get(t)}
  /\ UNCHANGED <<board, pending_placement, timers, answers, installed, legacy,
                 written, history>>

close_task ==
  /\ selected # None
  /\ selected' = None
  /\ drop_task
  /\ pending_fetch' = None
  /\ UNCHANGED <<board, pending_placement, timers, network, legacy, written,
                 history>>

\* A mutated form: tombstones are not read.
RecoveredAlways(b, tombs) == old[b]

\* recover_tasks: a tombstone retires an old card for everyone.
Recovered(b, tombs) ==
  LET upto[n \in 0..Len(old[b])] ==
        IF n = 0 THEN << >>
        ELSE IF <<old[b][n], b>> \in tombs THEN upto[n - 1]
        ELSE Append(upto[n - 1], old[b][n])
  IN  upto[Len(old[b])]

\* detect_legacy, whenever the open board is folded again.
Detected(b, queue, tombs) ==
  IF b = None \/ queue # << >> THEN legacy_tasks ELSE Recovered(b, tombs)

\* open, of a board other than the one that is open, or back: `back` leaves
\* the task in hand too.
Visit(b) ==
  /\ Free
  /\ Patient => selected = None
  /\ board # b
  /\ board' = b
  /\ selected' = None
  /\ legacy_tasks' = Detected(b, legacy_queue, retired)
  /\ UNCHANGED <<task, pending_placement, timers, network, legacy_queue,
                 converting, migrating_board, written, history>>

\* The page is reloaded, and keeps only its address.  The model's user does so
\* when every card is placed or given up; sooner, a reload would abandon the
\* placement and leave the task without a card.
Reload ==
  /\ \A w \in wanted : w \in cards \/ w[1] \in told
  /\ selected' = None
  /\ drop_task
  /\ pending_fetch' = None
  /\ pending_placement' = None
  /\ timers' = EmptyBag
  /\ requests' = requests \cap {Put(t) : t \in Mine}
  /\ answers' = {}
  /\ legacy_tasks' = IF board = None THEN << >> ELSE Recovered(board, retired)
  /\ legacy_queue' = << >>
  /\ converting' = None
  /\ migrating_board' = FALSE
  /\ UNCHANGED <<board, installed, written, history>>

\* place_when_stored, of a placement that has attempts left.
Park(t, attempt, others) ==
  /\ pending_placement' = t
  /\ pending_fetch' = t
  /\ timers' = others (+) SetToBag({<<t, attempt>>})

\* A mutated form: the card is written at once.
CreateWithCard(t) ==
  /\ Free
  /\ board # None /\ t \in Unused /\ AtLeast(Len(legacy_tasks) + 1)
  /\ cards' = cards \cup {<<t, board>>}
  /\ requests' = requests \cup {Put(t)}
  /\ wanted' = wanted \cup {<<t, board>>}
  /\ UNCHANGED <<board, selected, task, pending_placement, timers, answers,
                 installed, legacy, summaries, retired, old, replaces, told>>

create_task(t) ==
  /\ Free
  /\ Patient => selected = None /\ task_key = None
  /\ board # None /\ t \in Unused /\ AtLeast(Len(legacy_tasks) + 1)
  /\ wanted' = wanted \cup {<<t, board>>}
  /\ requests' = requests \cup {Put(t)}
  /\ Park(t, 1, timers)
  /\ UNCHANGED <<board, selected, task_key, task_params, task_ops, answers,
                 installed, legacy, written, old, replaces, told>>

\* migrate_next: the last of the queue, as a task t of its own.
MigrateNext(t, queue, others, sent) ==
  LET l == queue[Len(queue)]
  IN  /\ legacy_queue' = SubSeq(queue, 1, Len(queue) - 1)
      /\ converting' = l
      /\ requests' = sent \cup {Put(t)}
      /\ wanted' = wanted \cup {<<t, board>>}
      /\ replaces' = replaces \cup {<<t, l>>}
      /\ Park(t, 1, others)

\* "Convert them", which is there while old cards are offered.  If there are
\* names to write first, the board is folded again.
migrate_legacy(t) ==
  /\ Free
  /\ Patient => selected = None /\ task_key = None
  /\ board # None /\ legacy_tasks # << >>
  /\ t \in Unused /\ AtLeast(Len(legacy_tasks))
  /\ legacy_tasks' \in {legacy_tasks, Detected(board, legacy_queue, retired)}
  /\ migrating_board' = TRUE
  /\ MigrateNext(t, legacy_tasks, timers, requests)
  /\ UNCHANGED <<board, selected, task_key, task_params, task_ops, answers,
                 installed, written, old, told>>

\* A mutated form: an exhausted placement says nothing.
PlaceSilently(t, attempt) ==
  LET others == timers (-) SetToBag({<<t, attempt>>})
  IN  /\ BagIn(<<t, attempt>>, timers)
      /\ IF pending_placement # None /\ attempt < Attempts
         THEN Park(t, attempt + 1, others)
         ELSE timers' = others /\ UNCHANGED <<pending_placement, pending_fetch>>
      /\ requests' = requests \cup {Get(t)}
      /\ UNCHANGED <<board, selected, task_key, task_params, task_ops, answers,
                     installed, legacy, written, history>>

\* The timer set by place_when_stored: nothing is owed any more, or ask for
\* the task and park its placement again, or give it up.
PlaceWhenStored(t, attempt) ==
  LET others == timers (-) SetToBag({<<t, attempt>>})
  IN  /\ BagIn(<<t, attempt>>, timers)
      /\ \/ /\ pending_placement = None
            /\ timers' = others
            /\ UNCHANGED <<pending_placement, pending_fetch, requests, told>>
         \/ /\ pending_placement # None
            /\ requests' = requests \cup {Get(t)}
            /\ IF attempt + 1 > Attempts
               THEN /\ told' = told \cup {t}
                    /\ timers' = others
                    /\ UNCHANGED <<pending_placement, pending_fetch>>
               ELSE Park(t, attempt + 1, others) /\ UNCHANGED told
      /\ UNCHANGED <<board, selected, task_key, task_params, task_ops, answers,
                     installed, legacy, written, old, wanted, replaces>>

-----------------------------------------------------------------------------
(* The node's answers.                                                     *)

Takes(a, t) == Answer(a, t) \in answers /\ answers' = answers \ {Answer(a, t)}

\* kind_of; what is not known to be a task is handled as a board, of which
\* nothing is expected under this id.
IsOpenTask(t) == t \in {task_key, pending_fetch}

\* reconcile_summary: what is in hand when a card is open goes on that card.
Reconciled(inhand, placed) ==
  IF selected # None /\ inhand # None /\ <<selected, board>> \in placed
  THEN summaries \cup {<<selected, inhand>>}
  ELSE summaries

\* What finish_placement writes goes on the board that is open now, or is
\* refused with a notice.
Written(pairs) == IF board = None THEN {} ELSE pairs \X {board}

\* The old card whose task has got a card is retired.
Retired ==
  IF pending_placement = None
  THEN retired
  ELSE retired \cup Written({converting} \ {None})

\* finish_placement, of a task that has just come: its card, the tombstone of
\* the old card it replaces, and the next of the queue.
FinishPlacement(fetched) ==
  LET owed == {pending_placement} \ {None}
  IN  /\ cards' = cards \cup Written(owed)
      /\ told' = IF board = None THEN told \cup owed ELSE told
      /\ retired' = Retired
      /\ legacy_tasks' = IF owed = {}
                         THEN legacy_tasks
                         ELSE Detected(board, legacy_queue, retired')
      /\ \/ /\ owed # {} /\ legacy_queue # << >>
            /\ \E t \in Unused : MigrateNext(t, legacy_queue, timers, requests)
            /\ UNCHANGED migrating_board
         \/ /\ owed = {} \/ legacy_queue = << >>
            /\ pending_fetch' = fetched
            /\ pending_placement' = None
            /\ converting' = IF owed = {} THEN converting ELSE None
            /\ migrating_board' = (owed = {} /\ migrating_board)
            /\ UNCHANGED <<legacy_queue, timers, requests, wanted, replaces>>

\* on_got and receive_task.
Got(t) ==
  /\ Takes("Got", t)
  /\ IF IsOpenTask(t)
     THEN /\ task_key' = t
          /\ task_params' = t
          /\ task_ops' = task_ops \cup {t}
          /\ FinishPlacement(None)
          /\ summaries' = Reconciled(t, cards')
     ELSE UNCHANGED <<task, pending_placement, timers, requests, legacy, written,
                      wanted, replaces, told>>
  /\ UNCHANGED <<board, selected, installed, old>>

Missing(t) ==
  /\ Takes("Missing", t)
  /\ pending_fetch' = IF IsOpenTask(t) THEN None ELSE pending_fetch
  /\ UNCHANGED <<board, selected, task_key, task_params, task_ops,
                 pending_placement, timers, requests, installed, legacy, written,
                 history>>

\* receive_change: somebody writes to the open board, which is folded again.
BoardChanged ==
  /\ board # None
  /\ legacy_tasks' = Detected(board, legacy_queue, retired)
  /\ summaries' = Reconciled(task_params, cards)
  /\ UNCHANGED <<board, selected, task, pending_placement, timers, network,
                 legacy_queue, converting, migrating_board, cards, retired, history>>

\* receive_task_change: somebody edits a task this node subscribes to.
Changed(t) ==
  /\ t \in installed /\ IsOpenTask(t)
  /\ task_ops' = task_ops \cup {t}
  /\ summaries' = Reconciled(task_params, cards)
  /\ UNCHANGED <<board, selected, task_key, task_params, pending_fetch,
                 pending_placement, timers, network, legacy, cards, retired,
                 history>>

-----------------------------------------------------------------------------
(* The node: a PUT is carried out, or fails.                               *)

NodePuts(t) ==
  /\ Put(t) \in requests
  /\ requests' = requests \ {Put(t)}
  /\ installed' \in {installed, installed \cup {t}}
  /\ UNCHANGED <<board, selected, task, pending_placement, timers, answers,
                 legacy, written, history>>

NodeGets(t) ==
  /\ Get(t) \in requests
  /\ requests' = requests \ {Get(t)}
  /\ answers' =
       answers \cup {Answer(IF t \in installed THEN "Got" ELSE "Missing", t)}
  /\ UNCHANGED <<board, selected, task, pending_placement, timers, installed,
                 legacy, written, history>>

Next ==
  \/ \E t \in Task :
       \/ Select(t) \/ create_task(t) \/ migrate_legacy(t)
       \/ \E n \in 1..Attempts : PlaceWhenStored(t, n)
       \/ Got(t) \/ Missing(t) \/ Changed(t)
       \/ NodePuts(t) \/ NodeGets(t)
  \/ close_task
  \/ Reload
  \/ BoardChanged
  \/ \E b \in Board \cup {None} : Visit(b)

Spec == Init /\ [][Next]_vars

\* The browser fires timers; the node need not answer.
FairSpec ==
  Spec /\ \A t \in Mine : \A n \in 1..Attempts : WF_vars(PlaceWhenStored(t, n))

-----------------------------------------------------------------------------
(* Properties                                                              *)

TypeOK ==
  /\ board \in Board \cup {None}
  /\ {selected, task_key, task_params, pending_fetch, pending_placement}
       \subseteq Task \cup {None}
  /\ task_ops \subseteq Task
  /\ DOMAIN timers \subseteq Mine \X (1..Attempts)
  /\ requests \subseteq {Get(t) : t \in Task} \cup {Put(t) : t \in Mine}
  /\ answers \subseteq {Answer(a, t) : a \in {"Got", "Missing"}, t \in Task}
  /\ Others \subseteq installed /\ installed \subseteq Task
  /\ cards \subseteq Task \X Board
  /\ summaries \subseteq Task \X Task
  /\ wanted \subseteq Mine \X (Board \cup {None})
  /\ told \subseteq Mine

\* Whether cards are converted one at a time at most.  When a board has several
\* old ones, the timer that is left from one finds the placement of the next.
Alone == \A b \in Board : Len(old[b]) <= 1

\* No card opens onto nothing, the task behind it has been stored ("The card
\* appears a beat later in exchange for never being a lie",
\* store.rs:2609-2610); and what goes on a card as its task's title and assignee
\* is that task's ("Puts the open task's current title on the card",
\* store.rs:2093).
CardsAreTrue ==
  Alone =>
    /\ \A c \in cards : c[1] \in installed
    /\ \A s \in summaries : s[1] = s[2]

\* An old card is retired "once its replacement is provably stored - never
\* before, or a failed PUT would lose it" (store.rs:2382-2383): a task made of
\* it has been stored and has a card.
RetiredWhenReplaced ==
  \A r \in retired :
    \E t \in installed : <<t, r[1]>> \in replaces /\ \E c \in cards : c[1] = t

\* However often a conversion fails and is begun again, an old card is retired
\* on its own board and only if a task was made of it; if it is the board's
\* only one, it is not retired before it is replaced, and comes back as one
\* card (for want of a tombstone "every visit would convert them again",
\* store.rs:2362).
OldCardsComeBackOnce ==
  /\ \A r \in retired :
       /\ r[1] \in ToSet(old[r[2]])
       /\ \E p \in replaces : p[2] = r[1]
  /\ Alone =>
       /\ RetiredWhenReplaced
       /\ \A p, q \in replaces :
            p[2] = q[2] /\ {p[1], q[1]} \subseteq {c[1] : c \in cards} => p = q

\* A task the user created ends up with its card, or the user is told
\* otherwise (store.rs:2604-2610).
CreatedIsPlacedOrTold ==
  \A t \in Mine :
    Alone /\ t \notin Unused ~> (\E c \in cards : c[1] = t) \/ t \in told

-----------------------------------------------------------------------------
(* What comments, and a message to the user, say and the code does not     *)
(* ensure.  Nor does it ensure the properties above when the user is not     *)
(* Patient.                                                                *)

\* "puts a card for it on the open board" (store.rs:2604-2605): the board that
\* was open, and whose column the card is for.
CardsWhereWanted ==
  \A c \in cards : c[1] \in Mine => c \in wanted

\* "the task could not be stored on the network, so no card was added"
\* (store.rs:2683).
ToldMeansNoCard == \A c \in cards : c[1] \notin told

=============================================================================
