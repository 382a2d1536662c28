------------------------------ MODULE Identity -------------------------------
(***************************************************************************)
(* Who the user is: the signing seed that the node's identity delegate     *)
(* keeps (pj-identity-delegate/src/lib.rs) and the web client asks for     *)
(* (receive_identity and its neighbours in pj-web/src/store.rs).           *)
(*                                                                         *)
(* Rebuilding the delegate gives it another key and an empty store: a new  *)
(* generation.  A page is built for one generation, and asks the earlier   *)
(* ones for their seed when its own had none.                              *)
(*                                                                         *)
(* A seed is a number, 0 for none.  A delegate answers its own requests in *)
(* order; `Ordered` says whether different ones do.  The node copies no    *)
(* secret from one generation to the next (contract.rs:225-249).           *)
(***************************************************************************)
EXTENDS Naturals, Sequences, SequencesExt

CONSTANTS
  Generations, \* how many generations of the delegate there are
  MaxPages,    \* bound on the times the page is loaded
  Ordered,     \* whether delegates answer in the order they are asked
  Careful      \* whether the user lets the identity settle before doing more

ASSUME IdentityAssumption ==
  /\ Generations \in Nat \ {0} /\ MaxPages \in Nat \ {0}
  /\ {Ordered, Careful} \subseteq BOOLEAN

Generation == 1..Generations

\* The seed in the recovery key the user has from another node, and all seeds.
RecoveryKey == (MaxPages + 1) * Generations + 1
Seed == 1..RecoveryKey

VARIABLES
  secret,      \* what each generation keeps, 0 when nothing
  registered,  \* the generations the node has
  build,       \* the generation the page was built for
  pages,       \* how many times the page was loaded
  identity,    \* the page's seed, 0 before it has one
  identity_requested, migrating,
  requests,    \* to delegates, in the order sent
  answers,     \* of delegates, in the order given
  mine,        \* history: the seed the user works under, 0 before any
  spoiled      \* history: whether the node refused to keep a seed, or the
               \* connection was lost while an identity was on its way

page == <<build, pages, identity, identity_requested, migrating>>
identity_vars == <<secret, registered, page, requests, answers, mine, spoiled>>

GetOrCreate(g, entropy) == [to |-> g, replace |-> FALSE, seed |-> entropy]
Replace(g, seed) == [to |-> g, replace |-> TRUE, seed |-> seed]

\* What the browser supplies is never the same twice.
Entropy(g) == pages * Generations + g

Settled ==
  /\ identity_requested
  /\ requests = << >>
  /\ answers = << >>

IdentityInit ==
  /\ secret = [g \in Generation |-> 0]
  /\ build \in Generation
  /\ registered = {build}
  /\ pages = 1
  /\ identity = 0 /\ identity_requested = FALSE /\ migrating = FALSE
  /\ requests = << >> /\ answers = << >>
  /\ mine = 0 /\ spoiled = FALSE

-----------------------------------------------------------------------------
(* The delegates.                                                          *)

\* Those of a queue that may be next: delegates may be out of step with one
\* another, never with themselves.
Ready(queue, owner(_)) ==
  {i \in DOMAIN queue : \A j \in 1..(i - 1) :
                          ~Ordered /\ owner(queue[j]) # owner(queue[i])}

Requested == Ready(requests, LAMBDA r : r.to)
Answered == Ready(answers, LAMBDA a : a.from)

Answers(i, seed, created) ==
  /\ requests' = RemoveAt(requests, i)
  /\ answers' = Append(answers,
                       [from |-> requests[i].to, seed |-> seed, created |-> created])
  /\ UNCHANGED <<registered, page, mine, spoiled>>

\* The node holds a generation only if a page of it was loaded there.
NodeHasNone(i) ==
  /\ requests[i].to \notin registered
  /\ requests' = RemoveAt(requests, i)
  /\ UNCHANGED <<secret, registered, page, answers, mine, spoiled>>

ReadSeed(i) ==
  LET r == requests[i]
  IN  /\ r.to \in registered
      /\ ~r.replace /\ secret[r.to] # 0
      /\ UNCHANGED secret
      /\ Answers(i, secret[r.to], FALSE)

CreateSeed(i) ==
  LET r == requests[i]
  IN  /\ r.to \in registered
      /\ ~r.replace /\ secret[r.to] = 0
      /\ secret' = [secret EXCEPT ![r.to] = r.seed]
      /\ Answers(i, r.seed, TRUE)

ReplaceSeed(i) ==
  LET r == requests[i]
  IN  /\ r.to \in registered
      /\ r.replace
      /\ secret' = [secret EXCEPT ![r.to] = r.seed]
      /\ Answers(i, r.seed, FALSE)

\* The delegate answers that it failed: set_secret may, and one that speaks
\* another version of the protocol, or cannot read the request, answers nothing
\* else.  The page says so of its own generation, ignores it of another, and is
\* no further.
Refuse(i) ==
  LET r == requests[i]
  IN  /\ r.to \in registered
      /\ requests' = RemoveAt(requests, i)
      /\ spoiled' = TRUE
      /\ UNCHANGED <<secret, registered, page, answers, mine>>

handle(i) ==
  NodeHasNone(i) \/ ReadSeed(i) \/ CreateSeed(i) \/ ReplaceSeed(i) \/ Refuse(i)

-----------------------------------------------------------------------------
(* The page.                                                               *)

\* The page is loaded anew, or a newer build of it for the first time.  What
\* the last one asked is done by now or never.
Load(g) ==
  /\ pages < MaxPages
  /\ Careful => Settled
  /\ build' = g /\ g >= build
  /\ registered' = registered \cup {g}
  /\ pages' = pages + 1
  /\ identity' = 0 /\ identity_requested' = FALSE /\ migrating' = FALSE
  /\ requests' = << >> /\ answers' = << >>
  /\ UNCHANGED <<secret, mine, spoiled>>

\* A mutated form: marked as asked, and not asked.
ask_nobody ==
  /\ ~identity_requested
  /\ identity_requested' = TRUE
  /\ UNCHANGED <<secret, registered, build, pages, identity, migrating, requests,
                 answers, mine, spoiled>>

\* On the acknowledgement of the registration, or a timer, whichever is first.
ask_identity_once ==
  /\ ~identity_requested
  /\ identity_requested' = TRUE
  /\ requests' = Append(requests, GetOrCreate(build, Entropy(build)))
  /\ UNCHANGED <<secret, registered, build, pages, identity, migrating, answers,
                 mine, spoiled>>

\* A mutated form: the newest generation is asked last.
ask_oldest_first ==
  [i \in 1..(build - 1) |-> GetOrCreate(i, Entropy(i))]

\* Newest first.
ask_predecessors ==
  [i \in 1..(build - 1) |-> GetOrCreate(build - i, Entropy(build - i))]

\* An answer of the page's own generation.
receive_identity(i) ==
  LET a == answers[i]
      asks == a.created /\ ~migrating /\ build > 1
  IN  /\ a.from = build
      /\ answers' = RemoveAt(answers, i)
      /\ identity' = a.seed
      /\ migrating' = (migrating \/ asks)
      /\ requests' = requests \o (IF asks THEN ask_predecessors ELSE << >>)
      /\ UNCHANGED <<secret, registered, build, pages, identity_requested, mine,
                     spoiled>>

\* Only a seed that was there before, and only the first.
Believed(a) == ~a.created /\ migrating

\* A mutated form: the seed is taken for this session only.
TakeForNow(seed) == requests

\* Written into the page's own generation, so that this happens once.
Taken(seed) == Append(requests, Replace(build, seed))

\* An answer of a retired generation.
adopt_previous_identity(i) ==
  LET a == answers[i]
      adopts == Believed(a) /\ identity # a.seed
  IN  /\ a.from # build
      /\ answers' = RemoveAt(answers, i)
      /\ migrating' = (migrating /\ ~Believed(a))
      /\ identity' = IF adopts THEN a.seed ELSE identity
      /\ requests' = IF adopts THEN Taken(a.seed) ELSE requests
      /\ UNCHANGED <<secret, registered, build, pages, identity_requested, mine,
                     spoiled>>

\* The user brings a key from another node, once.
restore_identity ==
  /\ mine # RecoveryKey
  /\ Careful => Settled
  /\ identity' = RecoveryKey
  /\ mine' = RecoveryKey
  /\ requests' = Append(requests, Replace(build, RecoveryKey))
  /\ UNCHANGED <<secret, registered, build, pages, identity_requested, migrating,
                 answers, spoiled>>

\* The user makes something that belongs to the identity of the moment.
Work ==
  /\ mine = 0 /\ identity # 0
  /\ Settled
  /\ mine' = identity
  /\ UNCHANGED <<secret, registered, page, requests, answers, spoiled>>

\* The connection is lost and made again.  What was under way is gone, and
\* resync asks no delegate.
Reconnect ==
  /\ requests # << >> \/ answers # << >>
  /\ requests' = << >> /\ answers' = << >>
  /\ spoiled' = TRUE
  /\ UNCHANGED <<secret, registered, page, mine>>

IdentityNext ==
  \/ \E i \in Requested : handle(i)
  \/ \E g \in Generation : Load(g)
  \/ ask_identity_once
  \/ \E i \in Answered : receive_identity(i) \/ adopt_previous_identity(i)
  \/ restore_identity
  \/ Work
  \/ Reconnect

IdentitySpec == IdentityInit /\ [][IdentityNext]_identity_vars

\* The timer fires, delegates answer, and answers arrive.
IdentityFairness ==
  /\ WF_identity_vars(ask_identity_once)
  /\ WF_identity_vars(\E i \in Requested : handle(i))
  /\ WF_identity_vars(\E i \in Answered : receive_identity(i) \/ adopt_previous_identity(i))

IdentityFairSpec == IdentitySpec /\ IdentityFairness

-----------------------------------------------------------------------------
(* Correctness.                                                            *)

IdentityTypeOK ==
  /\ secret \in [Generation -> Seed \cup {0}]
  /\ registered \subseteq Generation /\ build \in registered
  /\ pages \in 1..MaxPages
  /\ {identity, mine} \subseteq Seed \cup {0}
  /\ {identity_requested, migrating, spoiled} \subseteq BOOLEAN
  /\ \A i \in DOMAIN requests : requests[i].to \in 1..build
  /\ \A i \in DOMAIN answers : answers[i].from \in 1..build

\* When nothing is under way, the page signs as what the next load will find
\* (store.rs, restore_identity: "so the next reload comes back as this
\* identity").
NextLoadAgrees ==
  Settled /\ ~spoiled => identity = secret[build]

\* Whoever has worked under a seed, or brought one, is the same person after
\* any number of rebuilds of the delegate (store.rs, ask_predecessors: "the
\* user is still there; their boards are still there").
SamePerson ==
  Settled /\ mine # 0 /\ ~spoiled => identity = mine

\* A delegate's seed is only ever replaced for a reason: the user brought
\* another, or it was created for this very page, which found an older one.
OnlyNewSeedsReplaced ==
  [][\A g \in Generation :
       secret[g] # 0 /\ secret'[g] # secret[g]
         => secret'[g] = RecoveryKey \/ secret[g] = Entropy(g)]_identity_vars

\* The page gets an identity, unless something went wrong on the way.
IdentityArrives == (identity = 0) ~> (identity # 0 \/ spoiled)

-----------------------------------------------------------------------------
(* Said of the program, and not so.                                        *)

\* A page that is left, or reloaded, while a new generation is still asking the
\* earlier ones is asked for in vain the next time: the new one then has a seed
\* that looks like any other (store.rs, receive_identity: "ask the retired
\* generations before believing it").
SurvivesRebuild == mine # RecoveryKey => SamePerson

\* A key the user brought is the page's until it is loaded again (store.rs,
\* restore_identity).  A careful user's is.
RestoredStays ==
  [][identity = RecoveryKey /\ identity' # identity => identity' = 0]_identity_vars

\* After an outage everything is as if it had not been (README.md:144-152).
IdentityAfterOutage == (identity = 0) ~> (identity # 0)

=============================================================================
