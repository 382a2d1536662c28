------------------------------ MODULE Directory ------------------------------
(***************************************************************************)
(* The public directory: the registry contract (pj-core/src/registry.rs,   *)
(* pj-registry-contract/src/lib.rs) and the web client that lists boards   *)
(* in it (publish_listing and its neighbours in pj-web/src/store.rs).      *)
(*                                                                         *)
(* Each page has a node of its own.  Whether the contract exists decides   *)
(* between instantiating it and updating it, and a page that does not know *)
(* yet holds its listing back.                                             *)
(*                                                                         *)
(* A listing is a record of its content and whether the key it names as    *)
(* owner signed it; `id` is its content hash, a number, and `created` a    *)
(* day.  A board is a target; organizations, which browse keeps apart, are *)
(* others.                                                                 *)
(***************************************************************************)
EXTENDS Naturals, FiniteSets

CONSTANTS
  Page,
  Mine,        \* what the pages may create: page, target, name and id of each
  Rivals,      \* listings that anybody else may add
  Forged,      \* listings not signed by the owner they name
  None,
  Days,        \* bound on the clock
  BROWSE_LIMIT,\* how many boards a page shows at once
  Faults,      \* bound on the pages loaded again and the connections lost
  Patient,     \* whether users create one board at most before their page
               \* knows whether there is a directory
  Merges       \* whether a node that is asked to instantiate a contract it
               \* has merges the two states

\* What a page lists when one of these is created on a given day.
Listing(m, day) ==
  [target |-> m.target, name |-> m.name, owner |-> m.page, created |-> day,
   id |-> m.id, signed |-> TRUE]

ASSUME DirectoryAssumption ==
  /\ \A m \in Mine : m.page \in Page /\ m.id \in Nat
  /\ \A m \in Mine, day \in 0..Days : Listing(m, day) # None
  /\ \A l \in Rivals : l.signed /\ l.created \in Nat /\ l.id \in Nat
  /\ \A l \in Forged : ~l.signed
  /\ {Days, Faults} \subseteq Nat /\ BROWSE_LIMIT \in Nat \ {0}
  /\ {Patient, Merges} \subseteq BOOLEAN

VARIABLES
  now,         \* today
  directory,   \* the contract's state at each page's node
  hosted,      \* the pages whose node has the contract
  registry,    \* what each page holds of it
  presence,    \* registry_presence: whether the contract exists
  pending,     \* pending_listing
  subscribed,  \* the pages that hear of changes
  to_nodes,    \* the requests on their way
  to_pages,    \* the answers on theirs
  created,     \* the targets created so far
  faults,
  lost         \* history: listings on their way when a connection was lost

nodes == <<directory, hosted>>
page_vars == <<registry, presence, pending, subscribed>>
bounds == <<now, created, faults, lost>>
directory_vars == <<nodes, page_vars, to_nodes, to_pages, bounds>>

Request(p, kind, listings) ==
  [page |-> p, kind |-> kind, listings |-> listings, heard |-> TRUE]
Answer(p, kind, listings) == [page |-> p, kind |-> kind, listings |-> listings]

DirectoryInit ==
  /\ now = 0
  /\ directory = [p \in Page |-> {}]
  /\ hosted \in SUBSET Page
  /\ registry = [p \in Page |-> {}]
  /\ presence = [p \in Page |-> "Unknown"]
  /\ pending = [p \in Page |-> None]
  /\ subscribed = {}
  /\ to_nodes = {Request(p, "get", {}) : p \in Page}
  /\ to_pages = {}
  /\ created = {} /\ faults = 0 /\ lost = {}

-----------------------------------------------------------------------------
(* The contract.                                                           *)

verify(l) == l.signed

\* accept: a batch is refused for one listing.
Acceptable(incoming) == \A l \in incoming : verify(l)

\* Two parts: the first is not kept when the second is refused.
update_state(state, first, second) ==
  IF Acceptable(first) /\ Acceptable(second)
  THEN state \cup first \cup second
  ELSE state

-----------------------------------------------------------------------------
(* What a page shows.                                                      *)

MAX_CLOCK_SKEW == 1

\* A mutated form: the newest claim wins.
NewerFirst(k, l) == k.created > l.created \/ (k.created = l.created /\ k.id > l.id)

order_key_less(k, l) ==
  k.created < l.created \/ (k.created = l.created /\ k.id < l.id)

Matching(listings, query, t) ==
  {l \in listings : /\ l.created <= t + MAX_CLOCK_SKEW
                    /\ query # None => l.name = query}

\* One listing per target, the earliest of those that match.
claims(listings, query, t) ==
  LET matching == Matching(listings, query, t)
  IN  {l \in matching :
         \A k \in matching : k.target = l.target => ~order_key_less(k, l)}

shown_before(k, l) ==
  k.created > l.created \/ (k.created = l.created /\ k.id < l.id)

\* The newest of them, as many as are shown.
browse(listings, query, t) ==
  LET best == claims(listings, query, t)
  IN  {l \in best : Cardinality({k \in best : shown_before(k, l)}) < BROWSE_LIMIT}

-----------------------------------------------------------------------------
(* The nodes.                                                              *)

Stored(p, state) == directory' = [directory EXCEPT ![p] = state]
Heard(r, kind, listings) ==
  IF r.heard THEN {Answer(r.page, kind, listings)} ELSE {}

NodeFinds(r) ==
  /\ r.kind = "get"
  /\ \E q \in hosted :
       LET found == update_state(directory[r.page], directory[q], {})
       IN  /\ Stored(r.page, found)
           /\ to_pages' = to_pages \cup Heard(r, "got", found)
  /\ hosted' = hosted \cup {r.page}
  /\ subscribed' = IF r.heard THEN subscribed \cup {r.page} ELSE subscribed

\* Nobody has it, or nobody who has it was reached.
NodeMisses(r) ==
  /\ r.kind = "get" /\ r.page \notin hosted
  /\ to_pages' = to_pages \cup Heard(r, "missing", {})
  /\ UNCHANGED <<nodes, subscribed>>

NodePuts(r) ==
  /\ r.kind = "put"
  /\ Stored(r.page, IF Merges
                    THEN update_state(directory[r.page], r.listings, {})
                    ELSE update_state({}, r.listings, {}))
  /\ hosted' = hosted \cup {r.page}
  /\ subscribed' = IF r.heard THEN subscribed \cup {r.page} ELSE subscribed
  /\ to_pages' \in {to_pages, to_pages \cup Heard(r, "put", {})}

\* An update of a contract the node has not got is an error, and nothing else.
NodeUpdates(r) ==
  /\ r.kind = "update"
  /\ IF r.page \in hosted
     THEN Stored(r.page, update_state(directory[r.page], r.listings, {}))
     ELSE UNCHANGED directory
  /\ UNCHANGED <<hosted, subscribed, to_pages>>

Handle(r) ==
  /\ NodeFinds(r) \/ NodeMisses(r) \/ NodePuts(r) \/ NodeUpdates(r)
  /\ to_nodes' = to_nodes \ {r}
  /\ UNCHANGED <<registry, presence, pending, bounds>>

\* Nodes that have the contract keep it up to date with one another.
Synchronise(p, q) ==
  /\ {p, q} \subseteq hosted
  /\ Stored(p, update_state(directory[p], directory[q], {}))
  /\ UNCHANGED <<hosted, page_vars, to_nodes, to_pages, bounds>>

\* Other people's listings.
Publish(p, first, second) ==
  /\ p \in hosted
  /\ Stored(p, update_state(directory[p], first, second))
  /\ UNCHANGED <<hosted, page_vars, to_nodes, to_pages, bounds>>

-----------------------------------------------------------------------------
(* The page.                                                               *)

\* send_listing: everything held when it creates the directory.
Sent(p, known, held, listing) ==
  IF known = "Absent"
  THEN {Request(p, "put", held)}
  ELSE {Request(p, "update", {listing})}

\* publish_listing
publish_listing(p, listing) ==
  /\ registry' = [registry EXCEPT ![p] = @ \cup {listing}]
  /\ IF presence[p] = "Unknown"
     THEN pending' = [pending EXCEPT ![p] = listing] /\ UNCHANGED to_nodes
     ELSE /\ to_nodes' = to_nodes \cup
                           Sent(p, presence[p], registry[p] \cup {listing}, listing)
          /\ UNCHANGED pending

Create(m) ==
  /\ m.target \notin created
  /\ Patient => presence[m.page] # "Unknown" \/ pending[m.page] = None
  /\ created' = created \cup {m.target}
  /\ publish_listing(m.page, Listing(m, now))
  /\ UNCHANGED <<nodes, presence, subscribed, to_pages, now, faults, lost>>

\* A mutated form: what was held is forgotten before it is sent.
FlushForgetting(p, known, held) == {}

\* flush_pending_listing
Flushed(p, known, held) ==
  IF pending[p] = None THEN {} ELSE Sent(p, known, held, pending[p])

\* What the answer to a GET does: the page knows, merges, and sends what it held.
Known(p, known, listings) ==
  LET held == registry[p] \cup listings
  IN  /\ presence' = [presence EXCEPT ![p] = known]
      /\ registry' = [registry EXCEPT ![p] = held]
      /\ to_nodes' = to_nodes \cup Flushed(p, known, held)
      /\ pending' = [pending EXCEPT ![p] = None]

Got(a) == a.kind = "got" /\ Known(a.page, "Present", a.listings)

Missing(a) == a.kind = "missing" /\ Known(a.page, "Absent", {})

Put(a) ==
  /\ a.kind = "put"
  /\ presence' = [presence EXCEPT ![a.page] = "Present"]
  /\ UNCHANGED <<registry, to_nodes, pending>>

Deliver(a) ==
  /\ Got(a) \/ Missing(a) \/ Put(a)
  /\ to_pages' = to_pages \ {a}
  /\ UNCHANGED <<nodes, subscribed, bounds>>

\* A mutated form: decoded, and not merged.
ReceiveNothing(p, incoming) == UNCHANGED registry

receive_registry(p, incoming) == registry' = [registry EXCEPT ![p] = @ \cup incoming]

Changed(p) ==
  /\ p \in subscribed
  /\ \E l \in directory[p] \ registry[p] : receive_registry(p, {l})
  /\ UNCHANGED <<nodes, presence, pending, subscribed, to_nodes, to_pages, bounds>>

\* The page is loaded again.  What it had sent is carried out unheard.
Reload(p) ==
  /\ faults < Faults
  /\ faults' = faults + 1
  /\ registry' = [registry EXCEPT ![p] = {}]
  /\ presence' = [presence EXCEPT ![p] = "Unknown"]
  /\ pending' = [pending EXCEPT ![p] = None]
  /\ subscribed' = subscribed \ {p}
  /\ to_nodes' = {r \in to_nodes : r.page # p}
                   \cup {[r EXCEPT !.heard = FALSE] :
                           r \in {s \in to_nodes : s.page = p /\ s.kind # "get"}}
                   \cup {Request(p, "get", {})}
  /\ to_pages' = {a \in to_pages : a.page # p}
  /\ UNCHANGED <<nodes, now, created, lost>>

\* The connection is lost, with some of what was on it, and made again: resync
\* asks for the directory and offers nothing to it.
resync_registry(p) ==
  /\ faults < Faults
  /\ faults' = faults + 1
  /\ \E gone \in SUBSET {r \in to_nodes : r.page = p} :
       /\ to_nodes' = (to_nodes \ gone) \cup {Request(p, "get", {})}
       /\ lost' = lost \cup UNION {r.listings : r \in gone}
  /\ to_pages' = {a \in to_pages : a.page # p}
  /\ subscribed' = subscribed \ {p}
  /\ UNCHANGED <<nodes, registry, presence, pending, now, created>>

Midnight ==
  /\ now < Days
  /\ now' = now + 1
  /\ UNCHANGED <<nodes, page_vars, to_nodes, to_pages, created, faults, lost>>

DirectoryNext ==
  \/ \E r \in to_nodes : Handle(r)
  \/ \E a \in to_pages : Deliver(a)
  \/ \E p, q \in Page : Synchronise(p, q)
  \/ \E p \in Page, l \in Rivals, k \in Rivals \cup Forged : Publish(p, {l}, {k})
  \/ \E m \in Mine : Create(m)
  \/ \E p \in Page : Changed(p) \/ Reload(p) \/ resync_registry(p)
  \/ Midnight

DirectorySpec == DirectoryInit /\ [][DirectoryNext]_directory_vars

\* Nodes answer, to_pages arrive, nodes synchronise and tell of changes.
DirectoryFairness ==
  /\ WF_directory_vars(\E r \in to_nodes : Handle(r))
  /\ WF_directory_vars(\E a \in to_pages : Deliver(a))
  /\ WF_directory_vars(\E p, q \in Page : Synchronise(p, q))
  /\ \A p \in Page : WF_directory_vars(Changed(p))

DirectoryFairSpec == DirectorySpec /\ DirectoryFairness

-----------------------------------------------------------------------------
(* Correctness.                                                            *)

Kept == UNION {directory[p] : p \in Page}
OnTheWay == UNION {r.listings : r \in to_nodes}
Held == {pending[p] : p \in Page} \ {None}

\* What a page shows of its own is in the directory, or going there, or was
\* lost with a connection (README.md:83: "Every board is listed publicly, by
\* design").
OwnListingsCount ==
  \A p \in Page : \A l \in registry[p] :
    l.owner = p => l \in Kept \cup OnTheWay \cup Held \cup lost

\* Once a page shows a claim on a target, only an earlier one takes its place:
\* "re-listing it with a flattering timestamp cannot displace the original"
\* (registry.rs, browse).  Newer boards may fill the list in its stead, which
\* costs the target its place there and not the claim its rank.
ClaimsStand ==
  [][\A p \in Page :
       registry'[p] # {} =>
         \A l \in browse(registry[p], None, now) :
           /\ \E k \in claims(registry'[p], None, now') :
                k.target = l.target /\ k.created <= l.created
           /\ \A k \in browse(registry'[p], None, now') :
                k.target = l.target => k.created <= l.created]_directory_vars

\* In the end every page that knows of the directory shows all of it (README.md:
\* "new projects appear live").
NewsArrives ==
  <>[](\A p \in Page : presence[p] = "Present" => Kept \subseteq registry[p])

-----------------------------------------------------------------------------
(* Said of the program, and not so.                                        *)

\* README.md:83.  A page that learns late whether the directory exists holds
\* one listing and no more, and one lost with a connection is not offered again.
EveryBoardListed ==
  <>[](\A p \in Page : \A l \in registry[p] : l.owner = p => l \in Kept)

\* An entry stays in the directory, whoever instantiates it again.  So it does if
\* the node merges; if it does not, a page that was told nobody has the directory
\* overwrites it (store.rs:133-135: "getting that backwards would either fail or
\* overwrite the whole directory with a single entry").
DirectoryOnlyGrows == [][\A p \in Page : directory[p] \subseteq directory'[p]]_directory_vars

\* registry.rs:262-264.  The query is applied before claims on one target are
\* compared, so a later claim under another name shows for that name.
ClaimsStandInSearch ==
  \A p \in Page : \A name \in {l.name : l \in registry[p]} :
    browse(registry[p], name, now) \subseteq claims(registry[p], None, now)

=============================================================================
