----------------------------- MODULE Preferences -----------------------------
(***************************************************************************)
(* The settings a node keeps for the app: pj-prefs-proto, pj-prefs-delegate*)
(* and, in the page, receive_prefs and set_preference of pj-web/src/       *)
(* store.rs and ThemeToggle of ui/mod.rs.                                  *)
(*                                                                         *)
(* Settings are a map of which this build knows one key, the theme.  They  *)
(* are saved whole.  Several tabs may be open on one node.                 *)
(***************************************************************************)
EXTENDS Naturals, Sequences

CONSTANTS
  Tab,
  Nothing,     \* a model value: no blob, or no answer yet
  MaxClicks,   \* bound: times the theme is switched
  MaxLoads     \* bound: times a tab is loaded again

\* Prefs: the keys that are set.  `other` is a later build's.
Theme == {"light", "dark"}
Keys == {"theme", "other"}
Blobs == UNION {[set -> Theme \cup {"kept"}] : set \in SUBSET Keys}

ASSUME PreferencesAssumption ==
  /\ Nothing \notin Blobs
  /\ {MaxClicks, MaxLoads} \subseteq Nat

VARIABLES
  secret,     \* the blob the delegate keeps, or Nothing
  prefs,      \* what each tab has of it, or Nothing
  dark,       \* the theme each tab shows
  asking,     \* each tab's requests that the delegate has yet to handle
  told,       \* and its answers that have yet to be heard
  trouble,    \* history: what each tab has met since it was loaded, of Troubles
  guessed,    \* history: whether a tab that had not been told the settings, or
              \* was refused, saved any
  clicks, loads

prefs_vars == <<secret, prefs, dark, asking, told, trouble, guessed, clicks, loads>>

\* A request lost with the connection, or refused; the theme switched before the
\* settings came; another tab's settings kept after the tab had its own.
Troubles == {"lost", "refused", "early", "behind"}

Default == [k \in {} |-> "unset"]

Has(map, key) == map # Nothing /\ key \in DOMAIN map

\* A mutated form: from nothing, whatever there is.
SetAlone(map, key, value) == [k \in {key} |-> value]

Set(map, key, value) ==
  [k \in DOMAIN map \cup {key} |-> IF k = key THEN value ELSE map[k]]

-----------------------------------------------------------------------------

Load == [ask |-> "Load", blob |-> Default]
Save(blob) == [ask |-> "Save", blob |-> blob]

PrefsInit ==
  /\ secret \in {Nothing}
       \cup {[k \in set |-> IF k = "theme" THEN t ELSE "kept"]
               : set \in (SUBSET Keys) \ {{}}, t \in Theme}
  /\ prefs = [tab \in Tab |-> Nothing]
  /\ dark \in [Tab -> BOOLEAN]
  /\ asking = [tab \in Tab |-> <<Load>>]
  /\ told = [tab \in Tab |-> <<>>]
  /\ trouble = [tab \in Tab |-> {}]
  /\ guessed = FALSE
  /\ clicks = 0
  /\ loads = 0

-----------------------------------------------------------------------------
(* The delegate.                                                           *)

Answers(tab, response) ==
  /\ asking' = [asking EXCEPT ![tab] = Tail(@)]
  /\ told' = [told EXCEPT ![tab] = Append(@, response)]
  /\ UNCHANGED <<prefs, dark, guessed, clicks, loads>>

\* What a tab saves is kept, and is not what the others have.
Keeps(tab, blob) ==
  /\ secret' = blob
  /\ trouble' = [other \in Tab |-> IF other = tab THEN trouble[tab] \ {"behind"}
                                   ELSE trouble[other] \cup {"behind"}]
  /\ Answers(tab, [says |-> "Saved", blob |-> Nothing])

\* A request that cannot be read, or of another version of the protocol, is
\* refused, whatever it is, and so is what the node does not store.
handle(tab) ==
  /\ asking[tab] # <<>>
  /\ LET request == Head(asking[tab])
     IN  \/ /\ request.ask = "Load"
            /\ UNCHANGED secret
            /\ trouble' = [trouble EXCEPT ![tab] = @ \ {"behind"}]
            /\ Answers(tab, [says |-> "Loaded", blob |-> secret])
         \/ /\ request.ask = "Save"
            /\ Keeps(tab, request.blob)
         \/ /\ UNCHANGED <<secret, trouble>>
            /\ Answers(tab, [says |-> "Failed", blob |-> Nothing])

-----------------------------------------------------------------------------
(* The page.                                                               *)

\* A mutated form: the test the wrong way round.
ShownSwapped(map, shown) ==
  IF Has(map, "theme") THEN map["theme"] = "light" ELSE shown

\* The effects that follow the preference: a theme that is set is shown.
Shown(map, shown) == IF Has(map, "theme") THEN map["theme"] # "light" ELSE shown

\* The whole of what a tab has is saved, from nothing if it has nothing.
set_preference(tab, key, value) ==
  LET set == Set(IF prefs[tab] = Nothing THEN Default ELSE prefs[tab], key, value)
  IN  /\ prefs' = [prefs EXCEPT ![tab] = set]
      /\ asking' = [asking EXCEPT ![tab] = Append(@, Save(set))]

\* The settings have been asked for, and the answer has not been heard.
Awaited(tab) ==
  \/ \E i \in DOMAIN asking[tab] : asking[tab][i].ask = "Load"
  \/ \E i \in DOMAIN told[tab] : told[tab][i].says = "Loaded"

\* ThemeToggle.
Switches(tab) ==
  /\ clicks < MaxClicks
  /\ clicks' = clicks + 1
  /\ dark' = [dark EXCEPT ![tab] = ~@]
  /\ set_preference(tab, "theme", IF dark[tab] THEN "light" ELSE "dark")
  /\ trouble' = [trouble EXCEPT ![tab] =
                    IF Awaited(tab) THEN @ \cup {"early"} ELSE @]
  /\ guessed' = (guessed \/ prefs[tab] = Nothing \/ "refused" \in trouble[tab])
  /\ UNCHANGED <<secret, told, loads>>

receive_prefs(tab) ==
  /\ told[tab] # <<>>
  /\ told' = [told EXCEPT ![tab] = Tail(@)]
  /\ LET response == Head(told[tab])
         now == CASE response.says = "Loaded" ->
                       IF response.blob = Nothing THEN Default ELSE response.blob
                  [] response.says = "Saved" -> prefs[tab]
                  [] response.says = "Failed" -> Default
     IN  /\ prefs' = [prefs EXCEPT ![tab] = now]
         /\ dark' = [dark EXCEPT ![tab] = Shown(now, @)]
         /\ trouble' = [trouble EXCEPT ![tab] =
                           IF response.says = "Failed" THEN @ \cup {"refused"} ELSE @]
  /\ UNCHANGED <<secret, asking, guessed, clicks, loads>>

\* The tab is loaded again: index.html shows what the system prefers, and
\* on_connected asks.  What it had sent and the delegate had not had is lost,
\* as when the connection is.
Loads(tab) ==
  /\ loads < MaxLoads
  /\ loads' = loads + 1
  /\ prefs' = [prefs EXCEPT ![tab] = Nothing]
  /\ \E system \in BOOLEAN : dark' = [dark EXCEPT ![tab] = system]
  /\ asking' = [asking EXCEPT ![tab] = <<Load>>]
  /\ told' = [told EXCEPT ![tab] = <<>>]
  /\ trouble' = [trouble EXCEPT ![tab] = {}]
  /\ UNCHANGED <<secret, guessed, clicks>>

\* The connection is lost, and found again: resync asks for no settings.
Loses(tab) ==
  /\ loads < MaxLoads
  /\ loads' = loads + 1
  /\ trouble' = [trouble EXCEPT ![tab] =
                    IF asking[tab] \o told[tab] = <<>> THEN @ ELSE @ \cup {"lost"}]
  /\ asking' = [asking EXCEPT ![tab] = <<>>]
  /\ told' = [told EXCEPT ![tab] = <<>>]
  /\ UNCHANGED <<secret, prefs, dark, guessed, clicks>>

PrefsNext ==
  \E tab \in Tab :
    handle(tab) \/ receive_prefs(tab) \/ Switches(tab) \/ Loads(tab) \/ Loses(tab)

PrefsSpec == PrefsInit /\ [][PrefsNext]_prefs_vars

-----------------------------------------------------------------------------
(* Correctness.                                                            *)

\* "a key this build has never heard of survives being saved by it"
\* (store.rs:1871-1872), in as many tabs as there are, whatever is lost; unless
\* one of them saved settings it had not been told, or had been refused.
OthersSettingsKept ==
  [][Has(secret, "other") => Has(secret', "other") \/ guessed]_prefs_vars

\* "the saved one lands a moment later, once the delegate has answered"
\* (ui/mod.rs:268-269): a tab that has the settings, and has met with no trouble
\* since it was loaded, shows the theme that the next load will bring back.
ThemeComesBack ==
  \A tab \in Tab :
    /\ asking[tab] = <<>> /\ told[tab] = <<>>
    /\ prefs[tab] # Nothing /\ trouble[tab] = {}
    /\ Has(secret, "theme")
    => dark[tab] = (secret["theme"] # "light")

-----------------------------------------------------------------------------
(* Said of the program, and not so.                                        *)

\* "so a save cannot race ahead of the load and wipe what is stored"
\* (store.rs:197-198): no save before the answer to the load.
NoSaveBeforeLoad ==
  [][\A tab \in Tab :
       Len(asking'[tab]) > Len(asking[tab]) => prefs[tab] # Nothing]_prefs_vars

\* A theme chosen before the settings came is the user's latest, and the answer
\* that comes later is of what was kept before (ui/mod.rs:268-269).
EarlySwitchesStay ==
  \A tab \in Tab :
    /\ asking[tab] = <<>> /\ told[tab] = <<>>
    /\ prefs[tab] # Nothing /\ trouble[tab] \subseteq {"early"}
    /\ Has(secret, "theme")
    => dark[tab] = (secret["theme"] # "light")

\* Nor does it wipe anything (the same line).
NoSettingWiped == [][Has(secret, "other") => Has(secret', "other")]_prefs_vars

=============================================================================
