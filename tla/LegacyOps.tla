------------------------------ MODULE LegacyOps ------------------------------
(***************************************************************************)
(* Boards written by a build whose ops were others: what this build makes  *)
(* of the old ops, and what its decoder of old ops (pj-core/src/legacy.rs) *)
(* makes of this build's (pj-core/src/op.rs).                              *)
(*                                                                         *)
(* Nothing in the bytes of an op says which build wrote it: bincode writes *)
(* the index of the variant and then its fields, and when reading ignores  *)
(* what is left over.  So an op reads as the variant at its index if what  *)
(* that variant wants can be cut from the bytes.                           *)
(*                                                                         *)
(* An id of 16 bytes is a "half", one of 32 two of them; a text is a length*)
(* of 8 bytes and its characters, "short", "eight" or "long" for fewer than*)
(* eight, eight and more.  Ids are random, so that no half of one is a     *)
(* credible length; "slim" halves begin with a byte that is 0 or 1.  All   *)
(* ops here are the owner's, who may do everything.                        *)
(***************************************************************************)
EXTENDS Naturals, Sequences, SequencesExt

CONSTANTS
  Written,   \* what may be written to the board, by any build
  MaxOps     \* bound: how much of it

VARIABLES
  entries,   \* the board's application ops, in their order
  converted  \* whether the old cards have been converted here

legacy_vars == <<entries, converted>>

-----------------------------------------------------------------------------
(* The ops, in the order of their variants.                                *)

Variant(says, wants) == [says |-> says, wants |-> wants]

OldOps == <<
  Variant("SetColumn", <<"half", "text", "text">>),
  Variant("RemoveColumn", <<"half">>),
  Variant("CreateTask", <<"half", "half", "text", "text">>),
  Variant("SetTaskTitle", <<"half", "text">>),
  Variant("SetTaskDescription", <<"half", "text">>),
  Variant("MoveTask", <<"half", "half", "text">>),
  Variant("SetTaskAssignee", <<"half", "option">>),
  Variant("DeleteTask", <<"half">>),
  Variant("LinkTask", <<"half", "option", "half", "kind">>),
  Variant("UnlinkTask", <<"half", "option", "half">>),
  Variant("SetOrganization", <<"half", "half", "text">>),
  Variant("SetMemberName", <<"half", "half", "text">>) >>

NewOps == <<
  Variant("SetColumn", <<"half", "text", "text">>),
  Variant("RemoveColumn", <<"half">>),
  Variant("Place", <<"half", "half", "half", "text">>),
  Variant("Unplace", <<"half", "half">>),
  Variant("Summarize", <<"half", "half", "text", "option">>),
  Variant("SetOrganization", <<"half", "half", "text">>),
  Variant("SetMemberName", <<"half", "half", "text">>) >>

Index(variants, says) == CHOOSE i \in DOMAIN variants : variants[i].says = says

\* An entry remembers, for the properties, who wrote it and what it says.
Entry(build, at, says, fields) ==
  [build |-> build, at |-> at, says |-> says, fields |-> fields]
Old(says, fields) == Entry("old", Index(OldOps, says), says, fields)
Current(says, fields) == Entry("current", Index(NewOps, says), says, fields)

-----------------------------------------------------------------------------
(* Reading.                                                                *)

\* Eight characters and their length are sixteen bytes.
Fills(want, field, last) ==
  CASE want = "half" -> \/ field.is \in {"half", "slim", "eight"}
                        \/ last /\ field.is = "long"
    [] want = "text" -> field.is \in {"short", "eight", "long"}
    [] want = "option" -> field.is \in {"option", "slim"}
    [] OTHER -> field.is = want

\* A mutated form: the index is enough.
ReadsByIndex(variants, e) ==
  IF e.at \in DOMAIN variants /\ Len(variants[e.at].wants) <= Len(e.fields)
  THEN variants[e.at].says
  ELSE "unreadable"

Reads(variants, e) ==
  IF /\ e.at \in DOMAIN variants
     /\ Len(variants[e.at].wants) <= Len(e.fields)
     /\ \A i \in DOMAIN variants[e.at].wants :
          Fills(variants[e.at].wants[i], e.fields[i], i = Len(variants[e.at].wants))
  THEN variants[e.at].says
  ELSE "unreadable"

decode(e) == Reads(NewOps, e)
decode_legacy(e) == Reads(OldOps, e)

First(e) == e.fields[1].v
Id(e) == <<e.fields[1].v, e.fields[2].v>>

-----------------------------------------------------------------------------
(* What legacy.rs recovers.                                                *)

ReadAs(log, says) == SelectSeq(log, LAMBDA e : decode_legacy(e) = says)

\* Creations first; only the first of a task counts.
Create(tasks, e) ==
  IF decode_legacy(e) = "CreateTask" /\ \A c \in tasks : c.id # First(e)
  THEN tasks \cup {[id |-> First(e), column |-> e.fields[2].v,
                    title |-> e.fields[3].v, description |-> "", assignee |-> ""]}
  ELSE tasks

Edit(tasks, e) ==
  LET of(c) == c.id = First(e)
      says == decode_legacy(e)
  IN  {IF ~of(c) THEN c
       ELSE CASE says = "SetTaskTitle" -> [c EXCEPT !.title = e.fields[2].v]
              [] says = "SetTaskDescription" ->
                   [c EXCEPT !.description = e.fields[2].v]
              [] says = "MoveTask" -> [c EXCEPT !.column = e.fields[2].v]
              [] says = "SetTaskAssignee" -> [c EXCEPT !.assignee = e.fields[2].v]
              [] OTHER -> c : c \in tasks}

Deleted(log) == {First(e) : e \in ToSet(ReadAs(log, "DeleteTask"))}

recover_tasks(log) ==
  {c \in FoldLeft(Edit, FoldLeft(Create, {}, log), log) : c.id \notin Deleted(log)}

\* The last of each member's, as <<member, name>>.
recover_names(log) ==
  LET named == ReadAs(log, "SetMemberName")
  IN  {<<Id(named[i]), named[i].fields[3]>> :
         i \in {i \in DOMAIN named :
                  \A j \in DOMAIN named : j > i => Id(named[j]) # Id(named[i])}}

\* The last, if there is one.
recover_organization(log) ==
  LET linked == ReadAs(log, "SetOrganization")
  IN  {linked[i] : i \in {i \in DOMAIN linked : i = Len(linked)}}

tombstone(id) == Old("DeleteTask", <<[is |-> "half", v |-> id]>>)

\* The variants that are where others are now.
Renumbered == {v.says : v \in ToSet(OldOps)} \ {"SetColumn", "RemoveColumn"}

legacy_op_count(log) ==
  Len(SelectSeq(log, LAMBDA e : decode_legacy(e) \in Renumbered))

-----------------------------------------------------------------------------
(* What the board shows.                                                   *)

unreadable_ops(log) == Len(SelectSeq(log, LAMBDA e : decode(e) = "unreadable"))

\* UnreadableOps: entries "written by a newer version of the app".
unexplained(log) ==
  IF unreadable_ops(log) > legacy_op_count(log)
  THEN unreadable_ops(log) - legacy_op_count(log)
  ELSE 0

\* fold_organization, and the last name of each member.
ReadNow(log, says) == SelectSeq(log, LAMBDA e : decode(e) = says)
organization(log) ==
  LET linked == ReadNow(log, "SetOrganization")
  IN  {Id(linked[i]) : i \in {i \in DOMAIN linked : i = Len(linked)}}
names(log) ==
  LET named == ReadNow(log, "SetMemberName")
  IN  {<<Id(named[i]), named[i].fields[3]>> :
         i \in {i \in DOMAIN named :
                  \A j \in DOMAIN named : j > i => Id(named[j]) # Id(named[i])}}

-----------------------------------------------------------------------------

LegacyInit == entries = << >> /\ converted = FALSE

\* An op arrives, late or not.
Arrive(e) ==
  /\ Len(entries) < MaxOps
  /\ \E i \in 1..(Len(entries) + 1) : entries' = InsertAt(entries, i, e)
  /\ UNCHANGED converted

\* migrate_legacy, carried to its end: names and the organization are written
\* as this build does, and every old card is retired (see Placement for how
\* each gets its new one).
Halves(id) == <<[is |-> "half", v |-> id[1]], [is |-> "half", v |-> id[2]]>>
Rewritten(log) ==
  LET named == SetToSeq(recover_names(log))
      linked == SetToSeq(recover_organization(log))
  IN  [i \in DOMAIN named |->
         Current("SetMemberName", Append(Halves(named[i][1]), named[i][2]))]
      \o [i \in DOMAIN linked |-> Current("SetOrganization", linked[i].fields)]

migrate_legacy ==
  /\ ~converted
  /\ recover_tasks(entries) # {}
  /\ converted' = TRUE
  /\ entries' = entries \o Rewritten(entries)
                  \o SetToSeq({tombstone(c.id) : c \in recover_tasks(entries)})

LegacyNext == (\E e \in Written : Arrive(e)) \/ migrate_legacy

LegacySpec == LegacyInit /\ [][LegacyNext]_legacy_vars

-----------------------------------------------------------------------------
(* Correctness.                                                            *)

\* The last of what the old build said of a task under one heading.
LastSaid(id, says, otherwise) ==
  LET at == {i \in DOMAIN entries :
               /\ entries[i].build = "old" /\ entries[i].says = says
               /\ First(entries[i]) = id}
  IN  IF at = {}
      THEN otherwise
      ELSE entries[CHOOSE i \in at : \A j \in at : j <= i].fields[2].v

\* What comes out of an old board "is what the board last showed"
\* (legacy.rs:123-125), whichever builds have written to it since: no op of
\* another build makes a card ("nonsense cards", legacy.rs:546-548), changes one
\* or takes one away.
RecoveredAsShown ==
  LET said(says) == {e \in ToSet(entries) : e.build = "old" /\ e.says = says}
      cards == recover_tasks(entries)
  IN  /\ {c.id : c \in cards} = {First(e) : e \in said("CreateTask")}
                                  \ {First(e) : e \in said("DeleteTask")}
      /\ \A c \in cards :
           /\ \E e \in said("CreateTask") :
                /\ First(e) = c.id
                /\ c.column = LastSaid(c.id, "MoveTask", e.fields[2].v)
                /\ c.title = LastSaid(c.id, "SetTaskTitle", e.fields[3].v)
           /\ c.description = LastSaid(c.id, "SetTaskDescription", "")
           /\ c.assignee = LastSaid(c.id, "SetTaskAssignee", "")

-----------------------------------------------------------------------------
(* What comments say and the code does not do.                             *)

\* "Admits that this build is not showing everything the board holds"
\* (ui/board.rs:54): as many entries as a newer build has written.  But the link
\* to an organization that this build writes reads as an old MoveTask, is counted
\* as an old op, and hides one of them.
HintIsHonest ==
  unexplained(entries) = Len(SelectSeq(entries, LAMBDA e : e.build = "newer"))

\* A board belongs to an organization it was given to.  But every old MoveTask
\* reads as a link to one.
OrganizationWasGiven ==
  \A id \in organization(entries) :
    \E e \in ToSet(entries) : e.says = "SetOrganization" /\ Id(e) = id

\* The old cards are not shown until they are converted ("the cards, invisible",
\* legacy.rs:5-6).  But one whose title has eight characters reads as a card of
\* this build, of no task, in no column.
OldCardsAreHidden ==
  \A e \in ToSet(entries) : decode(e) = "Place" => e.says = "Place"

\* Converting a board gives nobody a name older than the one they have.  But old
\* names are written anew, above those given since.
NamesStand ==
  [][migrate_legacy => \A n \in names(entries) : n \in names(entries')]_legacy_vars

=============================================================================
