-------------------------------- MODULE OpLog --------------------------------
(***************************************************************************)
(* A contract's state as the client's folds see it (the four from_state    *)
(* functions of pj-core): `log` is the ops of the state in their total     *)
(* order, `ordered` of envelope_state.rs.                                  *)
(*                                                                         *)
(* An op has the fields of EnvelopeState, its key being its place in the   *)
(* log, and `body`, what an application op says.  An application op that   *)
(* is not legible comes from a newer client: its kind, or its body, is not *)
(* known to this build.                                                    *)
(***************************************************************************)
EXTENDS EnvelopeState, SequencesExt

Stamped(log) == {[log[i] EXCEPT !.key = i] : i \in DOMAIN log}

authority(log) == authority_in(Stamped(log))

\* The contract would accept this state.
Valid(log) == validate_in(Stamped(log))

\* The places of the application ops, of those that this build can read.
application_ops(log) ==
  {i \in DOMAIN log : log[i].kind = "APPLICATION" /\ log[i].legible}

\* A mutated form: judging by what the author may do now.
EntitledNow(a, author, rights) == rights \subseteq rights_of(a, author)

\* `ever`: work already done survives its author's removal.
Entitled(a, author, rights) == rights \subseteq ever_rights_of(a, author)

\* What comes of the ops at these places, taken in their order.
FoldAt(log, places, base, Step(_, _)) ==
  LET upto[n \in 0..Len(log)] ==
        IF n = 0 THEN base
        ELSE IF n \in places THEN Step(upto[n - 1], log[n])
        ELSE upto[n - 1]
  IN  upto[Len(log)]

\* A fold keeps a map that grows and shrinks as it goes.
Put(map, key, value) ==
  [k \in DOMAIN map \cup {key} |-> IF k = key THEN value ELSE map[k]]
Without(map, keys) == [k \in DOMAIN map \ keys |-> map[k]]
NoEntries == [k \in {} |-> k]

=============================================================================
