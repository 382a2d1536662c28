--------------------------- MODULE PersonalProofs ----------------------------
(***************************************************************************)
(* Theorems about what is kept for a user: Profile and Preferences.        *)
(*                                                                         *)
(* For any users, boards and networks, what a page holds of a profile is   *)
(* its user's, whichever identities were taken before and whatever is still*)
(* on its way; and with a user who waits for the profile, the list of its  *)
(* boards says what was last done.  For any tabs, with a user who waits for*)
(* the settings, one that this build does not know is never lost, by       *)
(* whichever tab saves.                                                    *)
(***************************************************************************)
EXTENDS Profile, Preferences, SequenceTheorems, TLAPS, WellFoundedInduction

-----------------------------------------------------------------------------
(* The profile: whose it is.                                               *)

\* Ops of p's profile: those written as p, and those of earlier sessions.
OpsOf(ops, p) == \A o \in ops : o.by \in {p, "before"}

\* A request the page makes, carrying what belongs to the profile it is about.
GoodRequest(r) ==
  /\ r.ask \in {"Get", "Put", "Update"}
  /\ r.of \in Person
  /\ OpsOf(r.ops, r.of)

GoodRequests(s) ==
  /\ \E S : s \in Seq(S)
  /\ \A i \in 1..Len(s) : GoodRequest(s[i])

GoodAnswers(s) ==
  /\ \E S : s \in Seq(S)
  /\ \A i \in 1..Len(s) : s[i].has # None => OpsOf(s[i].has, s[i].of)

\* What is asked for, sent, stored or answered of a profile is of its owner.
ProfileInv ==
  /\ identity \in Person \cup {None}
  /\ OwnProfile
  /\ GoodRequests(wire) /\ GoodRequests(outbox)
  /\ GoodAnswers(answers)
  /\ DOMAIN stored = Person
  /\ \A p \in Person : stored[p] # None => OpsOf(stored[p], p)

-----------------------------------------------------------------------------
(* Requests.                                                               *)

\* No request, or one that is good.
LEMMA FewRequests ==
  /\ GoodRequests(<<>>)
  /\ \A r : GoodRequest(r) => GoodRequests(<<r>>)
<1>1. GoodRequests(<<>>)
  <2>1. <<>> \in Seq({})
    OBVIOUS
  <2> QED
    BY <2>1 DEF GoodRequests
<1>2. ASSUME NEW r, GoodRequest(r)
      PROVE  GoodRequests(<<r>>)
  <2>1. <<r>> \in Seq({r})
    OBVIOUS
  <2>2. \A i \in 1..Len(<<r>>) : <<r>>[i] = r
    OBVIOUS
  <2> QED
    BY <1>2, <2>1, <2>2 DEF GoodRequests
<1> QED
  BY <1>1, <1>2

\* Two sequences of good requests make one.
LEMMA MoreRequests ==
  ASSUME NEW s, NEW t, GoodRequests(s), GoodRequests(t)
  PROVE  GoodRequests(s \o t)
<1>1. PICK S : s \in Seq(S)
  BY DEF GoodRequests
<1>2. PICK T : t \in Seq(T)
  BY DEF GoodRequests
<1>3. s \in Seq(S \cup T) /\ t \in Seq(S \cup T)
  BY <1>1, <1>2
<1>4. s \o t \in Seq(S \cup T)
  BY <1>3
<1>5. ASSUME NEW i \in 1..Len(s \o t)
      PROVE  GoodRequest((s \o t)[i])
  <2>1. CASE i <= Len(s)
    BY <1>3, <1>5, <2>1 DEF GoodRequests
  <2>2. CASE ~(i <= Len(s))
    <3>1. i - Len(s) \in 1..Len(t) /\ (s \o t)[i] = t[i - Len(s)]
      BY <1>3, <1>5, <2>2
    <3> QED
      BY <3>1 DEF GoodRequests
  <2> QED
    BY <2>1, <2>2
<1> QED
  BY <1>4, <1>5 DEF GoodRequests

\* The first is good, and so are the others.
LEMMA FirstRequest ==
  ASSUME NEW s, GoodRequests(s), s # <<>>
  PROVE  GoodRequest(Head(s)) /\ GoodRequests(Tail(s))
<1>1. PICK S : s \in Seq(S)
  BY DEF GoodRequests
<1>2. Len(s) \in Nat /\ Len(s) # 0 /\ Head(s) = s[1]
  BY <1>1
<1>3. Tail(s) \in Seq(S) /\ Len(Tail(s)) = Len(s) - 1
  BY <1>1, <1>2
<1>4. \A i \in 1..Len(Tail(s)) : i + 1 \in 1..Len(s) /\ Tail(s)[i] = s[i + 1]
  BY <1>1, <1>2, <1>3
<1> QED
  BY <1>2, <1>3, <1>4 DEF GoodRequests

\* Likewise answers, one of which is added at a time.
LEMMA MoreAnswers ==
  ASSUME NEW s, NEW a, GoodAnswers(s), a.has # None => OpsOf(a.has, a.of)
  PROVE  GoodAnswers(Append(s, a))
<1>1. PICK S : s \in Seq(S)
  BY DEF GoodAnswers
<1>2. s \in Seq(S \cup {a})
  BY <1>1
<1>3. Append(s, a) \in Seq(S \cup {a})
  BY <1>2
<1>4. Len(Append(s, a)) = Len(s) + 1
  BY <1>2
<1>5. ASSUME NEW i \in 1..Len(Append(s, a))
      PROVE  LET b == Append(s, a)[i] IN b.has # None => OpsOf(b.has, b.of)
  <2>1. CASE i = Len(s) + 1
    <3>1. Append(s, a)[i] = a
      BY <1>2, <2>1
    <3> QED
      BY <3>1
  <2>2. CASE i # Len(s) + 1
    <3>1. i \in 1..Len(s) /\ Append(s, a)[i] = s[i]
      BY <1>2, <1>4, <1>5, <2>2
    <3> QED
      BY <3>1 DEF GoodAnswers
  <2> QED
    BY <2>1, <2>2
<1> QED
  BY <1>3, <1>5 DEF GoodAnswers

\* And heard one at a time.
LEMMA FirstAnswer ==
  ASSUME NEW s, GoodAnswers(s), s # <<>>
  PROVE  /\ Head(s).has # None => OpsOf(Head(s).has, Head(s).of)
         /\ GoodAnswers(Tail(s))
<1>1. PICK S : s \in Seq(S)
  BY DEF GoodAnswers
<1>2. Len(s) \in Nat /\ Len(s) # 0 /\ Head(s) = s[1]
  BY <1>1
<1>3. Tail(s) \in Seq(S) /\ Len(Tail(s)) = Len(s) - 1
  BY <1>1, <1>2
<1>4. \A i \in 1..Len(Tail(s)) : i + 1 \in 1..Len(s) /\ Tail(s)[i] = s[i + 1]
  BY <1>1, <1>2, <1>3
<1> QED
  BY <1>2, <1>3, <1>4 DEF GoodAnswers

\* Nothing is on its way on a new connection.
LEMMA NoAnswers == GoodAnswers(<<>>)
<1>1. <<>> \in Seq({})
  OBVIOUS
<1> QED
  BY <1>1 DEF GoodAnswers

\* What is sent, now or when there is a connection, is good.
LEMMA Dispatched ==
  ASSUME NEW s, GoodRequests(s), GoodRequests(wire), GoodRequests(outbox),
         dispatch(s)
  PROVE  GoodRequests(wire') /\ GoodRequests(outbox')
  BY MoreRequests DEF dispatch

\* The three requests say what they are made of.
LEMMA RequestParts ==
  ASSUME NEW p, NEW ops
  PROVE  /\ {Get(p).ask, PutState(p, ops).ask, Update(p, ops).ask}
              \subseteq {"Get", "Put", "Update"}
         /\ Get(p).of = p /\ Get(p).ops = {}
         /\ PutState(p, ops).of = p /\ PutState(p, ops).ops = ops
         /\ Update(p, ops).of = p /\ Update(p, ops).ops = ops
  BY DEF Get, PutState, Update

-----------------------------------------------------------------------------
(* The profile.                                                            *)

\* Writing: what is said of the user is in the user's own name.
LEMMA Emitted ==
  ASSUME ProfileInv, NEW Q, NEW says \in Seq(Q), identity # None,
         profile_emit(says)
  PROVE  /\ OpsOf(profile_ops', identity)
         /\ GoodRequests(wire') /\ GoodRequests(outbox')
<1> DEFINE first == next_user_lamport(profile_ops)
           ops == [i \in DOMAIN says |->
                     UserOp(identity, says[i][1], says[i][2], first + i - 1,
                            spoken + i)]
<1>1. DOMAIN says = 1..Len(says) /\ Len(says) \in Nat
  OBVIOUS
<1>2. \A i \in 1..Len(says) : ops[i].by = identity
  BY <1>1 DEF UserOp
<1>3. OpsOf(profile_ops, identity)
  BY DEF ProfileInv, OwnProfile, OpsOf
<1>4. /\ profile_ops' = profile_ops \cup {ops[i] : i \in DOMAIN ops}
      /\ dispatch(requests_for(ops))
  BY DEF profile_emit
<1> HIDE DEF ops
<1>5. DOMAIN ops = 1..Len(says)
  BY <1>1 DEF ops
<1>6. OpsOf(profile_ops', identity)
  BY <1>2, <1>3, <1>4, <1>5 DEF OpsOf
<1>7. GoodRequests(requests_for(ops))
  <2> DEFINE s == requests_for(ops)
             S == {s[i] : i \in 1..Len(says)}
  <2>1. s = [i \in 1..Len(says) |-> s[i]]
    BY <1>5 DEF requests_for
  <2>2. s \in [1..Len(says) -> S]
    BY <2>1
  <2>3. s \in Seq(S) /\ Len(s) = Len(says)
    BY <1>1, <2>2
  <2>4. ASSUME NEW i \in 1..Len(says)
        PROVE  GoodRequest(s[i])
    <3>1. \/ i = 1 /\ s[i] = PutState(identity, profile_ops \cup {ops[1]})
          \/ s[i] = Update(identity, {ops[i]})
      BY <1>5 DEF requests_for
    <3> QED
      BY <1>2, <1>3, <3>1, RequestParts DEF ProfileInv, GoodRequest, OpsOf
  <2> HIDE DEF s
  <2>5. GoodRequests(s)
    BY <2>3, <2>4 DEF GoodRequests
  <2> QED
    BY <2>5 DEF s
<1>8. GoodRequests(wire') /\ GoodRequests(outbox')
  BY <1>4, <1>7, Dispatched DEF ProfileInv
<1> QED
  BY <1>6, <1>8

\* Loading a profile asks for it and holds nothing of another.
LEMMA Asked ==
  ASSUME ProfileInv, NEW p \in Person, identity' = p, load_profile(p),
         UNCHANGED <<answers, stored>>
  PROVE  ProfileInv'
<1>1. GoodRequest(Get(p))
  BY RequestParts DEF GoodRequest, OpsOf
<1>2. GoodRequests(<<Get(p)>>)
  BY <1>1, FewRequests
<1>3. GoodRequests(wire') /\ GoodRequests(outbox')
  BY <1>2, Dispatched DEF ProfileInv, load_profile
<1> QED
  BY <1>3 DEF ProfileInv, OwnProfile, load_profile, GoodAnswers, OpsOf

\* Whatever is written leaves the node and its answers as they are.
LEMMA Written ==
  ASSUME ProfileInv, NEW Q, NEW says \in Seq(Q), identity # None,
         profile_emit(says),
         UNCHANGED <<identity, answers, stored>>
  PROVE  ProfileInv'
<1>1. /\ OpsOf(profile_ops', identity)
      /\ GoodRequests(wire') /\ GoodRequests(outbox')
  BY Emitted
<1> QED
  BY <1>1 DEF ProfileInv, OwnProfile, GoodAnswers, OpsOf

\* A page that has just been loaded holds nothing, and the node has profiles of
\* earlier sessions.
LEMMA ProfileInitially == ProfileInit => ProfileInv
<1> SUFFICES ASSUME ProfileInit PROVE ProfileInv
  OBVIOUS
<1>1. OwnProfile
  BY DEF ProfileInit, Session, OwnProfile
<1>2. GoodRequests(wire) /\ GoodRequests(outbox) /\ GoodAnswers(answers)
  BY FewRequests, NoAnswers DEF ProfileInit, Session
<1>3. ASSUME NEW p \in Person, stored[p] # None
      PROVE  OpsOf(stored[p], p)
  <2>1. \A o \in stored[p] : o.by = "before"
    BY <1>3 DEF ProfileInit, UserOp
  <2> QED
    BY <2>1 DEF OpsOf
<1> QED
  BY <1>1, <1>2, <1>3 DEF ProfileInv, ProfileInit, Session

\* Every handler keeps what is each user's apart.
LEMMA ProfileStep == ProfileInv /\ [ProfileNext]_profile_vars => ProfileInv'
<1> SUFFICES ASSUME ProfileInv, [ProfileNext]_profile_vars PROVE ProfileInv'
  OBVIOUS
<1>1. ASSUME NEW p \in Person, adopt(p) PROVE ProfileInv'
  BY <1>1, Asked DEF adopt
<1>2. ASSUME NEW p \in Person, restore_identity(p) PROVE ProfileInv'
  BY <1>2, Asked DEF restore_identity
<1>3. ASSUME NEW b \in Openable, leave_board_bookmark(b) PROVE ProfileInv'
  <2>1. profile_emit(<<<<"LeftBoard", b>>>>)
    BY <1>3 DEF leave_board_bookmark
  <2>2. <<<<"LeftBoard", b>>>> \in Seq({<<"LeftBoard", b>>})
    OBVIOUS
  <2> QED
    BY <1>3, <2>1, <2>2, Written DEF leave_board_bookmark
<1>4. ASSUME NEW b \in Openable, NEW opened \in BOOLEAN,
             receive_board(b, opened)
      PROVE  ProfileInv'
  <2>1. CASE identity # None /\ profile_emit(<<<<"JoinedBoard", b>>>>)
    <3>1. <<<<"JoinedBoard", b>>>> \in Seq({<<"JoinedBoard", b>>})
      OBVIOUS
    <3> QED
      BY <1>4, <2>1, <3>1, Written DEF receive_board
  <2>2. CASE UNCHANGED <<profile_ops, outbox, wire>>
    BY <1>4, <2>2
    DEF receive_board, ProfileInv, OwnProfile, GoodRequests, GoodAnswers
  <2> QED
    BY <1>4, <2>1, <2>2 DEF receive_board, remember_board
<1>5. ASSUME NEW Q, NEW says \in Seq(Q), Writes(says) PROVE ProfileInv'
  BY <1>5, Written DEF Writes
<1>6. ASSUME NEW n \in Named,
             set_display_name(n) \/ link_device(n) \/ unlink_device(n)
      PROVE  ProfileInv'
  <2> DEFINE Q == {<<"SetName", n>>, <<"LinkDevice", n>>,
                   <<"SetDeviceLabel", n>>, <<"UnlinkDevice", n>>}
  <2>1. /\ <<<<"SetName", n>>>> \in Seq(Q)
        /\ <<<<"LinkDevice", n>>, <<"SetDeviceLabel", n>>>> \in Seq(Q)
        /\ <<<<"UnlinkDevice", n>>>> \in Seq(Q)
    OBVIOUS
  <2> HIDE DEF Q
  <2> QED
    BY <1>5, <1>6, <2>1 DEF set_display_name, link_device, unlink_device
<1>7. ASSUME NodeTakes PROVE ProfileInv'
  <2> DEFINE r == Head(wire)
  <2>1. GoodRequest(r) /\ GoodRequests(wire')
    BY <1>7, FirstRequest DEF NodeTakes, ProfileInv
  <2>2. UNCHANGED <<identity, profile_ops, outbox>>
    BY <1>7 DEF NodeTakes, page
  <2>3. CASE r.ask = "Get"
    <3> DEFINE a == [of |-> r.of, has |-> stored[r.of]]
    <3>1. answers' = Append(answers, a) /\ UNCHANGED stored
      BY <1>7, <2>3 DEF NodeTakes
    <3>2. ASSUME a.has # None PROVE OpsOf(a.has, a.of)
      BY <2>1, <3>2 DEF ProfileInv, GoodRequest
    <3>3. GoodAnswers(answers')
      BY <3>1, <3>2, MoreAnswers DEF ProfileInv
    <3> QED
      BY <2>1, <2>2, <3>1, <3>3 DEF ProfileInv, OwnProfile, GoodRequests
  <2>4. CASE r.ask \in {"Put", "Update"}
    <3>1. /\ UNCHANGED answers
          /\ \/ stored' = [stored EXCEPT ![r.of] =
                              IF @ = None THEN r.ops ELSE @ \cup r.ops]
             \/ stored' = [stored EXCEPT ![r.of] =
                              IF @ = None THEN None ELSE @ \cup r.ops]
      BY <1>7, <2>4 DEF NodeTakes
    <3>2. ASSUME NEW p \in Person, stored'[p] # None
          PROVE  OpsOf(stored'[p], p)
      BY <2>1, <3>1, <3>2 DEF ProfileInv, GoodRequest, OpsOf
    <3> QED
      BY <2>1, <2>2, <3>1, <3>2
      DEF ProfileInv, OwnProfile, GoodRequests, GoodAnswers
  <2> QED
    BY <2>1, <2>3, <2>4 DEF GoodRequest
<1>8. ASSUME Hear PROVE ProfileInv'
  <2>1. /\ Head(answers).has # None
             => OpsOf(Head(answers).has, Head(answers).of)
        /\ GoodAnswers(answers')
    BY <1>8, FirstAnswer DEF Hear, ProfileInv
  <2>2. OwnProfile'
    BY <1>8, <2>1 DEF Hear, AboutMe, ProfileInv, OwnProfile, OpsOf
  <2> QED
    BY <1>8, <2>1, <2>2 DEF Hear, ProfileInv, GoodRequests
<1>9. ASSUME Breaks PROVE ProfileInv'
  BY <1>9, FewRequests, NoAnswers
  DEF Breaks, page, ProfileInv, OwnProfile, GoodRequests
<1>10. ASSUME Reconnects PROVE ProfileInv'
  <2>1. identity # None =>
          GoodRequest(Update(identity, profile_ops)) /\ GoodRequest(Get(identity))
    BY RequestParts DEF ProfileInv, OwnProfile, GoodRequest, OpsOf
  <2>3. GoodRequests(resync)
    BY <2>1, FewRequests, MoreRequests DEF resync
  <2>2. GoodRequests(wire') /\ GoodRequests(outbox')
    BY <1>10, <2>3, MoreRequests, FewRequests DEF Reconnects, ProfileInv
  <2> QED
    BY <1>10, <2>2 DEF Reconnects, page, ProfileInv, OwnProfile, GoodAnswers
<1>11. ASSUME Reloads PROVE ProfileInv'
  BY <1>11, FewRequests, NoAnswers DEF Reloads, ProfileInv, OwnProfile
<1>12. ASSUME UNCHANGED profile_vars PROVE ProfileInv'
  BY <1>12
  DEF profile_vars, page, network, ProfileInv, OwnProfile, GoodRequests, GoodAnswers
<1> QED
  BY <1>1, <1>2, <1>3, <1>4, <1>6, <1>7, <1>8, <1>9, <1>10, <1>11, <1>12
  DEF ProfileNext

-----------------------------------------------------------------------------

\* What is on its way to the node, stored there or on its way back is of the
\* profile it is about, however often the identity changes.
THEOREM ProfileSafety == ProfileSpec => []ProfileInv
  BY ProfileInitially, ProfileStep, PTL DEF ProfileSpec

\* What a page shows of a profile, and sends out as the user's, is of whoever it
\* acts as (restore_identity, load_profile, kind_of, receive_profile).
THEOREM ProfileIsOwn == ProfileSpec => []OwnProfile
<1>1. ProfileInv => OwnProfile
  BY DEF ProfileInv
<1> QED
  BY <1>1, ProfileSafety, PTL

-----------------------------------------------------------------------------
(* The list of boards.                                                     *)

Elements(s) == {s[i] : i \in 1..Len(s)}

\* What earlier sessions left is of clocks up to 2, and each op moves them on by
\* one at most.
Clocked(ops, n) == \A o \in ops : o.lamport \in Nat /\ o.lamport <= n + 2

AllClocked ==
  /\ spoken \in Nat
  /\ Clocked(profile_ops, spoken)
  /\ \A r \in Elements(wire) \cup Elements(outbox) : Clocked(r.ops, spoken)
  /\ \A a \in Elements(answers) : a.has # None => Clocked(a.has, spoken)
  /\ \A p \in Person : stored[p] # None => Clocked(stored[p], spoken)

\* What is on its way to p's profile is known already, or is asked for after it
\* gets there.
AskedLater(s, p, ops) ==
  \A j \in 1..Len(s) :
    s[j].of = p => \/ s[j].ops \subseteq ops
                   \/ \E i \in (j + 1)..Len(s) : s[i].ask = "Get" /\ s[i].of = p

\* What p's profile has is known already, or is asked for, or answered.
WillBeHeard(p) ==
  \/ stored[p] = None
  \/ stored[p] \subseteq profile_ops
  \/ \E r \in Elements(wire) : r.ask = "Get" /\ r.of = p
  \/ \E a \in Elements(answers) :
       a.of = p /\ a.has # None /\ stored[p] \subseteq profile_ops \cup a.has

About(b, ops) == {o \in BoardOps(ops) : o.of = b}

\* Nothing about this board in the profile, wherever it is, is unknown to the page.
KnownOf(b) ==
  /\ stored[identity] # None => About(b, stored[identity]) \subseteq profile_ops
  /\ \A r \in Elements(wire) \cup Elements(outbox) :
       r.of = identity => About(b, r.ops) \subseteq profile_ops
  /\ \A a \in Elements(answers) :
       a.of = identity /\ a.has # None => About(b, a.has) \subseteq profile_ops

Said == {"nothing", "opened", "forgotten", "brought back", "in the dark"}
Counts == {"opened", "forgotten"}

\* A page that has an identity hears of what its profile has, unless there is no
\* connection.
Informed ==
  /\ AllClocked
  /\ ~online => wire = <<>> /\ answers = <<>>
  /\ identity # None =>
       /\ online => AskedLater(wire, identity, profile_ops) /\ WillBeHeard(identity)
       /\ ~online /\ loaded /\ stored[identity] # None =>
            stored[identity] \subseteq profile_ops

Untouched == [b \in Openable |-> "nothing"]

\* Of a board about which something was done that counts, there is nothing left
\* to hear.
ListInv ==
  /\ meant \in [Openable -> Said]
  /\ Informed
  /\ identity = None => wire = <<>> /\ answers = <<>> /\ outbox = <<>>
  /\ \A b \in Openable : meant[b] \in Counts => identity # None /\ KnownOf(b)
  /\ ListSaysWhatWasDone

-----------------------------------------------------------------------------
(* Sequences, as far as what they are made of.                             *)

\* The first of a sequence and the others are what it is made of.
LEMMA FirstElement ==
  ASSUME NEW s, \E S : s \in Seq(S), s # <<>>
  PROVE  /\ Elements(s) = {Head(s)} \cup Elements(Tail(s))
         /\ \E S : Tail(s) \in Seq(S)
<1>1. PICK S : s \in Seq(S)
  OBVIOUS
<1>2. Len(s) \in Nat /\ Len(s) # 0 /\ Head(s) = s[1]
  BY <1>1
<1>3. Tail(s) \in Seq(S) /\ Len(Tail(s)) = Len(s) - 1
  BY <1>1, <1>2
<1>4. \A i \in 1..Len(Tail(s)) : i + 1 \in 1..Len(s) /\ Tail(s)[i] = s[i + 1]
  BY <1>1, <1>2, <1>3
<1>5. Elements(Tail(s)) \subseteq Elements(s)
  BY <1>4 DEF Elements
<1>6. Head(s) \in Elements(s)
  BY <1>2 DEF Elements
<1>7. ASSUME NEW i \in 1..Len(s), i # 1 PROVE s[i] \in Elements(Tail(s))
  <2>1. i - 1 \in 1..Len(Tail(s)) /\ Tail(s)[i - 1] = s[i]
    BY <1>2, <1>3, <1>4, <1>7
  <2> QED
    BY <2>1 DEF Elements
<1>8. Elements(s) \subseteq {Head(s)} \cup Elements(Tail(s))
  BY <1>2, <1>7 DEF Elements
<1> QED
  BY <1>3, <1>5, <1>6, <1>8

\* What two sequences are made of is what they make together is made of.
LEMMA JoinedElements ==
  ASSUME NEW s, NEW t, \E S : s \in Seq(S), \E T : t \in Seq(T)
  PROVE  /\ Elements(s \o t) = Elements(s) \cup Elements(t)
         /\ \E S : s \o t \in Seq(S)
<1>1. PICK S : s \in Seq(S)
  OBVIOUS
<1>2. PICK T : t \in Seq(T)
  OBVIOUS
<1>3. s \in Seq(S \cup T) /\ t \in Seq(S \cup T)
  BY <1>1, <1>2
<1>4. s \o t \in Seq(S \cup T) /\ Len(s \o t) = Len(s) + Len(t)
  BY <1>3
<1>5. Len(s) \in Nat /\ Len(t) \in Nat
  BY <1>1, <1>2
<1>6. \A i \in 1..Len(s) : i \in 1..Len(s \o t) /\ (s \o t)[i] = s[i]
  BY <1>3, <1>4, <1>5
<1>7. \A i \in 1..Len(t) :
        Len(s) + i \in 1..Len(s \o t) /\ (s \o t)[Len(s) + i] = t[i]
  BY <1>3, <1>4, <1>5
<1>8. Elements(s) \cup Elements(t) \subseteq Elements(s \o t)
  BY <1>6, <1>7 DEF Elements
<1>9. ASSUME NEW i \in 1..Len(s \o t)
      PROVE  (s \o t)[i] \in Elements(s) \cup Elements(t)
  <2>1. CASE i <= Len(s)
    BY <1>4, <1>5, <1>6, <1>9, <2>1 DEF Elements
  <2>2. CASE ~(i <= Len(s))
    <3>1. i - Len(s) \in 1..Len(t) /\ (s \o t)[i] = t[i - Len(s)]
      BY <1>3, <1>4, <1>5, <1>9, <2>2
    <3> QED
      BY <3>1 DEF Elements
  <2> QED
    BY <2>1, <2>2
<1>10. Elements(s \o t) \subseteq Elements(s) \cup Elements(t)
  BY <1>9 DEF Elements
<1> QED
  BY <1>4, <1>8, <1>10

\* One element, or none.
LEMMA FewElements ==
  /\ Elements(<<>>) = {} /\ \E S : <<>> \in Seq(S)
  /\ \A x : Elements(<<x>>) = {x} /\ \E S : <<x>> \in Seq(S)
<1>1. Elements(<<>>) = {}
  BY DEF Elements
<1>2. <<>> \in Seq({})
  OBVIOUS
<1>3. ASSUME NEW x PROVE Elements(<<x>>) = {x} /\ <<x>> \in Seq({x})
  BY DEF Elements
<1>4. ASSUME NEW x PROVE Elements(<<x>>) = {x} /\ \E S : <<x>> \in Seq(S)
  BY <1>3
<1> QED
  BY <1>1, <1>2, <1>4

\* And one more.
LEMMA OneMoreElement ==
  ASSUME NEW s, NEW x, \E S : s \in Seq(S)
  PROVE  Elements(Append(s, x)) = Elements(s) \cup {x}
<1>1. PICK S : s \in Seq(S)
  OBVIOUS
<1>2. s \in Seq(S \cup {x})
  BY <1>1
<1>3. Append(s, x) = s \o <<x>>
  BY <1>2
<1>4. Elements(<<x>>) = {x} /\ \E T : <<x>> \in Seq(T)
  BY FewElements
<1>5. Elements(s \o <<x>>) = Elements(s) \cup Elements(<<x>>)
  BY <1>4, JoinedElements
<1> QED
  BY <1>3, <1>4, <1>5

-----------------------------------------------------------------------------
(* What is asked for after all that is on its way.                         *)

\* More that is known may follow.
LEMMA AskedMore ==
  ASSUME NEW s, NEW t, \E S : s \in Seq(S), \E T : t \in Seq(T),
         NEW p, NEW ops, NEW more, AskedLater(s, p, ops), ops \subseteq more,
         \A r \in Elements(t) : r.of = p => r.ops \subseteq more
  PROVE  AskedLater(s \o t, p, more)
<1>1. PICK S : s \in Seq(S)
  OBVIOUS
<1>2. PICK T : t \in Seq(T)
  OBVIOUS
<1>3. s \in Seq(S \cup T) /\ t \in Seq(S \cup T)
  BY <1>1, <1>2
<1>4. Len(s \o t) = Len(s) + Len(t) /\ Len(s) \in Nat /\ Len(t) \in Nat
  BY <1>3
<1>5. \A i \in 1..Len(s) : i \in 1..Len(s \o t) /\ (s \o t)[i] = s[i]
  BY <1>3, <1>4
<1> SUFFICES ASSUME NEW j \in 1..Len(s \o t), (s \o t)[j].of = p
             PROVE  \/ (s \o t)[j].ops \subseteq more
                    \/ \E i \in (j + 1)..Len(s \o t) :
                         (s \o t)[i].ask = "Get" /\ (s \o t)[i].of = p
  BY DEF AskedLater
<1>6. CASE j <= Len(s)
  <2>1. j \in 1..Len(s) /\ (s \o t)[j] = s[j]
    BY <1>4, <1>5, <1>6
  <2>2. ASSUME NEW i \in (j + 1)..Len(s)
        PROVE  i \in (j + 1)..Len(s \o t) /\ (s \o t)[i] = s[i]
    BY <1>4, <1>5, <2>1, <2>2
  <2> QED
    BY <2>1, <2>2 DEF AskedLater
<1>7. CASE ~(j <= Len(s))
  <2>1. j - Len(s) \in 1..Len(t) /\ (s \o t)[j] = t[j - Len(s)]
    BY <1>3, <1>4, <1>7
  <2> QED
    BY <2>1 DEF Elements
<1> QED
  BY <1>6, <1>7

\* A profile asked for last is asked for after all of it.
LEMMA AskedNow ==
  ASSUME NEW s, \E S : s \in Seq(S), NEW p, NEW ops
  PROVE  AskedLater(s \o <<Get(p)>>, p, ops)
<1>1. PICK S : s \in Seq(S)
  OBVIOUS
<1> DEFINE t == s \o <<Get(p)>>
<1>2. s \in Seq(S \cup {Get(p)})
  BY <1>1
<1>3. Len(t) = Len(s) + 1 /\ Len(s) \in Nat /\ t[Len(s) + 1] = Get(p)
  BY <1>2
<1> HIDE DEF t
<1>4. Get(p).ask = "Get" /\ Get(p).of = p /\ Get(p).ops = {}
  BY DEF Get
<1>5. ASSUME NEW j \in 1..Len(t)
      PROVE  t[j].ops \subseteq ops
             \/ \E i \in (j + 1)..Len(t) : t[i].ask = "Get" /\ t[i].of = p
  BY <1>3, <1>4
<1>6. AskedLater(t, p, ops)
  BY <1>5 DEF AskedLater
<1> QED
  BY <1>6 DEF t

\* What follows the first is asked for after it.
LEMMA AskedRest ==
  ASSUME NEW s, \E S : s \in Seq(S), s # <<>>, NEW p, NEW ops,
         AskedLater(s, p, ops)
  PROVE  /\ AskedLater(Tail(s), p, ops)
         /\ Head(s).of = p =>
              \/ Head(s).ops \subseteq ops
              \/ \E r \in Elements(Tail(s)) : r.ask = "Get" /\ r.of = p
<1>1. PICK S : s \in Seq(S)
  OBVIOUS
<1>2. Len(s) \in Nat /\ Len(s) # 0 /\ Head(s) = s[1]
  BY <1>1
<1>3. Tail(s) \in Seq(S) /\ Len(Tail(s)) = Len(s) - 1
  BY <1>1, <1>2
<1>4. \A i \in 1..Len(Tail(s)) : i + 1 \in 1..Len(s) /\ Tail(s)[i] = s[i + 1]
  BY <1>1, <1>2, <1>3
<1> DEFINE t == Tail(s)
<1> HIDE DEF t
<1>5. \A i \in 2..Len(s) : i - 1 \in 1..Len(t) /\ t[i - 1] = s[i]
  BY <1>2, <1>3, <1>4 DEF t
<1>6. ASSUME NEW j \in 1..Len(t), t[j].of = p
      PROVE  \/ t[j].ops \subseteq ops
             \/ \E i \in (j + 1)..Len(t) : t[i].ask = "Get" /\ t[i].of = p
  <2>1. j + 1 \in 1..Len(s) /\ t[j] = s[j + 1]
    BY <1>4 DEF t
  <2>2. CASE t[j].ops \subseteq ops
    BY <2>2
  <2>3. CASE \E i \in (j + 2)..Len(s) : s[i].ask = "Get" /\ s[i].of = p
    <3>1. PICK i \in (j + 2)..Len(s) : s[i].ask = "Get" /\ s[i].of = p
      BY <2>3
    <3>2. i - 1 \in (j + 1)..Len(t) /\ t[i - 1] = s[i]
      BY <1>2, <1>3, <1>5 DEF t
    <3> QED
      BY <3>1, <3>2
  <2> QED
    BY <1>6, <2>1, <2>2, <2>3 DEF AskedLater
<1>7. AskedLater(t, p, ops)
  BY <1>6 DEF AskedLater
<1>8. ASSUME Head(s).of = p
      PROVE  \/ Head(s).ops \subseteq ops
             \/ \E r \in Elements(t) : r.ask = "Get" /\ r.of = p
  <2>1. \/ s[1].ops \subseteq ops
        \/ \E i \in 2..Len(s) : s[i].ask = "Get" /\ s[i].of = p
    BY <1>2, <1>8 DEF AskedLater
  <2> QED
    BY <1>2, <1>5, <2>1 DEF Elements
<1> QED
  BY <1>7, <1>8 DEF t

-----------------------------------------------------------------------------
(* Clocks.                                                                 *)

\* The clock of a new op is past those of all that are known, by one at most.
LEMMA NextClock ==
  ASSUME NEW ops, NEW N \in Nat,
         \A o \in ops : o.lamport \in Nat /\ o.lamport <= N
  PROVE  /\ next_user_lamport(ops) \in Nat
         /\ next_user_lamport(ops) <= N + 1
         /\ \A o \in ops : o.lamport < next_user_lamport(ops)
<1> DEFINE T == {0} \cup {o.lamport : o \in ops}
           D == {N - n : n \in T}
           R == OpToRel(<, Nat)
<1>1. T \subseteq 0..N
  OBVIOUS
<1>2. D \subseteq Nat /\ D # {}
  BY <1>1
<1>3. PICK d \in D : \A e \in D : ~(<<e, d>> \in R)
  BY <1>2, NatLessThanWellFounded, WFMin
<1>4. ASSUME NEW e \in D, ~(d <= e) PROVE FALSE
  <2>1. d \in Nat /\ e \in Nat
    BY <1>2
  <2>2. e < d
    BY <1>4, <2>1
  <2>3. <<e, d>> \in R
    BY <2>1, <2>2 DEF OpToRel
  <2> QED
    BY <1>3, <2>3
<1>5. PICK x \in T : d = N - x
  BY <1>3
<1>6. \A n \in T : n <= x
  <2>1. TAKE n \in T
  <2>2. N - n \in D
    OBVIOUS
  <2> HIDE DEF D, T
  <2>3. n \in 0..N /\ x \in 0..N
    BY <1>1
  <2> QED
    BY <1>4, <1>5, <2>2, <2>3
<1> DEFINE c == CHOOSE n \in T : \A o \in ops : o.lamport <= n
<1>7. x \in T /\ \A o \in ops : o.lamport <= x
  BY <1>6
<1>8. c \in T /\ \A o \in ops : o.lamport <= c
  <2> HIDE DEF T
  <2> QED
    BY <1>7
<1>9. next_user_lamport(ops) = 1 + c
  BY DEF next_user_lamport
<1> HIDE DEF c, T
<1> QED
  BY <1>1, <1>8, <1>9
-----------------------------------------------------------------------------
(* Each handler.                                                           *)

\* What is sent, with a connection or without.
LEMMA DispatchedElements ==
  ASSUME ProfileInv, NEW s, \E S : s \in Seq(S), dispatch(s)
  PROVE  /\ online => /\ wire' = wire \o s
                      /\ Elements(wire') = Elements(wire) \cup Elements(s)
                      /\ outbox' = outbox
         /\ ~online => /\ Elements(outbox') = Elements(outbox) \cup Elements(s)
                       /\ wire' = wire
         /\ Elements(wire') \cup Elements(outbox')
              = Elements(wire) \cup Elements(outbox) \cup Elements(s)
<1>1. (\E S : wire \in Seq(S)) /\ (\E S : outbox \in Seq(S))
  BY DEF ProfileInv, GoodRequests
<1>2. Elements(wire \o s) = Elements(wire) \cup Elements(s)
  BY <1>1, JoinedElements
<1>3. Elements(outbox \o s) = Elements(outbox) \cup Elements(s)
  BY <1>1, JoinedElements
<1> QED
  BY <1>2, <1>3 DEF dispatch

\* What is written at once: ops of clocks past all that are known, sent in
\* requests about the user's own profile that say nothing the page does not know.
LEMMA EmittedOps ==
  ASSUME ProfileInv, AllClocked, NEW Q, NEW says \in Seq(Q), identity # None,
         profile_emit(says)
  PROVE  \E ops, requests :
           /\ DOMAIN ops = 1..Len(says)
           /\ profile_ops' = profile_ops \cup {ops[i] : i \in DOMAIN ops}
           /\ \A i \in 1..Len(says) :
                /\ ops[i].says = says[i][1] /\ ops[i].of = says[i][2]
                /\ ops[i].lamport \in Nat /\ ops[i].at \in Nat
                /\ \A o \in profile_ops : o.lamport < ops[i].lamport
           /\ spoken' \in Nat /\ spoken <= spoken'
           /\ Clocked(profile_ops', spoken')
           /\ \E S : requests \in Seq(S)
           /\ dispatch(requests)
           /\ \A r \in Elements(requests) :
                r.of = identity /\ r.ops \subseteq profile_ops'
<1> DEFINE first == next_user_lamport(profile_ops)
           ops == [i \in DOMAIN says |->
                     UserOp(identity, says[i][1], says[i][2], first + i - 1,
                            spoken + i)]
           requests == requests_for(ops)
<1>1. DOMAIN says = 1..Len(says) /\ Len(says) \in Nat
  OBVIOUS
<1>2. /\ spoken' = spoken + Len(says)
      /\ profile_ops' = profile_ops \cup {ops[i] : i \in DOMAIN ops}
      /\ dispatch(requests)
  BY DEF profile_emit
<1>3. spoken \in Nat /\ \A o \in profile_ops : o.lamport \in Nat /\ o.lamport <= spoken + 2
  BY DEF AllClocked, Clocked
<1>4. /\ first \in Nat /\ first <= spoken + 3
      /\ \A o \in profile_ops : o.lamport < first
  <2>1. spoken + 2 \in Nat /\ spoken + 2 + 1 = spoken + 3
    BY <1>3
  <2> HIDE DEF first
  <2> QED
    BY <1>3, <2>1, NextClock DEF first
<1>5. \A i \in 1..Len(says) :
        /\ ops[i].says = says[i][1] /\ ops[i].of = says[i][2]
        /\ ops[i].lamport = first + i - 1 /\ ops[i].at = spoken + i
  BY <1>1 DEF UserOp
<1>6. DOMAIN ops = 1..Len(says)
  BY <1>1
<1> HIDE DEF ops, first
<1>7. \A i \in 1..Len(says) :
        /\ ops[i].lamport \in Nat /\ ops[i].lamport <= spoken' + 2
        /\ ops[i].at \in Nat
        /\ \A o \in profile_ops : o.lamport < ops[i].lamport
  BY <1>1, <1>2, <1>3, <1>4, <1>5
<1>8. spoken' \in Nat /\ spoken <= spoken'
  BY <1>1, <1>2, <1>3
<1>9. Clocked(profile_ops', spoken')
  BY <1>2, <1>3, <1>6, <1>7, <1>8 DEF Clocked
<1>10. /\ \E S : requests \in Seq(S)
       /\ \A r \in Elements(requests) :
            r.of = identity /\ r.ops \subseteq profile_ops'
  <2> DEFINE S == {requests[i] : i \in 1..Len(says)}
  <2>1. requests = [i \in 1..Len(says) |-> requests[i]]
    BY <1>6 DEF requests_for
  <2>2. requests \in [1..Len(says) -> S]
    BY <2>1
  <2>3. requests \in Seq(S) /\ Len(requests) = Len(says)
    BY <1>1, <2>2
  <2>4. ASSUME NEW i \in 1..Len(says)
        PROVE  requests[i].of = identity /\ requests[i].ops \subseteq profile_ops'
    <3>1. \/ i = 1 /\ requests[i] = PutState(identity, profile_ops \cup {ops[1]})
          \/ requests[i] = Update(identity, {ops[i]})
      BY <1>6 DEF requests_for
    <3>2. ops[i] \in profile_ops' /\ profile_ops \subseteq profile_ops'
      BY <1>2, <1>6
    <3> HIDE DEF requests
    <3> QED
      BY <3>1, <3>2, RequestParts
  <2> HIDE DEF requests
  <2> QED
    BY <2>3, <2>4 DEF Elements
<1> HIDE DEF requests
<1> QED
  BY <1>2, <1>5, <1>6, <1>7, <1>8, <1>9, <1>10

\* Writing leaves the page as well informed as it was.
LEMMA InformedWriting ==
  ASSUME ProfileInv, Informed, NEW Q, NEW says \in Seq(Q), identity # None,
         profile_emit(says),
         UNCHANGED <<identity, answers, stored, online, loaded>>
  PROVE  Informed' /\ \A b : KnownOf(b) => KnownOf(b)'
<1>1. PICK ops, requests :
           /\ DOMAIN ops = 1..Len(says)
           /\ profile_ops' = profile_ops \cup {ops[i] : i \in DOMAIN ops}
           /\ \A i \in 1..Len(says) :
                /\ ops[i].says = says[i][1] /\ ops[i].of = says[i][2]
                /\ ops[i].lamport \in Nat /\ ops[i].at \in Nat
                /\ \A o \in profile_ops : o.lamport < ops[i].lamport
           /\ spoken' \in Nat /\ spoken <= spoken'
           /\ Clocked(profile_ops', spoken')
           /\ \E S : requests \in Seq(S)
           /\ dispatch(requests)
           /\ \A r \in Elements(requests) :
                r.of = identity /\ r.ops \subseteq profile_ops'
  BY EmittedOps DEF Informed
<1>2. profile_ops \subseteq profile_ops'
  BY <1>1
<1>3. /\ online => /\ wire' = wire \o requests
                   /\ Elements(wire') = Elements(wire) \cup Elements(requests)
      /\ ~online => wire' = wire
      /\ Elements(wire') \cup Elements(outbox')
           = Elements(wire) \cup Elements(outbox) \cup Elements(requests)
  BY <1>1, DispatchedElements
<1>4. \A r \in Elements(requests) : Clocked(r.ops, spoken')
  BY <1>1 DEF Clocked
<1>5. \A known : Clocked(known, spoken) => Clocked(known, spoken')
  BY <1>1 DEF Clocked, Informed, AllClocked
<1>6. AllClocked'
  <2>1. \A r \in Elements(wire') \cup Elements(outbox') : Clocked(r.ops, spoken')
    BY <1>3, <1>4, <1>5 DEF Informed, AllClocked
  <2>2. \A a \in Elements(answers') : a.has # None => Clocked(a.has, spoken')
    BY <1>5 DEF Informed, AllClocked
  <2>3. \A p \in Person : stored'[p] # None => Clocked(stored'[p], spoken')
    BY <1>5 DEF Informed, AllClocked
  <2> QED
    BY <1>1, <2>1, <2>2, <2>3 DEF AllClocked
<1>7. ASSUME online PROVE AskedLater(wire', identity, profile_ops')
  <2>1. AskedLater(wire, identity, profile_ops) /\ \E S : wire \in Seq(S)
    BY <1>7 DEF Informed, ProfileInv, GoodRequests
  <2>2. /\ \E S : requests \in Seq(S)
        /\ \A r \in Elements(requests) : r.of = identity => r.ops \subseteq profile_ops'
    BY <1>1
  <2>3. AskedLater(wire \o requests, identity, profile_ops')
    BY <1>2, <2>1, <2>2, AskedMore
  <2> QED
    BY <1>3, <1>7, <2>3
<1>8. ASSUME online PROVE WillBeHeard(identity)'
  BY <1>2, <1>3, <1>8 DEF Informed, WillBeHeard
<1>9. ASSUME NEW b, KnownOf(b) PROVE KnownOf(b)'
  <2>1. \A r \in Elements(requests) : About(b, r.ops) \subseteq profile_ops'
    BY <1>1 DEF About, BoardOps
  <2>2. UNCHANGED <<identity, answers, stored>>
    OBVIOUS
  <2> QED
    BY <1>1, <1>2, <1>3, <1>9, <2>1, <2>2 DEF KnownOf
<1> QED
  BY <1>2, <1>3, <1>6, <1>7, <1>8, <1>9 DEF Informed
-----------------------------------------------------------------------------
(* The list.                                                               *)

\* An op about no board changes nothing, nor does one about another board.
LEMMA ListedOthers ==
  ASSUME NEW ops, NEW more, ops \subseteq more, NEW b,
         \A o \in more \ ops : o.says \in {"JoinedBoard", "LeftBoard"} => o.of # b
  PROVE  b \in Listed(more) <=> b \in Listed(ops)
<1>1. \A o : o.of = b => (o \in BoardOps(more) <=> o \in BoardOps(ops))
  BY DEF BoardOps
<1> QED
  BY <1>1 DEF Listed

\* The latest op about a board decides.
LEMMA LatestDecides ==
  ASSUME NEW ops, NEW new, NEW b, new.of = b,
         new.says \in {"JoinedBoard", "LeftBoard"}, new.lamport \in Nat, new.at \in Nat,
         \A o \in ops : o.lamport \in Nat /\ o.lamport < new.lamport
  PROVE  b \in Listed(ops \cup {new}) <=> new.says = "JoinedBoard"
<1> DEFINE more == ops \cup {new}
<1>1. new \in BoardOps(more)
  BY DEF BoardOps
<1>2. \A o \in BoardOps(more) : o = new \/ (o \in ops /\ Later(new, o) /\ ~Later(o, new))
  BY DEF BoardOps, Later
<1>3. ~Later(new, new)
  BY DEF Later
<1> HIDE DEF more
<1>4. ASSUME new.says = "JoinedBoard" PROVE b \in Listed(more)
  <2>1. \A x \in BoardOps(more) : ~Later(x, new)
    BY <1>2, <1>3
  <2>2. new \in {o \in BoardOps(more) :
                   /\ o.says = "JoinedBoard"
                   /\ \A x \in BoardOps(more) : x.of = o.of => ~Later(x, o)}
    BY <1>1, <1>4, <2>1
  <2> QED
    BY <2>2 DEF Listed
<1>5. ASSUME b \in Listed(more) PROVE new.says = "JoinedBoard"
  <2>1. PICK o \in BoardOps(more) :
          /\ o.says = "JoinedBoard" /\ o.of = b
          /\ \A x \in BoardOps(more) : x.of = o.of => ~Later(x, o)
    BY <1>5 DEF Listed
  <2>2. ~Later(new, o)
    BY <1>1, <2>1
  <2>3. o = new
    BY <1>2, <2>1, <2>2
  <2> QED
    BY <2>1, <2>3
<1> QED
  BY <1>4, <1>5 DEF more

\* One op of these is written; about the board it names, it decides.
LEMMA ListedWriting ==
  ASSUME ProfileInv, AllClocked, identity # None,
         NEW what \in {"JoinedBoard", "LeftBoard"}, NEW b,
         profile_emit(<<<<what, b>>>>)
  PROVE  /\ b \in Listed(profile_ops') <=> what = "JoinedBoard"
         /\ \A c : c # b => (c \in Listed(profile_ops') <=> c \in Listed(profile_ops))
<1> DEFINE says == <<<<what, b>>>>
<1>1. /\ says \in Seq({<<what, b>>}) /\ Len(says) = 1
      /\ says[1] = <<what, b>> /\ says[1][1] = what /\ says[1][2] = b
  OBVIOUS
<1>2. profile_emit(says)
  OBVIOUS
<1> HIDE DEF says
<1>3. PICK ops, requests :
           /\ DOMAIN ops = 1..Len(says)
           /\ profile_ops' = profile_ops \cup {ops[i] : i \in DOMAIN ops}
           /\ \A i \in 1..Len(says) :
                /\ ops[i].says = says[i][1] /\ ops[i].of = says[i][2]
                /\ ops[i].lamport \in Nat /\ ops[i].at \in Nat
                /\ \A o \in profile_ops : o.lamport < ops[i].lamport
           /\ spoken' \in Nat /\ spoken <= spoken'
           /\ Clocked(profile_ops', spoken')
           /\ \E S : requests \in Seq(S)
           /\ dispatch(requests)
           /\ \A r \in Elements(requests) :
                r.of = identity /\ r.ops \subseteq profile_ops'
  BY <1>1, <1>2, EmittedOps
<1>4. /\ profile_ops' = profile_ops \cup {ops[1]}
      /\ ops[1].says = what /\ ops[1].of = b /\ ops[1].lamport \in Nat
      /\ ops[1].at \in Nat
      /\ \A o \in profile_ops : o.lamport \in Nat /\ o.lamport < ops[1].lamport
  BY <1>1, <1>3 DEF AllClocked, Clocked
<1>5. b \in Listed(profile_ops') <=> what = "JoinedBoard"
  BY <1>4, LatestDecides
<1>6. ASSUME NEW c, c # b
      PROVE  c \in Listed(profile_ops') <=> c \in Listed(profile_ops)
  BY <1>4, <1>6, ListedOthers
<1> QED
  BY <1>5, <1>6
-----------------------------------------------------------------------------
(* The handlers, and the list.                                             *)

\* The positions of a sequence.
LEMMA Positions ==
  ASSUME NEW s, \E S : s \in Seq(S)
  PROVE  DOMAIN s = 1..Len(s)
OBVIOUS

\* What is done about a board counts when all about it is known, as it is to a
\* user who waits.
LEMMA CountsWhenKnown ==
  ASSUME ProfileInv, Informed, NEW b, NEW what, what # "in the dark"
  PROVE  \/ Done(b, what) = "in the dark"
         \/ Done(b, what) = what /\ identity # None /\ KnownOf(b)
<1>1. CASE identity # None /\ Settled
  <2>1. /\ Elements(wire) = {} /\ Elements(outbox) = {} /\ Elements(answers) = {}
    BY <1>1, FewElements DEF Settled
  <2>2. stored[identity] # None => stored[identity] \subseteq profile_ops
    BY <1>1, <2>1 DEF Settled, Informed, WillBeHeard
  <2>3. KnownOf(b)
    BY <2>1, <2>2 DEF KnownOf, About, BoardOps
  <2> QED
    BY <1>1, <2>3 DEF Done
<1>2. CASE identity # None /\ Unheard(b) = {}
  <2> DEFINE sent == {wire[i] : i \in DOMAIN wire} \cup {outbox[i] : i \in DOMAIN outbox}
             heard == {answers[i] : i \in DOMAIN answers}
             there == (IF stored[identity] = None THEN {} ELSE stored[identity])
                        \cup (UNION {r.ops : r \in {r \in sent : r.of = identity}})
                        \cup (UNION {a.has : a \in {a \in heard : /\ a.of = identity
                                                                  /\ a.has # None}})
  <2>1. /\ DOMAIN wire = 1..Len(wire) /\ DOMAIN outbox = 1..Len(outbox)
        /\ DOMAIN answers = 1..Len(answers)
    <3>1. /\ \E S : wire \in Seq(S)
          /\ \E S : outbox \in Seq(S)
          /\ \E S : answers \in Seq(S)
      BY DEF ProfileInv, GoodRequests, GoodAnswers
    <3> QED
      BY <3>1, Positions
  <2>2. /\ sent = Elements(wire) \cup Elements(outbox) /\ heard = Elements(answers)
    BY <2>1 DEF Elements
  <2>3. About(b, there) \subseteq profile_ops
    <3>1. About(b, there) \ profile_ops = Unheard(b)
      BY DEF Unheard, About
    <3> HIDE DEF there
    <3> QED
      BY <1>2, <3>1
  <2>4. /\ stored[identity] # None => stored[identity] \subseteq there
        /\ \A r \in sent : r.of = identity => r.ops \subseteq there
        /\ \A a \in heard : a.of = identity /\ a.has # None => a.has \subseteq there
    <3> HIDE DEF sent, heard
    <3>1. stored[identity] # None => stored[identity] \subseteq there
      OBVIOUS
    <3>2. ASSUME NEW r \in sent, r.of = identity PROVE r.ops \subseteq there
      <4>1. r.ops \in {x.ops : x \in {x \in sent : x.of = identity}}
        BY <3>2
      <4> QED
        BY <4>1
    <3>3. ASSUME NEW a \in heard, a.of = identity, a.has # None
          PROVE  a.has \subseteq there
      <4> SUFFICES ASSUME NEW e \in a.has PROVE e \in there
        OBVIOUS
      <4> DEFINE mine == {x \in heard : x.of = identity /\ x.has # None}
      <4>1. a \in mine
        BY <3>3
      <4>2. \A x \in mine : e \in x.has => e \in UNION {y.has : y \in mine}
        OBVIOUS
      <4>3. e \in UNION {y.has : y \in mine}
        BY <4>1, <4>2
      <4> QED
        BY <4>3
    <3> QED
      BY <3>1, <3>2, <3>3
  <2> HIDE DEF there, sent, heard
  <2>5. \A ops : ops \subseteq there => About(b, ops) \subseteq profile_ops
    BY <2>3 DEF About, BoardOps
  <2>6. KnownOf(b)
    BY <2>2, <2>4, <2>5 DEF KnownOf
  <2> QED
    BY <1>2, <2>6 DEF Done
<1>3. CASE ~(identity # None /\ (Settled \/ Unheard(b) = {}))
  BY <1>3 DEF Done
<1> QED
  BY <1>1, <1>2, <1>3

\* Whose page it becomes, it asks for the profile of.
LEMMA ListAsked ==
  ASSUME ProfileInv, ListInv, NEW p \in Person, identity' = p, load_profile(p),
         meant' \in [Openable -> Said], \A b \in Openable : meant'[b] \notin Counts,
         UNCHANGED <<answers, stored, online, spoken>>
  PROVE  ListInv'
<1>1. Get(p).ask = "Get" /\ Get(p).of = p /\ Get(p).ops = {}
  BY DEF Get
<1> DEFINE s == <<Get(p)>>
<1>2. Elements(s) = {Get(p)} /\ \E S : s \in Seq(S)
  BY FewElements
<1>3. dispatch(s) /\ profile_ops' = {} /\ loaded' = FALSE
  BY DEF load_profile
<1> HIDE DEF s
<1>4. /\ online => /\ wire' = wire \o s
                   /\ Elements(wire') = Elements(wire) \cup Elements(s)
      /\ ~online => wire' = wire
      /\ Elements(wire') \cup Elements(outbox')
           = Elements(wire) \cup Elements(outbox) \cup Elements(s)
  BY <1>2, <1>3, DispatchedElements
<1>5. AllClocked'
  <2>1. \A r \in Elements(wire') \cup Elements(outbox') : Clocked(r.ops, spoken)
    BY <1>1, <1>2, <1>4 DEF ListInv, Informed, AllClocked, Clocked
  <2> QED
    BY <1>3, <2>1 DEF ListInv, Informed, AllClocked, Clocked
<1>6. ASSUME online PROVE AskedLater(wire', p, profile_ops')
  <2>1. \E S : wire \in Seq(S)
    BY DEF ProfileInv, GoodRequests
  <2>2. wire' = wire \o <<Get(p)>>
    BY <1>4, <1>6 DEF s
  <2>3. AskedLater(wire \o <<Get(p)>>, p, profile_ops')
    BY <2>1, AskedNow
  <2> QED
    BY <2>2, <2>3
<1>7. ASSUME online PROVE WillBeHeard(p)'
  BY <1>1, <1>2, <1>4, <1>7 DEF WillBeHeard
<1>8. Informed'
  BY <1>3, <1>4, <1>5, <1>6, <1>7 DEF ListInv, Informed
<1>9. ListSaysWhatWasDone'
  BY DEF Counts, ListSaysWhatWasDone
<1>10. p # None
  BY ProfileAssumption
<1> QED
  BY <1>8, <1>9, <1>10 DEF ListInv

\* One board, opened or forgotten by a user who knows of it or does not.
LEMMA ListActed ==
  ASSUME ProfileInv, ListInv, identity # None,
         NEW b \in Openable, NEW what \in {"JoinedBoard", "LeftBoard"},
         profile_emit(<<<<what, b>>>>),
         UNCHANGED <<identity, answers, stored, online, loaded>>,
         meant' = [meant EXCEPT ![b] =
                     Done(b, IF what = "JoinedBoard" THEN "opened" ELSE "forgotten")]
  PROVE  ListInv'
<1>1. <<<<what, b>>>> \in Seq({<<what, b>>})
  OBVIOUS
<1>2. Informed' /\ \A c : KnownOf(c) => KnownOf(c)'
  BY <1>1, InformedWriting DEF ListInv
<1>3. /\ b \in Listed(profile_ops') <=> what = "JoinedBoard"
      /\ \A c : c # b => (c \in Listed(profile_ops') <=> c \in Listed(profile_ops))
  BY ListedWriting DEF ListInv, Informed
<1> DEFINE done == IF what = "JoinedBoard" THEN "opened" ELSE "forgotten"
<1>4. /\ done \in Counts
      /\ \/ Done(b, done) = "in the dark"
         \/ Done(b, done) = done /\ KnownOf(b)
  BY CountsWhenKnown DEF ListInv, Counts
<1>5. meant' \in [Openable -> Said]
  BY <1>4 DEF ListInv, Said, Counts
<1>6. ASSUME NEW c \in Openable
      PROVE  /\ meant'[c] = "opened" => c \in Listed(profile_ops')
             /\ meant'[c] = "forgotten" => c \notin Listed(profile_ops')
             /\ meant'[c] \in Counts => KnownOf(c)'
  <2>1. CASE c = b
    <3>1. meant'[c] = Done(b, done)
      BY <2>1 DEF ListInv
    <3> QED
      BY <1>2, <1>3, <1>4, <2>1, <3>1 DEF Counts
  <2>2. CASE c # b
    BY <1>2, <1>3, <2>2 DEF ListInv, ListSaysWhatWasDone
  <2> QED
    BY <2>1, <2>2
<1> QED
  BY <1>2, <1>5, <1>6 DEF ListInv, ListSaysWhatWasDone

\* A board that comes back by itself: it is listed again, and that is not what
\* its user did.
LEMMA ListBroughtBack ==
  ASSUME ProfileInv, ListInv, identity # None,
         NEW b \in Openable, profile_emit(<<<<"JoinedBoard", b>>>>),
         UNCHANGED <<identity, answers, stored, online, loaded>>,
         meant' = IF meant[b] = "forgotten"
                  THEN [meant EXCEPT ![b] = "brought back"] ELSE meant
  PROVE  ListInv'
<1>1. PICK S : <<<<"JoinedBoard", b>>>> \in Seq(S)
  BY FewElements
<1>2. Informed' /\ \A c : KnownOf(c) => KnownOf(c)'
  BY <1>1, InformedWriting DEF ListInv
<1>3. /\ b \in Listed(profile_ops')
      /\ \A c : c # b => (c \in Listed(profile_ops') <=> c \in Listed(profile_ops))
  BY ListedWriting DEF ListInv, Informed
<1>4. /\ meant' \in [Openable -> Said]
      /\ \A c \in Openable : meant'[c] \in Counts => meant[c] \in Counts
  BY DEF ListInv, Said, Counts
<1>5. ASSUME NEW c \in Openable
      PROVE  /\ meant'[c] = "opened" => c \in Listed(profile_ops')
             /\ meant'[c] = "forgotten" => c \notin Listed(profile_ops')
  <2>1. CASE c = b
    BY <1>3, <2>1 DEF ListInv
  <2>2. CASE c # b
    BY <1>3, <2>2 DEF ListInv, ListSaysWhatWasDone
  <2> QED
    BY <2>1, <2>2
<1> QED
  BY <1>2, <1>4, <1>5 DEF ListInv, ListSaysWhatWasDone

\* What says nothing of a board leaves the list as it is.
LEMMA ListWritten ==
  ASSUME ProfileInv, ListInv, identity # None, NEW Q, NEW says \in Seq(Q),
         \A i \in 1..Len(says) : says[i][1] \notin {"JoinedBoard", "LeftBoard"},
         profile_emit(says),
         UNCHANGED <<identity, answers, stored, online, loaded, meant>>
  PROVE  ListInv'
<1>1. Informed' /\ \A c : KnownOf(c) => KnownOf(c)'
  BY InformedWriting DEF ListInv
<1>2. PICK ops, requests :
           /\ DOMAIN ops = 1..Len(says)
           /\ profile_ops' = profile_ops \cup {ops[i] : i \in DOMAIN ops}
           /\ \A i \in 1..Len(says) :
                /\ ops[i].says = says[i][1] /\ ops[i].of = says[i][2]
                /\ ops[i].lamport \in Nat /\ ops[i].at \in Nat
                /\ \A o \in profile_ops : o.lamport < ops[i].lamport
           /\ spoken' \in Nat /\ spoken <= spoken'
           /\ Clocked(profile_ops', spoken')
           /\ \E S : requests \in Seq(S)
           /\ dispatch(requests)
           /\ \A r \in Elements(requests) :
                r.of = identity /\ r.ops \subseteq profile_ops'
  BY EmittedOps DEF ListInv, Informed
<1>3. /\ profile_ops \subseteq profile_ops'
      /\ \A o \in profile_ops' \ profile_ops : o.says \notin {"JoinedBoard", "LeftBoard"}
  BY <1>2
<1>4. \A c : c \in Listed(profile_ops') <=> c \in Listed(profile_ops)
  BY <1>3, ListedOthers
<1> QED
  BY <1>1, <1>4 DEF ListInv, ListSaysWhatWasDone
\* A page that has just been loaded.
LEMMA ListInitially == ProfileInit => ListInv
<1> SUFFICES ASSUME ProfileInit PROVE ListInv
  OBVIOUS
<1>1. /\ spoken = 0 /\ profile_ops = {} /\ identity = None /\ online = TRUE
      /\ wire = <<>> /\ outbox = <<>> /\ answers = <<>> /\ meant = Untouched
  BY DEF ProfileInit, Session, Untouched
<1>2. Elements(<<>>) = {}
  BY FewElements
<1>3. ASSUME NEW p \in Person, stored[p] # None PROVE Clocked(stored[p], 0)
  <2>1. PICK b \in Openable :
          stored[p] \subseteq {UserOp("before", "JoinedBoard", b, 1, 0),
                               UserOp("before", "LeftBoard", b, 2, 0)}
    BY <1>3 DEF ProfileInit
  <2>2. /\ UserOp("before", "JoinedBoard", b, 1, 0).lamport = 1
        /\ UserOp("before", "LeftBoard", b, 2, 0).lamport = 2
    BY DEF UserOp
  <2> QED
    BY <2>1, <2>2 DEF Clocked
<1>4. AllClocked
  BY <1>1, <1>2, <1>3 DEF AllClocked, Clocked
<1> QED
  BY <1>1, <1>4 DEF ListInv, Informed, Untouched, Said, Counts, ListSaysWhatWasDone

\* What the node takes, it keeps or answers.
LEMMA ListTaken ==
  ASSUME ProfileInv, ListInv, NodeTakes
  PROVE  ListInv'
<1> DEFINE r == Head(wire)
<1>1. /\ \E S : wire \in Seq(S)
      /\ wire # <<>> /\ online
      /\ r.ask \in {"Get", "Put", "Update"} /\ r.of \in Person /\ wire' = Tail(wire)
  BY FirstRequest DEF NodeTakes, ProfileInv, GoodRequests, GoodRequest
<1>2. Elements(wire) = {r} \cup Elements(wire')
  BY <1>1, FirstElement
<1>3. UNCHANGED <<identity, profile_ops, outbox, online, loaded, spoken, meant>>
  BY DEF NodeTakes, page
<1>4. identity # None
  BY <1>1 DEF ListInv
<1>5. /\ AskedLater(wire', identity, profile_ops)
      /\ r.of = identity =>
           \/ r.ops \subseteq profile_ops
           \/ \E x \in Elements(wire') : x.ask = "Get" /\ x.of = identity
  BY <1>1, <1>4, AskedRest DEF ListInv, Informed
<1>6. WillBeHeard(identity)
  BY <1>1, <1>4 DEF ListInv, Informed
<1>7. CASE r.ask = "Get"
  <2> DEFINE a == [of |-> r.of, has |-> stored[r.of]]
  <2>1. answers' = Append(answers, a) /\ UNCHANGED stored
    BY <1>7 DEF NodeTakes
  <2>2. Elements(answers') = Elements(answers) \cup {a}
    BY <2>1, OneMoreElement DEF ProfileInv, GoodAnswers
  <2>3. a.of = r.of /\ a.has = stored[r.of]
    OBVIOUS
  <2> HIDE DEF a, r
  <2>4. WillBeHeard(identity)'
    BY <1>2, <1>3, <1>6, <2>1, <2>2, <2>3 DEF WillBeHeard
  <2>5. AllClocked'
    BY <1>1, <1>2, <1>3, <2>1, <2>2, <2>3 DEF ListInv, Informed, AllClocked
  <2>6. \A b : KnownOf(b) => KnownOf(b)'
    BY <1>2, <1>3, <2>1, <2>2, <2>3 DEF KnownOf
  <2> QED
    BY <1>1, <1>3, <1>4, <1>5, <2>4, <2>5, <2>6
    DEF ListInv, Informed, ListSaysWhatWasDone
<1>8. CASE r.ask \in {"Put", "Update"}
  <2>1. /\ UNCHANGED answers
        /\ \/ stored' = [stored EXCEPT ![r.of] =
                            IF @ = None THEN r.ops ELSE @ \cup r.ops]
           \/ stored' = [stored EXCEPT ![r.of] =
                            IF @ = None THEN None ELSE @ \cup r.ops]
    BY <1>8 DEF NodeTakes
  <2>2. DOMAIN stored = Person
    BY DEF ProfileInv
  <2>3. /\ \A p \in Person : p # r.of => stored'[p] = stored[p]
        /\ \/ stored'[r.of] = None
           \/ stored[r.of] = None /\ stored'[r.of] = r.ops
           \/ stored[r.of] # None /\ stored'[r.of] = stored[r.of] \cup r.ops
    BY <1>1, <2>1, <2>2
  <2>4. identity \in Person
    BY <1>4 DEF ProfileInv
  <2> HIDE DEF r
  <2>5. WillBeHeard(identity)'
    <3>1. CASE r.of # identity
      <4>1. stored'[identity] = stored[identity]
        BY <2>3, <2>4, <3>1
      <4>2. CASE r.ask = "Get" /\ r.of = identity
        BY <3>1, <4>2
      <4> QED
        BY <1>2, <1>3, <1>6, <2>1, <3>1, <4>1 DEF WillBeHeard
    <3>2. CASE r.of = identity /\ \E x \in Elements(wire') : x.ask = "Get" /\ x.of = identity
      BY <1>3, <3>2 DEF WillBeHeard
    <3>3. CASE r.of = identity /\ r.ops \subseteq profile_ops
      BY <1>2, <1>3, <1>6, <1>8, <2>1, <2>3, <3>3 DEF WillBeHeard
    <3> QED
      BY <1>5, <3>1, <3>2, <3>3
  <2>6. AllClocked'
    <3>1. Clocked(r.ops, spoken)
      BY <1>2 DEF ListInv, Informed, AllClocked
    <3>2. \A p \in Person : stored'[p] # None => Clocked(stored'[p], spoken)
      BY <1>1, <2>3, <3>1 DEF ListInv, Informed, AllClocked, Clocked
    <3> QED
      BY <1>2, <1>3, <2>1, <3>2 DEF ListInv, Informed, AllClocked
  <2>7. ASSUME NEW b, KnownOf(b) PROVE KnownOf(b)'
    <3>1. \A ops, more : About(b, ops \cup more) = About(b, ops) \cup About(b, more)
      BY DEF About, BoardOps
    <3>2. stored'[identity] # None => About(b, stored'[identity]) \subseteq profile_ops
      BY <1>2, <2>3, <2>4, <2>7, <3>1 DEF KnownOf
    <3> QED
      BY <1>2, <1>3, <2>1, <2>7, <3>2 DEF KnownOf
  <2> QED
    BY <1>1, <1>3, <1>4, <1>5, <2>5, <2>6, <2>7
    DEF ListInv, Informed, ListSaysWhatWasDone
<1> QED
  BY <1>1, <1>7, <1>8

\* What is heard adds to what is known, and nothing about a board of which all is.
LEMMA ListHeard ==
  ASSUME ProfileInv, ListInv, Hear
  PROVE  ListInv'
<1> DEFINE a == Head(answers)
<1>1. /\ \E S : answers \in Seq(S)
      /\ answers # <<>> /\ online /\ answers' = Tail(answers)
  BY DEF Hear, ProfileInv, GoodAnswers
<1>2. Elements(answers) = {a} \cup Elements(answers')
  BY <1>1, FirstElement
<1>3. UNCHANGED <<identity, wire, outbox, stored, spoken, meant, online>>
  BY DEF Hear
<1>4. identity # None
  BY <1>1 DEF ListInv
<1>5. \/ profile_ops' = profile_ops /\ (a.of # identity \/ a.has = None)
      \/ a.of = identity /\ a.has # None /\ profile_ops' = profile_ops \cup a.has
  BY DEF Hear, AboutMe
<1> HIDE DEF a
<1>6. profile_ops \subseteq profile_ops'
  BY <1>5
<1>7. AllClocked'
  <2>1. Clocked(profile_ops', spoken)
    BY <1>2, <1>5 DEF ListInv, Informed, AllClocked, Clocked
  <2> QED
    BY <1>2, <1>3, <2>1 DEF ListInv, Informed, AllClocked
<1>8. WillBeHeard(identity)'
  <2>1. WillBeHeard(identity)
    BY <1>1, <1>4 DEF ListInv, Informed
  <2> QED
    BY <1>2, <1>3, <1>5, <1>6, <2>1 DEF WillBeHeard
<1>9. AskedLater(wire', identity, profile_ops')
  <2>1. AskedLater(wire, identity, profile_ops)
    BY <1>1, <1>4 DEF ListInv, Informed
  <2> QED
    BY <1>3, <1>6, <2>1 DEF AskedLater
<1>10. ASSUME NEW b, KnownOf(b)
       PROVE  KnownOf(b)' /\ (b \in Listed(profile_ops') <=> b \in Listed(profile_ops))
  <2>1. \A o \in profile_ops' \ profile_ops :
          o.says \in {"JoinedBoard", "LeftBoard"} => o.of # b
    BY <1>2, <1>5, <1>10 DEF KnownOf, About, BoardOps
  <2>2. b \in Listed(profile_ops') <=> b \in Listed(profile_ops)
    BY <1>6, <2>1, ListedOthers
  <2>3. KnownOf(b)'
    BY <1>2, <1>3, <1>6, <1>10 DEF KnownOf
  <2> QED
    BY <2>2, <2>3
<1>11. ListSaysWhatWasDone'
  BY <1>3, <1>10 DEF ListInv, Counts, ListSaysWhatWasDone
<1> QED
  BY <1>1, <1>3, <1>4, <1>7, <1>8, <1>9, <1>10, <1>11 DEF ListInv, Informed

\* With the connection goes what was on its way, and the user waits again.
LEMMA ListBroken ==
  ASSUME ProfileInv, ListInv, Breaks
  PROVE  ListInv'
<1>1. /\ online /\ online' = FALSE /\ wire' = <<>> /\ answers' = <<>>
      /\ loaded' = (loaded /\ wire = <<>> /\ answers = <<>>)
      /\ UNCHANGED <<identity, profile_ops, outbox, stored, spoken, meant>>
  BY DEF Breaks, page
<1>2. Elements(<<>>) = {}
  BY FewElements
<1>3. AllClocked'
  BY <1>1, <1>2 DEF ListInv, Informed, AllClocked
<1>4. ASSUME identity # None, wire = <<>>, answers = <<>>, stored[identity] # None
      PROVE  stored[identity] \subseteq profile_ops
  BY <1>1, <1>2, <1>4 DEF ListInv, Informed, WillBeHeard
<1>5. Informed'
  BY <1>1, <1>3, <1>4 DEF Informed
<1>6. \A b : KnownOf(b) => KnownOf(b)'
  BY <1>1, <1>2 DEF KnownOf
<1> QED
  BY <1>1, <1>5, <1>6 DEF ListInv, ListSaysWhatWasDone
\* On a new connection the page sends what it knows, and asks.
LEMMA ListReconnected ==
  ASSUME ProfileInv, ListInv, Reconnects
  PROVE  ListInv'
<1>1. /\ ~online /\ online' = TRUE /\ wire' = outbox \o resync /\ outbox' = <<>>
      /\ UNCHANGED <<identity, profile_ops, answers, stored, spoken, meant>>
  BY DEF Reconnects, page
<1>2. /\ \E S : outbox \in Seq(S)
      /\ wire = <<>> /\ answers = <<>> /\ Elements(<<>>) = {}
  BY <1>1, FewElements DEF ListInv, Informed, ProfileInv, GoodRequests
<1>3. ASSUME identity = None PROVE ListInv'
  <2>1. wire' = <<>>
    BY <1>1, <1>3 DEF ListInv, resync
  <2>2. AllClocked'
    BY <1>1, <1>2, <2>1 DEF ListInv, Informed, AllClocked
  <2> QED
    BY <1>1, <1>3, <2>1, <2>2 DEF ListInv, Informed, ListSaysWhatWasDone
<1>4. ASSUME identity # None PROVE ListInv'
  <2> DEFINE u == Update(identity, profile_ops)
             g == Get(identity)
             t == IF profile_ops = {} THEN <<>> ELSE <<u>>
  <2>1. /\ u.of = identity /\ u.ops = profile_ops
        /\ g.ask = "Get" /\ g.of = identity /\ g.ops = {}
    BY DEF Update, Get
  <2>2. /\ \E S : t \in Seq(S)
        /\ \E S : <<g>> \in Seq(S)
        /\ Elements(<<g>>) = {g} /\ Elements(t) \subseteq {u}
    <3> HIDE DEF u, g
    <3> QED
      BY FewElements
  <2>3. wire' = outbox \o (t \o <<g>>)
    BY <1>1, <1>4 DEF resync
  <2> HIDE DEF u, t, g
  <2>4. wire' = (outbox \o t) \o <<g>>
    <3>1. PICK S : outbox \in Seq(S)
      BY <1>2
    <3>2. PICK T : t \in Seq(T)
      BY <2>2
    <3>3. PICK G : <<g>> \in Seq(G)
      BY <2>2
    <3>4. outbox \in Seq(S \cup T \cup G) /\ t \in Seq(S \cup T \cup G)
          /\ <<g>> \in Seq(S \cup T \cup G)
      BY <3>1, <3>2, <3>3
    <3> QED
      BY <2>3, <3>4
  <2>5. /\ \E S : outbox \o t \in Seq(S)
        /\ Elements(outbox \o t) = Elements(outbox) \cup Elements(t)
    BY <1>2, <2>2, JoinedElements
  <2>6. Elements(wire') = Elements(outbox) \cup Elements(t) \cup {g}
    <3> DEFINE before == outbox \o t
               asked == <<g>>
    <3>1. Elements(asked) = {g} /\ (\E S : asked \in Seq(S)) /\ \E S : before \in Seq(S)
      BY <2>2, <2>5
    <3>2. wire' = before \o asked
      BY <2>4
    <3> HIDE DEF before, asked
    <3>3. Elements(before \o asked) = Elements(before) \cup Elements(asked)
      BY <3>1, JoinedElements
    <3> QED
      BY <2>5, <3>1, <3>2, <3>3 DEF before
  <2>7. AskedLater(wire', identity, profile_ops)
    BY <2>4, <2>5, AskedNow DEF g
  <2>8. WillBeHeard(identity)'
    BY <1>1, <2>1, <2>6 DEF WillBeHeard
  <2>9. AllClocked'
    <3>1. \A r \in Elements(wire') : Clocked(r.ops, spoken)
      BY <2>1, <2>2, <2>6 DEF ListInv, Informed, AllClocked, Clocked
    <3> QED
      BY <1>1, <1>2, <3>1 DEF ListInv, Informed, AllClocked
  <2>10. \A b : KnownOf(b) => KnownOf(b)'
    BY <1>1, <1>2, <2>1, <2>2, <2>6 DEF KnownOf, About, BoardOps
  <2> QED
    BY <1>1, <1>4, <2>7, <2>8, <2>9, <2>10 DEF ListInv, Informed, ListSaysWhatWasDone
<1> QED
  BY <1>3, <1>4

\* A page loaded again knows nothing, and its user has done nothing on it.
LEMMA ListReloaded ==
  ASSUME ListInv, Reloads
  PROVE  ListInv'
<1>1. /\ identity' = None /\ profile_ops' = {} /\ online' = TRUE
      /\ outbox' = <<>> /\ wire' = <<>> /\ answers' = <<>> /\ meant' = Untouched
      /\ UNCHANGED <<stored, spoken>>
  BY DEF Reloads, Untouched
<1>2. Elements(<<>>) = {}
  BY FewElements
<1>3. AllClocked'
  BY <1>1, <1>2 DEF ListInv, Informed, AllClocked, Clocked
<1>4. /\ meant' \in [Openable -> Said] /\ ListSaysWhatWasDone'
      /\ \A b \in Openable : meant'[b] \notin Counts
  BY <1>1 DEF Untouched, Said, Counts, ListSaysWhatWasDone
<1> QED
  BY <1>1, <1>3, <1>4 DEF ListInv, Informed

\* Opening a board, and one that is fetched again.
LEMMA ListReceived ==
  ASSUME ProfileInv, ListInv, NEW b \in Openable, NEW opened \in BOOLEAN,
         receive_board(b, opened)
  PROVE  ListInv'
<1>1. UNCHANGED <<loaded, identity, online, answers, stored>>
  BY DEF receive_board
<1>2. CASE identity # None /\ b \notin Listed(profile_ops)
  <2>1. profile_emit(<<<<"JoinedBoard", b>>>>)
    BY <1>2 DEF receive_board, remember_board
  <2>2. CASE opened
    <3>1. meant' = [meant EXCEPT ![b] = Done(b, "opened")]
      BY <2>2 DEF receive_board
    <3> QED
      BY <1>1, <1>2, <2>1, <3>1, ListActed
  <2>3. CASE ~opened
    <3>1. meant' = IF meant[b] = "forgotten"
                   THEN [meant EXCEPT ![b] = "brought back"] ELSE meant
      BY <2>3 DEF receive_board
    <3> QED
      BY <1>1, <1>2, <2>1, <3>1, ListBroughtBack
  <2> QED
    BY <2>2, <2>3
<1>3. CASE identity = None \/ b \in Listed(profile_ops)
  <2>1. UNCHANGED <<profile_ops, outbox, wire, spoken>>
    BY <1>3 DEF receive_board, remember_board
  <2>2. Informed' /\ \A c : KnownOf(c) => KnownOf(c)'
    BY <1>1, <2>1 DEF ListInv, Informed, AllClocked, Clocked, WillBeHeard, KnownOf
  <2>3. CASE opened
    <3>1. meant' = [meant EXCEPT ![b] = Done(b, "opened")]
      BY <2>3 DEF receive_board
    <3>2. \/ Done(b, "opened") = "in the dark"
          \/ Done(b, "opened") = "opened" /\ identity # None /\ KnownOf(b)
      <4>1. "opened" # "in the dark"
        OBVIOUS
      <4> QED
        BY <4>1, CountsWhenKnown DEF ListInv
    <3>3. meant' \in [Openable -> Said]
      BY <3>1, <3>2 DEF ListInv, Said
    <3>4. ASSUME NEW c \in Openable
          PROVE  /\ meant'[c] = "opened" => c \in Listed(profile_ops)
                 /\ meant'[c] = "forgotten" => c \notin Listed(profile_ops)
                 /\ meant'[c] \in Counts => identity # None /\ KnownOf(c)
      BY <1>3, <3>1, <3>2 DEF ListInv, Counts, ListSaysWhatWasDone
    <3> QED
      BY <1>1, <2>1, <2>2, <3>3, <3>4 DEF ListInv, ListSaysWhatWasDone
  <2>4. CASE ~opened
    <3>1. meant[b] # "forgotten"
      BY <1>3 DEF ListInv, Counts, ListSaysWhatWasDone
    <3>2. meant' = meant
      BY <2>4, <3>1 DEF receive_board
    <3> QED
      BY <1>1, <2>1, <2>2, <3>2 DEF ListInv, ListSaysWhatWasDone
  <2> QED
    BY <2>3, <2>4
<1> QED
  BY <1>2, <1>3

\* What is written of names and devices.
LEMMA ListNamed ==
  ASSUME ProfileInv, ListInv, NEW n \in Named,
         set_display_name(n) \/ link_device(n) \/ unlink_device(n)
  PROVE  ListInv'
<1>1. ASSUME NEW Q, NEW says \in Seq(Q), Writes(says),
             \A i \in 1..Len(says) : says[i][1] \notin {"JoinedBoard", "LeftBoard"}
      PROVE  ListInv'
  BY <1>1, ListWritten DEF Writes
<1> DEFINE Q == {<<"SetName", n>>, <<"LinkDevice", n>>,
                 <<"SetDeviceLabel", n>>, <<"UnlinkDevice", n>>}
<1>2. /\ <<<<"SetName", n>>>> \in Seq(Q)
      /\ <<<<"LinkDevice", n>>, <<"SetDeviceLabel", n>>>> \in Seq(Q)
      /\ <<<<"UnlinkDevice", n>>>> \in Seq(Q)
  OBVIOUS
<1>3. \A q \in Q : q[1] \notin {"JoinedBoard", "LeftBoard"}
  OBVIOUS
<1> HIDE DEF Q
<1>4. ASSUME NEW says \in Seq(Q), Writes(says) PROVE ListInv'
  <2>1. \A i \in 1..Len(says) : says[i] \in Q
    OBVIOUS
  <2> QED
    BY <1>1, <1>3, <1>4, <2>1
<1> QED
  BY <1>2, <1>4 DEF set_display_name, link_device, unlink_device

\* Every handler keeps the list right.
LEMMA ListStep == ProfileInv /\ ListInv /\ [ProfileNext]_profile_vars => ListInv'
<1> SUFFICES ASSUME ProfileInv, ListInv, [ProfileNext]_profile_vars PROVE ListInv'
  OBVIOUS
<1>1. ASSUME NEW p \in Person, adopt(p) PROVE ListInv'
  <2>1. meant' = meant /\ \A b \in Openable : meant[b] \notin Counts
    BY <1>1 DEF adopt, ListInv
  <2> QED
    BY <1>1, <2>1, ListAsked DEF adopt, ListInv
<1>2. ASSUME NEW p \in Person, restore_identity(p) PROVE ListInv'
  <2>1. meant' \in [Openable -> Said] /\ \A b \in Openable : meant'[b] \notin Counts
    BY <1>2 DEF restore_identity, Said, Counts
  <2> QED
    BY <1>2, <2>1, ListAsked DEF restore_identity
<1>3. ASSUME NEW b \in Openable, leave_board_bookmark(b) PROVE ListInv'
  <2>1. /\ identity # None /\ profile_emit(<<<<"LeftBoard", b>>>>)
        /\ meant' = [meant EXCEPT ![b] = Done(b, "forgotten")]
        /\ UNCHANGED <<loaded, identity, online, answers, stored>>
    BY <1>3 DEF leave_board_bookmark
  <2> QED
    BY <1>3, <2>1, ListActed
<1>4. ASSUME NEW b \in Openable, NEW opened \in BOOLEAN, receive_board(b, opened)
      PROVE  ListInv'
  BY <1>4, ListReceived
<1>5. ASSUME NEW n \in Named,
             set_display_name(n) \/ link_device(n) \/ unlink_device(n)
      PROVE  ListInv'
  BY <1>5, ListNamed
<1>6. ASSUME NodeTakes PROVE ListInv'
  BY <1>6, ListTaken
<1>7. ASSUME Hear PROVE ListInv'
  BY <1>7, ListHeard
<1>8. ASSUME Breaks PROVE ListInv'
  BY <1>8, ListBroken
<1>9. ASSUME Reconnects PROVE ListInv'
  BY <1>9, ListReconnected
<1>10. ASSUME Reloads PROVE ListInv'
  BY <1>10, ListReloaded
<1>11. ASSUME UNCHANGED profile_vars PROVE ListInv'
  BY <1>11
  DEF profile_vars, page, network, ListInv, Informed, AllClocked, Clocked,
      WillBeHeard, KnownOf, ListSaysWhatWasDone
<1> QED
  BY <1>1, <1>2, <1>3, <1>4, <1>5, <1>6, <1>7, <1>8, <1>9, <1>10, <1>11
  DEF ProfileNext

-----------------------------------------------------------------------------

\* However often the identity changes and the connection is lost, what is done
\* about a board counts only when nothing about it is unknown.
THEOREM ListSafety == ProfileSpec => [](ProfileInv /\ ListInv)
<1>1. ProfileInv /\ ListInv /\ [ProfileNext]_profile_vars => (ProfileInv /\ ListInv)'
  BY ProfileStep, ListStep
<1> QED
  BY ProfileInitially, ListInitially, <1>1, PTL DEF ProfileSpec

\* Of what was last done about a board, opening it or forgetting it, the list of
\* boards says so, whatever earlier sessions wrote and whatever is on its way, if
\* the user waited for the profile or it had nothing new about that board
\* (remember_board, leave_board_bookmark, next_user_lamport).
THEOREM ListIsRight == ProfileSpec => []ListSaysWhatWasDone
<1>1. ProfileInv /\ ListInv => ListSaysWhatWasDone
  BY DEF ListInv
<1> QED
  BY <1>1, ListSafety, PTL

-----------------------------------------------------------------------------
(* The settings of other builds.                                           *)

PrefsRequests == [ask : {"Load", "Save"}, blob : Blobs]
PrefsResponses ==
  [says : {"Loaded", "Saved", "Failed"}, blob : Blobs \cup {Nothing}]

PrefsTypeOK ==
  /\ secret \in Blobs \cup {Nothing}
  /\ prefs \in [Tab -> Blobs \cup {Nothing}]
  /\ asking \in [Tab -> Seq(PrefsRequests)]
  /\ told \in [Tab -> Seq(PrefsResponses)]
  /\ trouble \in [Tab -> SUBSET Troubles]
  /\ guessed \in BOOLEAN

\* What is kept has the other build's setting, or neither has it.
Agrees(blob) == Has(blob, "other") <=> Has(secret, "other")

AgreeingRequests(s) ==
  \A i \in 1..Len(s) : s[i].ask = "Save" => Agrees(s[i].blob)

AgreeingResponses(s) ==
  \A i \in 1..Len(s) : s[i].says = "Loaded" => Agrees(s[i].blob)

\* What a tab has, is saving or is being told agrees with what is kept, unless
\* the tab was refused.
Agreed(tab) ==
  /\ prefs[tab] # Nothing /\ "refused" \notin trouble[tab] => Agrees(prefs[tab])
  /\ AgreeingRequests(asking[tab])
  /\ AgreeingResponses(told[tab])

\* So do all tabs for as long as none has saved what it could not know.
PrefsInv ==
  /\ PrefsTypeOK
  /\ ~guessed => \A tab \in Tab : Agreed(tab)

-----------------------------------------------------------------------------
(* Blobs.                                                                  *)

\* No settings are settings, and lack the other build's.
LEMMA NoSettings ==
  Default \in Blobs /\ ~Has(Default, "other") /\ ~Has(Nothing, "other")
<1>1. Default \in [{} -> Theme \cup {"kept"}] /\ {} \in SUBSET Keys
  BY DEF Default
<1> QED
  BY <1>1 DEF Blobs, Has, Default

\* Setting the theme leaves the other build's setting as it is.
LEMMA ThemeSet ==
  ASSUME NEW map \in Blobs, NEW value \in Theme
  PROVE  LET set == Set(map, "theme", value)
         IN  /\ set \in Blobs
             /\ Has(set, "other") <=> Has(map, "other")
<1> DEFINE set == Set(map, "theme", value)
<1>1. PICK S \in SUBSET Keys : map \in [S -> Theme \cup {"kept"}]
  BY DEF Blobs
<1>2. set \in [S \cup {"theme"} -> Theme \cup {"kept"}]
  BY <1>1 DEF Set
<1>3. S \cup {"theme"} \in SUBSET Keys
  BY <1>1 DEF Keys
<1>4. set \in Blobs
  BY <1>2, <1>3 DEF Blobs
<1>5. "other" \in DOMAIN set <=> "other" \in DOMAIN map
  BY <1>1, <1>2
<1> QED
  BY <1>4, <1>5, PreferencesAssumption DEF Has

-----------------------------------------------------------------------------
(* Queues.                                                                 *)

\* The first of a queue is one of it, and so are the others.
LEMMA FirstAndRest ==
  ASSUME NEW S, NEW s \in Seq(S), s # <<>>
  PROVE  /\ Len(s) \in Nat /\ 1 \in 1..Len(s)
         /\ Head(s) = s[1] /\ Head(s) \in S
         /\ Tail(s) \in Seq(S)
         /\ \A i \in 1..Len(Tail(s)) :
              i + 1 \in 1..Len(s) /\ Tail(s)[i] = s[i + 1]
  OBVIOUS

\* A tab starts by asking, which saves nothing.
LEMMA FirstAsked ==
  <<Load>> \in Seq(PrefsRequests) /\ AgreeingRequests(<<Load>>)
<1>1. Load \in PrefsRequests /\ Load.ask = "Load"
  BY NoSettings DEF Load, PrefsRequests
<1>2. \A i \in 1..Len(<<Load>>) : <<Load>>[i] = Load
  OBVIOUS
<1> QED
  BY <1>1, <1>2 DEF AgreeingRequests

\* What is added comes last.
LEMMA AddedLast ==
  ASSUME NEW S, NEW s \in Seq(S), NEW e \in S
  PROVE  /\ Append(s, e) \in Seq(S)
         /\ \A i \in 1..Len(Append(s, e)) :
              \/ i \in 1..Len(s) /\ Append(s, e)[i] = s[i]
              \/ Append(s, e)[i] = e
  OBVIOUS

-----------------------------------------------------------------------------

\* A request that has been answered is out of the queue, the answer in it.
LEMMA PrefsAnswered ==
  ASSUME PrefsInv, NEW tab \in Tab, asking[tab] # <<>>,
         NEW response \in PrefsResponses, Answers(tab, response),
         secret' \in Blobs \cup {Nothing},
         ~guessed => (Has(secret', "other") <=> Has(secret, "other")),
         ~guessed /\ response.says = "Loaded" => Agrees(response.blob),
         trouble' \in [Tab -> SUBSET Troubles],
         \A t \in Tab : "refused" \in trouble[t] => "refused" \in trouble'[t]
  PROVE  PrefsInv'
<1>1. asking[tab] \in Seq(PrefsRequests) /\ told[tab] \in Seq(PrefsResponses)
  BY DEF PrefsInv, PrefsTypeOK
<1>2. /\ Tail(asking[tab]) \in Seq(PrefsRequests)
      /\ ~guessed => AgreeingRequests(Tail(asking[tab]))
  BY <1>1, FirstAndRest DEF PrefsInv, Agreed, AgreeingRequests
<1>3. /\ Append(told[tab], response) \in Seq(PrefsResponses)
      /\ ~guessed => AgreeingResponses(Append(told[tab], response))
  <2>1. /\ Append(told[tab], response) \in Seq(PrefsResponses)
        /\ \A i \in 1..Len(Append(told[tab], response)) :
             \/ i \in 1..Len(told[tab]) /\ Append(told[tab], response)[i] = told[tab][i]
             \/ Append(told[tab], response)[i] = response
    BY <1>1, AddedLast
  <2>2. ~guessed => AgreeingResponses(told[tab])
    BY DEF PrefsInv, Agreed
  <2> QED
    BY <2>1, <2>2 DEF AgreeingResponses
<1>4. /\ asking' = [asking EXCEPT ![tab] = Tail(asking[tab])]
      /\ told' = [told EXCEPT ![tab] = Append(told[tab], response)]
      /\ UNCHANGED <<prefs, guessed>>
  BY DEF Answers
<1>5. PrefsTypeOK'
  BY <1>2, <1>3, <1>4 DEF PrefsInv, PrefsTypeOK
<1>6. ASSUME ~guessed, NEW t \in Tab PROVE Agreed(t)'
  <2>1. Agreed(t) /\ prefs'[t] = prefs[t]
    BY <1>4, <1>6 DEF PrefsInv
  <2>2. AgreeingRequests(asking'[t])
    BY <1>2, <1>4, <1>6, <2>1 DEF PrefsInv, PrefsTypeOK, Agreed
  <2>3. AgreeingResponses(told'[t])
    BY <1>3, <1>4, <1>6, <2>1 DEF PrefsInv, PrefsTypeOK, Agreed
  <2>4. \A blob : Agrees(blob) <=> Agrees(blob)'
    BY <1>6 DEF Agrees, Has
  <2> QED
    BY <1>6, <2>1, <2>2, <2>3, <2>4
    DEF Agreed, Agrees, AgreeingRequests, AgreeingResponses, Has
<1> QED
  BY <1>4, <1>5, <1>6 DEF PrefsInv

\* What is saved has the other build's setting if what was kept had it.
LEMMA PrefsHandled ==
  ASSUME PrefsInv, NEW tab \in Tab, handle(tab)
  PROVE  PrefsInv' /\ (Has(secret, "other") => Has(secret', "other") \/ guessed)
<1> DEFINE request == Head(asking[tab])
<1>1. asking[tab] \in Seq(PrefsRequests) /\ asking[tab] # <<>>
  BY DEF PrefsInv, PrefsTypeOK, handle
<1>2. /\ request \in PrefsRequests
      /\ ~guessed /\ request.ask = "Save" => Agrees(request.blob)
  BY <1>1, FirstAndRest DEF PrefsInv, Agreed, AgreeingRequests
<1>3. CASE UNCHANGED secret
            /\ trouble' = [trouble EXCEPT ![tab] = trouble[tab] \ {"behind"}]
            /\ Answers(tab, [says |-> "Loaded", blob |-> secret])
  <2>1. [says |-> "Loaded", blob |-> secret] \in PrefsResponses /\ Agrees(secret)
    BY DEF PrefsInv, PrefsTypeOK, PrefsResponses, Agrees
  <2>2. /\ trouble' \in [Tab -> SUBSET Troubles]
        /\ \A t \in Tab : "refused" \in trouble[t] => "refused" \in trouble'[t]
    BY <1>3 DEF PrefsInv, PrefsTypeOK
  <2> QED
    BY <1>1, <1>3, <2>1, <2>2, PrefsAnswered DEF PrefsInv, PrefsTypeOK
<1>4. CASE request.ask = "Save" /\ Keeps(tab, request.blob)
  <2>1. [says |-> "Saved", blob |-> Nothing] \in PrefsResponses
    BY DEF PrefsResponses
  <2>2. /\ secret' \in Blobs \cup {Nothing}
        /\ ~guessed => (Has(secret', "other") <=> Has(secret, "other"))
    BY <1>2, <1>4 DEF Keeps, PrefsRequests, Agrees
  <2>3. /\ trouble' \in [Tab -> SUBSET Troubles]
        /\ \A t \in Tab : "refused" \in trouble[t] => "refused" \in trouble'[t]
    BY <1>4 DEF PrefsInv, PrefsTypeOK, Keeps, Troubles
  <2> QED
    BY <1>1, <1>4, <2>1, <2>2, <2>3, PrefsAnswered DEF Keeps
<1>5. CASE UNCHANGED <<secret, trouble>>
            /\ Answers(tab, [says |-> "Failed", blob |-> Nothing])
  <2>1. [says |-> "Failed", blob |-> Nothing] \in PrefsResponses
    BY DEF PrefsResponses
  <2> QED
    BY <1>1, <1>5, <2>1, PrefsAnswered DEF PrefsInv, PrefsTypeOK
<1> QED
  BY <1>3, <1>4, <1>5 DEF handle

\* The theme is switched on top of all that the tab has, or it was a guess.
LEMMA Switched ==
  ASSUME PrefsInv, NEW tab \in Tab, Switches(tab)
  PROVE  PrefsInv'
<1> DEFINE value == IF dark[tab] THEN "light" ELSE "dark"
           old == IF prefs[tab] = Nothing THEN Default ELSE prefs[tab]
           set == Set(old, "theme", value)
<1>1. /\ old \in Blobs
      /\ ~guessed' => ~guessed /\ prefs[tab] # Nothing /\ Agrees(old)
  BY NoSettings DEF PrefsInv, PrefsTypeOK, Agreed, Switches
<1>2. set \in Blobs /\ (~guessed' => Agrees(set))
  <2>1. value \in Theme
    BY DEF Theme
  <2> HIDE DEF old, value
  <2> QED
    BY <1>1, <2>1, ThemeSet DEF Agrees
<1>3. /\ prefs' = [prefs EXCEPT ![tab] = set]
      /\ asking' = [asking EXCEPT ![tab] = Append(asking[tab], Save(set))]
      /\ trouble' = [trouble EXCEPT ![tab] =
                       IF Awaited(tab) THEN trouble[tab] \cup {"early"} ELSE trouble[tab]]
      /\ guessed' \in BOOLEAN
      /\ UNCHANGED <<secret, told>>
  BY DEF Switches, set_preference, PrefsInv, PrefsTypeOK
<1>4. asking[tab] \in Seq(PrefsRequests)
  BY DEF PrefsInv, PrefsTypeOK
<1>5. Save(set) \in PrefsRequests /\ Save(set).blob = set
  BY <1>2 DEF Save, PrefsRequests
<1> HIDE DEF set, old, value
<1>6. Append(asking[tab], Save(set)) \in Seq(PrefsRequests)
  BY <1>4, <1>5, AddedLast
<1>7. PrefsTypeOK'
  BY <1>2, <1>3, <1>6 DEF PrefsInv, PrefsTypeOK, Troubles
<1>8. ASSUME ~guessed', NEW t \in Tab PROVE Agreed(t)'
  <2>1. Agreed(t) /\ Agrees(set)
    BY <1>1, <1>2, <1>8 DEF PrefsInv
  <2>2. \A blob : Agrees(blob) <=> Agrees(blob)'
    BY <1>3 DEF Agrees, Has
  <2>3. CASE t = tab
    <3>1. /\ prefs'[t] = set /\ told'[t] = told[t]
          /\ asking'[t] = Append(asking[t], Save(set))
      BY <1>3, <2>3 DEF PrefsInv, PrefsTypeOK
    <3>2. AgreeingRequests(asking'[t])
      BY <1>4, <1>5, <2>1, <2>3, <3>1, AddedLast DEF Agreed, AgreeingRequests
    <3> QED
      BY <1>3, <2>1, <2>2, <3>1, <3>2
      DEF Agreed, Agrees, AgreeingRequests, AgreeingResponses, Has
  <2>4. CASE t # tab
    <3>1. /\ prefs'[t] = prefs[t] /\ told'[t] = told[t] /\ asking'[t] = asking[t]
          /\ trouble'[t] = trouble[t]
      BY <1>3, <2>4 DEF PrefsInv, PrefsTypeOK
    <3> QED
      BY <1>3, <2>1, <3>1
      DEF Agreed, Agrees, AgreeingRequests, AgreeingResponses, Has
  <2> QED
    BY <2>3, <2>4
<1> QED
  BY <1>7, <1>8 DEF PrefsInv

\* What is heard is what is kept, or the tab starts from nothing and was refused.
LEMMA HeardAnswer ==
  ASSUME PrefsInv, NEW tab \in Tab, receive_prefs(tab)
  PROVE  PrefsInv'
<1> DEFINE response == Head(told[tab])
<1>1. told[tab] \in Seq(PrefsResponses) /\ told[tab] # <<>>
  BY DEF PrefsInv, PrefsTypeOK, receive_prefs
<1>2. /\ response \in PrefsResponses
      /\ ~guessed /\ response.says = "Loaded" => Agrees(response.blob)
      /\ Tail(told[tab]) \in Seq(PrefsResponses)
      /\ ~guessed => AgreeingResponses(Tail(told[tab]))
  BY <1>1, FirstAndRest DEF PrefsInv, Agreed, AgreeingResponses
<1>3. PICK now :
        /\ prefs' = [prefs EXCEPT ![tab] = now]
        /\ now = CASE response.says = "Loaded" ->
                        IF response.blob = Nothing THEN Default
                        ELSE response.blob
                   [] response.says = "Saved" -> prefs[tab]
                   [] response.says = "Failed" -> Default
  BY DEF receive_prefs
<1>4. /\ told' = [told EXCEPT ![tab] = Tail(told[tab])]
      /\ trouble' = [trouble EXCEPT ![tab] =
                      IF response.says = "Failed" THEN trouble[tab] \cup {"refused"}
                      ELSE trouble[tab]]
      /\ UNCHANGED <<secret, asking, guessed>>
  BY DEF receive_prefs
<1>5. now \in Blobs \cup {Nothing}
  BY <1>2, <1>3, NoSettings DEF PrefsInv, PrefsTypeOK, PrefsResponses
<1>6. /\ ~guessed /\ now # Nothing
      /\ "refused" \notin trouble[tab] /\ response.says # "Failed"
      => Agrees(now)
  BY <1>2, <1>3, NoSettings DEF PrefsInv, Agreed, PrefsResponses, Agrees
<1> HIDE DEF response
<1>7. PrefsTypeOK'
  BY <1>2, <1>3, <1>4, <1>5 DEF PrefsInv, PrefsTypeOK, Troubles
<1>8. ASSUME ~guessed, NEW t \in Tab PROVE Agreed(t)'
  <2>1. Agreed(t)
    BY <1>8 DEF PrefsInv
  <2>2. \A blob : Agrees(blob) <=> Agrees(blob)'
    BY <1>4 DEF Agrees, Has
  <2>3. CASE t = tab
    <3>1. /\ prefs'[t] = now /\ asking'[t] = asking[t] /\ told'[t] = Tail(told[tab])
          /\ "refused" \notin trouble'[t]
               => "refused" \notin trouble[tab] /\ response.says # "Failed"
      BY <1>3, <1>4, <2>3 DEF PrefsInv, PrefsTypeOK
    <3> QED
      BY <1>2, <1>4, <1>6, <1>8, <2>1, <2>2, <3>1
      DEF Agreed, Agrees, AgreeingRequests, AgreeingResponses, Has
  <2>4. CASE t # tab
    <3>1. /\ prefs'[t] = prefs[t] /\ told'[t] = told[t] /\ asking'[t] = asking[t]
          /\ trouble'[t] = trouble[t]
      BY <1>3, <1>4, <2>4 DEF PrefsInv, PrefsTypeOK
    <3> QED
      BY <1>4, <2>1, <3>1
      DEF Agreed, Agrees, AgreeingRequests, AgreeingResponses, Has
  <2> QED
    BY <2>3, <2>4
<1> QED
  BY <1>4, <1>7, <1>8 DEF PrefsInv

\* A tab that is loaded again asks; one that lost its connection does not.
LEMMA TabStarted ==
  ASSUME PrefsInv, NEW tab \in Tab, Loads(tab) \/ Loses(tab)
  PROVE  PrefsInv'
<1>1. <<Load>> \in Seq(PrefsRequests) /\ AgreeingRequests(<<Load>>)
  BY FirstAsked
<1>2. /\ <<>> \in Seq(PrefsRequests) /\ AgreeingRequests(<<>>)
      /\ <<>> \in Seq(PrefsResponses) /\ AgreeingResponses(<<>>)
  BY DEF AgreeingRequests, AgreeingResponses
<1>3. PrefsTypeOK' /\ UNCHANGED <<secret, guessed>>
  BY <1>1, <1>2 DEF PrefsInv, PrefsTypeOK, Troubles, Loads, Loses
<1>4. ASSUME ~guessed, NEW t \in Tab PROVE Agreed(t)'
  <2>1. Agreed(t)
    BY <1>4 DEF PrefsInv
  <2>2. /\ asking'[t] = asking[t] \/ asking'[t] = <<Load>> \/ asking'[t] = <<>>
        /\ told'[t] = told[t] \/ told'[t] = <<>>
        /\ \/ prefs'[t] = Nothing
           \/ /\ prefs'[t] = prefs[t]
              /\ "refused" \in trouble[t] => "refused" \in trouble'[t]
    <3>1. DOMAIN asking = Tab /\ DOMAIN told = Tab /\ DOMAIN prefs = Tab
          /\ DOMAIN trouble = Tab
      BY DEF PrefsInv, PrefsTypeOK
    <3>2. CASE t # tab
      BY <3>1, <3>2 DEF Loads, Loses
    <3>3. CASE t = tab /\ Loads(tab)
      BY <3>1, <3>3 DEF Loads
    <3>4. CASE t = tab /\ Loses(tab)
      <4>1. trouble'[t] = trouble[t] \/ trouble'[t] = trouble[t] \cup {"lost"}
        BY <3>1, <3>4 DEF Loses
      <4>2. asking'[t] = <<>> /\ told'[t] = <<>> /\ prefs'[t] = prefs[t]
        BY <3>1, <3>4 DEF Loses
      <4> QED
        BY <4>1, <4>2
    <3> QED
      BY <3>2, <3>3, <3>4
  <2>3. AgreeingRequests(asking'[t]) /\ AgreeingResponses(told'[t])
    BY <1>1, <1>2, <2>1, <2>2 DEF Agreed
  <2>4. \A blob : Agrees(blob) <=> Agrees(blob)'
    BY <1>3 DEF Agrees, Has
  <2>5. AgreeingRequests(asking[t])' /\ AgreeingResponses(told[t])'
    BY <2>3, <2>4 DEF AgreeingRequests, AgreeingResponses
  <2>6. prefs'[t] # Nothing /\ "refused" \notin trouble'[t] => Agrees(prefs'[t])
    <3> SUFFICES ASSUME prefs'[t] # Nothing, "refused" \notin trouble'[t]
                 PROVE  Agrees(prefs'[t])
      OBVIOUS
    <3>1. prefs'[t] = prefs[t] /\ "refused" \notin trouble[t]
      BY <2>2
    <3>2. Agrees(prefs[t])
      BY <2>1, <3>1 DEF Agreed
    <3> QED
      BY <3>1, <3>2
  <2> QED
    BY <2>4, <2>5, <2>6 DEF Agreed
<1> QED
  BY <1>3, <1>4 DEF PrefsInv

\* Tabs that have nothing yet agree with whatever is kept.
LEMMA PrefsInitially == PrefsInit => PrefsInv
<1> SUFFICES ASSUME PrefsInit PROVE PrefsInv
  OBVIOUS
<1>1. <<Load>> \in Seq(PrefsRequests) /\ AgreeingRequests(<<Load>>)
  BY FirstAsked
<1>2. <<>> \in Seq(PrefsResponses) /\ AgreeingResponses(<<>>)
  BY DEF AgreeingResponses
<1>3. secret \in Blobs \cup {Nothing}
  <2>1. ASSUME NEW set \in SUBSET Keys, NEW t \in Theme
        PROVE  [k \in set |-> IF k = "theme" THEN t ELSE "kept"] \in Blobs
    <3>1. [k \in set |-> IF k = "theme" THEN t ELSE "kept"]
            \in [set -> Theme \cup {"kept"}]
      OBVIOUS
    <3> QED
      BY <3>1 DEF Blobs
  <2> QED
    BY <2>1 DEF PrefsInit
<1> QED
  BY <1>1, <1>2, <1>3 DEF PrefsInit, PrefsInv, PrefsTypeOK, Agreed, Troubles

\* All agree with what is kept, and it keeps the setting, or there was a guess.
LEMMA PrefsStep ==
  ASSUME PrefsInv, [PrefsNext]_prefs_vars
  PROVE  PrefsInv' /\ (Has(secret, "other") => Has(secret', "other") \/ guessed)
<1>1. ASSUME NEW tab \in Tab, receive_prefs(tab) PROVE PrefsInv' /\ UNCHANGED secret
  BY <1>1, HeardAnswer DEF receive_prefs
<1>2. ASSUME NEW tab \in Tab, Switches(tab) PROVE PrefsInv' /\ UNCHANGED secret
  BY <1>2, Switched DEF Switches
<1>3. ASSUME NEW tab \in Tab, Loads(tab) \/ Loses(tab)
      PROVE  PrefsInv' /\ UNCHANGED secret
  BY <1>3, TabStarted DEF Loads, Loses
<1>4. CASE UNCHANGED prefs_vars
  BY <1>4
  DEF prefs_vars, PrefsInv, PrefsTypeOK, Agreed, Agrees, AgreeingRequests,
      AgreeingResponses, Has
<1> QED
  BY <1>1, <1>2, <1>3, <1>4, PrefsHandled DEF PrefsNext, Has

-----------------------------------------------------------------------------

\* In any number of tabs, whatever is lost or refused, what each tab has, saves or
\* is told agrees with what is kept as to settings of other builds, until one
\* saves settings it has not been told.
THEOREM PrefsSafety == PrefsSpec => []PrefsInv
<1>1. PrefsInv /\ [PrefsNext]_prefs_vars => PrefsInv'
  BY PrefsStep
<1> QED
  BY <1>1, PrefsInitially, PTL DEF PrefsSpec

\* A setting that this build has never heard of is lost to a guess or not at all:
\* it is in whatever else set_preference saves, since it is in whatever
\* receive_prefs was told.
THEOREM OthersKept == PrefsSpec => OthersSettingsKept
<1>1. PrefsInv /\ [PrefsNext]_prefs_vars
        => [Has(secret, "other") => Has(secret', "other") \/ guessed]_prefs_vars
  BY PrefsStep
<1> QED
  BY <1>1, PrefsSafety, PTL DEF PrefsSpec, OthersSettingsKept

-----------------------------------------------------------------------------
(* The theme.                                                              *)

Loaded(blob) == [says |-> "Loaded", blob |-> blob]
Saved == [says |-> "Saved", blob |-> Nothing]
Failed == [says |-> "Failed", blob |-> Nothing]

\* What a tab has once it has loaded what is kept.
Kept == IF secret = Nothing THEN Default ELSE secret

\* A tab that has met with no trouble of its own: it has yet to be answered,
Asks(tab) == prefs[tab] = Nothing /\ asking[tab] = <<Load>> /\ told[tab] = <<>>

\* or to hear the answer,
IsTold(tab) ==
  /\ prefs[tab] = Nothing /\ asking[tab] = <<>>
  /\ \/ told[tab] = <<Failed>>
     \/ \E blob \in Blobs \cup {Nothing} :
          /\ told[tab] = <<Loaded(blob)>>
          /\ "behind" \notin trouble[tab] => blob = secret

\* or has the settings, shows the theme in them, and what it saved last, of what
\* is on its way, is what it has; when nothing is, and no refusal, that is kept.
HasThem(tab) ==
  /\ prefs[tab] # Nothing
  /\ Has(prefs[tab], "theme") => dark[tab] = (prefs[tab]["theme"] # "light")
  /\ \A i \in 1..Len(asking[tab]) : asking[tab][i].ask = "Save"
  /\ asking[tab] # <<>> => asking[tab][Len(asking[tab])].blob = prefs[tab]
  /\ \A i \in 1..Len(told[tab]) : told[tab][i].says # "Loaded"
  /\ \/ asking[tab] # <<>>
     \/ "behind" \in trouble[tab]
     \/ \E i \in 1..Len(told[tab]) : told[tab][i].says = "Failed"
     \/ prefs[tab] = Kept

InStep(tab) ==
  trouble[tab] \subseteq {"behind"} => Asks(tab) \/ IsTold(tab) \/ HasThem(tab)

ThemeInv ==
  /\ dark \in [Tab -> BOOLEAN]
  /\ \A tab \in Tab : InStep(tab)

\* Queues of one.
LEMMA OneQueued ==
  ASSUME NEW e
  PROVE  /\ <<e>> # <<>> /\ Head(<<e>>) = e /\ Tail(<<e>>) = <<>>
         /\ Append(<<>>, e) = <<e>>
  OBVIOUS

\* Queues of some.
LEMMA SomeQueued ==
  ASSUME NEW S, NEW s \in Seq(S)
  PROVE  /\ s # <<>> /\ Tail(s) = <<>> => Head(s) = s[Len(s)]
         /\ s # <<>> /\ Tail(s) # <<>> => Tail(s)[Len(Tail(s))] = s[Len(s)]
         /\ s # <<>> => Len(s) \in 1..Len(s)
         /\ \A e \in S : /\ Append(s, e) # <<>>
                         /\ Len(Append(s, e)) = Len(s) + 1
                         /\ Append(s, e)[Len(Append(s, e))] = e
                         /\ \A i \in 1..Len(s) :
                              i \in 1..Len(Append(s, e)) /\ Append(s, e)[i] = s[i]
                         /\ Len(s) + 1 \in 1..Len(Append(s, e))
  OBVIOUS

\* What a step leaves alone of a tab stays in step, if what is kept is the same
\* or the tab falls behind.
LEMMA ElsewhereInStep ==
  ASSUME NEW t, InStep(t),
         prefs'[t] = prefs[t], asking'[t] = asking[t], told'[t] = told[t],
         dark'[t] = dark[t],
         \/ secret' = secret /\ trouble'[t] = trouble[t]
         \/ trouble'[t] = trouble[t] \cup {"behind"}
  PROVE  InStep(t)'
<1>1. trouble'[t] \subseteq {"behind"} => trouble[t] \subseteq {"behind"}
  OBVIOUS
<1>2. "behind" \notin trouble'[t] => secret' = secret /\ "behind" \notin trouble[t]
  OBVIOUS
<1>3. Asks(t) => Asks(t)'
  BY DEF Asks
<1>4. IsTold(t) => IsTold(t)'
  BY <1>2 DEF IsTold
<1>5. HasThem(t) => HasThem(t)'
  BY <1>2 DEF HasThem, Has, Kept
<1> QED
  BY <1>1, <1>3, <1>4, <1>5 DEF InStep

\* The node answers a load with what it keeps, and keeps what is saved.
LEMMA ThemeHandled ==
  ASSUME PrefsTypeOK, ThemeInv, NEW tab \in Tab, handle(tab)
  PROVE  ThemeInv'
<1> DEFINE request == Head(asking[tab])
<1>1. /\ asking[tab] \in Seq(PrefsRequests) /\ asking[tab] # <<>>
      /\ told[tab] \in Seq(PrefsResponses)
  BY DEF PrefsTypeOK, handle
<1>2. PICK response \in PrefsResponses :
        /\ Answers(tab, response)
        /\ \/ /\ response = Loaded(secret) /\ request.ask = "Load"
              /\ secret' = secret
              /\ trouble' = [trouble EXCEPT ![tab] = trouble[tab] \ {"behind"}]
           \/ /\ response = Saved /\ request.ask = "Save"
              /\ Keeps(tab, request.blob)
           \/ /\ response = Failed
              /\ secret' = secret /\ trouble' = trouble
  BY DEF handle, Keeps, Loaded, Saved, Failed, PrefsResponses, PrefsTypeOK
<1>3. /\ asking' = [asking EXCEPT ![tab] = Tail(asking[tab])]
      /\ told' = [told EXCEPT ![tab] = Append(told[tab], response)]
      /\ UNCHANGED <<prefs, dark>>
  BY <1>2 DEF Answers
<1>4. ASSUME NEW t \in Tab, t # tab PROVE InStep(t)'
  <2>1. asking'[t] = asking[t] /\ told'[t] = told[t]
    BY <1>3, <1>4 DEF PrefsTypeOK
  <2>2. \/ secret' = secret /\ trouble'[t] = trouble[t]
        \/ trouble'[t] = trouble[t] \cup {"behind"}
    BY <1>2, <1>4 DEF PrefsTypeOK, Keeps
  <2> QED
    BY <1>3, <2>1, <2>2, ElsewhereInStep DEF ThemeInv
<1>5. /\ asking'[tab] = Tail(asking[tab])
      /\ told'[tab] = Append(told[tab], response)
      /\ trouble'[tab] \subseteq {"behind"} => trouble[tab] \subseteq {"behind"}
  BY <1>2, <1>3 DEF PrefsTypeOK, Keeps
<1>6. ASSUME Asks(tab) PROVE IsTold(tab)'
  <2>1. asking[tab] = <<Load>> /\ told[tab] = <<>> /\ prefs[tab] = Nothing
    BY <1>6 DEF Asks
  <2>2. Tail(asking[tab]) = <<>> /\ request = Load /\ Load.ask = "Load"
    BY <2>1, OneQueued DEF Load
  <2>3. told'[tab] = <<response>>
    BY <1>5, <2>1, OneQueued
  <2>4. secret \in Blobs \cup {Nothing}
    BY DEF PrefsTypeOK
  <2> HIDE DEF request
  <2> QED
    BY <1>2, <1>3, <1>5, <2>1, <2>2, <2>3, <2>4 DEF IsTold
<1>7. ASSUME HasThem(tab) PROVE HasThem(tab)'
  <2>1. /\ request.ask = "Save"
        /\ \A i \in 1..Len(asking'[tab]) : asking'[tab][i].ask = "Save"
    BY <1>1, <1>5, <1>7, FirstAndRest DEF HasThem
  <2>2. asking'[tab] # <<>> => asking'[tab][Len(asking'[tab])].blob = prefs[tab]
    BY <1>1, <1>5, <1>7, SomeQueued DEF HasThem
  <2>3. asking'[tab] = <<>> => request.blob = prefs[tab]
    <3>1. asking'[tab] = <<>> => request = asking[tab][Len(asking[tab])]
      BY <1>1, <1>5, SomeQueued
    <3>2. asking[tab][Len(asking[tab])].blob = prefs[tab]
      BY <1>1, <1>7 DEF HasThem
    <3> QED
      BY <3>1, <3>2
  <2>4. /\ response.says = "Saved" /\ secret' = request.blob
        \/ response.says = "Failed"
    <3> HIDE DEF request
    <3> QED
      BY <1>2, <2>1 DEF Keeps, Saved, Failed
  <2>5. \A i \in 1..Len(told'[tab]) : told'[tab][i].says # "Loaded"
    BY <1>1, <1>5, <1>7, <2>4, AddedLast DEF HasThem
  <2>6. \/ asking'[tab] # <<>>
        \/ \E i \in 1..Len(told'[tab]) : told'[tab][i].says = "Failed"
        \/ prefs[tab] = Kept'
    <3>1. CASE response.says = "Failed"
      BY <1>1, <1>5, <3>1, SomeQueued
    <3>2. CASE secret' = request.blob /\ asking'[tab] = <<>>
      BY <1>7, <2>3, <3>2 DEF Kept, HasThem
    <3> QED
      BY <2>4, <3>1, <3>2
  <2> HIDE DEF request
  <2> QED
    BY <1>3, <1>7, <2>1, <2>2, <2>5, <2>6 DEF HasThem, Has
<1>8. InStep(tab)'
  BY <1>1, <1>5, <1>6, <1>7 DEF ThemeInv, InStep, IsTold
<1> QED
  BY <1>3, <1>4, <1>8 DEF ThemeInv

\* What is heard is what a tab then has and shows.
LEMMA ThemeHeard ==
  ASSUME PrefsTypeOK, ThemeInv, NEW tab \in Tab, receive_prefs(tab)
  PROVE  ThemeInv'
<1> DEFINE response == Head(told[tab])
           now == CASE response.says = "Loaded" ->
                         IF response.blob = Nothing THEN Default ELSE response.blob
                    [] response.says = "Saved" -> prefs[tab]
                    [] response.says = "Failed" -> Default
<1>1. told[tab] \in Seq(PrefsResponses) /\ told[tab] # <<>>
  BY DEF PrefsTypeOK, receive_prefs
<1>2. /\ prefs' = [prefs EXCEPT ![tab] = now]
      /\ told' = [told EXCEPT ![tab] = Tail(told[tab])]
      /\ dark' = [dark EXCEPT ![tab] = Shown(now, dark[tab])]
      /\ trouble' = [trouble EXCEPT ![tab] =
                      IF response.says = "Failed" THEN trouble[tab] \cup {"refused"}
                      ELSE trouble[tab]]
      /\ UNCHANGED <<secret, asking>>
  BY DEF receive_prefs
<1>3. response \in PrefsResponses
  BY <1>1, FirstAndRest
<1>4. /\ response.says = "Loaded" =>
           now = IF response.blob = Nothing THEN Default ELSE response.blob
      /\ response.says = "Saved" => now = prefs[tab]
  OBVIOUS
<1> HIDE DEF response, now
<1>5. /\ prefs'[tab] = now /\ told'[tab] = Tail(told[tab])
      /\ asking'[tab] = asking[tab]
      /\ dark'[tab] = Shown(now, dark[tab])
      /\ trouble'[tab] = IF response.says = "Failed" THEN trouble[tab] \cup {"refused"}
                         ELSE trouble[tab]
  BY <1>2 DEF PrefsTypeOK, ThemeInv
<1>6. dark' \in [Tab -> BOOLEAN]
  <2>1. Shown(now, dark[tab]) \in BOOLEAN
    BY DEF Shown, ThemeInv
  <2> QED
    BY <1>2, <2>1 DEF ThemeInv
<1>7. ASSUME NEW t \in Tab, t # tab PROVE InStep(t)'
  <2>1. /\ prefs'[t] = prefs[t] /\ told'[t] = told[t] /\ dark'[t] = dark[t]
        /\ trouble'[t] = trouble[t]
    BY <1>2, <1>7 DEF PrefsTypeOK, ThemeInv
  <2> QED
    BY <1>2, <2>1, ElsewhereInStep DEF ThemeInv
<1>8. ASSUME trouble'[tab] \subseteq {"behind"} PROVE HasThem(tab)'
  <2>1. response.says # "Failed" /\ trouble'[tab] = trouble[tab]
    BY <1>5, <1>8
  <2>2. Has(now, "theme") => dark'[tab] = (now["theme"] # "light")
    BY <1>5 DEF Shown
  <2>3. CASE IsTold(tab)
    <3>1. asking[tab] = <<>>
      BY <2>3 DEF IsTold
    <3>2. told[tab] # <<Failed>>
      BY <2>1, OneQueued DEF response, Failed
    <3>3. PICK blob \in Blobs \cup {Nothing} :
            /\ told[tab] = <<Loaded(blob)>>
            /\ "behind" \notin trouble[tab] => blob = secret
      BY <2>3, <3>2 DEF IsTold
    <3>4. response = Loaded(blob) /\ Tail(told[tab]) = <<>>
      BY <3>3, OneQueued DEF response
    <3>5. response.says = "Loaded" /\ response.blob = blob
      BY <3>4 DEF Loaded
    <3>6. now = (IF blob = Nothing THEN Default ELSE blob) /\ now # Nothing
      BY <1>4, <3>5, NoSettings, PreferencesAssumption
    <3>7. "behind" \in trouble'[tab] \/ now = Kept'
      BY <1>2, <2>1, <3>3, <3>6 DEF Kept
    <3>8. /\ asking'[tab] = <<>> /\ told'[tab] = <<>> /\ prefs'[tab] = now
      BY <1>5, <3>1, <3>4
    <3>9. Len(<<>>) = 0
      OBVIOUS
    <3> QED
      BY <2>2, <3>6, <3>7, <3>8, <3>9 DEF HasThem, Has
  <2>4. CASE HasThem(tab)
    <3>1. response.says # "Loaded"
      BY <1>1, <2>4, FirstAndRest DEF HasThem, response
    <3>2. now = prefs[tab]
      BY <1>3, <1>4, <2>1, <3>1 DEF PrefsResponses
    <3>3. \A i \in 1..Len(told'[tab]) : told'[tab][i].says # "Loaded"
      BY <1>1, <1>5, <2>4, FirstAndRest DEF HasThem
    <3>4. ASSUME NEW i \in 1..Len(told[tab]), told[tab][i].says = "Failed"
          PROVE  \E j \in 1..Len(told'[tab]) : told'[tab][j].says = "Failed"
      <4>1. i # 1
        BY <1>1, <2>1, <3>4, FirstAndRest DEF response
      <4>2. i - 1 \in 1..Len(Tail(told[tab])) /\ Tail(told[tab])[i - 1] = told[tab][i]
        BY <1>1, <4>1
      <4> QED
        BY <1>5, <3>4, <4>2
    <3> QED
      BY <1>2, <1>5, <2>1, <2>2, <2>4, <3>2, <3>3, <3>4 DEF HasThem, Kept
  <2>5. ~Asks(tab)
    BY <1>1 DEF Asks
  <2> QED
    BY <1>8, <2>1, <2>3, <2>4, <2>5 DEF ThemeInv, InStep
<1> QED
  BY <1>6, <1>7, <1>8 DEF ThemeInv, InStep

\* The user switches the theme: it is on its way to be kept, unless the settings
\* had yet to come.
LEMMA ThemeSwitched ==
  ASSUME PrefsTypeOK, ThemeInv, NEW tab \in Tab, Switches(tab)
  PROVE  ThemeInv'
<1> DEFINE value == IF dark[tab] THEN "light" ELSE "dark"
           old == IF prefs[tab] = Nothing THEN Default ELSE prefs[tab]
           set == Set(old, "theme", value)
<1>1. /\ prefs' = [prefs EXCEPT ![tab] = set]
      /\ asking' = [asking EXCEPT ![tab] = Append(asking[tab], Save(set))]
      /\ dark' = [dark EXCEPT ![tab] = ~dark[tab]]
      /\ trouble' = [trouble EXCEPT ![tab] =
                       IF Awaited(tab) THEN trouble[tab] \cup {"early"} ELSE trouble[tab]]
      /\ UNCHANGED <<secret, told>>
  BY DEF Switches, set_preference
<1>2. set \in Blobs /\ set["theme"] = value /\ value \in Theme
  <2>1. value \in Theme
    BY DEF Theme
  <2>2. old \in Blobs
    BY NoSettings DEF PrefsTypeOK
  <2>3. set["theme"] = value
    BY DEF Set
  <2> HIDE DEF old, value
  <2> QED
    BY <2>1, <2>2, <2>3, ThemeSet
<1>3. (~dark[tab]) <=> (value # "light")
  OBVIOUS
<1> HIDE DEF set, old, value
<1>4. Save(set) \in PrefsRequests /\ Save(set).ask = "Save" /\ Save(set).blob = set
  BY <1>2 DEF Save, PrefsRequests
<1>5. asking[tab] \in Seq(PrefsRequests) /\ told[tab] \in Seq(PrefsResponses)
  BY DEF PrefsTypeOK
<1>6. /\ prefs'[tab] = set /\ set # Nothing
      /\ asking'[tab] = Append(asking[tab], Save(set))
      /\ dark'[tab] = (value # "light")
  <2>1. dark'[tab] = ~dark[tab]
    BY <1>1 DEF ThemeInv
  <2>2. dark'[tab] = (value # "light")
    BY <1>3, <2>1
  <2> QED
    BY <1>1, <1>2, <2>2, PreferencesAssumption DEF PrefsTypeOK
<1>7. ASSUME NEW t \in Tab, t # tab PROVE InStep(t)'
  <2>1. /\ prefs'[t] = prefs[t] /\ asking'[t] = asking[t] /\ dark'[t] = dark[t]
        /\ trouble'[t] = trouble[t]
    BY <1>1, <1>7 DEF PrefsTypeOK, ThemeInv
  <2> QED
    BY <1>1, <2>1, ElsewhereInStep DEF ThemeInv
<1>8. ASSUME trouble'[tab] \subseteq {"behind"} PROVE HasThem(tab)'
  <2>1. ~Awaited(tab) /\ trouble[tab] \subseteq {"behind"}
    BY <1>1, <1>8 DEF PrefsTypeOK
  <2>2. DOMAIN asking[tab] = 1..Len(asking[tab]) /\ DOMAIN told[tab] = 1..Len(told[tab])
    BY <1>5
  <2>3. /\ \A i \in 1..Len(asking[tab]) : asking[tab][i].ask = "Save"
        /\ \A i \in 1..Len(told[tab]) : told[tab][i].says # "Loaded"
    <3>1. ASSUME NEW i \in 1..Len(asking[tab]) PROVE asking[tab][i].ask = "Save"
      <4>1. asking[tab][i].ask # "Load"
        BY <2>1, <2>2 DEF Awaited
      <4>2. asking[tab][i] \in PrefsRequests
        BY <1>5
      <4> QED
        BY <4>1, <4>2 DEF PrefsRequests
    <3>2. \A i \in 1..Len(told[tab]) : told[tab][i].says # "Loaded"
      BY <2>1, <2>2 DEF Awaited
    <3> QED
      BY <3>1, <3>2
  <2>4. \A i \in 1..Len(asking'[tab]) : asking'[tab][i].ask = "Save"
    BY <1>4, <1>5, <1>6, <2>3, AddedLast
  <2>5. asking'[tab] # <<>> /\ asking'[tab][Len(asking'[tab])].blob = set
    BY <1>4, <1>5, <1>6, SomeQueued
  <2> QED
    BY <1>1, <1>2, <1>6, <2>3, <2>4, <2>5 DEF HasThem
<1>9. dark' \in [Tab -> BOOLEAN]
  BY <1>1 DEF ThemeInv
<1> QED
  BY <1>7, <1>8, <1>9 DEF ThemeInv, InStep

\* A tab that is loaded again asks; one that lost its connection while something
\* was on its way has met with trouble.
LEMMA ThemeStarted ==
  ASSUME PrefsTypeOK, ThemeInv, NEW tab \in Tab, Loads(tab) \/ Loses(tab)
  PROVE  ThemeInv'
<1>1. ASSUME NEW t \in Tab, t # tab PROVE InStep(t)'
  <2>1. /\ prefs'[t] = prefs[t] /\ asking'[t] = asking[t] /\ told'[t] = told[t]
        /\ dark'[t] = dark[t] /\ trouble'[t] = trouble[t] /\ secret' = secret
    BY <1>1 DEF PrefsTypeOK, ThemeInv, Loads, Loses
  <2> QED
    BY <2>1, ElsewhereInStep DEF ThemeInv
<1>2. CASE Loads(tab)
  <2>1. /\ prefs'[tab] = Nothing /\ asking'[tab] = <<Load>> /\ told'[tab] = <<>>
        /\ dark' \in [Tab -> BOOLEAN]
    BY <1>2 DEF Loads, PrefsTypeOK, ThemeInv
  <2> QED
    BY <1>1, <2>1 DEF ThemeInv, InStep, Asks
<1>3. CASE Loses(tab)
  <2>1. /\ asking' = [asking EXCEPT ![tab] = <<>>]
        /\ told' = [told EXCEPT ![tab] = <<>>]
        /\ trouble' = [trouble EXCEPT ![tab] =
                         IF asking[tab] \o told[tab] = <<>> THEN trouble[tab]
                         ELSE trouble[tab] \cup {"lost"}]
        /\ UNCHANGED <<secret, prefs, dark>>
    BY <1>3 DEF Loses
  <2>2. asking[tab] \in Seq(PrefsRequests) /\ told[tab] \in Seq(PrefsResponses)
    BY DEF PrefsTypeOK
  <2>3. asking[tab] \o told[tab] = <<>> => asking[tab] = <<>> /\ told[tab] = <<>>
    BY <2>2
  <2>4. ASSUME trouble'[tab] \subseteq {"behind"}
        PROVE  /\ asking'[tab] = asking[tab] /\ told'[tab] = told[tab]
               /\ trouble'[tab] = trouble[tab]
    BY <2>1, <2>3, <2>4 DEF PrefsTypeOK
  <2>5. InStep(tab)'
    BY <2>1, <2>4, ElsewhereInStep DEF ThemeInv, InStep
  <2> QED
    BY <1>1, <2>1, <2>5 DEF ThemeInv
<1> QED
  BY <1>2, <1>3

\* No tab has anything at first.
LEMMA ThemeInitially == PrefsInit => ThemeInv
  BY DEF PrefsInit, ThemeInv, InStep, Asks

\* The theme that a tab shows once nothing is on its way is the one the next load
\* brings back, in as many tabs as there are and however fast the user switches,
\* unless the tab met with trouble (ThemeToggle, set_preference, receive_prefs).
THEOREM ThemeComesBackAlways == PrefsSpec => []ThemeComesBack
<1>1. PrefsTypeOK /\ ThemeInv /\ [PrefsNext]_prefs_vars => ThemeInv'
  <2>1. ASSUME ThemeInv, UNCHANGED prefs_vars PROVE ThemeInv'
    BY <2>1
    DEF prefs_vars, ThemeInv, InStep, Asks, IsTold, HasThem, Has, Kept
  <2> QED
    BY <2>1, ThemeHandled, ThemeHeard, ThemeSwitched, ThemeStarted DEF PrefsNext
<1>2. PrefsInv => PrefsTypeOK
  BY DEF PrefsInv
<1>3. ThemeInv => ThemeComesBack
  <2> SUFFICES ASSUME ThemeInv, NEW tab \in Tab, asking[tab] = <<>>, told[tab] = <<>>,
                      prefs[tab] # Nothing, trouble[tab] = {}, Has(secret, "theme")
               PROVE  dark[tab] = (secret["theme"] # "light")
    BY DEF ThemeComesBack
  <2>1. HasThem(tab)
    BY DEF ThemeInv, InStep, Asks, IsTold
  <2>2. Len(told[tab]) = 0
    OBVIOUS
  <2>3. prefs[tab] = secret
    BY <2>1, <2>2 DEF HasThem, Kept, Has
  <2> QED
    BY <2>1, <2>3 DEF HasThem
<1> QED
  BY <1>1, <1>2, <1>3, ThemeInitially, PrefsSafety, PTL DEF PrefsSpec

=============================================================================
