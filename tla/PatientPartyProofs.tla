-------------------------- MODULE PatientPartyProofs --------------------------
(* Theorems about WatchParty for a user who waits for each operation to      *)
(* settle (Patient) and a runtime that answers in time (~Timeouts): what the *)
(* shell shows and the Steam lobby it sits in are those of its party.        *)
(* The invariant says where each operation may be: in the runtime's queue of *)
(* commands, with Steam, among the runtime's events, or with the thread that *)
(* waits for the answer, and in one of these places only.                    *)
(* NoLobbyLeaks needs neither premise: users may be impatient and waits run  *)
(* out, as long as Steam has one call of a shell at a time.                  *)
EXTENDS WatchPartyProofs

-----------------------------------------------------------------------------
(* The phases of a shell.                                                    *)

LobbiesOf(p) == {k \in Parties : p \in lobby[k]}

\* Nothing but failed sessions is reported to a runtime, or beside them one answer.
OnlyFailures(s) == \A i \in DOMAIN s : s[i].type = "sessionFailed"
OneAnswer(s, e) == \E i \in DOMAIN s : /\ s[i] = e
                                       /\ \A j \in DOMAIN s : j # i => s[j].type = "sessionFailed"

\* What is shown is the runtime's party.
Shows(p) ==
    /\ mode[p].kind = "none" => globals[p] = NoGlobals
    /\ mode[p].kind = "host" => /\ globals[p].role = "Host"
                                /\ globals[p].members = mode[p].auth \cup {p}
    /\ mode[p].kind = "guest" => globals[p].role = "Guest"
    /\ mode[p].kind # "none" => globals[p].id = mode[p].party
    /\ globals[p].members # {} => globals[p].count = Cardinality(globals[p].members)

\* The shell is in the Steam lobby of its party and in no other.
SitsIn(p) == LobbiesOf(p) = IF mode[p].kind = "none" THEN {} ELSE {mode[p].party}

Agrees(p) == Shows(p) /\ SitsIn(p)

\* No operation is under way, but for a Leave or a Kick that the runtime has yet to handle.
Resting(p) ==
    /\ ui[p] = Idle /\ joiner[p] = Idle
    /\ \A i \in DOMAIN cmdq[p] : cmdq[p][i].op \in {"Leave", "Kick"}
    /\ calls[p] = <<>>
    /\ OnlyFailures(evq[p])
    /\ Agrees(p)

\* Nothing is asked of the runtime or of Steam, and no answer has come.
Silent(p) == cmdq[p] = <<>> /\ calls[p] = <<>> /\ OnlyFailures(evq[p])

\* A request is a command, then a call, then an answer in the runtime's queue, which
\* finds the shell in the lobbies L.
Commanded(p, c) == /\ cmdq[p] = <<c>> /\ calls[p] = <<>>
                   /\ OnlyFailures(evq[p]) /\ LobbiesOf(p) = {}
Called(p, c) == /\ cmdq[p] = <<>> /\ calls[p] = <<c>>
                /\ OnlyFailures(evq[p]) /\ LobbiesOf(p) = {}
Answered(p, e, L) == /\ cmdq[p] = <<>> /\ calls[p] = <<>>
                     /\ OneAnswer(evq[p], e) /\ LobbiesOf(p) = L

\* The party k is on its way to the runtime.
Starting(p, k) ==
    /\ ui[p] = [state |-> "waiting", party |-> k] /\ joiner[p] = Idle
    /\ mode[p] = NoMode /\ globals[p] = NoGlobals
    /\ \/ Commanded(p, [op |-> "StartHost", party |-> k])
       \/ Called(p, [op |-> "create", party |-> k])
       \/ Answered(p, [type |-> "created", party |-> k], {k})
       \/ Answered(p, [type |-> "createFailed", party |-> k], {})

\* The runtime hosts k, whose secret the UI thread has yet to publish.
Replied(p, k) ==
    /\ ui[p] = [state |-> "replied", party |-> k] /\ joiner[p] = Idle
    /\ mode[p] = HostMode(k)
    /\ globals[p] = [id |-> NoParty, count |-> 1, members |-> {p}, role |-> "Host"]
    /\ Silent(p) /\ LobbiesOf(p) = {k}
    /\ k \notin known

\* The party k is shown, and the request to join it is on its way.
Joining(p, k) ==
    /\ ui[p] = Idle
    /\ mode[p] = NoMode
    /\ globals[p] = [id |-> k, count |-> 1, members |-> {}, role |-> "Guest"]
    /\ \/ /\ joiner[p] = [state |-> "marked", party |-> k]
          /\ Silent(p) /\ LobbiesOf(p) = {}
       \/ /\ joiner[p] = [state |-> "waiting", party |-> k]
          /\ \/ Commanded(p, [op |-> "JoinHost", party |-> k])
             \/ Called(p, [op |-> "join", party |-> k])
             \/ Answered(p, [type |-> "joined", party |-> k], {k})
             \/ Answered(p, [type |-> "joinFailed", party |-> k], {})

InPhase(p) == Resting(p) \/ \E k \in Parties : Starting(p, k) \/ Replied(p, k) \/ Joining(p, k)
InPhases == \A p \in Peers : InPhase(p)

\* What the phases rest on: secrets are used only after they were published.
HeldKnown == \A p \in Peers : held[p] \subseteq known

-----------------------------------------------------------------------------
(* The runtime's events.                                                     *)

LEMMA Elements ==
    ASSUME NEW S, NEW s \in Seq(S), s # <<>>
    PROVE  /\ Head(s) = s[1] /\ 1 \in DOMAIN s
           /\ \A i \in DOMAIN Tail(s) : i + 1 \in DOMAIN s /\ Tail(s)[i] = s[i + 1]
  OBVIOUS

LEMMA FailuresTail ==
    ASSUME NEW s \in Seq(Event), s # <<>>, OnlyFailures(s)
    PROVE  Head(s).type = "sessionFailed" /\ OnlyFailures(Tail(s))
<1>1. \A i \in DOMAIN Tail(s) : i + 1 \in DOMAIN s /\ Tail(s)[i] = s[i + 1]
  OBVIOUS
<1>2. Head(s) = s[1] /\ 1 \in DOMAIN s
  OBVIOUS
<1>. QED  BY <1>1, <1>2 DEF OnlyFailures

LEMMA FailuresAppend ==
    ASSUME NEW s \in Seq(Event), OnlyFailures(s), NEW e \in Event
    PROVE  /\ e.type = "sessionFailed" => OnlyFailures(Append(s, e))
           /\ OneAnswer(Append(s, e), e)
<1>1. \A i \in DOMAIN Append(s, e) : \/ i \in DOMAIN s /\ Append(s, e)[i] = s[i]
                                     \/ i = Len(s) + 1
  OBVIOUS
<1>2. Len(s) + 1 \in DOMAIN Append(s, e) /\ Append(s, e)[Len(s) + 1] = e
  OBVIOUS
<1>. QED  BY <1>1, <1>2 DEF OnlyFailures, OneAnswer

LEMMA AnswerAppend ==
    ASSUME NEW s \in Seq(Event), NEW e, OneAnswer(s, e), NEW f \in Event, f.type = "sessionFailed"
    PROVE  OneAnswer(Append(s, f), e)
<1>1. PICK i \in DOMAIN s : s[i] = e /\ \A j \in DOMAIN s : j # i => s[j].type = "sessionFailed"
  BY DEF OneAnswer
<1>2. \A j \in DOMAIN Append(s, f) : \/ j \in DOMAIN s /\ Append(s, f)[j] = s[j]
                                     \/ j = Len(s) + 1 /\ Append(s, f)[j] = f
  OBVIOUS
<1>3. i \in DOMAIN Append(s, f) /\ Append(s, f)[i] = e
  BY <1>1
<1>. QED  BY <1>1, <1>2, <1>3 DEF OneAnswer

LEMMA AnswerTail ==
    ASSUME NEW s \in Seq(Event), NEW e, OneAnswer(s, e), e.type # "sessionFailed"
    PROVE  /\ s # <<>>
           /\ \/ Head(s) = e /\ OnlyFailures(Tail(s))
              \/ Head(s).type = "sessionFailed" /\ OneAnswer(Tail(s), e)
<1>1. PICK i \in DOMAIN s : s[i] = e /\ \A j \in DOMAIN s : j # i => s[j].type = "sessionFailed"
  BY DEF OneAnswer
<1>2. s # <<>>
  BY <1>1
<1>3. /\ Head(s) = s[1] /\ 1 \in DOMAIN s
      /\ \A j \in DOMAIN Tail(s) : j + 1 \in DOMAIN s /\ Tail(s)[j] = s[j + 1] /\ j + 1 # 1
  BY <1>2
<1>4. CASE i = 1
  BY <1>1, <1>2, <1>3, <1>4 DEF OnlyFailures
<1>5. CASE i # 1
  <2>1. /\ i - 1 \in DOMAIN Tail(s) /\ Tail(s)[i - 1] = e
        /\ \A j \in DOMAIN Tail(s) : j # i - 1 => j + 1 # i
    BY <1>1, <1>2, <1>5
  <2>2. \A j \in DOMAIN Tail(s) : j # i - 1 => Tail(s)[j].type = "sessionFailed"
    BY <1>1, <1>3, <2>1
  <2>3. OneAnswer(Tail(s), e)
    BY <2>1, <2>2 DEF OneAnswer
  <2>. QED  BY <1>1, <1>2, <1>3, <1>5, <2>3
<1>. QED  BY <1>4, <1>5

\* A session fails, or a failed session is handled.
Quieter(t, s) == \/ t = s
                 \/ \E q \in Peers : t = Append(s, Failed(q))
                 \/ s # <<>> /\ Head(s).type = "sessionFailed" /\ t = Tail(s)

LEMMA QuieterQueue ==
    ASSUME NEW s \in Seq(Event), NEW t, Quieter(t, s)
    PROVE  /\ OnlyFailures(s) => OnlyFailures(t)
           /\ \A e : OneAnswer(s, e) /\ e.type # "sessionFailed" => OneAnswer(t, e)
<1>1. CASE t = s
  BY <1>1
<1>2. ASSUME NEW q \in Peers, t = Append(s, Failed(q))
      PROVE  /\ OnlyFailures(s) => OnlyFailures(t)
             /\ \A e : OneAnswer(s, e) /\ e.type # "sessionFailed" => OneAnswer(t, e)
  <2>1. Failed(q) \in Event /\ Failed(q).type = "sessionFailed"
    BY DEF Failed, Event
  <2>. QED  BY <1>2, <2>1, FailuresAppend, AnswerAppend
<1>3. CASE s # <<>> /\ Head(s).type = "sessionFailed" /\ t = Tail(s)
  BY <1>3, FailuresTail, AnswerTail
<1>. QED  BY <1>1, <1>2, <1>3 DEF Quieter

-----------------------------------------------------------------------------
(* Steps that leave a shell in its phase.                                    *)

\* The runtime has no party, or one that nobody can have asked to join.
Unmet(p) == \/ mode[p] = NoMode
            \/ mode[p].kind = "host" /\ mode[p].auth = {} /\ mode[p].party \notin known

Calm(r) ==
    /\ ui'[r] = ui[r] /\ joiner'[r] = joiner[r]
    /\ cmdq'[r] = cmdq[r] /\ calls'[r] = calls[r]
    /\ Quieter(evq'[r], evq[r])
    /\ Agrees(r) => Agrees(r)'
    /\ Unmet(r) => mode'[r] = mode[r] /\ globals'[r] = globals[r] /\ LobbiesOf(r)' = LobbiesOf(r)
    /\ ui[r].state = "replied" /\ ui[r].party \notin known => ui[r].party \notin known'

LEMMA CalmKeepsPhase ==
    ASSUME TypeOK, NEW r \in Peers, InPhase(r), Calm(r)
    PROVE  InPhase(r)'
<1>1. /\ OnlyFailures(evq[r]) => OnlyFailures(evq'[r])
      /\ \A e : OneAnswer(evq[r], e) /\ e.type # "sessionFailed" => OneAnswer(evq'[r], e)
  <2>1. evq[r] \in Seq(Event)
    BY DEF TypeOK
  <2>. QED  BY <2>1, QuieterQueue DEF Calm
<1>2. CASE Resting(r)
  BY <1>1, <1>2 DEF Calm, InPhase, Resting
<1>3. ASSUME NEW k \in Parties, Starting(r, k)
      PROVE  Starting(r, k)'
  <2>1. mode'[r] = mode[r] /\ globals'[r] = globals[r] /\ LobbiesOf(r)' = LobbiesOf(r)
    BY <1>3 DEF Calm, Unmet, Starting
  <2>2. \A c : /\ Commanded(r, c) => Commanded(r, c)'
               /\ Called(r, c) => Called(r, c)'
    BY <1>1, <2>1 DEF Calm, Commanded, Called
  <2>3. \A L : \A t \in {"created", "createFailed"} : LET e == [type |-> t, party |-> k] IN
           Answered(r, e, L) => Answered(r, e, L)'
    BY <1>1, <2>1 DEF Calm, Answered
  <2>. QED  BY <1>3, <2>1, <2>2, <2>3 DEF Calm, Starting
<1>4. ASSUME NEW k \in Parties, Replied(r, k)
      PROVE  Replied(r, k)'
  <2>1. mode[r].kind = "host" /\ mode[r].auth = {} /\ mode[r].party = k
    BY <1>4 DEF Replied, HostMode
  <2>2. mode'[r] = mode[r] /\ globals'[r] = globals[r] /\ LobbiesOf(r)' = LobbiesOf(r)
    BY <1>4, <2>1 DEF Calm, Unmet, Replied
  <2>. QED  BY <1>1, <1>4, <2>2 DEF Calm, Replied, Silent
<1>5. ASSUME NEW k \in Parties, Joining(r, k)
      PROVE  Joining(r, k)'
  <2>1. mode'[r] = mode[r] /\ globals'[r] = globals[r] /\ LobbiesOf(r)' = LobbiesOf(r)
    BY <1>5 DEF Calm, Unmet, Joining
  <2>2. \A c : /\ Commanded(r, c) => Commanded(r, c)'
               /\ Called(r, c) => Called(r, c)'
    BY <1>1, <2>1 DEF Calm, Commanded, Called
  <2>3. \A L : \A t \in {"joined", "joinFailed"} : LET e == [type |-> t, party |-> k] IN
           Answered(r, e, L) => Answered(r, e, L)'
    BY <1>1, <2>1 DEF Calm, Answered
  <2>. QED  BY <1>1, <1>5, <2>1, <2>2, <2>3 DEF Calm, Joining, Silent
<1>. QED  BY <1>2, <1>3, <1>4, <1>5 DEF InPhase

-----------------------------------------------------------------------------
(* The shells that an action is not about.                                   *)

Same(r) ==
    /\ mode'[r] = mode[r] /\ globals'[r] = globals[r]
    /\ ui'[r] = ui[r] /\ joiner'[r] = joiner[r]
    /\ cmdq'[r] = cmdq[r] /\ calls'[r] = calls[r] /\ evq'[r] = evq[r]
    /\ LobbiesOf(r)' = LobbiesOf(r)

\* Of the parties published by a step none is another's.
Publishes(r) == \A k \in known' \ known : HostOf(k) # r

LEMMA SameAgrees ==
    ASSUME NEW r, mode'[r] = mode[r], globals'[r] = globals[r], LobbiesOf(r)' = LobbiesOf(r)
    PROVE  Agrees(r) => Agrees(r)'
  BY DEF Agrees, Shows, SitsIn

LEMMA SameKeepsPhase ==
    ASSUME TypeOK, MadeOnce, NEW r \in Peers, InPhase(r), Same(r), Publishes(r)
    PROVE  InPhase(r)'
<1>1. PICK place : Placed(place)
  BY DEF MadeOnce
<1>2. ui[r].state = "replied" => HostOf(ui[r].party) = r
  BY <1>1 DEF Placed
<1>3. ui[r].state = "replied" /\ ui[r].party \notin known => ui[r].party \notin known'
  BY <1>2 DEF Publishes
<1>4. Agrees(r) => Agrees(r)'
  BY SameAgrees DEF Same
<1>5. Calm(r)
  BY <1>3, <1>4 DEF Calm, Same, Quieter
<1>. QED  BY <1>5, CalmKeepsPhase

\* A party that Steam has yet to open has an empty lobby and an unpublished secret.
LEMMA NotYetOpen ==
    ASSUME TypeOK, MadeOnce, NEW p \in Peers, NEW k \in Parties
    PROVE  /\ (\E i \in DOMAIN calls[p] : calls[p][i] = [op |-> "create", party |-> k])
                 => lobby[k] = {}
           /\ (\E i \in DOMAIN evq[p] : evq[p][i] = [type |-> "created", party |-> k])
                 => k \notin known
<1>1. PICK place : Placed(place)
  BY DEF MadeOnce
<1>2. ASSUME NEW i \in DOMAIN calls[p], calls[p][i] = [op |-> "create", party |-> k]
      PROVE  lobby[k] = {}
  <2>1. calls[p][i] \in CreateCalls /\ calls[p][i].party = k
    BY <1>2 DEF CreateCalls
  <2>2. place[k] = "calls"
    BY <1>1, <2>1 DEF Placed, At
  <2>. QED  BY <1>1, <2>2 DEF Placed
<1>3. ASSUME NEW i \in DOMAIN evq[p], evq[p][i] = [type |-> "created", party |-> k]
      PROVE  k \notin known
  <2>1. evq[p][i] \in CreateEvents /\ evq[p][i].party = k
    BY <1>3 DEF CreateEvents
  <2>2. place[k] = "evq"
    BY <1>1, <2>1 DEF Placed, At
  <2>. QED  BY <1>1, <2>2 DEF Placed
<1>. QED  BY <1>2, <1>3

-----------------------------------------------------------------------------
(* What the handlers have in common.                                         *)

LEMMA LeaveAgrees ==
    ASSUME TypeOK, NEW p \in Peers, NEW wire, NEW notices, LeaveCurrentLobby(p, wire, notices)
    PROVE  /\ \A r \in Peers \ {p} : /\ mode'[r] = mode[r] /\ globals'[r] = globals[r]
                                     /\ LobbiesOf(r)' = LobbiesOf(r)
           /\ mode[p] = NoMode => /\ mode'[p] = mode[p] /\ globals'[p] = globals[p]
                                  /\ LobbiesOf(p)' = LobbiesOf(p)
           /\ Agrees(p) => Agrees(p)'
           /\ Agrees(p) => mode'[p] = NoMode /\ globals'[p] = NoGlobals /\ LobbiesOf(p)' = {}
<1>1. CASE mode[p].kind = "none"
  <2>1. mode[p] = NoMode
    BY <1>1, ModeKinds
  <2>2. UNCHANGED <<mode, globals, lobby>>
    BY <1>1 DEF LeaveCurrentLobby
  <2>. QED  BY <1>1, <2>1, <2>2, SameAgrees DEF LobbiesOf, Agrees, Shows, SitsIn
<1>2. CASE mode[p].kind # "none"
  <2>. DEFINE k == mode[p].party
  <2>1. /\ mode' = [mode EXCEPT ![p] = NoMode]
        /\ globals' = [globals EXCEPT ![p] = NoGlobals]
        /\ lobby' = [lobby EXCEPT ![k] = @ \ {p}]
    BY <1>2 DEF LeaveCurrentLobby, ClearLobbyGlobals, LeaveSteamLobby
  <2>2. /\ mode'[p] = NoMode /\ globals'[p] = NoGlobals
        /\ \A r \in Peers \ {p} : mode'[r] = mode[r] /\ globals'[r] = globals[r]
    BY <2>1 DEF TypeOK
  <2>3. k \in Parties /\ \A j \in Parties : lobby'[j] = IF j = k THEN lobby[k] \ {p} ELSE lobby[j]
    BY <1>2, <2>1, ModeKinds DEF TypeOK
  <2>4. \A r \in Peers \ {p} : LobbiesOf(r)' = LobbiesOf(r)
    BY <2>3 DEF LobbiesOf
  <2>5. Agrees(p) => LobbiesOf(p)' = {}
    BY <1>2, <2>3 DEF LobbiesOf, Agrees, SitsIn
  <2>6. mode[p] # NoMode
    BY <1>2 DEF NoMode
  <2>. QED  BY <2>2, <2>4, <2>5, <2>6 DEF Agrees, Shows, SitsIn, NoMode, NoGlobals
<1>. QED  BY <1>1, <1>2

\* A host that shows its new list.
LEMMA ShowAgrees ==
    ASSUME TypeOK, NEW p \in Peers, NEW S, ShowMembers(p, S),
           mode'[p].kind = mode[p].kind, mode'[p].party = mode[p].party,
           mode[p].kind # "none",
           mode[p].kind = "host" => S = mode'[p].auth \cup {p},
           LobbiesOf(p)' = LobbiesOf(p)
    PROVE  /\ \A r \in Peers \ {p} : globals'[r] = globals[r]
           /\ Agrees(p) => Agrees(p)'
<1>1. /\ globals'[p].id = globals[p].id /\ globals'[p].role = globals[p].role
      /\ globals'[p].members = S /\ globals'[p].count = Cardinality(S)
  BY DEF ShowMembers, TypeOK, Globals
<1>2. \A r \in Peers \ {p} : globals'[r] = globals[r]
  BY DEF ShowMembers, TypeOK
<1>3. Shows(p) => Shows(p)'
  BY <1>1 DEF Shows
<1>4. SitsIn(p) => SitsIn(p)'
  BY DEF SitsIn
<1>. QED  BY <1>2, <1>3, <1>4 DEF Agrees

LEMMA DropAgrees ==
    ASSUME TypeOK, NEW p \in Peers, NEW q \in Peers, NEW kicked \in BOOLEAN, NEW wire,
           DropPeer(p, q, kicked, wire), lobby' = lobby
    PROVE  /\ \A r \in Peers \ {p} : /\ mode'[r] = mode[r] /\ globals'[r] = globals[r]
                                     /\ LobbiesOf(r)' = LobbiesOf(r)
           /\ mode[p].auth = {} => /\ mode'[p] = mode[p] /\ globals'[p] = globals[p]
           /\ LobbiesOf(p)' = LobbiesOf(p)
           /\ Agrees(p) => Agrees(p)'
<1>0. \A r \in Peers : LobbiesOf(r)' = LobbiesOf(r)
  BY DEF LobbiesOf
<1>1. CASE mode[p].kind = "host" /\ q \in mode[p].auth
  <2>. DEFINE rest == mode[p].auth \ {q}
  <2>1. /\ mode' = [mode EXCEPT ![p].auth = rest,
                       ![p].kicked = IF kicked THEN @ \cup {q} ELSE @]
        /\ ShowMembers(p, rest \cup {p})
    BY <1>1 DEF DropPeer
  <2>2. mode[p] \in [kind : {"host"}, party : Parties, auth : SUBSET Peers, kicked : SUBSET Peers]
    BY <1>1 DEF TypeOK, Mode, NoMode, GuestMode
  <2>3. /\ mode'[p].kind = "host" /\ mode'[p].party = mode[p].party /\ mode'[p].auth = rest
        /\ \A r \in Peers \ {p} : mode'[r] = mode[r]
    BY <2>1, <2>2 DEF TypeOK
  <2>. QED  BY <1>0, <1>1, <2>1, <2>3, ShowAgrees
<1>2. CASE ~(mode[p].kind = "host" /\ q \in mode[p].auth)
  <2>1. UNCHANGED <<mode, globals>>
    BY <1>2 DEF DropPeer
  <2>. QED  BY <1>0, <2>1, SameAgrees
<1>. QED  BY <1>1, <1>2

-----------------------------------------------------------------------------
(* The phases, action by action.                                             *)

LEMMA SettledRests ==
    ASSUME NEW p \in Peers, InPhase(p), Settled(p)
    PROVE  Resting(p) /\ Silent(p) /\ Agrees(p)
<1>1. ui[p] = Idle /\ joiner[p] = Idle /\ cmdq[p] = <<>> /\ calls[p] = <<>>
  BY DEF Settled
<1>2. ASSUME NEW k \in Parties PROVE ~Starting(p, k) /\ ~Replied(p, k)
  BY <1>1 DEF Starting, Replied, Idle
<1>3. ASSUME NEW k \in Parties PROVE ~Joining(p, k)
  BY <1>1 DEF Joining, Idle
<1>. QED  BY <1>1, <1>2, <1>3 DEF InPhase, Resting, Silent

\* A settled shell that shows no party has none.
LEMMA NothingShown ==
    ASSUME TypeOK, NEW p \in Peers, Agrees(p), globals[p].id = NoParty
    PROVE  mode[p] = NoMode /\ globals[p] = NoGlobals /\ LobbiesOf(p) = {}
<1>1. ASSUME NEW k \in Parties PROVE k # NoParty
  <2>1. PICK q \in Peers : k \in {q} \X (1..Budget[q]["start"])
    BY DEF Parties
  <2>2. k = <<k[1], k[2]>>
    BY <2>1
  <2>3. Len(k) = 2 /\ Len(<<>>) = 0
    BY <2>2
  <2>. QED  BY <2>3 DEF NoParty
<1>2. mode[p].kind = "none"
  BY <1>1, ModeKinds DEF Agrees, Shows
<1>. QED  BY <1>2, ModeKinds DEF Agrees, Shows, SitsIn

LEMMA UserPhases ==
    ASSUME Patient, TypeOK, MadeOnce, InPhases, NEW p \in Peers, UserStep(p)
    PROVE  InPhases'
<1>1. CASE OnStartWatchParty(p)
  <2>0. PICK k, c : k = <<p, budget[p]["start"]>> /\ c = [op |-> "StartHost", party |-> k]
    OBVIOUS
  <2>1. /\ globals[p].id = NoParty /\ Settled(p) /\ Spend(p, "start")
        /\ ui' = [ui EXCEPT ![p] = [state |-> "waiting", party |-> k]]
        /\ cmdq' = [cmdq EXCEPT ![p] = Append(@, c)]
        /\ UNCHANGED <<mode, globals, joiner, calls, evq, lobby, known>>
    BY <1>1, <2>0 DEF OnStartWatchParty, UserActs, Enqueue, shell, steam, secrets
  <2>2. k \in Parties
    BY <2>0, <2>1, NextParty DEF Spend
  <2>3. /\ Resting(p) /\ Silent(p) /\ Agrees(p)
        /\ mode[p] = NoMode /\ globals[p] = NoGlobals /\ LobbiesOf(p) = {}
    BY <2>1, SettledRests, NothingShown DEF InPhases
  <2>4. ui'[p] = [state |-> "waiting", party |-> k] /\ cmdq'[p] = <<c>>
    BY <2>1, <2>3 DEF Silent, TypeOK
  <2>5. Commanded(p, c)'
    BY <2>1, <2>3, <2>4 DEF Commanded, Silent, LobbiesOf
  <2>6. Starting(p, k)'
    BY <2>0, <2>1, <2>3, <2>4, <2>5 DEF Starting, Resting
  <2>7. \A r \in Peers \ {p} : Same(r) /\ Publishes(r)
    BY <2>1 DEF Same, Publishes, LobbiesOf, TypeOK
  <2>. QED  BY <2>2, <2>6, <2>7, SameKeepsPhase DEF InPhases, InPhase
<1>2. ASSUME NEW c \in [op : {"Leave"}] \cup [op : {"Kick"}, peer : Peers],
             Settled(p), Enqueue(p, c), UNCHANGED <<shell, ui, joiner, steam, known>>
      PROVE  InPhases'
  <2>1. Resting(p) /\ Silent(p) /\ Agrees(p)
    BY <1>2, SettledRests DEF InPhases
  <2>2. cmdq'[p] = <<c>> /\ c.op \in {"Leave", "Kick"}
    BY <1>2, <2>1 DEF Enqueue, Silent, TypeOK
  <2>3. UNCHANGED <<mode, globals, ui, joiner, calls, evq, lobby, known>>
    BY <1>2 DEF shell, steam
  <2>4. Agrees(p)'
    BY <2>1, <2>3, SameAgrees DEF LobbiesOf
  <2>5. Resting(p)'
    BY <2>1, <2>2, <2>3, <2>4 DEF Resting
  <2>6. \A r \in Peers \ {p} : Same(r) /\ Publishes(r)
    BY <1>2, <2>3 DEF Same, Publishes, LobbiesOf, Enqueue, TypeOK
  <2>. QED  BY <2>5, <2>6, SameKeepsPhase DEF InPhases, InPhase
<1>3. CASE OnEndWatchParty(p) \/ OnLeaveWatchParty(p)
  <2>1. /\ Settled(p) /\ Enqueue(p, [op |-> "Leave"])
        /\ UNCHANGED <<shell, ui, joiner, steam, known>>
    BY <1>3 DEF OnEndWatchParty, OnLeaveWatchParty, UserActs, secrets
  <2>. QED  BY <1>2, <2>1
<1>4. ASSUME NEW q \in Peers, OnKick(p, q)
      PROVE  InPhases'
  <2>1. /\ Settled(p) /\ Enqueue(p, [op |-> "Kick", peer |-> q])
        /\ UNCHANGED <<shell, ui, joiner, steam, known>>
    BY <1>4 DEF OnKick, UserActs, secrets
  <2>. QED  BY <1>2, <2>1
<1>5. ASSUME NEW k \in known, ConnectToHost(p, k)
      PROVE  InPhases'
  <2>. DEFINE g == [id |-> k, count |-> 1, members |-> {}, role |-> "Guest"]
  <2>1. /\ Settled(p) /\ mode[p] = NoMode /\ globals[p].id = NoParty
        /\ joiner' = [joiner EXCEPT ![p] = [state |-> "marked", party |-> k]]
        /\ globals' = [globals EXCEPT ![p] = g]
        /\ UNCHANGED <<mode, ui, cmdq, calls, evq, lobby, known>>
    BY <1>5 DEF ConnectToHost, UserActs, steam
  <2>2. k \in Parties
    BY <1>5 DEF TypeOK
  <2>3. Resting(p) /\ Silent(p) /\ Agrees(p) /\ LobbiesOf(p) = {}
    BY <2>1, SettledRests, NothingShown DEF InPhases
  <2>4. joiner'[p] = [state |-> "marked", party |-> k] /\ globals'[p] = g
    BY <2>1 DEF TypeOK
  <2>5. Silent(p)' /\ LobbiesOf(p)' = {}
    BY <2>1, <2>3 DEF Silent, LobbiesOf
  <2>6. Joining(p, k)'
    BY <2>1, <2>3, <2>4, <2>5 DEF Joining, Resting
  <2>7. \A r \in Peers \ {p} : Same(r) /\ Publishes(r)
    BY <2>1 DEF Same, Publishes, LobbiesOf, TypeOK
  <2>. QED  BY <2>2, <2>6, <2>7, SameKeepsPhase DEF InPhases, InPhase
<1>. QED  BY <1>1, <1>3, <1>4, <1>5 DEF UserStep

LEMMA ThreadPhases ==
    ASSUME ~Timeouts, TypeOK, MadeOnce, InPhases, NEW p \in Peers, ThreadStep(p)
    PROVE  InPhases'
<1>1. InPhase(p)
  BY DEF InPhases
<1>2. CASE FinishStart(p)
  <2>0. PICK k : k = ui[p].party
    OBVIOUS
  <2>1. /\ ui[p].state = "replied"
        /\ ui' = [ui EXCEPT ![p] = Idle]
        /\ globals' = [globals EXCEPT ![p].id = k, ![p].count = 1]
        /\ known' = known \cup {k}
        /\ UNCHANGED <<mode, joiner, cmdq, calls, evq, lobby>>
    BY <1>2, <2>0 DEF FinishStart, steam
  <2>2. k \in Parties /\ Replied(p, k)
    <3>1. ~Resting(p) /\ \A j \in Parties : ~Starting(p, j) /\ ~Joining(p, j)
      BY <2>1 DEF Resting, Starting, Joining, Idle
    <3>2. PICK j \in Parties : Replied(p, j)
      BY <1>1, <3>1 DEF InPhase
    <3>3. j = k
      BY <2>0, <3>2 DEF Replied
    <3>. QED  BY <3>2, <3>3
  <2>3. ui'[p] = Idle /\ globals'[p] = [id |-> k, count |-> 1, members |-> {p}, role |-> "Host"]
    <3>1. /\ globals'[p].id = k /\ globals'[p].count = 1
          /\ globals'[p].members = globals[p].members /\ globals'[p].role = globals[p].role
      BY <2>1 DEF TypeOK, Globals
    <3>2. globals[p] = [id |-> NoParty, count |-> 1, members |-> {p}, role |-> "Host"]
      BY <2>2 DEF Replied
    <3>3. ui'[p] = Idle
      BY <2>1 DEF TypeOK
    <3>4. globals'[p] \in Globals
      BY ThreadStepType DEF TypeOK
    <3>. QED  BY <3>1, <3>2, <3>3, <3>4 DEF Globals
  <2>4. Cardinality({p}) = 1
    BY FS_Singleton
  <2>5. /\ mode'[p].kind = "host" /\ mode'[p].party = k /\ mode'[p].auth = {}
        /\ LobbiesOf(p)' = {k}
    BY <2>1, <2>2 DEF Replied, HostMode, LobbiesOf
  <2>6. Agrees(p)'
    BY <2>3, <2>4, <2>5 DEF Agrees, Shows, SitsIn
  <2>7. Resting(p)'
    BY <2>1, <2>2, <2>3, <2>6 DEF Replied, Silent, Resting
  <2>8. HostOf(k) = p
    BY <2>0, <2>1 DEF MadeOnce, Placed
  <2>9. \A r \in Peers \ {p} : Same(r) /\ Publishes(r)
    BY <2>1, <2>8 DEF Same, Publishes, LobbiesOf, TypeOK
  <2>. QED  BY <2>7, <2>9, SameKeepsPhase DEF InPhases, InPhase
<1>3. CASE SendJoin(p)
  <2>0. PICK k, c : k = joiner[p].party /\ c = [op |-> "JoinHost", party |-> k]
    OBVIOUS
  <2>1. /\ joiner[p].state = "marked"
        /\ joiner' = [joiner EXCEPT ![p].state = "waiting"]
        /\ cmdq' = [cmdq EXCEPT ![p] = Append(@, c)]
        /\ UNCHANGED <<mode, globals, ui, calls, evq, lobby, known>>
    BY <1>3, <2>0 DEF SendJoin, Enqueue, shell, steam, secrets
  <2>2. k \in Parties /\ Joining(p, k) /\ Silent(p) /\ LobbiesOf(p) = {}
    <3>1. ~Resting(p) /\ \A j \in Parties : ~Starting(p, j) /\ ~Replied(p, j)
      BY <2>1 DEF Resting, Starting, Replied, Idle
    <3>2. PICK j \in Parties : Joining(p, j)
      BY <1>1, <3>1 DEF InPhase
    <3>3. j = k
      BY <2>0, <3>2 DEF Joining
    <3>. QED  BY <2>1, <3>2, <3>3 DEF Joining
  <2>3. joiner'[p] = [state |-> "waiting", party |-> k] /\ cmdq'[p] = <<c>>
    <3>1. joiner[p] = [state |-> "marked", party |-> k]
      BY <2>1, <2>2 DEF Joining
    <3>. QED  BY <2>1, <2>2, <3>1 DEF Silent, TypeOK
  <2>4. Commanded(p, c)'
    BY <2>1, <2>2, <2>3 DEF Commanded, Silent, LobbiesOf
  <2>5. Joining(p, k)'
    BY <2>0, <2>1, <2>2, <2>3, <2>4 DEF Joining
  <2>6. \A r \in Peers \ {p} : Same(r) /\ Publishes(r)
    BY <2>1 DEF Same, Publishes, LobbiesOf, TypeOK
  <2>. QED  BY <2>2, <2>5, <2>6, SameKeepsPhase DEF InPhases, InPhase
<1>. QED  BY <1>2, <1>3 DEF ThreadStep, StartTimesOut, JoinTimesOut

LEMMA CommandPhases ==
    ASSUME TypeOK, MadeOnce, InPhases, NEW p \in Peers, HandleCommand(p)
    PROVE  InPhases'
<1>0. InPhase(p)
  BY DEF InPhases
<1>. DEFINE c == Head(cmdq[p])
<1>1. /\ cmdq[p] # <<>> /\ cmdq' = [cmdq EXCEPT ![p] = Tail(@)]
      /\ c \in Command
      /\ UNCHANGED <<ui, joiner, evq, known>>
  BY QueueTypes DEF HandleCommand, secrets
<1>2. \/ LeaveCurrentLobby(p, net, chat)
      \/ c.op = "Kick" /\ KickAuthorizedPeer(p, c.peer) /\ UNCHANGED lobby
  BY DEF HandleCommand
<1>3. /\ \A r \in Peers \ {p} : /\ mode'[r] = mode[r] /\ globals'[r] = globals[r]
                                /\ LobbiesOf(r)' = LobbiesOf(r)
      /\ Agrees(p) => Agrees(p)'
  <2>1. CASE LeaveCurrentLobby(p, net, chat)
    BY <2>1, LeaveAgrees
  <2>2. CASE c.op = "Kick" /\ KickAuthorizedPeer(p, c.peer) /\ UNCHANGED lobby
    <3>1. c.peer \in Peers
      BY <1>1, <2>2 DEF Command
    <3>. QED  BY <2>2, <3>1, DropAgrees DEF KickAuthorizedPeer
  <2>. QED  BY <1>2, <2>1, <2>2
<1>4. \/ c.op \in {"Leave", "Kick"} /\ UNCHANGED calls
      \/ /\ c.op \in {"StartHost", "JoinHost"}
         /\ calls' = [calls EXCEPT ![p] = Append(@,
               [op |-> IF c.op = "StartHost" THEN "create" ELSE "join", party |-> c.party])]
  BY DEF HandleCommand
<1>5. \A r \in Peers \ {p} : Same(r) /\ Publishes(r)
  BY <1>1, <1>3, <1>4 DEF Same, Publishes, TypeOK
<1>6. ASSUME Resting(p) PROVE InPhase(p)'
  <2>1. cmdq'[p] = Tail(cmdq[p])
    BY <1>1 DEF TypeOK
  <2>2. /\ c = cmdq[p][1] /\ 1 \in DOMAIN cmdq[p]
        /\ \A i \in DOMAIN cmdq'[p] : i + 1 \in DOMAIN cmdq[p] /\ cmdq'[p][i] = cmdq[p][i + 1]
    BY <1>1, <2>1, Elements DEF TypeOK
  <2>3. UNCHANGED calls
    BY <1>4, <1>6, <2>2 DEF Resting
  <2>4. Resting(p)'
    BY <1>1, <1>3, <1>6, <2>2, <2>3 DEF Resting
  <2>. QED  BY <2>4 DEF InPhase
<1>7. ASSUME NEW d, Commanded(p, d), d.op \in {"StartHost", "JoinHost"}, mode[p] = NoMode
      PROVE  /\ mode'[p] = mode[p] /\ globals'[p] = globals[p] /\ c = d
             /\ Called(p, [op |-> IF d.op = "StartHost" THEN "create" ELSE "join",
                           party |-> d.party])'
  <2>1. c = d /\ cmdq'[p] = <<>>
    BY <1>1, <1>7 DEF Commanded, TypeOK
  <2>2. LeaveCurrentLobby(p, net, chat)
    BY <1>2, <1>7, <2>1
  <2>3. calls'[p] = <<[op |-> IF d.op = "StartHost" THEN "create" ELSE "join",
                       party |-> d.party]>>
    BY <1>4, <1>7, <2>1 DEF Commanded, TypeOK
  <2>4. mode'[p] = mode[p] /\ globals'[p] = globals[p] /\ LobbiesOf(p)' = LobbiesOf(p)
    BY <1>7, <2>2, LeaveAgrees
  <2>. QED  BY <1>1, <1>7, <2>1, <2>3, <2>4 DEF Commanded, Called
<1>8. ASSUME NEW k \in Parties, Starting(p, k) PROVE InPhase(p)'
  <2>. DEFINE d == [op |-> "StartHost", party |-> k]
  <2>1. Commanded(p, d) /\ mode[p] = NoMode
    BY <1>1, <1>8 DEF Starting, Called, Answered
  <2>2. mode'[p] = mode[p] /\ globals'[p] = globals[p] /\ Called(p, [op |-> "create", party |-> k])'
    BY <1>7, <2>1
  <2>3. Starting(p, k)'
    BY <1>1, <1>8, <2>2 DEF Starting
  <2>. QED  BY <2>3 DEF InPhase
<1>9. ASSUME NEW k \in Parties, Joining(p, k) PROVE InPhase(p)'
  <2>. DEFINE d == [op |-> "JoinHost", party |-> k]
  <2>1. Commanded(p, d) /\ mode[p] = NoMode /\ joiner[p] = [state |-> "waiting", party |-> k]
    BY <1>1, <1>9 DEF Joining, Silent, Called, Answered
  <2>2. mode'[p] = mode[p] /\ globals'[p] = globals[p] /\ Called(p, [op |-> "join", party |-> k])'
    BY <1>7, <2>1
  <2>3. Joining(p, k)'
    BY <1>1, <1>9, <2>1, <2>2 DEF Joining
  <2>. QED  BY <2>3 DEF InPhase
<1>10. \A k \in Parties : ~Replied(p, k)
  BY <1>1 DEF Replied, Silent
<1>. QED  BY <1>0, <1>5, <1>6, <1>8, <1>9, <1>10, SameKeepsPhase DEF InPhases, InPhase

LEMMA AnswerPhases ==
    ASSUME TypeOK, MadeOnce, InPhases, NEW p \in Peers, SteamAnswers(p)
    PROVE  InPhases'
<1>0. InPhase(p)
  BY DEF InPhases
<1>. DEFINE c == Head(calls[p])
<1>1. /\ calls[p] # <<>> /\ calls' = [calls EXCEPT ![p] = Tail(@)]
      /\ c \in Call /\ evq[p] \in Seq(Event)
      /\ UNCHANGED <<mode, globals, ui, joiner, cmdq, known>>
  BY QueueTypes DEF SteamAnswers, shell, threads, secrets, TypeOK
<1>2. /\ c.op = "create" => \/ Answer(p, "created", c.party) /\ lobby' = [lobby EXCEPT ![c.party] = {p}]
                            \/ Answer(p, "createFailed", c.party) /\ UNCHANGED lobby
      /\ c.op = "join" => \/ /\ Answer(p, "joined", c.party)
                             /\ lobby' = [lobby EXCEPT ![c.party] = @ \cup {p}]
                          \/ Answer(p, "joinFailed", c.party) /\ UNCHANGED lobby
  BY DEF SteamAnswers
<1>3. /\ c \in Call /\ c.party \in Parties /\ c.op \in {"create", "join"}
      /\ calls[p] \in Seq(Call) /\ c = calls[p][1] /\ 1 \in DOMAIN calls[p]
  <2>1. calls[p] \in Seq(Call) /\ c \in Call
    BY <1>1 DEF TypeOK
  <2>2. c = calls[p][1] /\ 1 \in DOMAIN calls[p]
    BY <1>1, <2>1, Elements
  <2>. QED  BY <2>1, <2>2 DEF Call
<1>4. c.op = "create" => lobby[c.party] = {}
  <2>1. c = [op |-> c.op, party |-> c.party]
    BY <1>1 DEF Call
  <2>2. c.op = "create" => calls[p][1] = [op |-> "create", party |-> c.party]
    BY <1>3, <2>1
  <2>. QED  BY <1>3, <2>2, NotYetOpen
<1>5. /\ \A r \in Peers \ {p} : LobbiesOf(r)' = LobbiesOf(r)
      /\ LobbiesOf(p)' = LobbiesOf(p) \/ LobbiesOf(p)' = LobbiesOf(p) \cup {c.party}
  <2>1. \/ lobby' = lobby
        \/ /\ \A k \in Parties : k # c.party => lobby'[k] = lobby[k]
           /\ lobby'[c.party] = lobby[c.party] \cup {p}
    BY <1>2, <1>3, <1>4 DEF TypeOK
  <2>. QED  BY <1>3, <2>1 DEF LobbiesOf
<1>6. \A r \in Peers \ {p} : Same(r) /\ Publishes(r)
  BY <1>1, <1>2, <1>3, <1>5 DEF Same, Publishes, Answer, TypeOK
<1>7. ~Resting(p) /\ \A k \in Parties : ~Replied(p, k)
  BY <1>1 DEF Resting, Replied, Silent
<1>8. ASSUME NEW k \in Parties, NEW o \in {"create", "join"}, Called(p, [op |-> o, party |-> k])
      PROVE  /\ c = [op |-> o, party |-> k]
             /\ o = "create" => \/ Answered(p, [type |-> "created", party |-> k], {k})'
                                \/ Answered(p, [type |-> "createFailed", party |-> k], {})'
             /\ o = "join" => \/ Answered(p, [type |-> "joined", party |-> k], {k})'
                              \/ Answered(p, [type |-> "joinFailed", party |-> k], {})'
  <2>1. c = [op |-> o, party |-> k] /\ calls'[p] = <<>>
    BY <1>1, <1>8 DEF Called, TypeOK
  <2>2. \A t \in {"created", "createFailed", "joined", "joinFailed"} :
           [type |-> t, party |-> k] \in Event
    BY DEF Event
  <2>3. ASSUME NEW t \in {"created", "createFailed", "joined", "joinFailed"}, Answer(p, t, k)
        PROVE  OneAnswer(evq'[p], [type |-> t, party |-> k])
    <3>1. evq'[p] = Append(evq[p], [type |-> t, party |-> k])
      BY <1>1, <2>3 DEF Answer, TypeOK
    <3>. QED  BY <1>1, <1>8, <2>2, <3>1, FailuresAppend DEF Called
  <2>4. (k \in LobbiesOf(p)') => LobbiesOf(p)' = {k}
    BY <1>5, <1>8, <2>1 DEF Called
  <2>5. /\ lobby' = lobby => LobbiesOf(p)' = {}
        /\ (lobby' # lobby /\ p \in lobby'[k]) => LobbiesOf(p)' = {k}
    BY <1>8, <2>4 DEF Called, LobbiesOf
  <2>6. /\ lobby' = [lobby EXCEPT ![k] = {p}] => LobbiesOf(p)' = {k}
        /\ lobby' = [lobby EXCEPT ![k] = @ \cup {p}] => LobbiesOf(p)' = {k}
    BY <2>4 DEF LobbiesOf, TypeOK
  <2>. QED  BY <1>1, <1>2, <1>8, <2>1, <2>3, <2>5, <2>6 DEF Called, Answered
<1>9. ASSUME NEW k \in Parties, Starting(p, k) PROVE InPhase(p)'
  <2>1. Called(p, [op |-> "create", party |-> k])
    BY <1>1, <1>9 DEF Starting, Commanded, Answered
  <2>2. Starting(p, k)'
    BY <1>1, <1>8, <1>9, <2>1 DEF Starting
  <2>. QED  BY <2>2 DEF InPhase
<1>10. ASSUME NEW k \in Parties, Joining(p, k) PROVE InPhase(p)'
  <2>1. Called(p, [op |-> "join", party |-> k]) /\ joiner[p] = [state |-> "waiting", party |-> k]
    BY <1>1, <1>10 DEF Joining, Silent, Commanded, Answered
  <2>2. Joining(p, k)'
    BY <1>1, <1>8, <1>10, <2>1 DEF Joining
  <2>. QED  BY <2>2 DEF InPhase
<1>. QED  BY <1>0, <1>6, <1>7, <1>9, <1>10, SameKeepsPhase DEF InPhases, InPhase

LEMMA EventPhases ==
    ASSUME TypeOK, MadeOnce, InPhases, NEW p \in Peers, HandleEvent(p)
    PROVE  InPhases'
<1>0. InPhase(p)
  BY DEF InPhases
<1>. DEFINE e == Head(evq[p])
<1>1. /\ evq[p] # <<>> /\ evq' = [evq EXCEPT ![p] = Tail(@)] /\ evq'[p] = Tail(evq[p])
      /\ e \in Event /\ evq[p] \in Seq(Event)
      /\ UNCHANGED <<cmdq, calls, lobby, known>>
  BY QueueTypes DEF HandleEvent, TypeOK, secrets
<1>2. (\A r \in Peers : LobbiesOf(r)' = LobbiesOf(r)) /\ globals'[p] \in Globals
  BY <1>1, HandleEventType DEF LobbiesOf, TypeOK
<1>3. CASE e.type = "sessionFailed"
  <2>1. SessionFailed(p, e.peer) /\ e.peer \in Peers
    BY <1>1, <1>3 DEF HandleEvent, Event
  <2>2. /\ \A r \in Peers \ {p} : mode'[r] = mode[r] /\ globals'[r] = globals[r]
        /\ mode[p].auth = {} => mode'[p] = mode[p] /\ globals'[p] = globals[p]
        /\ Agrees(p) => Agrees(p)'
        /\ UNCHANGED <<ui, joiner>>
    BY <1>1, <2>1, DropAgrees DEF SessionFailed, HandlePeerLeft
  <2>3. Calm(p)
    BY <1>1, <1>2, <1>3, <2>2 DEF Calm, Unmet, NoMode, Quieter
  <2>4. \A r \in Peers \ {p} : Same(r) /\ Publishes(r)
    BY <1>1, <1>2, <2>2 DEF Same, Publishes, TypeOK
  <2>. QED  BY <1>0, <2>3, <2>4, CalmKeepsPhase, SameKeepsPhase DEF InPhases
<1>4. CASE e.type # "sessionFailed"
  <2>1. ~OnlyFailures(evq[p])
    BY <1>1, <1>4, FailuresTail
  <2>2. \A f : OneAnswer(evq[p], f) /\ f.type # "sessionFailed" => e = f /\ OnlyFailures(evq'[p])
    BY <1>1, <1>4, AnswerTail
  <2>3. /\ e.type = "created" => HostLobbyCreated(p, e.party)
        /\ e.type = "createFailed" => HostLobbyFailed(p, e.party)
        /\ e.type = "joined" => GuestLobbyJoined(p, e.party)
        /\ e.type = "joinFailed" => GuestLobbyFailed(p, e.party)
    BY DEF HandleEvent
  <2>4. ~Resting(p) /\ \A k \in Parties : ~Replied(p, k)
    BY <2>1 DEF Resting, Replied, Silent
  <2>5. ASSUME NEW k \in Parties, Starting(p, k) PROVE InPhases'
    <3>1. \/ Answered(p, [type |-> "created", party |-> k], {k})
          \/ Answered(p, [type |-> "createFailed", party |-> k], {})
      BY <2>1, <2>5 DEF Starting, Commanded, Called
    <3>2. /\ cmdq[p] = <<>> /\ calls[p] = <<>> /\ OnlyFailures(evq'[p])
          /\ \/ e = [type |-> "created", party |-> k] /\ LobbiesOf(p) = {k}
             \/ e = [type |-> "createFailed", party |-> k] /\ LobbiesOf(p) = {}
      BY <2>2, <3>1 DEF Answered
    <3>3. /\ ui[p] = [state |-> "waiting", party |-> k] /\ joiner[p] = Idle
          /\ mode[p] = NoMode /\ globals[p] = NoGlobals
      BY <2>5 DEF Starting
    <3>4. CASE e = [type |-> "created", party |-> k]
      <4>1. /\ mode' = [mode EXCEPT ![p] = HostMode(k)]
            /\ globals' = [globals EXCEPT ![p].count = 1, ![p].members = {p}, ![p].role = "Host"]
            /\ ui' = [ui EXCEPT ![p] = [state |-> "replied", party |-> k]]
            /\ UNCHANGED joiner
        BY <2>3, <3>3, <3>4 DEF HostLobbyCreated, UiGets
      <4>2. k \notin known
        <5>1. 1 \in DOMAIN evq[p] /\ evq[p][1] = [type |-> "created", party |-> k]
          BY <1>1, <3>4, Elements
        <5>. QED  BY <5>1, NotYetOpen
      <4>3. globals'[p] = [id |-> NoParty, count |-> 1, members |-> {p}, role |-> "Host"]
        <5>1. /\ globals'[p].id = NoParty /\ globals'[p].count = 1
              /\ globals'[p].members = {p} /\ globals'[p].role = "Host"
          BY <3>3, <4>1 DEF NoGlobals, TypeOK, Globals
        <5>. QED  BY <1>2, <5>1 DEF Globals
      <4>4. Replied(p, k)'
        BY <1>1, <1>2, <3>2, <3>3, <3>4, <4>1, <4>2, <4>3 DEF Replied, Silent, TypeOK
      <4>5. \A r \in Peers \ {p} : Same(r) /\ Publishes(r)
        BY <1>1, <1>2, <4>1 DEF Same, Publishes, TypeOK
      <4>. QED  BY <4>4, <4>5, SameKeepsPhase DEF InPhases, InPhase
    <3>5. CASE e = [type |-> "createFailed", party |-> k]
      <4>1. /\ globals' = [globals EXCEPT ![p].count = 0]
            /\ ui' = [ui EXCEPT ![p] = Idle]
            /\ UNCHANGED <<mode, joiner>>
        BY <2>3, <3>3, <3>5 DEF HostLobbyFailed, UiGets
      <4>2. globals'[p] = NoGlobals
        <5>1. /\ globals'[p].id = NoParty /\ globals'[p].count = 0
              /\ globals'[p].members = {} /\ globals'[p].role = "None"
          BY <3>3, <4>1 DEF NoGlobals, TypeOK, Globals
        <5>. QED  BY <1>2, <5>1 DEF Globals, NoGlobals
      <4>3. Agrees(p)'
        BY <1>2, <3>2, <3>3, <3>5, <4>1, <4>2 DEF Agrees, Shows, SitsIn, NoMode, NoGlobals
      <4>4. Resting(p)'
        BY <1>1, <3>2, <3>3, <4>1, <4>3 DEF Resting, TypeOK
      <4>5. \A r \in Peers \ {p} : Same(r) /\ Publishes(r)
        BY <1>1, <1>2, <4>1 DEF Same, Publishes, TypeOK
      <4>. QED  BY <4>4, <4>5, SameKeepsPhase DEF InPhases, InPhase
    <3>. QED  BY <3>2, <3>4, <3>5
  <2>6. ASSUME NEW k \in Parties, Joining(p, k) PROVE InPhases'
    <3>1. /\ joiner[p] = [state |-> "waiting", party |-> k]
          /\ \/ Answered(p, [type |-> "joined", party |-> k], {k})
             \/ Answered(p, [type |-> "joinFailed", party |-> k], {})
      BY <2>1, <2>6 DEF Joining, Commanded, Called, Silent
    <3>2. /\ cmdq[p] = <<>> /\ calls[p] = <<>> /\ OnlyFailures(evq'[p])
          /\ \/ e = [type |-> "joined", party |-> k] /\ LobbiesOf(p) = {k}
             \/ e = [type |-> "joinFailed", party |-> k] /\ LobbiesOf(p) = {}
      BY <2>2, <3>1 DEF Answered
    <3>3. /\ ui[p] = Idle /\ mode[p] = NoMode
          /\ globals[p] = [id |-> k, count |-> 1, members |-> {}, role |-> "Guest"]
      BY <2>6 DEF Joining
    <3>4. CASE e = [type |-> "joined", party |-> k]
      <4>1. /\ mode' = [mode EXCEPT ![p] = GuestMode(k)]
            /\ globals' = [globals EXCEPT ![p].role = "Guest"]
            /\ joiner' = [joiner EXCEPT ![p] = Idle]
            /\ UNCHANGED ui
        BY <2>3, <3>1, <3>4 DEF GuestLobbyJoined, JoinerReleased
      <4>2. globals'[p] = globals[p] /\ mode'[p] = GuestMode(k)
        <5>1. /\ globals'[p].id = k /\ globals'[p].count = 1
              /\ globals'[p].members = {} /\ globals'[p].role = "Guest"
          BY <3>3, <4>1 DEF TypeOK, Globals
        <5>2. mode'[p] = GuestMode(k)
          BY <4>1 DEF TypeOK
        <5>. QED  BY <1>2, <3>3, <5>1, <5>2 DEF Globals
      <4>3. Agrees(p)'
        BY <1>2, <3>2, <3>3, <3>4, <4>2 DEF Agrees, Shows, SitsIn, GuestMode
      <4>4. Resting(p)'
        BY <1>1, <3>2, <3>3, <4>1, <4>3 DEF Resting, TypeOK
      <4>5. \A r \in Peers \ {p} : Same(r) /\ Publishes(r)
        BY <1>1, <1>2, <4>1 DEF Same, Publishes, TypeOK
      <4>. QED  BY <4>4, <4>5, SameKeepsPhase DEF InPhases, InPhase
    <3>5. CASE e = [type |-> "joinFailed", party |-> k]
      <4>1. /\ globals' = [globals EXCEPT ![p] = NoGlobals]
            /\ joiner' = [joiner EXCEPT ![p] = Idle]
            /\ UNCHANGED <<mode, ui>>
        BY <2>3, <3>1, <3>5 DEF GuestLobbyFailed, ClearLobbyGlobals, JoinerReleased
      <4>2. globals'[p] = NoGlobals /\ mode'[p] = NoMode
        BY <3>3, <4>1 DEF TypeOK
      <4>3. Agrees(p)'
        BY <1>2, <3>2, <3>5, <4>2 DEF Agrees, Shows, SitsIn, NoMode, NoGlobals
      <4>4. Resting(p)'
        BY <1>1, <3>2, <3>3, <4>1, <4>3 DEF Resting, TypeOK
      <4>5. \A r \in Peers \ {p} : Same(r) /\ Publishes(r)
        BY <1>1, <1>2, <4>1 DEF Same, Publishes, TypeOK
      <4>. QED  BY <4>4, <4>5, SameKeepsPhase DEF InPhases, InPhase
    <3>. QED  BY <3>2, <3>4, <3>5
  <2>. QED  BY <1>0, <2>4, <2>5, <2>6 DEF InPhase
<1>. QED  BY <1>3, <1>4

LEMMA NoticePhases ==
    ASSUME TypeOK, MadeOnce, InPhases, NEW p \in Peers, HandleLobbyChatUpdate(p)
    PROVE  InPhases'
<1>1. UNCHANGED <<ui, joiner, cmdq, calls, evq, known>>
  BY DEF HandleLobbyChatUpdate, threads, secrets
<1>2. PICK n \in chat[p] :
         \/ HandlePeerLeft(p, n[2], net) /\ UNCHANGED lobby
         \/ GuestOf(p, n[1]) /\ LeaveCurrentLobby(p, net, [chat EXCEPT ![p] = @ \ {n}])
         \/ UNCHANGED <<mode, globals, lobby>>
  BY DEF HandleLobbyChatUpdate, shell
<1>3. n[2] \in Peers
  BY DEF TypeOK
<1>4. /\ \A r \in Peers \ {p} : /\ mode'[r] = mode[r] /\ globals'[r] = globals[r]
                                /\ LobbiesOf(r)' = LobbiesOf(r)
      /\ Unmet(p) => /\ mode'[p] = mode[p] /\ globals'[p] = globals[p]
                     /\ LobbiesOf(p)' = LobbiesOf(p)
      /\ Agrees(p) => Agrees(p)'
  <2>1. CASE HandlePeerLeft(p, n[2], net) /\ UNCHANGED lobby
    <3>1. DropPeer(p, n[2], FALSE, net) /\ lobby' = lobby
      BY <2>1 DEF HandlePeerLeft
    <3>2. Unmet(p) => mode[p].auth = {}
      BY DEF Unmet, NoMode
    <3>. QED  BY <1>3, <3>1, <3>2, DropAgrees
  <2>2. CASE GuestOf(p, n[1]) /\ LeaveCurrentLobby(p, net, [chat EXCEPT ![p] = @ \ {n}])
    BY <2>2, LeaveAgrees DEF GuestOf, Unmet, NoMode
  <2>3. CASE UNCHANGED <<mode, globals, lobby>>
    BY <2>3, SameAgrees DEF LobbiesOf
  <2>. QED  BY <1>2, <2>1, <2>2, <2>3
<1>5. Calm(p)
  BY <1>1, <1>4 DEF Calm, Quieter
<1>6. \A r \in Peers \ {p} : Same(r) /\ Publishes(r)
  BY <1>1, <1>4 DEF Same, Publishes
<1>. QED  BY <1>5, <1>6, CalmKeepsPhase, SameKeepsPhase DEF InPhases

\* A host that nobody can have asked refuses every hello.
LEMMA HelloAgrees ==
    ASSUME TypeOK, Invited, HeldKnown, NEW p \in Peers, NEW q \in Peers, NEW wire,
           net[q][p] # <<>>, Head(net[q][p]).type = "hello", mode[p].kind = "host",
           HandleHello(p, q, Head(net[q][p]), wire), lobby' = lobby
    PROVE  /\ \A r \in Peers \ {p} : mode'[r] = mode[r] /\ globals'[r] = globals[r]
           /\ Unmet(p) => mode'[p] = mode[p] /\ globals'[p] = globals[p]
           /\ Agrees(p) => Agrees(p)'
<1>. DEFINE m == Head(net[q][p])
            auth == mode[p].auth \cup {q}
<1>0. LobbiesOf(p)' = LobbiesOf(p)
  BY DEF LobbiesOf
<1>1. CASE Refused(p, q, m)
  BY <1>0, <1>1, SameAgrees DEF HandleHello, shell
<1>2. CASE ~Refused(p, q, m)
  <2>1. mode' = [mode EXCEPT ![p].auth = auth] /\ ShowMembers(p, auth \cup {p})
    BY <1>2 DEF HandleHello
  <2>2. mode[p] \in [kind : {"host"}, party : Parties, auth : SUBSET Peers, kicked : SUBSET Peers]
    BY DEF TypeOK, Mode, NoMode, GuestMode
  <2>3. /\ mode'[p].kind = "host" /\ mode'[p].party = mode[p].party /\ mode'[p].auth = auth
        /\ \A r \in Peers \ {p} : mode'[r] = mode[r]
    BY <2>1, <2>2 DEF TypeOK
  <2>4. ~Unmet(p)
    <3>1. m.party = mode[p].party
      BY <1>2 DEF Refused
    <3>2. net[q][p] \in Seq(Msg)
      BY DEF TypeOK
    <3>3. m.party \in held[q]
      BY <3>2, HeadElement DEF Invited, NetHeld
    <3>. QED  BY <3>1, <3>3 DEF HeldKnown, Unmet, NoMode
  <2>. QED  BY <1>0, <2>1, <2>3, <2>4, ShowAgrees
<1>. QED  BY <1>1, <1>2

LEMMA MessagePhases ==
    ASSUME TypeOK, MadeOnce, Invited, HeldKnown, InPhases,
           NEW p \in Peers, NEW q \in Peers, Receive(p, q)
    PROVE  InPhases'
<1>. DEFINE m == Head(net[q][p])
            wire == Taken(q, p)
<1>1. /\ UNCHANGED <<ui, joiner, cmdq, calls, evq, known>>
      /\ net[q][p] # <<>>
  BY DEF Receive, threads, secrets
<1>2. /\ \A r \in Peers \ {p} : /\ mode'[r] = mode[r] /\ globals'[r] = globals[r]
                                /\ LobbiesOf(r)' = LobbiesOf(r)
      /\ Unmet(p) => /\ mode'[p] = mode[p] /\ globals'[p] = globals[p]
                     /\ LobbiesOf(p)' = LobbiesOf(p)
      /\ Agrees(p) => Agrees(p)'
  <2>1. CASE UNCHANGED <<mode, globals, lobby>>
    BY <2>1, SameAgrees DEF LobbiesOf
  <2>2. CASE mode[p].kind = "host" /\ HandleHostIncoming(p, q, m, wire) /\ UNCHANGED <<lobby, chat>>
    <3>0. \A r \in Peers : LobbiesOf(r)' = LobbiesOf(r)
      BY <2>2 DEF LobbiesOf
    <3>1. CASE m.type = "hello" /\ HandleHello(p, q, m, wire)
      BY <1>1, <2>2, <3>0, <3>1, HelloAgrees
    <3>2. CASE HandlePeerLeft(p, q, wire)
      <4>1. DropPeer(p, q, FALSE, wire) /\ lobby' = lobby
        BY <2>2, <3>2 DEF HandlePeerLeft
      <4>2. Unmet(p) => mode[p].auth = {}
        BY DEF Unmet, NoMode
      <4>. QED  BY <3>0, <4>1, <4>2, DropAgrees
    <3>3. CASE UNCHANGED <<mode, globals>>
      BY <2>1, <2>2, <3>3
    <3>. QED  BY <2>2, <3>1, <3>2, <3>3 DEF HandleHostIncoming, shell
  <2>3. CASE mode[p].kind = "guest" /\ HandleGuestIncoming(p, m, wire)
    <3>0. ~Unmet(p)
      BY <2>3 DEF Unmet, NoMode
    <3>1. CASE LeaveCurrentLobby(p, wire, chat)
      BY <3>0, <3>1, LeaveAgrees
    <3>2. CASE ShowMembers(p, m.members) /\ UNCHANGED <<mode, lobby, chat>>
      <4>1. \A r \in Peers : LobbiesOf(r)' = LobbiesOf(r)
        BY <3>2 DEF LobbiesOf
      <4>. QED  BY <2>3, <3>0, <3>2, <4>1, ShowAgrees
    <3>3. CASE UNCHANGED <<mode, globals, lobby>>
      BY <2>1, <3>3
    <3>. QED  BY <2>3, <3>1, <3>2, <3>3 DEF HandleGuestIncoming, shell
  <2>. QED  BY <2>1, <2>2, <2>3 DEF Receive, shell
<1>3. Calm(p)
  BY <1>1, <1>2 DEF Calm, Quieter
<1>4. \A r \in Peers \ {p} : Same(r) /\ Publishes(r)
  BY <1>1, <1>2 DEF Same, Publishes
<1>. QED  BY <1>3, <1>4, CalmKeepsPhase, SameKeepsPhase DEF InPhases

LEMMA SessionPhases ==
    ASSUME TypeOK, InPhases, NEW p \in Peers, NEW q \in Peers,
           SessionRequest(p, q) \/ SessionBreak(p, q)
    PROVE  InPhases'
<1>1. UNCHANGED <<mode, globals, ui, joiner, cmdq, calls, lobby, known>>
  BY DEF SessionRequest, SessionBreak, shell, threads, secrets
<1>2. ASSUME NEW r \in Peers PROVE Calm(r)
  <2>1. Quieter(evq'[r], evq[r])
    <3>1. CASE SessionRequest(p, q)
      <4>1. evq' = evq \/ evq' = [evq EXCEPT ![q] = Append(@, Failed(p))]
        BY <3>1 DEF SessionRequest
      <4>2. evq'[r] = evq[r] \/ evq'[r] = Append(evq[r], Failed(p))
        BY <4>1 DEF TypeOK
      <4>. QED  BY <4>2 DEF Quieter
    <3>2. CASE SessionBreak(p, q)
      <4>1. \/ evq'[r] = evq[r]
            \/ evq'[r] = Append(evq[r], Failed(p))
            \/ evq'[r] = Append(evq[r], Failed(q))
        BY <3>2 DEF SessionBreak
      <4>. QED  BY <4>1 DEF Quieter
    <3>. QED  BY <3>1, <3>2
  <2>2. LobbiesOf(r)' = LobbiesOf(r)
    BY <1>1 DEF LobbiesOf
  <2>. QED  BY <1>1, <2>1, <2>2, SameAgrees DEF Calm
<1>. QED  BY <1>2, CalmKeepsPhase DEF InPhases

LEMMA CrashPhases ==
    ASSUME TypeOK, MadeOnce, InPhases, NEW p \in Peers, Crash(p)
    PROVE  InPhases'
<1>1. /\ mode' = [mode EXCEPT ![p] = NoMode]
      /\ globals' = [globals EXCEPT ![p] = NoGlobals]
      /\ ui' = [ui EXCEPT ![p] = Idle]
      /\ joiner' = [joiner EXCEPT ![p] = Idle]
      /\ cmdq' = [cmdq EXCEPT ![p] = <<>>]
      /\ calls' = [calls EXCEPT ![p] = <<>>]
      /\ evq' = [evq EXCEPT ![p] = <<>>]
      /\ lobby' = [k \in Parties |-> lobby[k] \ {p}]
      /\ UNCHANGED known
  BY DEF Crash, ClearLobbyGlobals, secrets
<1>2. /\ \A r \in Peers \ {p} : LobbiesOf(r)' = LobbiesOf(r)
      /\ LobbiesOf(p)' = {}
  BY <1>1 DEF LobbiesOf
<1>3. /\ mode'[p] = NoMode /\ globals'[p] = NoGlobals /\ ui'[p] = Idle /\ joiner'[p] = Idle
      /\ cmdq'[p] = <<>> /\ calls'[p] = <<>> /\ evq'[p] = <<>>
  BY <1>1 DEF TypeOK
<1>4. Agrees(p)'
  BY <1>2, <1>3 DEF Agrees, Shows, SitsIn, NoMode, NoGlobals
<1>5. Resting(p)'
  BY <1>3, <1>4 DEF Resting, OnlyFailures
<1>6. \A r \in Peers \ {p} : Same(r) /\ Publishes(r)
  BY <1>1, <1>2 DEF Same, Publishes, TypeOK
<1>. QED  BY <1>5, <1>6, SameKeepsPhase DEF InPhases, InPhase

LEMMA PhasesStep ==
    ASSUME Patient, ~Timeouts, TypeOK, MadeOnce, Invited, HeldKnown, InPhases, [Next]_vars
    PROVE  InPhases'
<1>1. CASE UNCHANGED vars
  <2>1. \A r \in Peers : Same(r) /\ Publishes(r)
    BY <1>1 DEF vars, shell, threads, steam, secrets, Same, Publishes, LobbiesOf
  <2>. QED  BY <2>1, SameKeepsPhase DEF InPhases
<1>2. CASE Next
  BY <1>2, UserPhases, ThreadPhases, CommandPhases, AnswerPhases, EventPhases, NoticePhases,
     MessagePhases, SessionPhases, CrashPhases DEF Next, RuntimeStep, Failure
<1>. QED  BY <1>1, <1>2

LEMMA PhasesInit == Init => InPhases
<1>. SUFFICES ASSUME Init, NEW p \in Peers PROVE Resting(p)
  BY DEF InPhases, InPhase
<1>1. mode[p] = NoMode /\ globals[p] = NoGlobals /\ LobbiesOf(p) = {}
  BY DEF Init, LobbiesOf
<1>2. Agrees(p)
  BY <1>1 DEF Agrees, Shows, SitsIn, NoMode, NoGlobals
<1>. QED  BY <1>2 DEF Init, Resting, OnlyFailures

\* Nobody uses a secret that was not published.
THEOREM SecretsArePublished == Spec => []HeldKnown
<1>1. Init => HeldKnown
  BY DEF Init, HeldKnown
<1>2. TypeOK /\ HeldKnown /\ [Next]_vars => HeldKnown'
  <2>. SUFFICES ASSUME TypeOK, HeldKnown, [Next]_vars PROVE HeldKnown'
    OBVIOUS
  <2>1. known \subseteq known'
    BY DEF Next, UserStep, ThreadStep, RuntimeStep, Failure, OnStartWatchParty, OnEndWatchParty,
           OnLeaveWatchParty, OnKick, ConnectToHost, FinishStart, StartTimesOut, SendJoin,
           JoinTimesOut, HandleCommand, SteamAnswers, HandleEvent, HandleLobbyChatUpdate,
           Receive, SessionRequest, SessionBreak, Crash, vars, secrets
  <2>2. held' = held \/ \E p \in Peers, k \in known : held' = [held EXCEPT ![p] = @ \cup {k}]
    BY DEF Next, UserStep, ThreadStep, RuntimeStep, Failure, OnStartWatchParty, OnEndWatchParty,
           OnLeaveWatchParty, OnKick, ConnectToHost, FinishStart, StartTimesOut, SendJoin,
           JoinTimesOut, HandleCommand, SteamAnswers, HandleEvent, HandleLobbyChatUpdate,
           Receive, SessionRequest, SessionBreak, Crash, vars, secrets
  <2>3. \A p \in Peers : held'[p] \subseteq held[p] \cup known
    <3>1. CASE held' = held
      BY <3>1
    <3>2. ASSUME NEW q \in Peers, NEW k \in known, held' = [held EXCEPT ![q] = @ \cup {k}]
          PROVE  \A p \in Peers : held'[p] \subseteq held[p] \cup known
      BY <3>2 DEF TypeOK
    <3>. QED  BY <2>2, <3>1, <3>2
  <2>. QED  BY <2>1, <2>3 DEF HeldKnown
<1>. QED  BY <1>1, <1>2, Typing, PTL DEF Spec

\* Of the same user: an operation is with the runtime, with Steam, among the runtime's events or
\* with the thread that waits for its answer, and in one of these places only; what is shown and
\* the Steam lobby the shell sits in are those of that place.
THEOREM PhasesAlways == ASSUME Patient, ~Timeouts PROVE Spec => []InPhases
<1>1. TypeOK /\ MadeOnce /\ Invited /\ HeldKnown /\ InPhases /\ [Next]_vars => InPhases'
  BY PhasesStep
<1>. QED  BY <1>1, PhasesInit, Typing, EachPartyOnce, InvitedAlways, SecretsArePublished, PTL DEF Spec

\* Of a user who waits for each operation to settle: the lobby globals, which drive the
\* menu, the overlay and Discord, tell what the runtime does.
THEOREM ShownIsTrue == ASSUME Patient, ~Timeouts PROVE Spec => []ShownMatchesRuntime
<1>1. TypeOK /\ InPhases => ShownMatchesRuntime
  <2>. SUFFICES ASSUME TypeOK, InPhases, NEW p \in Peers, Settled(p)
       PROVE  /\ globals[p].id = mode[p].party
              /\ globals[p].role = CASE mode[p].kind = "none" -> "None"
                                     [] mode[p].kind = "host" -> "Host"
                                     [] mode[p].kind = "guest" -> "Guest"
              /\ mode[p].kind = "host" => globals[p].members = mode[p].auth \cup {p}
              /\ globals[p].members # {} => globals[p].count = Cardinality(globals[p].members)
    BY DEF ShownMatchesRuntime
  <2>1. Shows(p)
    BY SettledRests DEF InPhases, Agrees
  <2>. QED  BY <2>1, ModeKinds DEF Shows, NoMode, NoGlobals
<1>. QED  BY <1>1, Typing, PhasesAlways, PTL

-----------------------------------------------------------------------------
(* Steam's lobbies, for any users and however late the runtime answers.      *)

\* A shell has one call with Steam, or one result for its runtime to handle, or neither.
OneCall(p) == \/ calls[p] = <<>> /\ (OnlyFailures(evq[p]) \/ \E e \in Event : OneAnswer(evq[p], e))
              \/ Len(calls[p]) = 1 /\ OnlyFailures(evq[p])
OneCallEach == \A p \in Peers : OneCall(p)

\* The lobby of the runtime's party, and those that Steam let the shell into while the
\* runtime has yet to hear of it.
InParty(p) == IF mode[p].kind = "none" THEN {} ELSE {mode[p].party}
Opens(e, k) == e.type \in {"created", "joined"} /\ e.party = k
Opened(s) == {k \in Parties : \E i \in DOMAIN s : Opens(s[i], k)}

\* A shell is in these lobbies and no others, and has no party while a call is under way.
InLobbies(p) ==
    /\ LobbiesOf(p) = InParty(p) \cup Opened(evq[p])
    /\ calls[p] # <<>> \/ ~OnlyFailures(evq[p]) => mode[p] = NoMode
AllInLobbies == \A p \in Peers : InLobbies(p)

LEMMA TailOpens ==
    ASSUME NEW s \in Seq(Event), s # <<>>
    PROVE  /\ Opened(s) = Opened(Tail(s)) \cup {k \in Parties : Opens(Head(s), k)}
           /\ OnlyFailures(s) => OnlyFailures(Tail(s))
           /\ Head(s).type = "sessionFailed" /\ OnlyFailures(Tail(s)) => OnlyFailures(s)
<1>1. /\ Head(s) = s[1] /\ 1 \in DOMAIN s
      /\ \A i \in DOMAIN Tail(s) : i + 1 \in DOMAIN s /\ Tail(s)[i] = s[i + 1]
      /\ \A i \in DOMAIN s : i # 1 => i - 1 \in DOMAIN Tail(s) /\ Tail(s)[i - 1] = s[i]
  OBVIOUS
<1>2. ASSUME NEW k \in Parties
      PROVE  (\E i \in DOMAIN s : Opens(s[i], k)) <=>
                (\E i \in DOMAIN Tail(s) : Opens(Tail(s)[i], k)) \/ Opens(Head(s), k)
  BY <1>1
<1>3. OnlyFailures(s) => OnlyFailures(Tail(s))
  BY FailuresTail
<1>4. Head(s).type = "sessionFailed" /\ OnlyFailures(Tail(s)) => OnlyFailures(s)
  BY <1>1 DEF OnlyFailures
<1>. QED  BY <1>2, <1>3, <1>4 DEF Opened

LEMMA AppendOpens ==
    ASSUME NEW s \in Seq(Event), NEW e \in Event
    PROVE  /\ Opened(Append(s, e)) = Opened(s) \cup {k \in Parties : Opens(e, k)}
           /\ OnlyFailures(Append(s, e)) <=> OnlyFailures(s) /\ e.type = "sessionFailed"
<1>1. /\ \A i \in DOMAIN Append(s, e) : \/ i \in DOMAIN s /\ Append(s, e)[i] = s[i]
                                        \/ i = Len(s) + 1 /\ Append(s, e)[i] = e
      /\ \A i \in DOMAIN s : i \in DOMAIN Append(s, e) /\ Append(s, e)[i] = s[i]
      /\ Len(s) + 1 \in DOMAIN Append(s, e) /\ Append(s, e)[Len(s) + 1] = e
  OBVIOUS
<1>2. ASSUME NEW k \in Parties
      PROVE  (\E i \in DOMAIN Append(s, e) : Opens(Append(s, e)[i], k)) <=>
                (\E i \in DOMAIN s : Opens(s[i], k)) \/ Opens(e, k)
  BY <1>1
<1>3. OnlyFailures(Append(s, e)) <=> OnlyFailures(s) /\ e.type = "sessionFailed"
  BY <1>1 DEF OnlyFailures
<1>. QED  BY <1>2, <1>3 DEF Opened

\* Failed sessions, reported or handled, open and close no lobby.
LEMMA QuieterOpens ==
    ASSUME NEW s \in Seq(Event), NEW t, Quieter(t, s)
    PROVE  Opened(t) = Opened(s) /\ (OnlyFailures(t) <=> OnlyFailures(s))
<1>1. CASE t = s
  BY <1>1
<1>2. ASSUME NEW q \in Peers, t = Append(s, Failed(q))
      PROVE  Opened(t) = Opened(s) /\ (OnlyFailures(t) <=> OnlyFailures(s))
  <2>1. Failed(q) \in Event /\ Failed(q).type = "sessionFailed"
    BY DEF Failed, Event
  <2>2. {k \in Parties : Opens(Failed(q), k)} = {}
    BY <2>1 DEF Opens
  <2>. QED  BY <1>2, <2>1, <2>2, AppendOpens
<1>3. CASE s # <<>> /\ Head(s).type = "sessionFailed" /\ t = Tail(s)
  <2>1. {k \in Parties : Opens(Head(s), k)} = {}
    BY <1>3 DEF Opens
  <2>. QED  BY <1>3, <2>1, TailOpens
<1>. QED  BY <1>1, <1>2, <1>3 DEF Quieter

\* The runtime of r keeps its party.
KeepsParty(r) == InParty(r)' = InParty(r) /\ (mode[r] = NoMode => mode'[r] = NoMode)

LEMMA StaysInLobbies ==
    ASSUME TypeOK, NEW r \in Peers, InLobbies(r), LobbiesOf(r)' = LobbiesOf(r), KeepsParty(r),
           calls'[r] = calls[r], Quieter(evq'[r], evq[r])
    PROVE  InLobbies(r)'
<1>1. evq[r] \in Seq(Event)
  BY DEF TypeOK
<1>2. Opened(evq'[r]) = Opened(evq[r]) /\ (OnlyFailures(evq'[r]) <=> OnlyFailures(evq[r]))
  BY <1>1, QuieterOpens
<1>. QED  BY <1>2 DEF InLobbies, KeepsParty

LEMMA LeaveLobbies ==
    ASSUME TypeOK, NEW p \in Peers, NEW wire, NEW notices, LeaveCurrentLobby(p, wire, notices),
           InLobbies(p)
    PROVE  /\ mode'[p] = NoMode /\ InParty(p)' = {} /\ LobbiesOf(p)' = Opened(evq[p])
           /\ \A r \in Peers \ {p} : KeepsParty(r) /\ LobbiesOf(r)' = LobbiesOf(r)
<1>1. \A r \in Peers \ {p} : mode'[r] = mode[r] /\ LobbiesOf(r)' = LobbiesOf(r)
  BY LeaveAgrees
<1>2. CASE mode[p].kind = "none"
  <2>1. mode[p] = NoMode /\ mode'[p] = mode[p] /\ LobbiesOf(p)' = LobbiesOf(p)
    BY <1>2, ModeKinds, LeaveAgrees
  <2>. QED  BY <1>1, <1>2, <2>1 DEF InLobbies, InParty, KeepsParty
<1>3. CASE mode[p].kind # "none"
  <2>. DEFINE k == mode[p].party
  <2>1. /\ mode' = [mode EXCEPT ![p] = NoMode]
        /\ lobby' = [lobby EXCEPT ![k] = @ \ {p}]
    BY <1>3 DEF LeaveCurrentLobby, LeaveSteamLobby
  <2>2. k \in Parties /\ mode'[p] = NoMode
    BY <1>3, <2>1, ModeKinds DEF TypeOK
  <2>3. \A j \in Parties : lobby'[j] = IF j = k THEN lobby[k] \ {p} ELSE lobby[j]
    BY <2>1, <2>2 DEF TypeOK
  <2>4. LobbiesOf(p)' = LobbiesOf(p) \ {k}
    BY <2>3 DEF LobbiesOf
  <2>5. OnlyFailures(evq[p])
    BY <1>3 DEF InLobbies, NoMode
  <2>6. Opened(evq[p]) = {}
    BY <2>5 DEF Opened, Opens, OnlyFailures
  <2>7. LobbiesOf(p) = {k}
    BY <1>3, <2>6 DEF InLobbies, InParty
  <2>. QED  BY <1>1, <2>2, <2>4, <2>6, <2>7 DEF InParty, KeepsParty, NoMode
<1>. QED  BY <1>2, <1>3

LEMMA DropStays ==
    ASSUME TypeOK, NEW p \in Peers, NEW q \in Peers, NEW kicked \in BOOLEAN, NEW wire,
           DropPeer(p, q, kicked, wire)
    PROVE  \A r \in Peers : KeepsParty(r)
<1>1. CASE mode[p].kind = "host" /\ q \in mode[p].auth
  <2>1. mode' = [mode EXCEPT ![p].auth = mode[p].auth \ {q},
                     ![p].kicked = IF kicked THEN @ \cup {q} ELSE @]
    BY <1>1 DEF DropPeer
  <2>2. mode[p] \in [kind : {"host"}, party : Parties, auth : SUBSET Peers, kicked : SUBSET Peers]
    BY <1>1 DEF TypeOK, Mode, NoMode, GuestMode
  <2>3. /\ mode'[p].kind = "host" /\ mode'[p].party = mode[p].party
        /\ \A r \in Peers \ {p} : mode'[r] = mode[r]
    BY <2>1, <2>2 DEF TypeOK
  <2>4. mode[p] # NoMode
    BY <1>1 DEF NoMode
  <2>. QED  BY <1>1, <2>3, <2>4 DEF KeepsParty, InParty
<1>2. CASE ~(mode[p].kind = "host" /\ q \in mode[p].auth)
  BY <1>2 DEF DropPeer, KeepsParty, InParty
<1>. QED  BY <1>1, <1>2

LEMMA HelloStays ==
    ASSUME TypeOK, NEW p \in Peers, NEW q \in Peers, NEW m, NEW wire, mode[p].kind = "host",
           HandleHello(p, q, m, wire)
    PROVE  \A r \in Peers : KeepsParty(r)
<1>1. mode' = mode \/ mode' = [mode EXCEPT ![p].auth = mode[p].auth \cup {q}]
  BY DEF HandleHello, shell
<1>2. mode[p] \in [kind : {"host"}, party : Parties, auth : SUBSET Peers, kicked : SUBSET Peers]
  BY DEF TypeOK, Mode, NoMode, GuestMode
<1>3. /\ mode'[p].kind = "host" /\ mode'[p].party = mode[p].party
      /\ \A r \in Peers \ {p} : mode'[r] = mode[r]
  BY <1>1, <1>2 DEF TypeOK
<1>4. mode[p] # NoMode
  BY DEF NoMode
<1>. QED  BY <1>3, <1>4 DEF KeepsParty, InParty

LEMMA CommandLobbies ==
    ASSUME TypeOK, AllInLobbies, NEW p \in Peers, HandleCommand(p)
    PROVE  AllInLobbies'
<1>. DEFINE c == Head(cmdq[p])
<1>1. evq' = evq /\ c \in Command /\ InLobbies(p)
  BY QueueTypes DEF HandleCommand, AllInLobbies
<1>2. CASE c.op = "Kick" /\ KickAuthorizedPeer(p, c.peer) /\ UNCHANGED <<calls, lobby>>
  <2>1. c.peer \in Peers
    BY <1>1, <1>2 DEF Command
  <2>2. \A r \in Peers : KeepsParty(r)
    BY <1>2, <2>1, DropStays DEF KickAuthorizedPeer
  <2>3. \A r \in Peers : LobbiesOf(r)' = LobbiesOf(r) /\ Quieter(evq'[r], evq[r])
    BY <1>1, <1>2 DEF LobbiesOf, Quieter
  <2>. QED  BY <1>2, <2>2, <2>3, StaysInLobbies DEF AllInLobbies
<1>3. CASE LeaveCurrentLobby(p, net, chat)
  <2>1. /\ mode'[p] = NoMode /\ InParty(p)' = {} /\ LobbiesOf(p)' = Opened(evq[p])
        /\ \A r \in Peers \ {p} : KeepsParty(r) /\ LobbiesOf(r)' = LobbiesOf(r)
    BY <1>1, <1>3, LeaveLobbies
  <2>2. \A r \in Peers \ {p} : calls'[r] = calls[r] /\ Quieter(evq'[r], evq[r])
    BY <1>1 DEF HandleCommand, Quieter, TypeOK
  <2>3. InLobbies(p)'
    BY <1>1, <2>1 DEF InLobbies
  <2>. QED  BY <2>1, <2>2, <2>3, StaysInLobbies DEF AllInLobbies
<1>. QED  BY <1>2, <1>3 DEF HandleCommand

\* A new lobby was nobody's: the party has one place on its way from the menu to the runtime.
LEMMA AnswerLobbies ==
    ASSUME TypeOK, MadeOnce, AllInLobbies, NEW p \in Peers, SteamAnswers(p)
    PROVE  AllInLobbies'
<1>. DEFINE c == Head(calls[p])
<1>1. /\ calls[p] # <<>> /\ calls' = [calls EXCEPT ![p] = Tail(@)]
      /\ c \in Call /\ evq[p] \in Seq(Event) /\ mode' = mode
  BY QueueTypes DEF SteamAnswers, shell, TypeOK
<1>2. \/ /\ c.op = "create" /\ Answer(p, "created", c.party)
         /\ lobby' = [lobby EXCEPT ![c.party] = {p}]
      \/ /\ c.op = "join" /\ Answer(p, "joined", c.party)
         /\ lobby' = [lobby EXCEPT ![c.party] = @ \cup {p}]
      \/ /\ Answer(p, "createFailed", c.party) \/ Answer(p, "joinFailed", c.party)
         /\ UNCHANGED lobby
  BY DEF SteamAnswers
<1>3. /\ c.party \in Parties /\ calls[p] \in Seq(Call)
      /\ c = calls[p][1] /\ 1 \in DOMAIN calls[p]
  <2>1. calls[p] \in Seq(Call)
    BY DEF TypeOK
  <2>. QED  BY <1>1, <2>1, Elements DEF Call
<1>4. c.op = "create" => lobby[c.party] = {}
  <2>1. c = [op |-> c.op, party |-> c.party]
    BY <1>1 DEF Call
  <2>2. c.op = "create" => calls[p][1] = [op |-> "create", party |-> c.party]
    BY <1>3, <2>1
  <2>. QED  BY <1>3, <2>2, NotYetOpen
<1>5. \A r \in Peers \ {p} : /\ LobbiesOf(r)' = LobbiesOf(r) /\ KeepsParty(r)
                             /\ calls'[r] = calls[r] /\ Quieter(evq'[r], evq[r])
  <2>1. \/ lobby' = lobby
        \/ /\ \A k \in Parties : k # c.party => lobby'[k] = lobby[k]
           /\ lobby'[c.party] = lobby[c.party] \cup {p}
    BY <1>2, <1>3, <1>4 DEF TypeOK
  <2>2. \A r \in Peers \ {p} : LobbiesOf(r)' = LobbiesOf(r)
    BY <1>3, <2>1 DEF LobbiesOf
  <2>3. \A r \in Peers \ {p} : calls'[r] = calls[r] /\ evq'[r] = evq[r]
    BY <1>1, <1>2 DEF Answer, TypeOK
  <2>. QED  BY <1>1, <2>2, <2>3 DEF KeepsParty, InParty, Quieter
<1>6. InLobbies(p) /\ mode[p] = NoMode /\ mode'[p] = NoMode
  BY <1>1 DEF AllInLobbies, InLobbies
<1>7. PICK t \in {"created", "createFailed", "joined", "joinFailed"} :
         /\ evq'[p] = Append(evq[p], [type |-> t, party |-> c.party])
         /\ LobbiesOf(p)' = IF t \in {"created", "joined"}
                            THEN LobbiesOf(p) \cup {c.party} ELSE LobbiesOf(p)
  <2>1. \A t : Answer(p, t, c.party) =>
           evq'[p] = Append(evq[p], [type |-> t, party |-> c.party])
    BY DEF Answer, TypeOK
  <2>2. UNCHANGED lobby => LobbiesOf(p)' = LobbiesOf(p)
    BY DEF LobbiesOf
  <2>3. /\ \A k \in Parties : k # c.party => lobby'[k] = lobby[k]
        /\ p \in lobby'[c.party]
        => LobbiesOf(p)' = LobbiesOf(p) \cup {c.party}
    BY <1>3 DEF LobbiesOf
  <2>4. lobby' = [lobby EXCEPT ![c.party] = {p}] \/ lobby' = [lobby EXCEPT ![c.party] = @ \cup {p}]
        => LobbiesOf(p)' = LobbiesOf(p) \cup {c.party}
    BY <1>3, <2>3 DEF TypeOK
  <2>. QED  BY <1>2, <2>1, <2>2, <2>4
<1>8. [type |-> t, party |-> c.party] \in Event
  BY <1>3 DEF Event
<1>9. Opened(evq'[p]) = Opened(evq[p]) \cup {k \in Parties : Opens([type |-> t, party |-> c.party], k)}
  BY <1>1, <1>7, <1>8, AppendOpens
<1>10. LobbiesOf(p)' = LobbiesOf(p) \cup {k \in Parties : Opens([type |-> t, party |-> c.party], k)}
  BY <1>3, <1>7 DEF Opens
<1>11. InLobbies(p)'
  BY <1>6, <1>9, <1>10 DEF InLobbies, InParty
<1>. QED  BY <1>5, <1>11, StaysInLobbies DEF AllInLobbies

\* A result finds no party, and with one call at a time no other result is behind it.
LEMMA EventLobbies ==
    ASSUME TypeOK, OneCallEach, AllInLobbies, NEW p \in Peers, HandleEvent(p)
    PROVE  AllInLobbies'
<1>. DEFINE e == Head(evq[p])
<1>1. /\ evq[p] # <<>> /\ evq' = [evq EXCEPT ![p] = Tail(@)] /\ evq'[p] = Tail(evq[p])
      /\ e \in Event /\ evq[p] \in Seq(Event)
      /\ UNCHANGED <<calls, lobby>>
      /\ InLobbies(p) /\ OneCall(p)
  BY QueueTypes DEF HandleEvent, TypeOK, AllInLobbies, OneCallEach
<1>2. \A r \in Peers : LobbiesOf(r)' = LobbiesOf(r)
  BY <1>1 DEF LobbiesOf
<1>3. \A r \in Peers \ {p} : Quieter(evq'[r], evq[r])
  BY <1>1 DEF Quieter, TypeOK
<1>4. CASE e.type = "sessionFailed" /\ SessionFailed(p, e.peer)
  <2>1. e.peer \in Peers
    BY <1>1, <1>4 DEF Event
  <2>2. \A r \in Peers : KeepsParty(r)
    BY <1>4, <2>1, DropStays DEF SessionFailed, HandlePeerLeft
  <2>3. Quieter(evq'[p], evq[p])
    BY <1>1, <1>4 DEF Quieter
  <2>. QED  BY <1>1, <1>2, <1>3, <2>2, <2>3, StaysInLobbies DEF AllInLobbies
<1>5. CASE e.type # "sessionFailed"
  <2>1. ~OnlyFailures(evq[p]) /\ mode[p] = NoMode
    BY <1>1, <1>5, FailuresTail DEF InLobbies
  <2>2. calls[p] = <<>> /\ OnlyFailures(evq'[p])
    <3>1. PICK f \in Event : calls[p] = <<>> /\ OneAnswer(evq[p], f)
      BY <1>1, <2>1 DEF OneCall
    <3>2. f.type # "sessionFailed"
      BY <2>1, <3>1 DEF OneAnswer, OnlyFailures
    <3>. QED  BY <1>1, <1>5, <3>1, <3>2, AnswerTail
  <2>3. Opened(evq'[p]) = {}
    BY <2>2 DEF Opened, Opens, OnlyFailures
  <2>4. LobbiesOf(p) = {k \in Parties : Opens(e, k)}
    BY <1>1, <2>1, <2>3, TailOpens DEF InLobbies, InParty, NoMode
  <2>5. \/ /\ e.type \in {"created", "joined"} /\ e.party \in Parties
           /\ \/ mode' = [mode EXCEPT ![p] = HostMode(e.party)]
              \/ mode' = [mode EXCEPT ![p] = GuestMode(e.party)]
        \/ e.type \notin {"created", "joined"} /\ mode' = mode
    BY <1>1, <1>5 DEF HandleEvent, HostLobbyCreated, HostLobbyFailed, GuestLobbyJoined,
       GuestLobbyFailed, Event
  <2>6. \A r \in Peers \ {p} : KeepsParty(r)
    BY <2>5 DEF KeepsParty, InParty, TypeOK
  <2>7. InParty(p)' = {k \in Parties : Opens(e, k)}
    BY <2>1, <2>5 DEF InParty, Opens, HostMode, GuestMode, NoMode, TypeOK
  <2>8. InLobbies(p)'
    BY <1>1, <1>2, <2>2, <2>3, <2>4, <2>7 DEF InLobbies
  <2>. QED  BY <1>1, <1>2, <1>3, <2>6, <2>8, StaysInLobbies DEF AllInLobbies
<1>. QED  BY <1>4, <1>5 DEF HandleEvent

LEMMA NoticeLobbies ==
    ASSUME TypeOK, AllInLobbies, NEW p \in Peers, HandleLobbyChatUpdate(p)
    PROVE  AllInLobbies'
<1>1. UNCHANGED <<calls, evq>> /\ InLobbies(p)
  BY DEF HandleLobbyChatUpdate, AllInLobbies
<1>2. PICK n \in chat[p] :
         \/ HandlePeerLeft(p, n[2], net) /\ UNCHANGED lobby
         \/ LeaveCurrentLobby(p, net, [chat EXCEPT ![p] = @ \ {n}])
         \/ UNCHANGED <<mode, lobby>>
  BY DEF HandleLobbyChatUpdate, shell
<1>3. n[2] \in Peers
  BY DEF TypeOK
<1>4. \A r \in Peers : Quieter(evq'[r], evq[r]) /\ calls'[r] = calls[r]
  BY <1>1 DEF Quieter
<1>5. CASE LeaveCurrentLobby(p, net, [chat EXCEPT ![p] = @ \ {n}])
  <2>1. /\ mode'[p] = NoMode /\ InParty(p)' = {} /\ LobbiesOf(p)' = Opened(evq[p])
        /\ \A r \in Peers \ {p} : KeepsParty(r) /\ LobbiesOf(r)' = LobbiesOf(r)
    BY <1>1, <1>5, LeaveLobbies
  <2>. QED  BY <1>1, <1>4, <2>1, StaysInLobbies DEF AllInLobbies, InLobbies
<1>6. CASE ~LeaveCurrentLobby(p, net, [chat EXCEPT ![p] = @ \ {n}])
  <2>1. UNCHANGED lobby
    BY <1>2, <1>6
  <2>2. \A r \in Peers : KeepsParty(r)
    BY <1>2, <1>3, <1>6, DropStays DEF HandlePeerLeft, KeepsParty, InParty
  <2>3. \A r \in Peers : LobbiesOf(r)' = LobbiesOf(r)
    BY <2>1 DEF LobbiesOf
  <2>. QED  BY <1>4, <2>2, <2>3, StaysInLobbies DEF AllInLobbies
<1>. QED  BY <1>5, <1>6

LEMMA MessageLobbies ==
    ASSUME TypeOK, AllInLobbies, NEW p \in Peers, NEW q \in Peers, Receive(p, q)
    PROVE  AllInLobbies'
<1>. DEFINE m == Head(net[q][p])
            wire == Taken(q, p)
<1>1. UNCHANGED <<calls, evq>> /\ InLobbies(p)
  BY DEF Receive, AllInLobbies
<1>2. \A r \in Peers : Quieter(evq'[r], evq[r]) /\ calls'[r] = calls[r]
  BY <1>1 DEF Quieter
<1>3. CASE LeaveCurrentLobby(p, wire, chat)
  <2>1. /\ mode'[p] = NoMode /\ InParty(p)' = {} /\ LobbiesOf(p)' = Opened(evq[p])
        /\ \A r \in Peers \ {p} : KeepsParty(r) /\ LobbiesOf(r)' = LobbiesOf(r)
    BY <1>1, <1>3, LeaveLobbies
  <2>. QED  BY <1>1, <1>2, <2>1, StaysInLobbies DEF AllInLobbies, InLobbies
<1>4. CASE ~LeaveCurrentLobby(p, wire, chat)
  <2>1. /\ UNCHANGED lobby
        /\ \/ mode[p].kind = "host" /\ HandleHello(p, q, m, wire)
           \/ HandlePeerLeft(p, q, wire)
           \/ UNCHANGED mode
    BY <1>4 DEF Receive, HandleHostIncoming, HandleGuestIncoming, shell
  <2>2. \A r \in Peers : KeepsParty(r)
    BY <2>1, HelloStays, DropStays DEF HandlePeerLeft, KeepsParty, InParty
  <2>3. \A r \in Peers : LobbiesOf(r)' = LobbiesOf(r)
    BY <2>1 DEF LobbiesOf
  <2>. QED  BY <1>2, <2>2, <2>3, StaysInLobbies DEF AllInLobbies
<1>. QED  BY <1>3, <1>4

LEMMA OtherLobbies ==
    ASSUME TypeOK, AllInLobbies, NEW p \in Peers, NEW q \in Peers,
           UserStep(p) \/ ThreadStep(p) \/ SessionRequest(p, q) \/ SessionBreak(p, q)
    PROVE  AllInLobbies'
<1>1. UNCHANGED <<mode, calls, lobby>>
  BY DEF UserStep, ThreadStep, OnStartWatchParty, OnEndWatchParty, OnLeaveWatchParty, OnKick,
     ConnectToHost, FinishStart, StartTimesOut, SendJoin, JoinTimesOut, SessionRequest,
     SessionBreak, shell, steam
<1>2. \/ evq' = evq
      \/ \E a, b \in Peers : evq' = [evq EXCEPT ![a] = Append(@, Failed(b))]
      \/ SessionBreak(p, q)
  BY DEF UserStep, ThreadStep, OnStartWatchParty, OnEndWatchParty, OnLeaveWatchParty, OnKick,
     ConnectToHost, FinishStart, StartTimesOut, SendJoin, JoinTimesOut, SessionRequest, steam
<1>3. ASSUME NEW r \in Peers PROVE Quieter(evq'[r], evq[r])
  <2>1. CASE SessionBreak(p, q)
    <3>1. \/ evq'[r] = evq[r]
          \/ evq'[r] = Append(evq[r], Failed(p))
          \/ evq'[r] = Append(evq[r], Failed(q))
      BY <2>1 DEF SessionBreak
    <3>. QED  BY <3>1 DEF Quieter
  <2>. QED  BY <1>2, <2>1 DEF Quieter, TypeOK
<1>4. \A r \in Peers : LobbiesOf(r)' = LobbiesOf(r) /\ KeepsParty(r) /\ calls'[r] = calls[r]
  BY <1>1 DEF LobbiesOf, KeepsParty, InParty
<1>. QED  BY <1>3, <1>4, StaysInLobbies DEF AllInLobbies

LEMMA CrashLobbies ==
    ASSUME TypeOK, AllInLobbies, NEW p \in Peers, Crash(p)
    PROVE  AllInLobbies'
<1>1. /\ mode' = [mode EXCEPT ![p] = NoMode]
      /\ calls' = [calls EXCEPT ![p] = <<>>]
      /\ evq' = [evq EXCEPT ![p] = <<>>]
      /\ lobby' = [k \in Parties |-> lobby[k] \ {p}]
  BY DEF Crash
<1>2. /\ \A r \in Peers \ {p} : LobbiesOf(r)' = LobbiesOf(r)
      /\ LobbiesOf(p)' = {}
  BY <1>1 DEF LobbiesOf
<1>3. /\ mode'[p] = NoMode /\ calls'[p] = <<>> /\ evq'[p] = <<>>
      /\ \A r \in Peers \ {p} : mode'[r] = mode[r] /\ calls'[r] = calls[r] /\ evq'[r] = evq[r]
  BY <1>1 DEF TypeOK
<1>4. InLobbies(p)'
  BY <1>2, <1>3 DEF InLobbies, InParty, NoMode, Opened
<1>. QED  BY <1>2, <1>3, <1>4, StaysInLobbies DEF AllInLobbies, KeepsParty, InParty, Quieter

\* A lobby can only leak while two calls of one shell are under way with Steam: with no second
\* call before the runtime has the result of the first, a settled shell sits in the Steam lobby
\* of its party and in no other, whatever else its users do and however late it is answered.
THEOREM NoLobbyLeaks == Spec /\ []OneCallEach => []NoLeakedLobby
<1>1. Init => AllInLobbies
  BY DEF Init, AllInLobbies, InLobbies, LobbiesOf, InParty, NoMode, Opened, OnlyFailures
<1>2. TypeOK /\ MadeOnce /\ OneCallEach /\ AllInLobbies /\ [Next]_vars => AllInLobbies'
  <2>. SUFFICES ASSUME TypeOK, MadeOnce, OneCallEach, AllInLobbies, [Next]_vars
       PROVE  AllInLobbies'
    OBVIOUS
  <2>1. ASSUME NEW p \in Peers,
               UserStep(p) \/ ThreadStep(p) \/ RuntimeStep(p) \/ SteamAnswers(p) \/ Failure(p)
        PROVE  AllInLobbies'
    <3>1. CASE UserStep(p) \/ ThreadStep(p)
      BY <3>1, OtherLobbies
    <3>2. CASE RuntimeStep(p)
      BY <3>2, CommandLobbies, EventLobbies, NoticeLobbies, MessageLobbies, OtherLobbies
         DEF RuntimeStep
    <3>3. CASE SteamAnswers(p)
      BY <3>3, AnswerLobbies
    <3>4. CASE Failure(p)
      BY <3>4, OtherLobbies, CrashLobbies DEF Failure
    <3>. QED  BY <2>1, <3>1, <3>2, <3>3, <3>4
  <2>2. CASE UNCHANGED vars
    <3>1. UNCHANGED <<mode, calls, evq, lobby>>
      BY <2>2 DEF vars, shell, steam
    <3>2. \A p \in Peers : InLobbies(p)' <=> InLobbies(p)
      BY <3>1 DEF InLobbies, InParty, LobbiesOf
    <3>. QED  BY <3>2 DEF AllInLobbies
  <2>. QED  BY <2>1, <2>2 DEF Next
<1>3. AllInLobbies => NoLeakedLobby
  BY DEF AllInLobbies, InLobbies, InParty, LobbiesOf, Opened, Opens, NoLeakedLobby, Settled
<1>. QED  BY <1>1, <1>2, <1>3, Typing, EachPartyOnce, PTL DEF Spec

\* In particular for a user who waits for each operation to settle: the calls of such a user
\* come one by one.
LEMMA OneByOne == InPhases => OneCallEach
<1>. SUFFICES ASSUME NEW p \in Peers, InPhase(p) PROVE OneCall(p)
  BY DEF InPhases, OneCallEach
<1>1. \A k \in Parties : \A t \in {"created", "createFailed", "joined", "joinFailed"} :
         [type |-> t, party |-> k] \in Event
  BY DEF Event
<1>2. ASSUME NEW e \in Event, NEW L, Answered(p, e, L) PROVE OneCall(p)
  BY <1>2 DEF Answered, OneCall
<1>3. ASSUME NEW c, Commanded(p, c) \/ Called(p, c) PROVE OneCall(p)
  <2>1. calls[p] = <<>> \/ calls[p] = <<c>>
    BY <1>3 DEF Commanded, Called
  <2>2. calls[p] = <<c>> => Len(calls[p]) = 1
    OBVIOUS
  <2>. QED  BY <1>3, <2>1, <2>2 DEF Commanded, Called, OneCall
<1>4. Resting(p) \/ Silent(p) => OneCall(p)
  BY DEF Resting, Silent, OneCall
<1>5. ASSUME NEW k \in Parties, Starting(p, k) \/ Joining(p, k) PROVE OneCall(p)
  <2>1. CASE Starting(p, k)
    BY <1>1, <1>2, <1>3, <2>1 DEF Starting
  <2>2. CASE Joining(p, k)
    BY <1>1, <1>2, <1>3, <1>4, <2>2 DEF Joining
  <2>. QED  BY <1>5, <2>1, <2>2
<1>. QED  BY <1>4, <1>5 DEF InPhase, Replied

\* Of a patient user no lobby leaks: nothing has to be assumed of the calls.
THEOREM PatientLeakNothing == ASSUME Patient, ~Timeouts PROVE Spec => []NoLeakedLobby
  BY OneByOne, PhasesAlways, NoLobbyLeaks, PTL

-----------------------------------------------------------------------------
(* Member lists on their way.                                                *)

NoInfo(s) == \A i \in DOMAIN s : s[i].type # "info"
\* The last member list in the queue s is S.
LastInfo(s, S) == \E i \in DOMAIN s : /\ s[i].type = "info" /\ s[i].members = S
                                      /\ \A j \in DOMAIN s : j > i => s[j].type # "info"
Asks(s) == \E i \in DOMAIN s : s[i].type = "request"
Reports(s, q) == \E i \in DOMAIN s : s[i] = Failed(q)

LEMMA ListSent ==
    ASSUME NEW s \in Seq(Msg), NEW S \in SUBSET Peers
    PROVE  LastInfo(s \o <<LobbyInfo(S)>>, S)
<1>. DEFINE t == s \o <<LobbyInfo(S)>>
<1>1. Len(s) + 1 \in DOMAIN t /\ t[Len(s) + 1] = LobbyInfo(S) /\ \A j \in DOMAIN t : ~(j > Len(s) + 1)
  BY InfoType
<1>. QED  BY <1>1 DEF LastInfo, LobbyInfo

LEMMA NoListSent ==
    ASSUME NEW s \in Seq(Msg), NEW t \in Seq(Msg), NoInfo(t)
    PROVE  /\ NoInfo(s) => NoInfo(s \o t)
           /\ \A S : LastInfo(s, S) => LastInfo(s \o t, S)
<1>1. \A j \in DOMAIN (s \o t) : \/ j \in DOMAIN s /\ (s \o t)[j] = s[j]
                                 \/ j - Len(s) \in DOMAIN t /\ (s \o t)[j] = t[j - Len(s)]
  OBVIOUS
<1>2. DOMAIN s \subseteq DOMAIN (s \o t) /\ \A j \in DOMAIN s : (s \o t)[j] = s[j]
  OBVIOUS
<1>3. NoInfo(s) => NoInfo(s \o t)
  BY <1>1 DEF NoInfo
<1>4. ASSUME NEW S, LastInfo(s, S) PROVE LastInfo(s \o t, S)
  <2>1. PICK i \in DOMAIN s : /\ s[i].type = "info" /\ s[i].members = S
                              /\ \A j \in DOMAIN s : j > i => s[j].type # "info"
    BY <1>4 DEF LastInfo
  <2>2. \A j \in DOMAIN (s \o t) : j > i => (s \o t)[j].type # "info"
    BY <1>1, <2>1 DEF NoInfo
  <2>. QED  BY <1>2, <2>1, <2>2 DEF LastInfo
<1>. QED  BY <1>3, <1>4

LEMMA MessageTaken ==
    ASSUME NEW s \in Seq(Msg), s # <<>>
    PROVE  /\ NoInfo(s) => NoInfo(Tail(s)) /\ Head(s).type # "info"
           /\ \A S : LastInfo(s, S) => \/ LastInfo(Tail(s), S)
                                      \/ /\ NoInfo(Tail(s))
                                         /\ Head(s).type = "info" /\ Head(s).members = S
           /\ Asks(s) => Asks(Tail(s)) \/ Head(s).type = "request"
<1>1. /\ Head(s) = s[1] /\ 1 \in DOMAIN s
      /\ \A i \in DOMAIN Tail(s) : i + 1 \in DOMAIN s /\ Tail(s)[i] = s[i + 1]
      /\ \A i \in DOMAIN s : i # 1 => i - 1 \in DOMAIN Tail(s) /\ Tail(s)[i - 1] = s[i]
  OBVIOUS
<1>2. NoInfo(s) => NoInfo(Tail(s)) /\ Head(s).type # "info"
  BY <1>1 DEF NoInfo
<1>3. ASSUME NEW S, LastInfo(s, S)
      PROVE  \/ LastInfo(Tail(s), S)
             \/ NoInfo(Tail(s)) /\ Head(s).type = "info" /\ Head(s).members = S
  <2>1. PICK i \in DOMAIN s : /\ s[i].type = "info" /\ s[i].members = S
                              /\ \A j \in DOMAIN s : j > i => s[j].type # "info"
    BY <1>3 DEF LastInfo
  <2>2. CASE i = 1
    <3>1. \A j \in DOMAIN Tail(s) : j + 1 > i
      BY <2>2
    <3>. QED  BY <1>1, <2>1, <2>2, <3>1 DEF NoInfo
  <2>3. CASE i # 1
    <3>1. \A j \in DOMAIN Tail(s) : j > i - 1 => j + 1 > i
      OBVIOUS
    <3>2. \A j \in DOMAIN Tail(s) : j > i - 1 => Tail(s)[j].type # "info"
      BY <1>1, <2>1, <3>1
    <3>. QED  BY <1>1, <2>1, <2>3, <3>2 DEF LastInfo
  <2>. QED  BY <2>2, <2>3
<1>4. Asks(s) => Asks(Tail(s)) \/ Head(s).type = "request"
  BY <1>1 DEF Asks
<1>. QED  BY <1>2, <1>3, <1>4

LEMMA AskedAppend ==
    ASSUME NEW s \in Seq(Msg), NEW t \in Seq(Msg)
    PROVE  Asks(s) \/ Asks(t) => Asks(s \o t)
<1>1. \A i \in DOMAIN s : i \in DOMAIN (s \o t) /\ (s \o t)[i] = s[i]
  OBVIOUS
<1>2. \A i \in DOMAIN t : Len(s) + i \in DOMAIN (s \o t) /\ (s \o t)[Len(s) + i] = t[i]
  OBVIOUS
<1>. QED  BY <1>1, <1>2 DEF Asks

LEMMA ReportAppend ==
    ASSUME NEW s \in Seq(Event), NEW e \in Event, NEW q \in Peers
    PROVE  Reports(s, q) \/ e = Failed(q) => Reports(Append(s, e), q)
<1>1. /\ \A i \in DOMAIN s : i \in DOMAIN Append(s, e) /\ Append(s, e)[i] = s[i]
      /\ Len(s) + 1 \in DOMAIN Append(s, e) /\ Append(s, e)[Len(s) + 1] = e
  OBVIOUS
<1>. QED  BY <1>1 DEF Reports

LEMMA ReportTail ==
    ASSUME NEW s \in Seq(Event), s # <<>>, NEW q \in Peers, Reports(s, q), Head(s) # Failed(q)
    PROVE  Reports(Tail(s), q)
<1>1. PICK i \in DOMAIN s : s[i] = Failed(q)
  BY DEF Reports
<1>2. i # 1
  BY <1>1
<1>3. i - 1 \in DOMAIN Tail(s) /\ Tail(s)[i - 1] = s[i]
  BY <1>2
<1>. QED  BY <1>1, <1>3 DEF Reports

LEMMA ToOneAt ==
    ASSUME NEW r \in Peers, NEW s
    PROVE  ToOne(r, s)[r] = s /\ \A b \in Peers \ {r} : ToOne(r, s)[b] = <<>>
  BY DEF ToOne

LEMMA TakenNet ==
    ASSUME TypeOK, NEW p \in Peers, NEW q \in Peers, net[q][p] # <<>>
    PROVE  /\ NetType(Taken(q, p))
           /\ Taken(q, p)[q][p] = Tail(net[q][p])
           /\ \A a, b \in Peers : ~(a = q /\ b = p) => Taken(q, p)[a][b] = net[a][b]
<1>1. NetType(Taken(q, p))
  BY TakenType
<1>. QED  BY <1>1 DEF Taken, TypeOK

LEMMA NetNet == ASSUME TypeOK PROVE NetType(net)
  BY DEF TypeOK, NetType, MsgSeqs

-----------------------------------------------------------------------------
(* What the step of one peer does to the messages on their way.              *)

\* p adds to what it has sent; only a host sends member lists.
Adds(wire, p) ==
    /\ \A a \in Peers \ {p}, b \in Peers : net'[a][b] = wire[a][b]
    /\ \A b \in Peers : \E t \in Seq(Msg) : /\ net'[p][b] = wire[p][b] \o t
                                            /\ mode[p].kind # "host" => NoInfo(t)

LEMMA AddsNothing ==
    ASSUME NEW p \in Peers, NEW wire, NetType(wire), net' = wire
    PROVE  Adds(wire, p)
<1>1. <<>> \in Seq(Msg) /\ NoInfo(<<>>)
  BY DEF NoInfo
<1>2. ASSUME NEW b \in Peers PROVE wire[p][b] \o <<>> = wire[p][b]
  <2>1. wire[p][b] \in Seq(Msg)
    BY DEF NetType, MsgSeqs
  <2>. QED  BY <2>1
<1>. QED  BY <1>1, <1>2 DEF Adds

LEMMA AddsSent ==
    ASSUME NEW p \in Peers, NEW out \in MsgSeqs, NEW wire, NetType(wire), Send(p, out, wire),
           mode[p].kind # "host" => \A b \in Peers : NoInfo(out[b])
    PROVE  Adds(wire, p)
<1>1. /\ \A b \in Peers : net'[p][b] = wire[p][b] \o out[b]
      /\ \A a \in Peers \ {p}, b \in Peers : net'[a][b] = wire[a][b]
  BY DEF Send, NetType, MsgSeqs
<1>2. \A b \in Peers : out[b] \in Seq(Msg)
  BY DEF MsgSeqs
<1>. QED  BY <1>1, <1>2 DEF Adds

LEMMA NoInfoToOne ==
    ASSUME NEW r, NEW s \in Seq(Msg), NoInfo(s)
    PROVE  ToOne(r, s) \in MsgSeqs /\ \A b \in Peers : NoInfo(ToOne(r, s)[b])
<1>1. NoInfo(<<>>)
  BY DEF NoInfo
<1>. QED  BY <1>1, ToOneType DEF ToOne

LEMMA NoInfoNothing == Nothing \in MsgSeqs /\ \A b \in Peers : NoInfo(Nothing[b])
  BY NothingType DEF Nothing, NoInfo

LEMMA LeaveAdds ==
    ASSUME TypeOK, NEW p \in Peers, NEW wire, NetType(wire), NEW notices,
           LeaveCurrentLobby(p, wire, notices)
    PROVE  Adds(wire, p)
<1>1. CASE mode[p].kind = "host"
  <2>1. Send(p, ToAll(mode[p].auth, Plain("closed")), wire)
    BY <1>1 DEF LeaveCurrentLobby
  <2>2. ToAll(mode[p].auth, Plain("closed")) \in MsgSeqs
    BY PlainType, ToAllType DEF MsgTypes
  <2>. QED  BY <1>1, <2>1, <2>2, AddsSent
<1>2. CASE mode[p].kind = "guest"
  <2>1. Send(p, ToOne(HostOf(mode[p].party), <<Plain("leave")>>), wire)
    BY <1>2 DEF LeaveCurrentLobby
  <2>2. <<Plain("leave")>> \in Seq(Msg) /\ NoInfo(<<Plain("leave")>>)
    BY PlainType DEF MsgTypes, NoInfo, Plain
  <2>. QED  BY <2>1, <2>2, NoInfoToOne, AddsSent
<1>3. CASE mode[p].kind = "none"
  BY <1>3, AddsNothing DEF LeaveCurrentLobby
<1>. QED  BY <1>1, <1>2, <1>3, ModeKinds

LEMMA DropAdds ==
    ASSUME TypeOK, NEW p \in Peers, NEW q \in Peers, NEW kicked \in BOOLEAN,
           NEW wire, NetType(wire), DropPeer(p, q, kicked, wire)
    PROVE  Adds(wire, p)
<1>1. CASE mode[p].kind = "host" /\ q \in mode[p].auth
  <2>. DEFINE rest == mode[p].auth \ {q}
              told == ToAll(rest, LobbyInfo(rest \cup {p}))
              out == IF kicked THEN [told EXCEPT ![q] = <<Plain("closed")>>] ELSE told
  <2>1. told \in MsgSeqs
    BY ModeKinds, InfoType, ToAllType
  <2>2. <<Plain("closed")>> \in Seq(Msg)
    BY PlainType DEF MsgTypes
  <2>3. out \in MsgSeqs
    BY <2>1, <2>2 DEF MsgSeqs
  <2>4. Send(p, out, wire)
    BY <1>1 DEF DropPeer
  <2>. HIDE DEF out
  <2>. QED  BY <1>1, <2>3, <2>4, AddsSent
<1>2. CASE ~(mode[p].kind = "host" /\ q \in mode[p].auth)
  BY <1>2, AddsNothing DEF DropPeer
<1>. QED  BY <1>1, <1>2

LEMMA HelloAdds ==
    ASSUME TypeOK, NEW p \in Peers, NEW q \in Peers, NEW m, NEW wire, NetType(wire),
           mode[p].kind = "host", HandleHello(p, q, m, wire)
    PROVE  Adds(wire, p)
<1>1. CASE Refused(p, q, m)
  <2>1. <<Plain("error")>> \in Seq(Msg)
    BY PlainType DEF MsgTypes
  <2>. QED  BY <1>1, <2>1, ToOneType, AddsSent DEF HandleHello
<1>2. CASE ~Refused(p, q, m)
  <2>. DEFINE auth == mode[p].auth \cup {q}
  <2>1. ToAll(auth, LobbyInfo(auth \cup {p})) \in MsgSeqs
    BY ModeKinds, InfoType, ToAllType
  <2>. QED  BY <1>2, <2>1, AddsSent DEF HandleHello
<1>. QED  BY <1>1, <1>2

LEMMA MessageAdds ==
    ASSUME TypeOK, NEW p \in Peers, NEW q \in Peers, Receive(p, q)
    PROVE  net[q][p] # <<>> /\ Adds(Taken(q, p), p)
<1>. DEFINE m == Head(net[q][p])
            wire == Taken(q, p)
<1>0. net[q][p] # <<>> /\ NetType(wire)
  BY TakenNet DEF Receive
<1>1. CASE Send(p, Nothing, wire)
  BY <1>0, <1>1, NoInfoNothing, AddsSent
<1>2. CASE mode[p].kind = "host" /\ HandleHostIncoming(p, q, m, wire)
  <2>1. CASE HandleHello(p, q, m, wire)
    BY <1>0, <1>2, <2>1, HelloAdds
  <2>2. CASE DropPeer(p, q, FALSE, wire)
    BY <1>0, <2>2, DropAdds
  <2>3. CASE Send(p, ToOne(q, <<LobbyInfo(mode[p].auth \cup {p})>>), wire)
    <3>1. <<LobbyInfo(mode[p].auth \cup {p})>> \in Seq(Msg)
      BY ModeKinds, InfoType
    <3>. QED  BY <1>0, <1>2, <2>3, <3>1, ToOneType, AddsSent
  <2>. QED  BY <1>0, <1>1, <1>2, <2>1, <2>2, <2>3 DEF HandleHostIncoming, HandlePeerLeft
<1>3. CASE mode[p].kind = "guest" /\ HandleGuestIncoming(p, m, wire)
  BY <1>0, <1>1, <1>3, LeaveAdds DEF HandleGuestIncoming
<1>. QED  BY <1>0, <1>1, <1>2, <1>3 DEF Receive

LEMMA StepAdds ==
    ASSUME TypeOK, NEW p \in Peers,
           \/ UserStep(p) \/ ThreadStep(p) \/ HandleCommand(p) \/ SteamAnswers(p)
           \/ HandleEvent(p) \/ HandleLobbyChatUpdate(p) \/ Crash(p)
    PROVE  Adds(net, p)
<1>0. NetType(net)
  BY NetNet
<1>1. CASE UserStep(p) \/ ThreadStep(p) \/ SteamAnswers(p) \/ Crash(p)
  <2>1. net' = net
    BY <1>1 DEF UserStep, OnStartWatchParty, OnEndWatchParty, OnLeaveWatchParty, OnKick,
                ConnectToHost, ThreadStep, FinishStart, StartTimesOut, SendJoin, JoinTimesOut,
                SteamAnswers, Crash, network
  <2>. QED  BY <1>0, <2>1, AddsNothing
<1>2. CASE HandleCommand(p)
  <2>. DEFINE c == Head(cmdq[p])
  <2>1. \/ LeaveCurrentLobby(p, net, chat)
        \/ c.op = "Kick" /\ DropPeer(p, c.peer, TRUE, net)
    BY <1>2 DEF HandleCommand, KickAuthorizedPeer
  <2>2. c.op = "Kick" => c.peer \in Peers
    BY <1>2, QueueTypes DEF HandleCommand, Command
  <2>. QED  BY <1>0, <2>1, <2>2, LeaveAdds, DropAdds
<1>3. CASE HandleEvent(p)
  <2>. DEFINE e == Head(evq[p])
  <2>1. \/ e.type = "joined" /\ GuestLobbyJoined(p, e.party)
        \/ e.type = "sessionFailed" /\ DropPeer(p, e.peer, FALSE, net)
        \/ net' = net
    BY <1>3 DEF HandleEvent, HostLobbyCreated, HostLobbyFailed, GuestLobbyFailed, SessionFailed,
                HandlePeerLeft, network
  <2>2. e \in Event
    BY <1>3, QueueTypes DEF HandleEvent
  <2>3. CASE e.type = "joined" /\ GuestLobbyJoined(p, e.party)
    <3>1. e.party \in Parties
      BY <2>2, <2>3 DEF Event
    <3>2. Send(p, ToOne(HostOf(e.party), <<Hello(e.party), Plain("request")>>), net)
      BY <2>3 DEF GuestLobbyJoined
    <3>3. <<Hello(e.party), Plain("request")>> \in Seq(Msg)
      BY <3>1, HelloType, PlainType DEF MsgTypes
    <3>4. NoInfo(<<Hello(e.party), Plain("request")>>)
      BY DEF NoInfo, Hello, Plain
    <3>. QED  BY <1>0, <3>2, <3>3, <3>4, NoInfoToOne, AddsSent
  <2>4. CASE e.type = "sessionFailed" /\ DropPeer(p, e.peer, FALSE, net)
    <3>1. e.peer \in Peers
      BY <2>2, <2>4 DEF Event
    <3>. QED  BY <1>0, <2>4, <3>1, DropAdds
  <2>. QED  BY <1>0, <2>1, <2>3, <2>4, AddsNothing
<1>4. CASE HandleLobbyChatUpdate(p)
  <2>1. \E n \in chat[p] :
           \/ DropPeer(p, n[2], FALSE, net)
           \/ LeaveCurrentLobby(p, net, [chat EXCEPT ![p] = @ \ {n}])
           \/ net' = net
    BY <1>4 DEF HandleLobbyChatUpdate, HandlePeerLeft, network
  <2>2. \A n \in chat[p] : n[2] \in Peers
    BY DEF TypeOK
  <2>. QED  BY <1>0, <2>1, <2>2, DropAdds, LeaveAdds, AddsNothing
<1>. QED  BY <1>1, <1>2, <1>3, <1>4

-----------------------------------------------------------------------------
(* One host.  The member lists on their way are the host's, and every guest  *)
(* that the host has admitted shows the host's list, or will when it has     *)
(* taken what is on its way, or is about to be heard of by the host.         *)

OneHost(h) == \A p \in Peers \ {h} : Budget[p]["start"] = 0

ListsFrom(h) == \A a \in Peers \ {h}, b \in Peers : NoInfo(net[a][b])

Following(h, q) == /\ mode[q].kind = "guest" /\ mode[h].kind = "host"
                   /\ mode[q].party = mode[h].party /\ q \in mode[h].auth

Told(h, q) == LET S == mode[h].auth \cup {h} IN
              \/ LastInfo(net[h][q], S)
              \/ NoInfo(net[h][q]) /\ globals[q].members = S

Awaited(h, q) == Reports(evq[h], q) \/ Asks(net[q][h])

InStep(h, q) == Following(h, q) => Awaited(h, q) \/ Told(h, q)

LEMMA HostOfAll ==
    ASSUME NEW h \in Peers, OneHost(h), NEW k \in Parties
    PROVE  HostOf(k) = h
<1>1. PICK p \in Peers : k \in {p} \X (1..Budget[p]["start"])
  BY DEF Parties
<1>2. k[1] = p /\ k[2] \in 1..Budget[p]["start"]
  BY <1>1
<1>3. Budget[p]["start"] # 0
  BY <1>2, BudgetAssumption DEF Ops
<1>. QED  BY <1>2, <1>3 DEF OneHost, HostOf

LEMMA HostIsOne ==
    ASSUME TypeOK, MadeOnce, NEW h \in Peers, OneHost(h), NEW p \in Peers, mode[p].kind = "host"
    PROVE  p = h
<1>1. HostOf(mode[p].party) = p
  BY DEF MadeOnce, Placed
<1>. QED  BY <1>1, ModeKinds, HostOfAll

\* The sessions of other pairs, and their messages, are left alone.
LEMMA SessionNet ==
    ASSUME TypeOK, NEW p \in Peers, NEW x \in Peers, SessionRequest(p, x) \/ SessionBreak(p, x)
    PROVE  \A a, b \in Peers :
              /\ net'[a][b] = net[a][b] \/ net'[a][b] = <<>>
              /\ ~(a = p /\ b = x) /\ ~(a = x /\ b = p) => net'[a][b] = net[a][b]
<1>. SUFFICES ASSUME NEW a \in Peers, NEW b \in Peers
              PROVE  /\ net'[a][b] = net[a][b] \/ net'[a][b] = <<>>
                     /\ ~(a = p /\ b = x) /\ ~(a = x /\ b = p) => net'[a][b] = net[a][b]
  OBVIOUS
<1>1. CASE SessionRequest(p, x)
  <2>1. CASE net' = net
    BY <2>1
  <2>2. CASE net' = [net EXCEPT ![x][p] = <<>>]
    <3>1. net'[a][b] = IF a = x /\ b = p THEN <<>> ELSE net[a][b]
      BY <2>2 DEF TypeOK
    <3>. QED  BY <3>1
  <2>. QED  BY <1>1, <2>1, <2>2 DEF SessionRequest
<1>2. CASE SessionBreak(p, x)
  <2>1. net'[a][b] = IF {a, b} = {p, x} THEN <<>> ELSE net[a][b]
    BY <1>2 DEF SessionBreak
  <2>2. {a, b} = {p, x} => (a = p /\ b = x) \/ (a = x /\ b = p)
    OBVIOUS
  <2>. QED  BY <2>1, <2>2
<1>. QED  BY <1>1, <1>2

LEMMA ListsStep ==
    ASSUME TypeOK, MadeOnce, NEW h \in Peers, OneHost(h), ListsFrom(h), [Next]_vars
    PROVE  ListsFrom(h)'
<1>0. ASSUME NEW a \in Peers \ {h}, NEW b \in Peers
      PROVE  net[a][b] \in Seq(Msg) /\ NoInfo(net[a][b])
  BY DEF TypeOK, ListsFrom
<1>1. ASSUME NEW p \in Peers, NEW wire, Adds(wire, p),
             \A a \in Peers \ {h}, b \in Peers : wire[a][b] \in Seq(Msg) /\ NoInfo(wire[a][b])
      PROVE  ListsFrom(h)'
  <2>. SUFFICES ASSUME NEW a \in Peers \ {h}, NEW b \in Peers PROVE NoInfo(net'[a][b])
    BY DEF ListsFrom
  <2>1. CASE a # p
    BY <1>1, <2>1 DEF Adds
  <2>2. CASE a = p
    <3>1. mode[p].kind # "host"
      BY <2>2, HostIsOne
    <3>2. PICK t \in Seq(Msg) : /\ net'[p][b] = wire[p][b] \o t
                                /\ mode[p].kind # "host" => NoInfo(t)
      BY <1>1 DEF Adds
    <3>3. wire[a][b] \in Seq(Msg) /\ NoInfo(wire[a][b])
      BY <1>1
    <3>4. NoInfo(wire[a][b] \o t)
      BY <3>1, <3>2, <3>3, NoListSent
    <3>. QED  BY <2>2, <3>2, <3>4
  <2>. QED  BY <2>1, <2>2
<1>2. ASSUME NEW p \in Peers, NEW q \in Peers, Receive(p, q)
      PROVE  ListsFrom(h)'
  <2>1. net[q][p] # <<>> /\ Adds(Taken(q, p), p)
    BY <1>2, MessageAdds
  <2>2. ASSUME NEW a \in Peers \ {h}, NEW b \in Peers
        PROVE  Taken(q, p)[a][b] \in Seq(Msg) /\ NoInfo(Taken(q, p)[a][b])
    <3>1. CASE a = q /\ b = p
      <4>1. Taken(q, p)[a][b] = Tail(net[q][p])
        BY <2>1, <3>1, TakenNet
      <4>. QED  BY <1>0, <2>1, <3>1, <4>1, MessageTaken
    <3>2. CASE ~(a = q /\ b = p)
      <4>1. Taken(q, p)[a][b] = net[a][b]
        BY <2>1, <3>2, TakenNet
      <4>. QED  BY <1>0, <4>1
    <3>. QED  BY <3>1, <3>2
  <2>. QED  BY <1>1, <2>1, <2>2
<1>3. ASSUME NEW p \in Peers, NEW q \in Peers, SessionRequest(p, q) \/ SessionBreak(p, q)
      PROVE  ListsFrom(h)'
  <2>1. NoInfo(<<>>)
    BY DEF NoInfo
  <2>. QED  BY <1>0, <1>3, <2>1, SessionNet DEF ListsFrom
<1>4. CASE UNCHANGED vars
  BY <1>4 DEF vars, network, ListsFrom
<1>5. ASSUME NEW p \in Peers, Adds(net, p)
      PROVE  ListsFrom(h)'
  BY <1>0, <1>1, <1>5
<1>. QED  BY <1>2, <1>3, <1>4, <1>5, StepAdds DEF Next, RuntimeStep, Failure

\* A step of p leaves the other shells and what is between them alone.
LEMMA OtherShells ==
    ASSUME TypeOK, NEW p \in Peers, NEW r \in Peers \ {p},
           UserStep(p) \/ ThreadStep(p) \/ RuntimeStep(p) \/ SteamAnswers(p) \/ Failure(p)
    PROVE  mode'[r] = mode[r] /\ globals'[r] = globals[r]
<1>1. CASE UserStep(p) \/ ThreadStep(p) \/ SteamAnswers(p) \/ Failure(p)
  BY <1>1 DEF UserStep, OnStartWatchParty, OnEndWatchParty, OnLeaveWatchParty, OnKick,
              ConnectToHost, ThreadStep, FinishStart, StartTimesOut, SendJoin, JoinTimesOut,
              SteamAnswers, Failure, SessionBreak, Crash, ClearLobbyGlobals, shell, TypeOK
<1>2. CASE HandleCommand(p)
  <2>. DEFINE c == Head(cmdq[p])
  <2>1. \/ LeaveCurrentLobby(p, net, chat)
        \/ c.op = "Kick" /\ DropPeer(p, c.peer, TRUE, net) /\ lobby' = lobby
    BY <1>2 DEF HandleCommand, KickAuthorizedPeer
  <2>2. c.op = "Kick" => c.peer \in Peers
    BY <1>2, QueueTypes DEF HandleCommand, Command
  <2>. QED  BY <2>1, <2>2, LeaveAgrees, DropAgrees
<1>3. CASE HandleEvent(p)
  <2>. DEFINE e == Head(evq[p])
  <2>1. CASE e.type = "sessionFailed"
    <3>1. DropPeer(p, e.peer, FALSE, net) /\ lobby' = lobby
      BY <1>3, <2>1 DEF HandleEvent, SessionFailed, HandlePeerLeft
    <3>2. e.peer \in Peers
      BY <1>3, <2>1, QueueTypes DEF HandleEvent, Event
    <3>. QED  BY <3>1, <3>2, DropAgrees
  <2>2. CASE e.type # "sessionFailed"
    BY <1>3, <2>2 DEF HandleEvent, HostLobbyCreated, HostLobbyFailed, GuestLobbyJoined,
                      GuestLobbyFailed, ClearLobbyGlobals, TypeOK
  <2>. QED  BY <2>1, <2>2
<1>4. CASE HandleLobbyChatUpdate(p)
  <2>1. PICK n \in chat[p] :
           \/ DropPeer(p, n[2], FALSE, net) /\ lobby' = lobby
           \/ LeaveCurrentLobby(p, net, [chat EXCEPT ![p] = @ \ {n}])
           \/ UNCHANGED <<mode, globals>>
    BY <1>4 DEF HandleLobbyChatUpdate, HandlePeerLeft, shell
  <2>2. n[2] \in Peers
    BY DEF TypeOK
  <2>. QED  BY <2>1, <2>2, DropAgrees, LeaveAgrees
<1>5. ASSUME NEW q \in Peers, Receive(p, q)
      PROVE  mode'[r] = mode[r] /\ globals'[r] = globals[r]
  <2>. DEFINE m == Head(net[q][p])
              wire == Taken(q, p)
  <2>1. CASE UNCHANGED <<mode, globals>>
    BY <2>1
  <2>2. CASE DropPeer(p, q, FALSE, wire) /\ lobby' = lobby
    BY <2>2, DropAgrees
  <2>3. CASE LeaveCurrentLobby(p, wire, chat)
    BY <2>3, LeaveAgrees
  <2>4. CASE UNCHANGED mode /\ ShowMembers(p, m.members)
    BY <2>4 DEF ShowMembers, TypeOK
  <2>5. CASE HandleHello(p, q, m, wire)
    BY <2>5 DEF HandleHello, ShowMembers, shell, TypeOK
  <2>. QED  BY <1>5, <2>1, <2>2, <2>3, <2>4, <2>5
            DEF Receive, HandleHostIncoming, HandleGuestIncoming, HandlePeerLeft, shell
<1>6. CASE \E q \in Peers : SessionRequest(p, q)
  BY <1>6 DEF SessionRequest, shell
<1>. QED  BY <1>1, <1>2, <1>3, <1>4, <1>5, <1>6 DEF RuntimeStep

LEMMA OtherEvents ==
    ASSUME TypeOK, NEW p \in Peers, NEW r \in Peers \ {p},
           UserStep(p) \/ ThreadStep(p) \/ RuntimeStep(p) \/ SteamAnswers(p) \/ Failure(p)
    PROVE  evq'[r] = evq[r] \/ \E x \in Peers : evq'[r] = Append(evq[r], Failed(x))
<1>1. CASE UserStep(p) \/ ThreadStep(p) \/ SteamAnswers(p) \/ Crash(p)
  BY <1>1 DEF UserStep, OnStartWatchParty, OnEndWatchParty, OnLeaveWatchParty, OnKick,
              ConnectToHost, ThreadStep, FinishStart, StartTimesOut, SendJoin, JoinTimesOut,
              SteamAnswers, Answer, Crash, steam, TypeOK
<1>2. CASE HandleCommand(p) \/ HandleEvent(p) \/ HandleLobbyChatUpdate(p) \/ \E q \in Peers : Receive(p, q)
  BY <1>2 DEF HandleCommand, HandleEvent, HandleLobbyChatUpdate, Receive, TypeOK
<1>3. ASSUME NEW q \in Peers, SessionRequest(p, q)
      PROVE  evq'[r] = evq[r] \/ evq'[r] = Append(evq[r], Failed(p))
  <2>1. evq' = evq \/ evq' = [evq EXCEPT ![q] = Append(@, Failed(p))]
    BY <1>3 DEF SessionRequest
  <2>. QED  BY <2>1 DEF TypeOK
<1>4. ASSUME NEW q \in Peers, SessionBreak(p, q)
      PROVE  evq'[r] = evq[r] \/ evq'[r] = Append(evq[r], Failed(p))
  BY <1>4 DEF SessionBreak
<1>. QED  BY <1>1, <1>2, <1>3, <1>4 DEF RuntimeStep, Failure

LEMMA OtherNet ==
    ASSUME TypeOK, NEW p \in Peers, NEW r \in Peers \ {p}, NEW b \in Peers \ {p},
           UserStep(p) \/ ThreadStep(p) \/ RuntimeStep(p) \/ SteamAnswers(p) \/ Failure(p)
    PROVE  net'[r][b] = net[r][b]
<1>1. CASE Adds(net, p)
  BY <1>1 DEF Adds
<1>2. ASSUME NEW q \in Peers, Receive(p, q) PROVE net'[r][b] = net[r][b]
  <2>1. net[q][p] # <<>> /\ Adds(Taken(q, p), p)
    BY <1>2, MessageAdds
  <2>. QED  BY <2>1, TakenNet DEF Adds
<1>3. ASSUME NEW q \in Peers, SessionRequest(p, q) \/ SessionBreak(p, q) PROVE net'[r][b] = net[r][b]
  BY <1>3, SessionNet
<1>. QED  BY <1>1, <1>2, <1>3, StepAdds DEF RuntimeStep, Failure

-----------------------------------------------------------------------------
(* The guest q and the host h, step by step.                                 *)

\* A step that leaves alone what the two know of each other, or only adds to it.
Steady(h, q) ==
    /\ mode'[h] = mode[h] /\ mode'[q] = mode[q]
    /\ globals'[q].members = globals[q].members
    /\ Reports(evq[h], q) => Reports(evq'[h], q)
    /\ Asks(net[q][h]) => Asks(net'[q][h])
    /\ NoInfo(net[h][q]) => NoInfo(net'[h][q])
    /\ \A S : LastInfo(net[h][q], S) => LastInfo(net'[h][q], S)

LEMMA SteadyKeeps ==
    ASSUME NEW h, NEW q, InStep(h, q), Steady(h, q) PROVE InStep(h, q)'
  BY DEF InStep, Following, Awaited, Told, Steady

\* Leaving ends a party.
LEMMA LeaveEnds ==
    ASSUME TypeOK, NEW p \in Peers, NEW wire, NEW notices, LeaveCurrentLobby(p, wire, notices)
    PROVE  mode'[p] = NoMode
  BY ModeKinds DEF LeaveCurrentLobby, TypeOK

LEMMA NotFollowing ==
    ASSUME NEW h, NEW q, mode'[q].kind # "guest" \/ mode'[h].kind # "host" PROVE InStep(h, q)'
  BY DEF InStep, Following

\* What p adds to its messages keeps what they tell, but for member lists.
LEMMA AddedNet ==
    ASSUME TypeOK, NEW p \in Peers, NEW b \in Peers, NEW wire, NetType(wire), Adds(wire, p)
    PROVE  /\ Asks(wire[p][b]) => Asks(net'[p][b])
           /\ mode[p].kind # "host" => /\ NoInfo(wire[p][b]) => NoInfo(net'[p][b])
                                       /\ \A S : LastInfo(wire[p][b], S) => LastInfo(net'[p][b], S)
<1>1. PICK t \in Seq(Msg) : net'[p][b] = wire[p][b] \o t /\ (mode[p].kind # "host" => NoInfo(t))
  BY DEF Adds
<1>2. wire[p][b] \in Seq(Msg)
  BY DEF NetType, MsgSeqs
<1>. QED  BY <1>1, <1>2, AskedAppend, NoListSent

\* A step of a third peer.
LEMMA OthersInStep ==
    ASSUME TypeOK, NEW h \in Peers, NEW q \in Peers, NEW p \in Peers \ {h, q}, InStep(h, q),
           UserStep(p) \/ ThreadStep(p) \/ RuntimeStep(p) \/ SteamAnswers(p) \/ Failure(p)
    PROVE  InStep(h, q)'
<1>1. mode'[h] = mode[h] /\ mode'[q] = mode[q] /\ globals'[q] = globals[q]
  BY OtherShells
<1>2. net'[q][h] = net[q][h] /\ net'[h][q] = net[h][q]
  BY OtherNet
<1>3. evq'[h] = evq[h] \/ \E x \in Peers : evq'[h] = Append(evq[h], Failed(x))
  BY OtherEvents
<1>4. Reports(evq[h], q) => Reports(evq'[h], q)
  <2>1. evq[h] \in Seq(Event) /\ \A x \in Peers : Failed(x) \in Event
    BY DEF TypeOK, Failed, Event
  <2>. QED  BY <1>3, <2>1, ReportAppend
<1>. QED  BY <1>1, <1>2, <1>4, SteadyKeeps DEF Steady

\* A step of the guest.  Nothing of it is between the host and its own queue.
LEMMA GuestSteady ==
    ASSUME TypeOK, NEW h \in Peers, NEW q \in Peers \ {h}, Adds(net, q), InStep(h, q),
           mode'[h] = mode[h], mode'[q] = mode[q], globals'[q].members = globals[q].members,
           evq'[h] = evq[h]
    PROVE  InStep(h, q)'
<1>1. net'[h][q] = net[h][q]
  BY DEF Adds
<1>2. Asks(net[q][h]) => Asks(net'[q][h])
  BY NetNet, AddedNet
<1>. QED  BY <1>1, <1>2, SteadyKeeps DEF Steady

LEMMA GuestUser ==
    ASSUME Patient, TypeOK, NEW h \in Peers, NEW q \in Peers \ {h}, InStep(h, q),
           UserStep(q) \/ ThreadStep(q) \/ SteamAnswers(q) \/ Crash(q)
    PROVE  InStep(h, q)'
<1>1. CASE Crash(q)
  <2>1. mode'[q] = NoMode
    BY <1>1 DEF Crash, TypeOK
  <2>. QED  BY <2>1, NotFollowing DEF NoMode
<1>2. CASE \E k \in known : ConnectToHost(q, k)
  <2>1. mode'[q] = NoMode
    BY <1>2 DEF ConnectToHost
  <2>. QED  BY <2>1, NotFollowing DEF NoMode
<1>3. CASE ~Crash(q) /\ ~\E k \in known : ConnectToHost(q, k)
  <2>1. Adds(net, q)
    BY StepAdds
  <2>2. mode' = mode
    BY <1>3 DEF UserStep, OnStartWatchParty, OnEndWatchParty, OnLeaveWatchParty, OnKick,
                ThreadStep, FinishStart, StartTimesOut, SendJoin, JoinTimesOut, SteamAnswers, shell
  <2>3. evq'[h] = evq[h]
    BY <1>3 DEF UserStep, OnStartWatchParty, OnEndWatchParty, OnLeaveWatchParty, OnKick,
                ThreadStep, FinishStart, StartTimesOut, SendJoin, JoinTimesOut, SteamAnswers,
                Answer, steam, TypeOK
  <2>4. globals'[q].members = globals[q].members
    <3>1. CASE FinishStart(q)
      <4>1. globals[q] \in Globals
        BY DEF TypeOK
      <4>. QED  BY <3>1, <4>1 DEF FinishStart, Globals, TypeOK
    <3>2. CASE ~FinishStart(q)
      BY <1>3, <3>2 DEF UserStep, OnStartWatchParty, OnEndWatchParty, OnLeaveWatchParty, OnKick,
                ThreadStep, StartTimesOut, SendJoin, JoinTimesOut, SteamAnswers, shell
    <3>. QED  BY <3>1, <3>2
  <2>. QED  BY <2>1, <2>2, <2>3, <2>4, GuestSteady
<1>. QED  BY <1>1, <1>2, <1>3

\* A drop is for hosts.
LEMMA GuestDrops ==
    ASSUME TypeOK, NEW h \in Peers, NEW q \in Peers \ {h}, NEW x \in Peers, NEW kicked \in BOOLEAN,
           Adds(net, q), DropPeer(q, x, kicked, net), evq'[h] = evq[h], mode'[h] = mode[h],
           InStep(h, q)
    PROVE  InStep(h, q)'
<1>1. CASE mode[q].kind = "host" /\ x \in mode[q].auth
  <2>1. mode[q] \in [kind : {"host"}, party : Parties, auth : SUBSET Peers, kicked : SUBSET Peers]
    BY <1>1 DEF TypeOK, Mode, NoMode, GuestMode
  <2>2. mode'[q].kind = "host"
    BY <1>1, <2>1 DEF DropPeer, TypeOK
  <2>. QED  BY <2>2, NotFollowing
<1>2. CASE ~(mode[q].kind = "host" /\ x \in mode[q].auth)
  <2>1. UNCHANGED <<mode, globals>>
    BY <1>2 DEF DropPeer
  <2>. QED  BY <2>1, GuestSteady
<1>. QED  BY <1>1, <1>2

LEMMA GuestCommand ==
    ASSUME TypeOK, NEW h \in Peers, NEW q \in Peers \ {h}, InStep(h, q), HandleCommand(q)
    PROVE  InStep(h, q)'
<1>. DEFINE c == Head(cmdq[q])
<1>1. \/ LeaveCurrentLobby(q, net, chat)
      \/ c.op = "Kick" /\ DropPeer(q, c.peer, TRUE, net)
  BY DEF HandleCommand, KickAuthorizedPeer
<1>2. c.op = "Kick" => c.peer \in Peers
  BY QueueTypes DEF HandleCommand, Command
<1>3. Adds(net, q) /\ mode'[h] = mode[h] /\ evq'[h] = evq[h]
  BY StepAdds, OtherShells DEF RuntimeStep, HandleCommand
<1>4. CASE LeaveCurrentLobby(q, net, chat)
  BY <1>4, LeaveEnds, NotFollowing DEF NoMode
<1>. QED  BY <1>1, <1>2, <1>3, <1>4, GuestDrops

LEMMA GuestNotice ==
    ASSUME TypeOK, NEW h \in Peers, NEW q \in Peers \ {h}, InStep(h, q), HandleLobbyChatUpdate(q)
    PROVE  InStep(h, q)'
<1>1. PICK n \in chat[q] :
         \/ DropPeer(q, n[2], FALSE, net)
         \/ LeaveCurrentLobby(q, net, [chat EXCEPT ![q] = @ \ {n}])
         \/ UNCHANGED <<mode, globals>>
  BY DEF HandleLobbyChatUpdate, HandlePeerLeft, shell
<1>2. n[2] \in Peers
  BY DEF TypeOK
<1>3. Adds(net, q) /\ mode'[h] = mode[h] /\ evq'[h] = evq[h]
  BY StepAdds, OtherShells DEF RuntimeStep, HandleLobbyChatUpdate
<1>4. CASE LeaveCurrentLobby(q, net, [chat EXCEPT ![q] = @ \ {n}])
  BY <1>4, LeaveEnds, NotFollowing DEF NoMode
<1>5. CASE UNCHANGED <<mode, globals>>
  BY <1>3, <1>5, GuestSteady
<1>. QED  BY <1>1, <1>2, <1>3, <1>4, <1>5, GuestDrops

\* A failed join finds the shell without a party.
LEMMA FailedJoin ==
    ASSUME NEW q \in Peers, InPhase(q), TypeOK, evq[q] # <<>>, Head(evq[q]).type = "joinFailed"
    PROVE  mode[q] = NoMode
<1>1. Head(evq[q]) = evq[q][1] /\ 1 \in DOMAIN evq[q]
  BY Elements DEF TypeOK
<1>2. ~OnlyFailures(evq[q])
  BY <1>1 DEF OnlyFailures
<1>. QED  BY <1>2 DEF InPhase, Resting, Starting, Replied, Joining, Silent

LEMMA GuestEvent ==
    ASSUME TypeOK, InPhases, NEW h \in Peers, OneHost(h), NEW q \in Peers \ {h}, InStep(h, q),
           HandleEvent(q)
    PROVE  InStep(h, q)'
<1>. DEFINE e == Head(evq[q])
<1>1. e \in Event /\ evq[q] # <<>>
  BY QueueTypes DEF HandleEvent
<1>2. Adds(net, q) /\ mode'[h] = mode[h] /\ evq'[h] = evq[h]
  BY StepAdds, OtherShells DEF RuntimeStep, HandleEvent, TypeOK
<1>3. CASE e.type = "created"
  <2>1. mode' = [mode EXCEPT ![q] = HostMode(e.party)]
    BY <1>3 DEF HandleEvent, HostLobbyCreated
  <2>2. mode'[q].kind = "host"
    BY <2>1 DEF TypeOK, HostMode
  <2>. QED  BY <2>2, NotFollowing
<1>4. CASE e.type = "createFailed"
  <2>1. mode' = mode /\ globals' = [globals EXCEPT ![q].count = 0]
    BY <1>4 DEF HandleEvent, HostLobbyFailed
  <2>2. globals[q] \in Globals
    BY DEF TypeOK
  <2>3. globals'[q].members = globals[q].members
    BY <2>1, <2>2 DEF Globals, TypeOK
  <2>. QED  BY <1>2, <2>1, <2>3, GuestSteady
<1>5. CASE e.type = "joined"
  <2>1. e.party \in Parties
    BY <1>1, <1>5 DEF Event
  <2>2. HostOf(e.party) = h
    BY <2>1, HostOfAll
  <2>3. Send(q, ToOne(h, <<Hello(e.party), Plain("request")>>), net)
    BY <1>5, <2>2 DEF HandleEvent, GuestLobbyJoined
  <2>4. net'[q][h] = net[q][h] \o <<Hello(e.party), Plain("request")>>
    <3>1. PICK s : s = <<Hello(e.party), Plain("request")>>
      OBVIOUS
    <3>2. NetType(net) /\ Send(q, ToOne(h, s), net)
      BY <2>3, <3>1, NetNet
    <3>3. \A b \in Peers : net'[q][b] = net[q][b] \o ToOne(h, s)[b]
      BY <3>2 DEF Send, NetType, MsgSeqs
    <3>. QED  BY <3>1, <3>3, ToOneAt
  <2>5. <<Hello(e.party), Plain("request")>> \in Seq(Msg)
    BY <2>1, HelloType, PlainType DEF MsgTypes
  <2>6. Asks(<<Hello(e.party), Plain("request")>>)
    <3>1. PICK s : s = <<Hello(e.party), Plain("request")>>
      OBVIOUS
    <3>2. 2 \in DOMAIN s /\ s[2] = Plain("request")
      BY <3>1
    <3>3. Asks(s)
      BY <3>2 DEF Asks, Plain
    <3>. QED  BY <3>1, <3>3
  <2>7. net[q][h] \in Seq(Msg)
    BY DEF TypeOK
  <2>8. Asks(net'[q][h])
    BY <2>4, <2>5, <2>6, <2>7, AskedAppend
  <2>. QED  BY <2>8 DEF InStep, Awaited
<1>6. CASE e.type = "joinFailed"
  <2>1. mode[q] = NoMode
    BY <1>1, <1>6, FailedJoin DEF InPhases
  <2>2. mode' = mode
    BY <1>6 DEF HandleEvent, GuestLobbyFailed
  <2>. QED  BY <2>1, <2>2, NotFollowing DEF NoMode
<1>7. CASE e.type = "sessionFailed"
  <2>1. DropPeer(q, e.peer, FALSE, net) /\ e.peer \in Peers
    BY <1>1, <1>7 DEF HandleEvent, SessionFailed, HandlePeerLeft, Event
  <2>. QED  BY <1>2, <2>1, GuestDrops
<1>. QED  BY <1>1, <1>3, <1>4, <1>5, <1>6, <1>7 DEF Event

\* A guest shows the member lists of the host, in the order they were sent.
LEMMA GuestMessage ==
    ASSUME TypeOK, NEW h \in Peers, ListsFrom(h), NEW q \in Peers \ {h}, InStep(h, q),
           NEW x \in Peers, Receive(q, x)
    PROVE  InStep(h, q)'
<1>. DEFINE m == Head(net[x][q])
            wire == Taken(x, q)
<1>1. net[x][q] # <<>> /\ Adds(wire, q) /\ NetType(wire) /\ net[x][q] \in Seq(Msg)
  <2>1. net[x][q] # <<>> /\ Adds(wire, q)
    BY MessageAdds
  <2>2. net[x][q] \in Seq(Msg)
    BY DEF TypeOK
  <2>. QED  BY <2>1, <2>2, TakenNet
<1>2. mode'[h] = mode[h] /\ evq'[h] = evq[h]
  BY OtherShells DEF RuntimeStep, Receive
<1>3. Asks(net[q][h]) => Asks(net'[q][h])
  <2>1. wire[q][h] = net[q][h]
    BY <1>1, TakenNet
  <2>. QED  BY <1>1, <2>1, AddedNet
<1>4. net'[h][q] = IF x = h THEN Tail(net[h][q]) ELSE net[h][q]
  <2>1. net'[h][q] = wire[h][q]
    BY <1>1 DEF Adds
  <2>. QED  BY <1>1, <2>1, TakenNet
<1>5. CASE mode'[q].kind # "guest"
  BY <1>5, NotFollowing
<1>6. CASE UNCHANGED <<mode, globals>> /\ m.type # "info"
  <2>1. CASE x = h
    <3>1. /\ NoInfo(net[h][q]) => NoInfo(net'[h][q])
          /\ \A S : LastInfo(net[h][q], S) => LastInfo(net'[h][q], S)
      BY <1>1, <1>4, <1>6, <2>1, MessageTaken
    <3>. QED  BY <1>2, <1>3, <1>6, <3>1, SteadyKeeps DEF Steady
  <2>2. CASE x # h
    BY <1>2, <1>3, <1>4, <1>6, <2>2, SteadyKeeps DEF Steady
  <2>. QED  BY <2>1, <2>2
<1>7. CASE mode[q].kind = "guest" /\ mode' = mode /\ m.type = "info" /\ ShowMembers(q, m.members)
  <2>1. x = h
    <3>1. x # h => NoInfo(net[x][q])
      BY DEF ListsFrom
    <3>. QED  BY <1>1, <1>7, <3>1, MessageTaken
  <2>2. globals'[q].members = m.members
    <3>1. globals[q] \in Globals
      BY DEF TypeOK
    <3>. QED  BY <1>7, <3>1 DEF ShowMembers, TypeOK, Globals
  <2>. SUFFICES ASSUME Following(h, q)' PROVE Awaited(h, q)' \/ Told(h, q)'
    BY DEF InStep
  <2>3. Following(h, q)
    BY <1>7 DEF Following
  <2>4. CASE Awaited(h, q)
    BY <1>2, <1>3, <2>4 DEF Awaited
  <2>5. CASE Told(h, q)
    <3>. DEFINE S == mode[h].auth \cup {h}
    <3>1. ~NoInfo(net[h][q])
      BY <1>1, <1>7, <2>1, MessageTaken
    <3>2. LastInfo(net[h][q], S)
      BY <2>5, <3>1 DEF Told
    <3>3. \/ LastInfo(net'[h][q], S)
          \/ NoInfo(net'[h][q]) /\ m.members = S
      BY <1>1, <1>4, <2>1, <3>2, MessageTaken
    <3>. QED  BY <1>2, <2>2, <3>3 DEF Told
  <2>. QED  BY <2>3, <2>4, <2>5 DEF InStep
<1>8. CASE mode[q].kind = "host"
  <2>1. mode[q] \in [kind : {"host"}, party : Parties, auth : SUBSET Peers, kicked : SUBSET Peers]
    BY <1>8 DEF TypeOK, Mode, NoMode, GuestMode
  <2>2. mode'[q].kind = "host"
    BY <1>8, <2>1 DEF Receive, HandleHostIncoming, HandleHello, HandlePeerLeft, DropPeer, shell, TypeOK
  <2>. QED  BY <2>2, NotFollowing
<1>9. CASE mode[q].kind = "none"
  <2>1. mode' = mode
    BY <1>9 DEF Receive, shell
  <2>. QED  BY <1>9, <2>1, NotFollowing
<1>10. CASE mode[q].kind = "guest"
  <2>1. HandleGuestIncoming(q, m, wire)
    BY <1>10 DEF Receive
  <2>2. CASE LeaveCurrentLobby(q, wire, chat)
    BY <2>2, LeaveEnds, NotFollowing DEF NoMode
  <2>. QED  BY <1>6, <1>7, <1>10, <2>1, <2>2 DEF HandleGuestIncoming, shell
<1>. QED  BY <1>8, <1>9, <1>10, ModeKinds

LEMMA GuestSession ==
    ASSUME TypeOK, NEW h \in Peers, NEW q \in Peers \ {h}, InStep(h, q),
           NEW x \in Peers, SessionRequest(q, x) \/ SessionBreak(q, x)
    PROVE  InStep(h, q)'
<1>1. UNCHANGED <<mode, globals>>
  BY DEF SessionRequest, SessionBreak, shell
<1>2. evq[h] \in Seq(Event) /\ \A y \in Peers : Failed(y) \in Event
  BY DEF TypeOK, Failed, Event
<1>3. CASE evq'[h] = Append(evq[h], Failed(q))
  <2>1. Reports(evq'[h], q)
    BY <1>2, <1>3, ReportAppend
  <2>. QED  BY <2>1 DEF InStep, Awaited
<1>4. CASE net'[h][q] = net[h][q] /\ net'[q][h] = net[q][h] /\ evq'[h] = evq[h]
  BY <1>1, <1>4, SteadyKeeps DEF Steady
<1>5. CASE SessionRequest(q, x)
  <2>1. CASE UNCHANGED <<net, evq>>
    BY <1>4, <2>1
  <2>2. CASE /\ net' = [net EXCEPT ![x][q] = <<>>]
             /\ evq' = [evq EXCEPT ![x] = Append(@, Failed(q))]
    BY <1>3, <1>4, <2>2 DEF TypeOK
  <2>. QED  BY <1>5, <2>1, <2>2 DEF SessionRequest
<1>6. CASE SessionBreak(q, x)
  <2>1. evq'[h] = IF h \in {q, x} THEN Append(evq[h], Failed(IF h = q THEN x ELSE q)) ELSE evq[h]
    BY <1>6 DEF SessionBreak
  <2>2. x # h => net'[h][q] = net[h][q] /\ net'[q][h] = net[q][h]
    BY <1>6, SessionNet
  <2>. QED  BY <1>3, <1>4, <2>1, <2>2
<1>. QED  BY <1>5, <1>6

-----------------------------------------------------------------------------
(* A step of the host.  What it decides about its party it tells everyone it *)
(* keeps.                                                                    *)

\* Messages of the host that are no member lists.
LEMMA SentNoList ==
    ASSUME NEW h \in Peers, NEW q \in Peers \ {h}, NEW wire, NetType(wire), NEW out \in MsgSeqs,
           Send(h, out, wire), NoInfo(out[q])
    PROVE  /\ net'[q][h] = wire[q][h]
           /\ NoInfo(wire[h][q]) => NoInfo(net'[h][q])
           /\ \A S : LastInfo(wire[h][q], S) => LastInfo(net'[h][q], S)
<1>1. net'[h][q] = wire[h][q] \o out[q] /\ net'[q][h] = wire[q][h]
  BY DEF Send, NetType, MsgSeqs
<1>2. wire[h][q] \in Seq(Msg) /\ out[q] \in Seq(Msg)
  BY DEF NetType, MsgSeqs
<1>. QED  BY <1>1, <1>2, NoListSent

\* The host's list is the last that q will have taken.
LEMMA SentList ==
    ASSUME NEW h \in Peers, NEW q \in Peers \ {h}, NEW wire, NetType(wire), NEW out \in MsgSeqs,
           Send(h, out, wire), mode'[h].auth \in SUBSET Peers,
           out[q] = <<LobbyInfo(mode'[h].auth \cup {h})>>
    PROVE  InStep(h, q)'
<1>1. net'[h][q] = wire[h][q] \o <<LobbyInfo(mode'[h].auth \cup {h})>>
  BY DEF Send, NetType, MsgSeqs
<1>2. wire[h][q] \in Seq(Msg)
  BY DEF NetType, MsgSeqs
<1>3. PICK S : S = mode'[h].auth \cup {h} /\ S \in SUBSET Peers
  OBVIOUS
<1>4. LastInfo(net'[h][q], S)
  BY <1>1, <1>2, <1>3, ListSent
<1>. QED  BY <1>3, <1>4 DEF InStep, Told

\* A drop is told to those that stay, or there was nobody to drop.
LEMMA HostDrops ==
    ASSUME TypeOK, NEW h \in Peers, NEW q \in Peers \ {h}, NEW x \in Peers, NEW kicked \in BOOLEAN,
           NEW wire, NetType(wire), DropPeer(h, x, kicked, wire)
    PROVE  \/ InStep(h, q)'
           \/ /\ net' = wire /\ mode' = mode
              /\ ~(mode[h].kind = "host" /\ x \in mode[h].auth)
<1>1. CASE mode[h].kind = "host" /\ x \in mode[h].auth
  <2>. DEFINE rest == mode[h].auth \ {x}
              told == ToAll(rest, LobbyInfo(rest \cup {h}))
  <2>1. PICK out : out = IF kicked THEN [told EXCEPT ![x] = <<Plain("closed")>>] ELSE told
    OBVIOUS
  <2>2. told \in MsgSeqs
    BY ModeKinds, InfoType, ToAllType
  <2>3. <<Plain("closed")>> \in Seq(Msg)
    BY PlainType DEF MsgTypes
  <2>4. out \in MsgSeqs
    BY <2>1, <2>2, <2>3 DEF MsgSeqs
  <2>5. Send(h, out, wire)
    BY <1>1, <2>1 DEF DropPeer
  <2>6. mode[h] \in [kind : {"host"}, party : Parties, auth : SUBSET Peers, kicked : SUBSET Peers]
    BY <1>1 DEF TypeOK, Mode, NoMode, GuestMode
  <2>7. mode'[h].auth = rest
    BY <1>1, <2>6 DEF DropPeer, TypeOK
  <2>8. CASE q \in rest
    <3>1. out[q] = <<LobbyInfo(rest \cup {h})>>
      BY <2>1, <2>8 DEF ToAll
    <3>. QED  BY <2>4, <2>5, <2>6, <2>7, <3>1, SentList
  <2>9. CASE q \notin rest
    BY <2>7, <2>9 DEF InStep, Following
  <2>. QED  BY <2>8, <2>9
<1>2. CASE ~(mode[h].kind = "host" /\ x \in mode[h].auth)
  BY <1>2 DEF DropPeer
<1>. QED  BY <1>1, <1>2

\* The host's own steps change nothing else about q.
LEMMA HostSteady ==
    ASSUME TypeOK, NEW h \in Peers, NEW q \in Peers \ {h}, InStep(h, q), net' = net,
           mode'[h] = mode[h], mode'[q] = mode[q], globals'[q] = globals[q],
           Reports(evq[h], q) => Reports(evq'[h], q)
    PROVE  InStep(h, q)'
  BY SteadyKeeps DEF Steady

LEMMA HostUser ==
    ASSUME TypeOK, NEW h \in Peers, NEW q \in Peers \ {h}, InStep(h, q),
           UserStep(h) \/ ThreadStep(h) \/ SteamAnswers(h) \/ Crash(h)
    PROVE  InStep(h, q)'
<1>1. CASE Crash(h)
  <2>1. mode'[h] = NoMode
    BY <1>1 DEF Crash, TypeOK
  <2>. QED  BY <2>1, NotFollowing DEF NoMode
<1>2. CASE ~Crash(h)
  <2>1. mode' = mode /\ net' = net
    BY <1>2 DEF UserStep, OnStartWatchParty, OnEndWatchParty, OnLeaveWatchParty, OnKick,
                ConnectToHost, ThreadStep, FinishStart, StartTimesOut, SendJoin, JoinTimesOut,
                SteamAnswers, shell, network
  <2>2. globals'[q] = globals[q]
    BY OtherShells DEF Failure
  <2>3. evq' = evq \/ \E e \in Event : evq' = [evq EXCEPT ![h] = Append(@, e)]
    <3>1. CASE SteamAnswers(h)
      <4>1. \E t \in {"created", "createFailed", "joined", "joinFailed"} : Answer(h, t, Head(calls[h]).party)
        BY <3>1 DEF SteamAnswers
      <4>2. Head(calls[h]).party \in Parties
        BY <3>1, QueueTypes DEF SteamAnswers, Call
      <4>. QED  BY <4>1, <4>2 DEF Answer, Event
    <3>2. CASE ~SteamAnswers(h)
      BY <1>2, <3>2 DEF UserStep, OnStartWatchParty, OnEndWatchParty, OnLeaveWatchParty, OnKick,
                ConnectToHost, ThreadStep, FinishStart, StartTimesOut, SendJoin, JoinTimesOut, steam
    <3>. QED  BY <3>1, <3>2
  <2>4. Reports(evq[h], q) => Reports(evq'[h], q)
    <3>1. evq[h] \in Seq(Event)
      BY DEF TypeOK
    <3>2. evq'[h] = evq[h] \/ \E e \in Event : evq'[h] = Append(evq[h], e)
      BY <2>3 DEF TypeOK
    <3>. QED  BY <3>1, <3>2, ReportAppend
  <2>. QED  BY <2>1, <2>2, <2>4, HostSteady
<1>. QED  BY <1>1, <1>2

LEMMA HostCommand ==
    ASSUME TypeOK, NEW h \in Peers, NEW q \in Peers \ {h}, InStep(h, q), HandleCommand(h)
    PROVE  InStep(h, q)'
<1>. DEFINE c == Head(cmdq[h])
<1>1. \/ LeaveCurrentLobby(h, net, chat)
      \/ c.op = "Kick" /\ DropPeer(h, c.peer, TRUE, net)
  BY DEF HandleCommand, KickAuthorizedPeer
<1>2. c.op = "Kick" => c.peer \in Peers
  BY QueueTypes DEF HandleCommand, Command
<1>3. mode'[q] = mode[q] /\ globals'[q] = globals[q] /\ evq' = evq
  BY OtherShells DEF RuntimeStep, HandleCommand
<1>4. CASE LeaveCurrentLobby(h, net, chat)
  BY <1>4, LeaveEnds, NotFollowing DEF NoMode
<1>5. CASE c.op = "Kick" /\ DropPeer(h, c.peer, TRUE, net)
  <2>1. InStep(h, q)' \/ (net' = net /\ mode' = mode)
    BY <1>2, <1>5, NetNet, HostDrops
  <2>. QED  BY <1>3, <2>1, HostSteady
<1>. QED  BY <1>1, <1>4, <1>5

LEMMA HostNotice ==
    ASSUME TypeOK, NEW h \in Peers, NEW q \in Peers \ {h}, InStep(h, q), HandleLobbyChatUpdate(h)
    PROVE  InStep(h, q)'
<1>1. PICK n \in chat[h] :
         \/ DropPeer(h, n[2], FALSE, net)
         \/ LeaveCurrentLobby(h, net, [chat EXCEPT ![h] = @ \ {n}])
         \/ UNCHANGED <<mode, net>>
  BY DEF HandleLobbyChatUpdate, HandlePeerLeft, shell, network
<1>2. n[2] \in Peers
  BY DEF TypeOK
<1>3. mode'[q] = mode[q] /\ globals'[q] = globals[q] /\ evq' = evq
  BY OtherShells DEF RuntimeStep, HandleLobbyChatUpdate
<1>4. CASE LeaveCurrentLobby(h, net, [chat EXCEPT ![h] = @ \ {n}])
  BY <1>4, LeaveEnds, NotFollowing DEF NoMode
<1>5. CASE DropPeer(h, n[2], FALSE, net)
  <2>1. InStep(h, q)' \/ (net' = net /\ mode' = mode)
    BY <1>2, <1>5, NetNet, HostDrops
  <2>. QED  BY <1>3, <2>1, HostSteady
<1>6. CASE UNCHANGED <<mode, net>>
  BY <1>3, <1>6, HostSteady
<1>. QED  BY <1>1, <1>4, <1>5, <1>6

LEMMA HostEvent ==
    ASSUME TypeOK, NEW h \in Peers, NEW q \in Peers \ {h}, InStep(h, q), HandleEvent(h)
    PROVE  InStep(h, q)'
<1>. DEFINE e == Head(evq[h])
<1>1. e \in Event /\ evq[h] # <<>>
  BY QueueTypes DEF HandleEvent
<1>2. mode'[q] = mode[q] /\ globals'[q] = globals[q]
  BY OtherShells DEF RuntimeStep
<1>3. evq'[h] = Tail(evq[h]) /\ evq[h] \in Seq(Event)
  BY DEF HandleEvent, TypeOK
<1>4. e # Failed(q) /\ Reports(evq[h], q) => Reports(evq'[h], q)
  BY <1>1, <1>3, ReportTail
<1>5. CASE e.type \in {"created", "joined"}
  <2>1. CASE e.type = "created"
    <3>1. mode'[h] = HostMode(e.party)
      BY <2>1 DEF HandleEvent, HostLobbyCreated, TypeOK
    <3>. QED  BY <3>1 DEF InStep, Following, HostMode
  <2>2. CASE e.type = "joined"
    <3>1. mode'[h] = GuestMode(e.party)
      BY <2>2 DEF HandleEvent, GuestLobbyJoined, TypeOK
    <3>. QED  BY <3>1, NotFollowing DEF GuestMode
  <2>. QED  BY <1>5, <2>1, <2>2
<1>6. CASE e.type \in {"createFailed", "joinFailed"}
  <2>1. mode' = mode /\ net' = net
    BY <1>6 DEF HandleEvent, HostLobbyFailed, GuestLobbyFailed, network
  <2>2. e # Failed(q)
    BY <1>6 DEF Failed
  <2>. QED  BY <1>2, <1>4, <2>1, <2>2, HostSteady
<1>7. CASE e.type = "sessionFailed"
  <2>1. DropPeer(h, e.peer, FALSE, net) /\ e.peer \in Peers
    BY <1>1, <1>7 DEF HandleEvent, SessionFailed, HandlePeerLeft, Event
  <2>2. \/ InStep(h, q)'
        \/ /\ net' = net /\ mode' = mode
           /\ ~(mode[h].kind = "host" /\ e.peer \in mode[h].auth)
    BY <2>1, NetNet, HostDrops
  <2>3. CASE net' = net /\ mode' = mode /\ e.peer # q
    <3>1. e # Failed(q)
      BY <2>3 DEF Failed
    <3>. QED  BY <1>2, <1>4, <2>3, <3>1, HostSteady
  <2>4. CASE mode' = mode /\ e.peer = q /\ ~(mode[h].kind = "host" /\ q \in mode[h].auth)
    BY <2>4 DEF InStep, Following
  <2>. QED  BY <2>2, <2>3, <2>4
<1>. QED  BY <1>1, <1>5, <1>6, <1>7 DEF Event

\* The host takes a message of a peer.
LEMMA HostMessage ==
    ASSUME TypeOK, NEW h \in Peers, NEW q \in Peers \ {h}, InStep(h, q),
           NEW x \in Peers, Receive(h, x)
    PROVE  InStep(h, q)'
<1>. DEFINE m == Head(net[x][h])
            wire == Taken(x, h)
<1>1. net[x][h] # <<>> /\ Adds(wire, h) /\ NetType(wire) /\ net[x][h] \in Seq(Msg)
  <2>1. net[x][h] # <<>> /\ Adds(wire, h)
    BY MessageAdds
  <2>2. net[x][h] \in Seq(Msg)
    BY DEF TypeOK
  <2>. QED  BY <2>1, <2>2, TakenNet
<1>2. mode'[q] = mode[q] /\ globals'[q] = globals[q] /\ evq' = evq
  BY OtherShells DEF RuntimeStep, Receive
<1>3. wire[h][q] = net[h][q]
  BY <1>1, TakenNet
<1>4. Asks(net[q][h]) => Asks(net'[q][h]) \/ (x = q /\ m.type = "request")
  <2>1. net'[q][h] = wire[q][h]
    BY <1>1 DEF Adds
  <2>2. CASE x = q
    BY <1>1, <2>1, <2>2, TakenNet, MessageTaken
  <2>3. CASE x # q
    BY <1>1, <2>1, <2>3, TakenNet
  <2>. QED  BY <2>2, <2>3
<1>5. ASSUME mode' = mode, x = q => m.type # "request",
             NEW out \in MsgSeqs, Send(h, out, wire), NoInfo(out[q])
      PROVE  InStep(h, q)'
  <2>1. /\ NoInfo(net[h][q]) => NoInfo(net'[h][q])
        /\ \A S : LastInfo(net[h][q], S) => LastInfo(net'[h][q], S)
    BY <1>1, <1>3, <1>5, SentNoList
  <2>. QED  BY <1>2, <1>4, <1>5, <2>1, SteadyKeeps DEF Steady
<1>6. CASE mode'[h].kind # "host"
  BY <1>6, NotFollowing
<1>7. CASE mode[h].kind = "none"
  <2>1. mode' = mode
    BY <1>7 DEF Receive, shell
  <2>. QED  BY <1>7, <2>1, NotFollowing
<1>8. CASE mode[h].kind = "guest"
  <2>1. HandleGuestIncoming(h, m, wire)
    BY <1>8 DEF Receive
  <2>2. CASE LeaveCurrentLobby(h, wire, chat)
    BY <2>2, LeaveEnds, NotFollowing DEF NoMode
  <2>3. CASE mode' = mode
    BY <1>8, <2>3, NotFollowing
  <2>. QED  BY <2>1, <2>2, <2>3 DEF HandleGuestIncoming, shell
<1>9. CASE mode[h].kind = "host"
  <2>1. HandleHostIncoming(h, x, m, wire)
    BY <1>9 DEF Receive
  <2>2. Nothing \in MsgSeqs /\ NoInfo(Nothing[q])
    BY NoInfoNothing
  <2>3. CASE m.type = "hello"
    <3>1. HandleHello(h, x, m, wire)
      BY <2>1, <2>3 DEF HandleHostIncoming
    <3>2. CASE Refused(h, x, m)
      <4>1. mode' = mode /\ Send(h, ToOne(x, <<Plain("error")>>), wire)
        BY <3>1, <3>2 DEF HandleHello, shell
      <4>2. <<Plain("error")>> \in Seq(Msg) /\ NoInfo(<<Plain("error")>>)
        BY PlainType DEF MsgTypes, NoInfo, Plain
      <4>3. ToOne(x, <<Plain("error")>>) \in MsgSeqs /\ NoInfo(ToOne(x, <<Plain("error")>>)[q])
        BY <4>2, NoInfoToOne
      <4>. QED  BY <1>5, <2>3, <4>1, <4>3
    <3>3. CASE ~Refused(h, x, m)
      <4>. DEFINE auth == mode[h].auth \cup {x}
                  out == ToAll(auth, LobbyInfo(auth \cup {h}))
      <4>1. mode' = [mode EXCEPT ![h].auth = auth] /\ Send(h, out, wire)
        BY <3>1, <3>3 DEF HandleHello
      <4>2. mode[h] \in [kind : {"host"}, party : Parties, auth : SUBSET Peers, kicked : SUBSET Peers]
        BY <1>9 DEF TypeOK, Mode, NoMode, GuestMode
      <4>3. mode'[h].auth = auth /\ auth \in SUBSET Peers
        BY <4>1, <4>2 DEF TypeOK
      <4>4. out \in MsgSeqs
        BY <4>3, InfoType, ToAllType
      <4>5. CASE q \in auth
        <5>1. out[q] = <<LobbyInfo(auth \cup {h})>>
          BY <4>5 DEF ToAll
        <5>. QED  BY <1>1, <4>1, <4>3, <4>4, <5>1, SentList
      <4>6. CASE q \notin auth
        BY <4>3, <4>6 DEF InStep, Following
      <4>. QED  BY <4>5, <4>6
    <3>. QED  BY <3>2, <3>3
  <2>4. CASE m.type = "request"
    <3>1. mode' = mode
      BY <2>1, <2>4 DEF HandleHostIncoming, shell
    <3>2. CASE x \in mode[h].auth
      <4>. DEFINE s == <<LobbyInfo(mode[h].auth \cup {h})>>
      <4>1. Send(h, ToOne(x, s), wire)
        BY <2>1, <2>4, <3>2 DEF HandleHostIncoming
      <4>2. s \in Seq(Msg) /\ mode[h].auth \in SUBSET Peers
        BY ModeKinds, InfoType
      <4>3. ToOne(x, s) \in MsgSeqs
        BY <4>2, ToOneType
      <4>4. CASE x = q
        <5>1. ToOne(x, s)[q] = s
          BY <4>4, ToOneAt
        <5>. QED  BY <1>1, <3>1, <4>1, <4>2, <4>3, <5>1, SentList
      <4>5. CASE x # q
        <5>1. NoInfo(ToOne(x, s)[q])
          BY <4>5, ToOneAt DEF NoInfo
        <5>. QED  BY <1>5, <3>1, <4>1, <4>3, <4>5, <5>1
      <4>. QED  BY <4>4, <4>5
    <3>3. CASE x \notin mode[h].auth
      <4>1. Send(h, Nothing, wire)
        BY <2>1, <2>4, <3>3 DEF HandleHostIncoming
      <4>2. CASE x = q
        BY <3>1, <3>3, <4>2 DEF InStep, Following
      <4>3. CASE x # q
        BY <1>5, <2>2, <3>1, <4>1, <4>3
      <4>. QED  BY <4>2, <4>3
    <3>. QED  BY <3>2, <3>3
  <2>5. CASE m.type = "leave"
    <3>1. DropPeer(h, x, FALSE, wire)
      BY <2>1, <2>5 DEF HandleHostIncoming, HandlePeerLeft
    <3>2. InStep(h, q)' \/ (net' = wire /\ mode' = mode)
      BY <1>1, <3>1, HostDrops
    <3>3. CASE net' = wire /\ mode' = mode
      BY <1>2, <1>3, <1>4, <2>5, <3>3, SteadyKeeps DEF Steady
    <3>. QED  BY <3>2, <3>3
  <2>6. CASE m.type \in {"info", "closed", "error"}
    <3>1. mode' = mode /\ Send(h, Nothing, wire)
      BY <2>1, <2>6 DEF HandleHostIncoming, shell
    <3>. QED  BY <1>5, <2>2, <2>6, <3>1
  <2>. QED  BY <2>1, <2>3, <2>4, <2>5, <2>6 DEF HandleHostIncoming
<1>. QED  BY <1>7, <1>8, <1>9, ModeKinds

LEMMA HostSession ==
    ASSUME TypeOK, NEW h \in Peers, NEW q \in Peers \ {h}, InStep(h, q),
           NEW x \in Peers, SessionRequest(h, x) \/ SessionBreak(h, x)
    PROVE  InStep(h, q)'
<1>1. UNCHANGED <<mode, globals>>
  BY DEF SessionRequest, SessionBreak, shell
<1>2. evq[h] \in Seq(Event) /\ \A y \in Peers : Failed(y) \in Event
  BY DEF TypeOK, Failed, Event
<1>3. CASE SessionRequest(h, x)
  <2>1. CASE UNCHANGED <<net, evq>>
    BY <1>1, <2>1, HostSteady
  <2>2. CASE ~ShouldAccept(h, x)
    BY <1>1, <2>2, NotFollowing DEF ShouldAccept
  <2>. QED  BY <1>3, <2>1, <2>2 DEF SessionRequest
<1>4. CASE SessionBreak(h, x)
  <2>1. evq'[h] = Append(evq[h], Failed(x))
    BY <1>4 DEF SessionBreak
  <2>2. CASE x = q
    <3>1. Reports(evq'[h], q)
      BY <1>2, <2>1, <2>2, ReportAppend
    <3>. QED  BY <3>1 DEF InStep, Awaited
  <2>3. CASE x # q
    <3>1. net'[h][q] = net[h][q] /\ net'[q][h] = net[q][h]
      BY <1>4, <2>3, SessionNet
    <3>2. Reports(evq[h], q) => Reports(evq'[h], q)
      BY <1>2, <2>1, ReportAppend
    <3>. QED  BY <1>1, <3>1, <3>2, SteadyKeeps DEF Steady
  <2>. QED  BY <2>2, <2>3
<1>. QED  BY <1>3, <1>4

-----------------------------------------------------------------------------
(* All admitted guests of the one host.                                      *)

ListsInStep(h) == ListsFrom(h) /\ \A q \in Peers \ {h} : InStep(h, q)

LEMMA InStepStep ==
    ASSUME Patient, TypeOK, MadeOnce, InPhases, NEW h \in Peers, OneHost(h), ListsInStep(h),
           [Next]_vars
    PROVE  ListsInStep(h)'
<1>1. ListsFrom(h)'
  BY ListsStep DEF ListsInStep
<1>2. ASSUME NEW q \in Peers \ {h} PROVE InStep(h, q)'
  <2>0. InStep(h, q)
    BY DEF ListsInStep
  <2>1. CASE UNCHANGED vars
    BY <2>0, <2>1 DEF vars, shell, threads, steam, network, InStep, Following, Awaited, Told
  <2>2. ASSUME NEW p \in Peers \ {h, q},
               UserStep(p) \/ ThreadStep(p) \/ RuntimeStep(p) \/ SteamAnswers(p) \/ Failure(p)
        PROVE  InStep(h, q)'
    BY <2>0, <2>2, OthersInStep
  <2>3. CASE UserStep(q) \/ ThreadStep(q) \/ RuntimeStep(q) \/ SteamAnswers(q) \/ Failure(q)
    BY <2>0, <2>3, GuestUser, GuestCommand, GuestNotice, GuestEvent, GuestMessage, GuestSession
    DEF RuntimeStep, Failure, ListsInStep
  <2>4. CASE UserStep(h) \/ ThreadStep(h) \/ RuntimeStep(h) \/ SteamAnswers(h) \/ Failure(h)
    BY <2>0, <2>4, HostUser, HostCommand, HostNotice, HostEvent, HostMessage, HostSession
    DEF RuntimeStep, Failure
  <2>. QED  BY <2>1, <2>2, <2>3, <2>4 DEF Next
<1>. QED  BY <1>1, <1>2 DEF ListsInStep

\* Of users who wait for each operation to settle, one of whom starts parties: an admitted guest
\* with nothing on its way shows the host's member list (every change of the list is sent to all
\* that remain, and a guest asks for the list when it joins).
THEOREM RosterSynced ==
    ASSUME Patient, ~Timeouts, NEW h \in Peers, OneHost(h)
    PROVE  Spec => []RosterInSync
<1>1. Init => ListsInStep(h)
  BY DEF Init, ListsInStep, ListsFrom, NoInfo, InStep, Following, NoMode
<1>2. TypeOK /\ MadeOnce /\ InPhases /\ ListsInStep(h) /\ [Next]_vars => ListsInStep(h)'
  BY InStepStep
<1>3. TypeOK /\ ListsInStep(h) => RosterInSync
  <2>. SUFFICES ASSUME TypeOK, ListsInStep(h), NEW q \in Peers, NEW k \in Parties,
                       GuestOf(q, k), Member(q, k), Quiet(h, q)
                PROVE  globals[q].members = mode[h].auth \cup {h}
    BY HostOfAll DEF RosterInSync
  <2>1. HostOf(k) = h
    BY HostOfAll
  <2>2. Following(h, q) /\ q # h
    BY <2>1 DEF GuestOf, Member, Hosting, Following
  <2>3. ~Awaited(h, q)
    BY DEF Quiet, Awaited, Reports, Asks
  <2>4. Told(h, q)
    BY <2>2, <2>3 DEF ListsInStep, InStep
  <2>. QED  BY <2>4 DEF Quiet, Told, LastInfo
<1>. QED  BY <1>1, <1>2, <1>3, Typing, EachPartyOnce, PhasesAlways, PTL DEF Spec

=============================================================================
