-------------------------- MODULE WatchPartyProofs --------------------------
(* Theorems about WatchParty for any number of peers, any lobby size and any *)
(* budget, with and without patience and timeouts.                           *)
EXTENDS WatchParty, FiniteSetTheorems, TLAPS

-----------------------------------------------------------------------------
(* The parts of the type invariant that the handlers' helpers touch.         *)

MsgSeqs == [Peers -> Seq(Msg)]
NetType(n) == n \in [Peers -> MsgSeqs]
ChatType(c) == c \in [Peers -> SUBSET (Parties \X Peers)]

\* A party knows its host.
LEMMA HostIsPeer == ASSUME NEW k \in Parties PROVE HostOf(k) \in Peers
  BY DEF Parties, HostOf

\* The party number taken from the budget is one the model provides for.
LEMMA NextParty ==
    ASSUME TypeOK, NEW p \in Peers, budget[p]["start"] > 0
    PROVE  <<p, budget[p]["start"]>> \in Parties
<1>1. budget[p]["start"] \in 1..Budget[p]["start"]
  BY BudgetAssumption DEF TypeOK, Ops
<1>2. <<p, budget[p]["start"]>> \in {p} \X (1..Budget[p]["start"])
  BY <1>1
<1>. QED  BY <1>2 DEF Parties

\* Spending keeps the budget a budget.
LEMMA SpendType ==
    ASSUME TypeOK, NEW p \in Peers, NEW op \in Ops, Spend(p, op)
    PROVE  /\ budget' \in [Peers -> [Ops -> Nat]]
           /\ \A q \in Peers, o \in Ops : budget'[q][o] <= Budget[q][o]
           /\ budget[p][op] > 0
<1>1. budget[p][op] \in Nat /\ budget[p][op] > 0 /\ budget[p][op] - 1 \in Nat
  BY DEF TypeOK, Spend
<1>2. budget' \in [Peers -> [Ops -> Nat]]
  BY <1>1 DEF TypeOK, Spend
<1>3. ASSUME NEW q \in Peers, NEW o \in Ops
      PROVE  budget'[q][o] <= Budget[q][o]
  <2>1. budget[q][o] \in Nat /\ Budget[q][o] \in Nat /\ budget[q][o] <= Budget[q][o]
    BY BudgetAssumption DEF TypeOK
  <2>2. budget'[q][o] = budget[q][o] \/ budget'[q][o] = budget[q][o] - 1
    BY DEF TypeOK, Spend
  <2>. QED  BY <2>1, <2>2
<1>. QED  BY <1>1, <1>2, <1>3

\* What one step sends is a sequence of messages for each peer.
LEMMA PlainType == ASSUME NEW t \in MsgTypes PROVE Plain(t) \in Msg
  BY DEF Plain, Msg

LEMMA HelloType == ASSUME NEW k \in Parties PROVE Hello(k) \in Msg
  BY DEF Hello, Msg, MsgTypes

LEMMA InfoType == ASSUME NEW S \in SUBSET Peers PROVE LobbyInfo(S) \in Msg
  BY DEF LobbyInfo, Msg, MsgTypes

LEMMA ToAllType ==
    ASSUME NEW S, NEW m \in Msg PROVE ToAll(S, m) \in MsgSeqs
  BY DEF ToAll, MsgSeqs

LEMMA ToOneType ==
    ASSUME NEW r, NEW s \in Seq(Msg) PROVE ToOne(r, s) \in MsgSeqs
  BY DEF ToOne, MsgSeqs

LEMMA NothingType == Nothing \in MsgSeqs
  BY DEF Nothing, MsgSeqs

LEMMA SendType ==
    ASSUME NEW p \in Peers, NEW out \in MsgSeqs, NEW wire, NetType(wire),
           open \in [Peers -> SUBSET Peers], Send(p, out, wire)
    PROVE  NetType(net') /\ open' \in [Peers -> SUBSET Peers]
<1>1. \A q \in Peers : wire[p][q] \o out[q] \in Seq(Msg)
  BY DEF NetType, MsgSeqs
<1>2. [q \in Peers |-> wire[p][q] \o out[q]] \in MsgSeqs
  BY <1>1 DEF MsgSeqs
<1>3. NetType(net')
  BY <1>2 DEF Send, NetType
<1>. QED  BY <1>3 DEF Send

LEMMA TakenType ==
    ASSUME TypeOK, NEW p \in Peers, NEW q \in Peers, net[q][p] # <<>>
    PROVE  NetType(Taken(q, p)) /\ Head(net[q][p]) \in Msg
<1>1. net[q][p] \in Seq(Msg) /\ NetType(net)
  BY DEF TypeOK, NetType, MsgSeqs
<1>2. Tail(net[q][p]) \in Seq(Msg) /\ Head(net[q][p]) \in Msg
  BY <1>1
<1>. QED  BY <1>1, <1>2 DEF Taken, NetType, MsgSeqs

LEMMA ShowMembersType ==
    ASSUME TypeOK, NEW p \in Peers, NEW S \in SUBSET Peers, ShowMembers(p, S)
    PROVE  globals' \in [Peers -> Globals]
<1>1. Cardinality(S) \in Nat
  BY PeersAssumption, FS_Subset, FS_CardinalityType
<1>. DEFINE g1 == [globals[p] EXCEPT !.count = Cardinality(S)]
            g2 == [g1 EXCEPT !.members = S]
<1>2. globals[p] \in Globals
  BY DEF TypeOK
<1>3. g1 \in Globals
  BY <1>1, <1>2 DEF Globals
<1>4. g2 \in Globals
  BY <1>3 DEF Globals
<1>5. globals' = [globals EXCEPT ![p] = g2]
  BY DEF ShowMembers, TypeOK
<1>. QED  BY <1>4, <1>5 DEF TypeOK

LEMMA ClearType ==
    ASSUME TypeOK, NEW p \in Peers, ClearLobbyGlobals(p)
    PROVE  globals' \in [Peers -> Globals]
  BY DEF TypeOK, ClearLobbyGlobals, Globals, NoGlobals

LEMMA LeaveSteamLobbyType ==
    ASSUME TypeOK, NEW p \in Peers, NEW k \in Parties, NEW notices, ChatType(notices),
           LeaveSteamLobby(p, k, notices)
    PROVE  lobby' \in [Parties -> SUBSET Peers] /\ ChatType(chat')
<1>1. lobby' \in [Parties -> SUBSET Peers]
  BY DEF TypeOK, LeaveSteamLobby
<1>2. \A q \in Peers : notices[q] \cup {<<k, p>>} \in SUBSET (Parties \X Peers)
  BY DEF ChatType
<1>3. ChatType(chat')
  BY <1>2 DEF ChatType, LeaveSteamLobby
<1>. QED  BY <1>1, <1>3

\* The kinds of mode, told apart.
LEMMA ModeKinds ==
    ASSUME TypeOK, NEW p \in Peers
    PROVE  /\ mode[p].kind \in {"none", "host", "guest"}
           /\ mode[p].kind = "none" => mode[p] = NoMode
           /\ mode[p].kind # "none" => mode[p].party \in Parties
           /\ mode[p].auth \in SUBSET Peers
           /\ mode[p].kicked \in SUBSET Peers
           /\ mode[p].kind # "host" => mode[p].auth = {}
  BY DEF TypeOK, Mode, NoMode, GuestMode

LEMMA NoModeType ==
    ASSUME TypeOK, NEW p \in Peers PROVE [mode EXCEPT ![p] = NoMode] \in [Peers -> Mode]
  BY DEF TypeOK, Mode

\* leave_current_lobby keeps the types.
LEMMA LeaveType ==
    ASSUME TypeOK, NEW p \in Peers, NEW wire, NetType(wire), NEW notices, ChatType(notices),
           LeaveCurrentLobby(p, wire, notices)
    PROVE  /\ mode' \in [Peers -> Mode]
           /\ globals' \in [Peers -> Globals]
           /\ NetType(net')
           /\ open' \in [Peers -> SUBSET Peers]
           /\ lobby' \in [Parties -> SUBSET Peers]
           /\ ChatType(chat')
<1>0. open \in [Peers -> SUBSET Peers]
  BY DEF TypeOK
<1>1. CASE mode[p].kind = "host"
  <2>1. /\ Send(p, ToAll(mode[p].auth, Plain("closed")), wire)
        /\ LeaveSteamLobby(p, mode[p].party, notices)
        /\ ClearLobbyGlobals(p)
        /\ mode' = [mode EXCEPT ![p] = NoMode]
    BY <1>1 DEF LeaveCurrentLobby
  <2>2. ToAll(mode[p].auth, Plain("closed")) \in MsgSeqs
    BY PlainType, ToAllType DEF MsgTypes
  <2>3. NetType(net') /\ open' \in [Peers -> SUBSET Peers]
    BY <1>0, <2>1, <2>2, SendType
  <2>4. mode[p].party \in Parties
    BY <1>1, ModeKinds
  <2>. QED  BY <2>1, <2>3, <2>4, LeaveSteamLobbyType, ClearType, NoModeType
<1>2. CASE mode[p].kind = "guest"
  <2>1. /\ Send(p, ToOne(HostOf(mode[p].party), <<Plain("leave")>>), wire)
        /\ LeaveSteamLobby(p, mode[p].party, notices)
        /\ ClearLobbyGlobals(p)
        /\ mode' = [mode EXCEPT ![p] = NoMode]
    BY <1>2 DEF LeaveCurrentLobby
  <2>2. <<Plain("leave")>> \in Seq(Msg)
    BY PlainType DEF MsgTypes
  <2>3. ToOne(HostOf(mode[p].party), <<Plain("leave")>>) \in MsgSeqs
    BY <2>2, ToOneType
  <2>4. NetType(net') /\ open' \in [Peers -> SUBSET Peers]
    BY <1>0, <2>1, <2>3, SendType
  <2>5. mode[p].party \in Parties
    BY <1>2, ModeKinds
  <2>. QED  BY <2>1, <2>4, <2>5, LeaveSteamLobbyType, ClearType, NoModeType
<1>3. CASE mode[p].kind = "none"
  BY <1>3 DEF LeaveCurrentLobby, TypeOK
<1>. QED  BY <1>1, <1>2, <1>3, ModeKinds

\* A change of the host's roster keeps the mode a mode.
LEMMA RosterType ==
    ASSUME TypeOK, NEW p \in Peers, mode[p].kind = "host",
           NEW A \in SUBSET Peers, NEW K \in SUBSET Peers
    PROVE  [mode EXCEPT ![p].auth = A, ![p].kicked = K] \in [Peers -> Mode]
<1>. DEFINE Hosts == [kind : {"host"}, party : Parties, auth : SUBSET Peers,
                     kicked : SUBSET Peers]
            m1 == [mode[p] EXCEPT !.auth = A]
            m2 == [m1 EXCEPT !.kicked = K]
<1>1. mode[p] \in Hosts
  BY DEF TypeOK, Mode, NoMode, GuestMode
<1>2. m1 \in Hosts
  BY <1>1
<1>3. m2 \in Hosts
  BY <1>2
<1>4. m2 \in Mode
  BY <1>3 DEF Mode
<1>5. [mode EXCEPT ![p].auth = A, ![p].kicked = K] = [mode EXCEPT ![p] = m2]
  BY DEF TypeOK
<1>. QED  BY <1>4, <1>5 DEF TypeOK

\* A host that drops a peer keeps the types.
LEMMA DropType ==
    ASSUME TypeOK, NEW p \in Peers, NEW q \in Peers, NEW kicked \in BOOLEAN,
           NEW wire, NetType(wire), DropPeer(p, q, kicked, wire)
    PROVE  /\ mode' \in [Peers -> Mode]
           /\ globals' \in [Peers -> Globals]
           /\ NetType(net')
           /\ open' \in [Peers -> SUBSET Peers]
<1>0. open \in [Peers -> SUBSET Peers]
  BY DEF TypeOK
<1>1. CASE mode[p].kind = "host" /\ q \in mode[p].auth
  <2>. DEFINE rest == mode[p].auth \ {q}
              told == ToAll(rest, LobbyInfo(rest \cup {p}))
              out == IF kicked THEN [told EXCEPT ![q] = <<Plain("closed")>>] ELSE told
              K == IF kicked THEN mode[p].kicked \cup {q} ELSE mode[p].kicked
  <2>1. rest \in SUBSET Peers /\ rest \cup {p} \in SUBSET Peers /\ K \in SUBSET Peers
    BY ModeKinds
  <2>2. told \in MsgSeqs
    BY <2>1, InfoType, ToAllType
  <2>3. <<Plain("closed")>> \in Seq(Msg)
    BY PlainType DEF MsgTypes
  <2>4. out \in MsgSeqs
    BY <2>2, <2>3 DEF MsgSeqs
  <2>5. /\ mode' = [mode EXCEPT ![p].auth = rest, ![p].kicked = K]
        /\ Send(p, out, wire)
        /\ ShowMembers(p, rest \cup {p})
    BY <1>1 DEF DropPeer, TypeOK
  <2>6. mode' \in [Peers -> Mode]
    BY <1>1, <2>1, <2>5, RosterType
  <2>7. NetType(net') /\ open' \in [Peers -> SUBSET Peers]
    BY <1>0, <2>4, <2>5, SendType
  <2>. QED  BY <2>1, <2>5, <2>6, <2>7, ShowMembersType
<1>2. CASE ~(mode[p].kind = "host" /\ q \in mode[p].auth)
  BY <1>2 DEF DropPeer, TypeOK
<1>. QED  BY <1>1, <1>2

-----------------------------------------------------------------------------
(* Every step keeps the types, one lemma per part of Next.                   *)

LEMMA QueueTypes ==
    ASSUME TypeOK, NEW p \in Peers
    PROVE  /\ cmdq[p] # <<>> => /\ Head(cmdq[p]) \in Command
                               /\ [cmdq EXCEPT ![p] = Tail(@)] \in [Peers -> Seq(Command)]
           /\ calls[p] # <<>> => /\ Head(calls[p]) \in Call
                                /\ [calls EXCEPT ![p] = Tail(@)] \in [Peers -> Seq(Call)]
           /\ evq[p] # <<>> => /\ Head(evq[p]) \in Event
                              /\ [evq EXCEPT ![p] = Tail(@)] \in [Peers -> Seq(Event)]
<1>1. cmdq[p] \in Seq(Command) /\ calls[p] \in Seq(Call) /\ evq[p] \in Seq(Event)
  BY DEF TypeOK
<1>2. cmdq[p] # <<>> => Head(cmdq[p]) \in Command /\ Tail(cmdq[p]) \in Seq(Command)
  BY <1>1
<1>3. calls[p] # <<>> => Head(calls[p]) \in Call /\ Tail(calls[p]) \in Seq(Call)
  BY <1>1
<1>4. evq[p] # <<>> => Head(evq[p]) \in Event /\ Tail(evq[p]) \in Seq(Event)
  BY <1>1
<1>. QED  BY <1>2, <1>3, <1>4 DEF TypeOK

LEMMA EnqueueType ==
    ASSUME TypeOK, NEW p \in Peers, NEW c \in Command, Enqueue(p, c)
    PROVE  cmdq' \in [Peers -> Seq(Command)]
  BY DEF TypeOK, Enqueue

LEMMA ReportType ==
    ASSUME TypeOK, NEW p \in Peers, NEW e \in Event
    PROVE  [evq EXCEPT ![p] = Append(@, e)] \in [Peers -> Seq(Event)]
  BY DEF TypeOK

LEMMA UserStepType ==
    ASSUME TypeOK, NEW p \in Peers, UserStep(p)
    PROVE  TypeOK'
<1>1. CASE OnStartWatchParty(p)
  <2>. DEFINE k == <<p, budget[p]["start"]>>
  <2>1. /\ Spend(p, "start")
        /\ ui' = [ui EXCEPT ![p] = [state |-> "waiting", party |-> k]]
        /\ Enqueue(p, [op |-> "StartHost", party |-> k])
        /\ UNCHANGED <<shell, joiner, steam, network, secrets>>
    BY <1>1 DEF OnStartWatchParty, UserActs
  <2>2. k \in Parties
    BY <2>1, NextParty DEF Spend
  <2>3. ui' \in [Peers -> Thread]
    BY <2>1, <2>2 DEF TypeOK, Thread
  <2>4. cmdq' \in [Peers -> Seq(Command)]
    BY <2>1, <2>2, EnqueueType DEF Command
  <2>5. /\ budget' \in [Peers -> [Ops -> Nat]]
        /\ \A q \in Peers, o \in Ops : budget'[q][o] <= Budget[q][o]
    BY <2>1, SpendType DEF Ops
  <2>. QED  BY <2>1, <2>3, <2>4, <2>5 DEF TypeOK, shell, steam, network, secrets
<1>2. CASE OnEndWatchParty(p) \/ OnLeaveWatchParty(p)
  <2>1. /\ Spend(p, "leave")
        /\ Enqueue(p, [op |-> "Leave"])
        /\ UNCHANGED <<shell, ui, joiner, steam, network, secrets>>
    BY <1>2 DEF OnEndWatchParty, OnLeaveWatchParty, UserActs
  <2>2. cmdq' \in [Peers -> Seq(Command)]
    BY <2>1, EnqueueType DEF Command
  <2>3. /\ budget' \in [Peers -> [Ops -> Nat]]
        /\ \A q \in Peers, o \in Ops : budget'[q][o] <= Budget[q][o]
    BY <2>1, SpendType DEF Ops
  <2>. QED  BY <2>1, <2>2, <2>3 DEF TypeOK, shell, steam, network, secrets
<1>3. ASSUME NEW q \in Peers, OnKick(p, q)
      PROVE  TypeOK'
  <2>1. /\ Spend(p, "kick")
        /\ Enqueue(p, [op |-> "Kick", peer |-> q])
        /\ UNCHANGED <<shell, ui, joiner, steam, network, secrets>>
    BY <1>3 DEF OnKick, UserActs
  <2>2. cmdq' \in [Peers -> Seq(Command)]
    BY <2>1, EnqueueType DEF Command
  <2>3. /\ budget' \in [Peers -> [Ops -> Nat]]
        /\ \A r \in Peers, o \in Ops : budget'[r][o] <= Budget[r][o]
    BY <2>1, SpendType DEF Ops
  <2>. QED  BY <2>1, <2>2, <2>3 DEF TypeOK, shell, steam, network, secrets
<1>4. ASSUME NEW k \in known, ConnectToHost(p, k)
      PROVE  TypeOK'
  <2>1. /\ Spend(p, "join")
        /\ joiner' = [joiner EXCEPT ![p] = [state |-> "marked", party |-> k]]
        /\ globals' = [globals EXCEPT ![p] =
                         [id |-> k, count |-> 1, members |-> {}, role |-> "Guest"]]
        /\ held' = [held EXCEPT ![p] = @ \cup {k}]
        /\ UNCHANGED <<mode, ui, cmdq, steam, network, known>>
    BY <1>4 DEF ConnectToHost, UserActs
  <2>2. k \in Parties
    BY <1>4 DEF TypeOK
  <2>3. joiner' \in [Peers -> Thread]
    BY <2>1, <2>2 DEF TypeOK, Thread
  <2>4. globals' \in [Peers -> Globals]
    BY <2>1, <2>2 DEF TypeOK, Globals
  <2>5. held' \in [Peers -> SUBSET Parties]
    BY <2>1, <2>2 DEF TypeOK
  <2>6. /\ budget' \in [Peers -> [Ops -> Nat]]
        /\ \A q \in Peers, o \in Ops : budget'[q][o] <= Budget[q][o]
    BY <2>1, SpendType DEF Ops
  <2>. QED  BY <2>1, <2>3, <2>4, <2>5, <2>6 DEF TypeOK, steam, network
<1>. QED  BY <1>1, <1>2, <1>3, <1>4 DEF UserStep

LEMMA ThreadStepType ==
    ASSUME TypeOK, NEW p \in Peers, ThreadStep(p)
    PROVE  TypeOK'
<1>0. ui[p] \in Thread /\ joiner[p] \in Thread /\ globals[p] \in Globals
  BY DEF TypeOK
<1>1. CASE FinishStart(p)
  <2>. DEFINE k == ui[p].party
              g1 == [globals[p] EXCEPT !.id = k]
              g2 == [g1 EXCEPT !.count = 1]
  <2>1. k \in Parties
    BY <1>0, <1>1 DEF FinishStart, Thread, Idle
  <2>2. g1 \in Globals
    BY <1>0, <2>1 DEF Globals
  <2>3. g2 \in Globals
    BY <2>2 DEF Globals
  <2>4. globals' = [globals EXCEPT ![p] = g2]
    BY <1>1 DEF FinishStart, TypeOK
  <2>5. globals' \in [Peers -> Globals]
    BY <2>3, <2>4 DEF TypeOK
  <2>6. ui' \in [Peers -> Thread]
    BY <1>1 DEF FinishStart, TypeOK, Thread
  <2>7. known' \in SUBSET Parties
    BY <1>1, <2>1 DEF FinishStart, TypeOK
  <2>. QED  BY <1>1, <2>5, <2>6, <2>7 DEF FinishStart, TypeOK, steam, network
<1>2. CASE StartTimesOut(p)
  <2>1. ui' \in [Peers -> Thread]
    BY <1>2 DEF StartTimesOut, TypeOK, Thread
  <2>. QED  BY <1>2, <2>1 DEF StartTimesOut, TypeOK, shell, steam, network, secrets
<1>3. CASE SendJoin(p)
  <2>1. joiner[p] \in [state : {"marked", "waiting", "replied"}, party : Parties]
    BY <1>0, <1>3 DEF SendJoin, Thread, Idle
  <2>2. [joiner[p] EXCEPT !.state = "waiting"] \in Thread
    BY <2>1 DEF Thread
  <2>3. joiner' \in [Peers -> Thread]
    BY <1>3, <2>2 DEF SendJoin, TypeOK
  <2>4. [op |-> "JoinHost", party |-> joiner[p].party] \in Command
    BY <2>1 DEF Command
  <2>5. cmdq' \in [Peers -> Seq(Command)]
    BY <1>3, <2>4, EnqueueType DEF SendJoin
  <2>. QED  BY <1>3, <2>3, <2>5 DEF SendJoin, TypeOK, shell, steam, network, secrets
<1>4. CASE JoinTimesOut(p)
  <2>1. joiner' \in [Peers -> Thread]
    BY <1>4 DEF JoinTimesOut, TypeOK, Thread
  <2>. QED  BY <1>4, <2>1 DEF JoinTimesOut, TypeOK, shell, steam, network, secrets
<1>. QED  BY <1>1, <1>2, <1>3, <1>4 DEF ThreadStep

LEMMA HandleCommandType ==
    ASSUME TypeOK, NEW p \in Peers, HandleCommand(p)
    PROVE  TypeOK'
<1>. DEFINE c == Head(cmdq[p])
<1>1. /\ c \in Command
      /\ cmdq' \in [Peers -> Seq(Command)]
  BY QueueTypes DEF HandleCommand
<1>2. NetType(net) /\ ChatType(chat)
  BY DEF TypeOK, NetType, ChatType, MsgSeqs
<1>3. UNCHANGED <<ui, joiner, evq, secrets, budget>>
  BY DEF HandleCommand
<1>4. CASE /\ c.op \in {"StartHost", "JoinHost"}
           /\ LeaveCurrentLobby(p, net, chat)
           /\ calls' = [calls EXCEPT ![p] = Append(@,
                 [op |-> IF c.op = "StartHost" THEN "create" ELSE "join",
                  party |-> c.party])]
  <2>1. c.party \in Parties
    BY <1>1, <1>4 DEF Command
  <2>. DEFINE d == [op |-> IF c.op = "StartHost" THEN "create" ELSE "join", party |-> c.party]
  <2>3. d \in Call
    BY <2>1 DEF Call
  <2>4. [calls EXCEPT ![p] = Append(@, d)] \in [Peers -> Seq(Call)]
    BY <2>3 DEF TypeOK
  <2>2. calls' \in [Peers -> Seq(Call)]
    BY <1>4, <2>4
  <2>. QED  BY <1>1, <1>2, <1>3, <1>4, <2>2, LeaveType
            DEF TypeOK, secrets, NetType, ChatType, MsgSeqs
<1>5. CASE c.op = "Leave" /\ LeaveCurrentLobby(p, net, chat) /\ UNCHANGED calls
  BY <1>1, <1>2, <1>3, <1>5, LeaveType DEF TypeOK, secrets, NetType, ChatType, MsgSeqs
<1>6. CASE /\ c.op = "Kick"
           /\ KickAuthorizedPeer(p, c.peer)
           /\ UNCHANGED <<calls, lobby, chat>>
  <2>1. c.peer \in Peers
    BY <1>1, <1>6 DEF Command
  <2>. QED  BY <1>1, <1>2, <1>3, <1>6, <2>1, DropType
            DEF KickAuthorizedPeer, TypeOK, secrets, NetType, ChatType, MsgSeqs
<1>. QED  BY <1>4, <1>5, <1>6 DEF HandleCommand

LEMMA SteamAnswersType ==
    ASSUME TypeOK, NEW p \in Peers, SteamAnswers(p)
    PROVE  TypeOK'
<1>. DEFINE c == Head(calls[p])
            k == c.party
<1>1. c \in Call /\ calls' \in [Peers -> Seq(Call)]
  BY QueueTypes DEF SteamAnswers
<1>2. k \in Parties
  BY <1>1 DEF Call
<1>3. lobby' \in [Parties -> SUBSET Peers]
  <2>1. \/ lobby' = lobby
        \/ lobby' = [lobby EXCEPT ![k] = {p}]
        \/ lobby' = [lobby EXCEPT ![k] = @ \cup {p}]
    BY DEF SteamAnswers
  <2>2. lobby \in [Parties -> SUBSET Peers]
    BY DEF TypeOK
  <2>. HIDE DEF k
  <2>. QED  BY <1>2, <2>1, <2>2
<1>4. \A t \in {"created", "createFailed", "joined", "joinFailed"} :
        [type |-> t, party |-> k] \in Event
  BY <1>2 DEF Event
<1>5. evq' \in [Peers -> Seq(Event)]
  <2>1. PICK t \in {"created", "createFailed", "joined", "joinFailed"} : Answer(p, t, k)
    BY DEF SteamAnswers
  <2>. QED  BY <1>4, <2>1, ReportType DEF Answer
<1>. QED  BY <1>1, <1>3, <1>5 DEF SteamAnswers, TypeOK, shell, threads, network, secrets

LEMMA HandleEventType ==
    ASSUME TypeOK, NEW p \in Peers, HandleEvent(p)
    PROVE  TypeOK'
<1>. DEFINE e == Head(evq[p])
            k == e.party
<1>1. e \in Event /\ evq' \in [Peers -> Seq(Event)]
  BY QueueTypes DEF HandleEvent
<1>2. e.type # "sessionFailed" => k \in Parties
  BY <1>1 DEF Event
<1>3. UNCHANGED <<cmdq, calls, chat, lobby, secrets, budget>>
  BY DEF HandleEvent
<1>4. NetType(net) /\ open \in [Peers -> SUBSET Peers]
  BY DEF TypeOK, NetType, MsgSeqs
<1>5. globals[p] \in Globals
  BY DEF TypeOK
<1>6. ASSUME k \in Parties, HostLobbyCreated(p, k)
      PROVE  TypeOK'
  <2>. DEFINE g1 == [globals[p] EXCEPT !.count = 1]
              g2 == [g1 EXCEPT !.members = {p}]
              g3 == [g2 EXCEPT !.role = "Host"]
  <2>1. g1 \in Globals
    BY <1>5 DEF Globals
  <2>2. g2 \in Globals
    BY <2>1 DEF Globals
  <2>3. g3 \in Globals
    BY <2>2 DEF Globals
  <2>4. globals' = [globals EXCEPT ![p] = g3]
    BY <1>6 DEF HostLobbyCreated, TypeOK
  <2>5. globals' \in [Peers -> Globals]
    BY <2>3, <2>4 DEF TypeOK
  <2>6. HostMode(k) \in Mode
    BY <1>6 DEF HostMode, Mode
  <2>7. mode' \in [Peers -> Mode]
    BY <1>6, <2>6 DEF HostLobbyCreated, TypeOK
  <2>8. [state |-> "replied", party |-> k] \in Thread
    BY <1>6 DEF Thread
  <2>9. ui' \in [Peers -> Thread]
    BY <1>6, <2>8 DEF HostLobbyCreated, UiGets, TypeOK
  <2>. QED  BY <1>1, <1>3, <1>6, <2>5, <2>7, <2>9
            DEF HostLobbyCreated, TypeOK, network, secrets
<1>7. ASSUME HostLobbyFailed(p, k)
      PROVE  TypeOK'
  <2>1. [globals[p] EXCEPT !.count = 0] \in Globals
    BY <1>5 DEF Globals
  <2>2. globals' \in [Peers -> Globals]
    BY <1>7, <2>1 DEF HostLobbyFailed, TypeOK
  <2>3. ui' \in [Peers -> Thread]
    BY <1>7 DEF HostLobbyFailed, UiGets, TypeOK, Thread
  <2>. QED  BY <1>1, <1>3, <1>7, <2>2, <2>3 DEF HostLobbyFailed, TypeOK, network, secrets
<1>8. ASSUME k \in Parties, GuestLobbyJoined(p, k)
      PROVE  TypeOK'
  <2>1. <<Hello(k), Plain("request")>> \in Seq(Msg)
    BY <1>8, HelloType, PlainType DEF MsgTypes
  <2>2. NetType(net') /\ open' \in [Peers -> SUBSET Peers]
    BY <1>4, <1>8, <2>1, ToOneType, SendType DEF GuestLobbyJoined
  <2>3. GuestMode(k) \in Mode
    BY <1>8 DEF Mode
  <2>4. mode' \in [Peers -> Mode]
    BY <1>8, <2>3 DEF GuestLobbyJoined, TypeOK
  <2>5. [globals[p] EXCEPT !.role = "Guest"] \in Globals
    BY <1>5 DEF Globals
  <2>6. globals' \in [Peers -> Globals]
    BY <1>8, <2>5 DEF GuestLobbyJoined, TypeOK
  <2>7. joiner' \in [Peers -> Thread]
    BY <1>8 DEF GuestLobbyJoined, JoinerReleased, TypeOK, Thread
  <2>. QED  BY <1>1, <1>3, <1>8, <2>2, <2>4, <2>6, <2>7
            DEF GuestLobbyJoined, TypeOK, secrets, NetType, MsgSeqs
<1>9. ASSUME GuestLobbyFailed(p, k)
      PROVE  TypeOK'
  <2>1. globals' \in [Peers -> Globals]
    BY <1>9, ClearType DEF GuestLobbyFailed
  <2>2. joiner' \in [Peers -> Thread]
    BY <1>9 DEF GuestLobbyFailed, JoinerReleased, TypeOK, Thread
  <2>. QED  BY <1>1, <1>3, <1>9, <2>1, <2>2 DEF GuestLobbyFailed, TypeOK, network, secrets
<1>10. ASSUME e.type = "sessionFailed", SessionFailed(p, e.peer)
       PROVE  TypeOK'
  <2>1. e.peer \in Peers
    BY <1>1, <1>10 DEF Event
  <2>. QED  BY <1>1, <1>3, <1>4, <1>10, <2>1, DropType
            DEF SessionFailed, HandlePeerLeft, TypeOK, secrets, NetType, MsgSeqs
<1>. QED  BY <1>2, <1>6, <1>7, <1>8, <1>9, <1>10 DEF HandleEvent

LEMMA HandleLobbyChatUpdateType ==
    ASSUME TypeOK, NEW p \in Peers, HandleLobbyChatUpdate(p)
    PROVE  TypeOK'
<1>1. PICK n \in chat[p] :
        LET k == n[1]
            q == n[2]
            seen == [chat EXCEPT ![p] = @ \ {n}]
        IN /\ \/ /\ HandlePeerLeft(p, q, net)
                 /\ chat' = seen
                 /\ UNCHANGED lobby
              \/ LeaveCurrentLobby(p, net, seen)
              \/ /\ chat' = seen
                 /\ UNCHANGED <<shell, network, lobby>>
           /\ UNCHANGED <<threads, calls, evq, secrets, budget>>
  BY DEF HandleLobbyChatUpdate
<1>. DEFINE q == n[2]
            seen == [chat EXCEPT ![p] = @ \ {n}]
<1>2. n \in Parties \X Peers
  BY <1>1 DEF TypeOK
<1>3. q \in Peers
  BY <1>2
<1>4. NetType(net) /\ ChatType(seen)
  BY DEF TypeOK, NetType, MsgSeqs, ChatType
<1>5. CASE HandlePeerLeft(p, q, net) /\ chat' = seen /\ UNCHANGED lobby
  BY <1>1, <1>3, <1>4, <1>5, DropType
     DEF HandlePeerLeft, TypeOK, threads, secrets, NetType, MsgSeqs, ChatType
<1>6. CASE LeaveCurrentLobby(p, net, seen)
  BY <1>1, <1>4, <1>6, LeaveType DEF TypeOK, threads, secrets, NetType, MsgSeqs, ChatType
<1>7. CASE chat' = seen /\ UNCHANGED <<shell, network, lobby>>
  BY <1>1, <1>4, <1>7 DEF TypeOK, shell, network, threads, secrets, ChatType
<1>. QED  BY <1>1, <1>5, <1>6, <1>7

LEMMA ReceiveType ==
    ASSUME TypeOK, NEW p \in Peers, NEW q \in Peers, Receive(p, q)
    PROVE  TypeOK'
<1>. DEFINE m == Head(net[q][p])
            wire == Taken(q, p)
            roster == mode[p].auth \cup {p}
<1>1. NetType(wire) /\ m \in Msg
  BY TakenType DEF Receive
<1>2. UNCHANGED <<threads, calls, evq, secrets, budget>>
  BY DEF Receive
<1>3. open \in [Peers -> SUBSET Peers] /\ ChatType(chat)
  BY DEF TypeOK, ChatType
<1>4. roster \in SUBSET Peers
  BY ModeKinds
<1>. HIDE DEF wire, m
\* Whatever is sent, if neither the shell nor the lobbies change.
<1>5. ASSUME NEW out \in MsgSeqs, Send(p, out, wire), UNCHANGED <<shell, lobby, chat>>
      PROVE  TypeOK'
  <2>1. NetType(net') /\ open' \in [Peers -> SUBSET Peers]
    BY <1>1, <1>3, <1>5, SendType
  <2>. QED  BY <1>2, <1>5, <2>1 DEF TypeOK, shell, threads, secrets, NetType, MsgSeqs
<1>6. CASE mode[p].kind = "host" /\ HandleHostIncoming(p, q, m, wire) /\ UNCHANGED <<lobby, chat>>
  <2>1. CASE HandleHello(p, q, m, wire)
    <3>1. CASE Refused(p, q, m)
      <4>1. <<Plain("error")>> \in Seq(Msg)
        BY PlainType DEF MsgTypes
      <4>2. ToOne(q, <<Plain("error")>>) \in MsgSeqs
        BY <4>1, ToOneType
      <4>. QED  BY <1>5, <1>6, <2>1, <3>1, <4>2 DEF HandleHello, shell
    <3>2. CASE ~Refused(p, q, m)
      <4>. DEFINE auth == mode[p].auth \cup {q}
      <4>1. /\ mode' = [mode EXCEPT ![p].auth = auth]
            /\ ShowMembers(p, auth \cup {p})
            /\ Send(p, ToAll(auth, LobbyInfo(auth \cup {p})), wire)
        BY <2>1, <3>2 DEF HandleHello
      <4>2. auth \in SUBSET Peers /\ auth \cup {p} \in SUBSET Peers
        BY ModeKinds
      <4>3. ToAll(auth, LobbyInfo(auth \cup {p})) \in MsgSeqs
        BY <4>2, InfoType, ToAllType
      <4>4. NetType(net') /\ open' \in [Peers -> SUBSET Peers]
        BY <1>1, <1>3, <4>1, <4>3, SendType
      <4>5. globals' \in [Peers -> Globals]
        BY <4>1, <4>2, ShowMembersType
      <4>6. [mode EXCEPT ![p].auth = auth, ![p].kicked = mode[p].kicked] \in [Peers -> Mode]
        BY <1>6, <4>2, RosterType, ModeKinds
      <4>7. mode' = [mode EXCEPT ![p].auth = auth, ![p].kicked = mode[p].kicked]
        BY <1>6, <4>1 DEF TypeOK, Mode, NoMode, GuestMode
      <4>8. mode' \in [Peers -> Mode]
        BY <4>6, <4>7
      <4>. QED  BY <1>2, <1>6, <4>4, <4>5, <4>8
                DEF TypeOK, threads, secrets, NetType, MsgSeqs
    <3>. QED  BY <3>1, <3>2
  <2>2. CASE Send(p, ToOne(q, <<LobbyInfo(roster)>>), wire) /\ UNCHANGED shell
    <3>1. <<LobbyInfo(roster)>> \in Seq(Msg)
      BY <1>4, InfoType
    <3>. QED  BY <1>5, <1>6, <2>2, <3>1, ToOneType DEF shell
  <2>3. CASE Send(p, Nothing, wire) /\ UNCHANGED shell
    BY <1>5, <1>6, <2>3, NothingType DEF shell
  <2>4. CASE HandlePeerLeft(p, q, wire)
    BY <1>1, <1>2, <1>6, <2>4, DropType
       DEF HandlePeerLeft, TypeOK, threads, secrets, NetType, MsgSeqs
  <2>. QED  BY <1>6, <2>1, <2>2, <2>3, <2>4 DEF HandleHostIncoming
<1>7. CASE HandleGuestIncoming(p, m, wire)
  <2>1. CASE LeaveCurrentLobby(p, wire, chat)
    BY <1>1, <1>2, <1>3, <2>1, LeaveType
       DEF TypeOK, threads, secrets, NetType, MsgSeqs, ChatType
  <2>2. CASE ShowMembers(p, m.members) /\ Send(p, Nothing, wire) /\ UNCHANGED <<mode, lobby, chat>>
    <3>1. m.members \in SUBSET Peers
      BY <1>1 DEF Msg
    <3>2. globals' \in [Peers -> Globals]
      BY <2>2, <3>1, ShowMembersType
    <3>3. NetType(net') /\ open' \in [Peers -> SUBSET Peers]
      BY <1>1, <1>3, <2>2, NothingType, SendType
    <3>. QED  BY <1>2, <2>2, <3>2, <3>3 DEF TypeOK, threads, secrets, NetType, MsgSeqs
  <2>3. CASE Send(p, Nothing, wire) /\ UNCHANGED <<shell, lobby, chat>>
    BY <1>5, <2>3, NothingType
  <2>. QED  BY <1>7, <2>1, <2>2, <2>3 DEF HandleGuestIncoming
<1>8. CASE Send(p, Nothing, wire) /\ UNCHANGED <<shell, lobby, chat>>
  BY <1>5, <1>8, NothingType
<1>. QED  BY <1>6, <1>7, <1>8 DEF Receive, m, wire

LEMMA SessionRequestType ==
    ASSUME TypeOK, NEW p \in Peers, NEW q \in Peers, SessionRequest(p, q)
    PROVE  TypeOK'
<1>. DEFINE accepted == [open EXCEPT ![p] = @ \cup {q}]
            refused == [open EXCEPT ![q] = @ \ {p}]
            dropped == [net EXCEPT ![q][p] = <<>>]
            told == [evq EXCEPT ![q] = Append(@, Failed(p))]
<1>1. /\ UNCHANGED <<shell, threads, calls, chat, lobby, secrets, budget>>
      /\ \/ open' = accepted /\ UNCHANGED <<net, evq>>
         \/ open' = refused /\ net' = dropped /\ evq' = told
  BY DEF SessionRequest
<1>2. accepted \in [Peers -> SUBSET Peers] /\ refused \in [Peers -> SUBSET Peers]
  BY DEF TypeOK
<1>3. dropped \in [Peers -> [Peers -> Seq(Msg)]]
  BY DEF TypeOK
<1>4. Failed(p) \in Event
  BY DEF Failed, Event
<1>5. told \in [Peers -> Seq(Event)]
  BY <1>4, ReportType
<1>. HIDE DEF accepted, refused, dropped, told
<1>. QED  BY <1>1, <1>2, <1>3, <1>5 DEF TypeOK, shell, threads, secrets

LEMMA FailureType ==
    ASSUME TypeOK, NEW p \in Peers, Failure(p)
    PROVE  TypeOK'
<1>1. ASSUME NEW q \in Peers, SessionBreak(p, q)
      PROVE  TypeOK'
  <2>1. Failed(p) \in Event /\ Failed(q) \in Event
    BY DEF Failed, Event
  <2>2. \A a \in Peers : Append(evq[a], Failed(IF a = p THEN q ELSE p)) \in Seq(Event)
    BY <2>1 DEF TypeOK
  <2>3. evq' \in [Peers -> Seq(Event)]
    BY <1>1, <2>2 DEF SessionBreak, TypeOK
  <2>4. net' \in [Peers -> [Peers -> Seq(Msg)]]
    BY <1>1 DEF SessionBreak, TypeOK
  <2>5. open' \in [Peers -> SUBSET Peers]
    BY <1>1 DEF SessionBreak, TypeOK
  <2>6. /\ budget' \in [Peers -> [Ops -> Nat]]
        /\ \A r \in Peers, o \in Ops : budget'[r][o] <= Budget[r][o]
    BY <1>1, SpendType DEF SessionBreak, Ops
  <2>. QED  BY <1>1, <2>3, <2>4, <2>5, <2>6
            DEF SessionBreak, TypeOK, shell, threads, secrets
<1>2. CASE Crash(p)
  <2>1. mode' \in [Peers -> Mode] /\ globals' \in [Peers -> Globals]
    BY <1>2, NoModeType, ClearType DEF Crash
  <2>2. ui' \in [Peers -> Thread] /\ joiner' \in [Peers -> Thread]
    BY <1>2 DEF Crash, TypeOK, Thread
  <2>3. /\ cmdq' \in [Peers -> Seq(Command)]
        /\ calls' \in [Peers -> Seq(Call)]
        /\ evq' \in [Peers -> Seq(Event)]
    BY <1>2 DEF Crash, TypeOK
  <2>4. lobby' \in [Parties -> SUBSET Peers] /\ open' \in [Peers -> SUBSET Peers]
    BY <1>2 DEF Crash, TypeOK
  <2>5. chat' \in [Peers -> SUBSET (Parties \X Peers)]
    <3>1. ASSUME NEW q \in Peers
          PROVE  {<<k, p>> : k \in {j \in Parties : {p, q} \subseteq lobby[j]}}
                   \in SUBSET (Parties \X Peers)
      OBVIOUS
    <3>2. \A q \in Peers : chat[q] \in SUBSET (Parties \X Peers)
      BY DEF TypeOK
    <3>. QED  BY <1>2, <3>1, <3>2 DEF Crash
  <2>6. /\ budget' \in [Peers -> [Ops -> Nat]]
        /\ \A r \in Peers, o \in Ops : budget'[r][o] <= Budget[r][o]
    BY <1>2, SpendType DEF Crash, Ops
  <2>. QED  BY <1>2, <2>1, <2>2, <2>3, <2>4, <2>5, <2>6 DEF Crash, TypeOK, secrets
<1>. QED  BY <1>1, <1>2 DEF Failure

\* The type invariant, for every set of peers, lobby size and budget: no
\* queue ever holds an item its handler does not know, the roster of a
\* runtime is empty unless it hosts, and a shell in a lobby knows its party.
THEOREM Typing == Spec => []TypeOK
<1>1. Init => TypeOK
  <2>. SUFFICES ASSUME Init PROVE TypeOK
    OBVIOUS
  <2>1. NoMode \in Mode /\ NoGlobals \in Globals /\ Idle \in Thread
    BY DEF Mode, NoGlobals, Globals, Thread
  <2>2. budget = Budget /\ \A p \in Peers, o \in Ops : Budget[p][o] \in Nat
    BY BudgetAssumption DEF Init
  <2>. QED  BY <2>1, <2>2, BudgetAssumption DEF Init, TypeOK
<1>2. TypeOK /\ [Next]_vars => TypeOK'
  <2>. SUFFICES ASSUME TypeOK, [Next]_vars PROVE TypeOK'
    OBVIOUS
  <2>1. CASE UNCHANGED vars
    BY <2>1 DEF TypeOK, vars, shell, threads, steam, network, secrets
  <2>2. ASSUME NEW p \in Peers,
               UserStep(p) \/ ThreadStep(p) \/ RuntimeStep(p) \/ SteamAnswers(p) \/ Failure(p)
        PROVE  TypeOK'
    BY <2>2, UserStepType, ThreadStepType, HandleCommandType, HandleEventType,
       HandleLobbyChatUpdateType, ReceiveType, SessionRequestType, SteamAnswersType,
       FailureType DEF RuntimeStep
  <2>. QED  BY <2>1, <2>2 DEF Next
<1>. QED  BY <1>1, <1>2, PTL DEF Spec

-----------------------------------------------------------------------------
(* How a step may change what a runtime is in: it leaves its party, the list *)
(* of admitted guests shrinks (and whoever is kicked was on it) or gains the *)
(* sender of a hello that is not refused, or it enters a party by the answer *)
(* to a call, with nobody admitted.                                          *)

Leaves(p) == mode'[p] = NoMode
Shrinks(p) == /\ mode'[p].kind = mode[p].kind
              /\ mode'[p].party = mode[p].party
              /\ mode'[p].auth \subseteq mode[p].auth
              /\ mode[p].kicked \subseteq mode'[p].kicked
              /\ mode'[p].kicked \subseteq mode[p].kicked \cup (mode[p].auth \ mode'[p].auth)
Admits(p, q) == /\ net[q][p] # <<>>
                /\ Head(net[q][p]).type = "hello"
                /\ ~Refused(p, q, Head(net[q][p]))
                /\ mode'[p].kind = mode[p].kind
                /\ mode'[p].party = mode[p].party
                /\ mode'[p].auth = mode[p].auth \cup {q}
                /\ mode'[p].kicked = mode[p].kicked
Stays(p) == Leaves(p) \/ Shrinks(p) \/ \E q \in Peers : Admits(p, q)
Enters(p) == LET e == Head(evq[p]) IN
    /\ evq[p] # <<>>
    /\ \/ e.type = "created" /\ mode'[p] = HostMode(e.party)
       \/ e.type = "joined" /\ mode'[p] = GuestMode(e.party)
RosterStep(p) == Stays(p) \/ Enters(p)

LEMMA SameMode == ASSUME NEW p \in Peers, mode'[p] = mode[p] PROVE Stays(p)
  BY DEF Stays, Shrinks

\* Nobody is admitted, and nobody kicked, where a party was left or entered.
LEMMA Emptied ==
    ASSUME NEW p \in Peers, Leaves(p) \/ Enters(p)
    PROVE  mode'[p].auth = {} /\ mode'[p].kicked = {}
  BY DEF Leaves, Enters, NoMode, HostMode, GuestMode

LEMMA LeaveRoster ==
    ASSUME TypeOK, NEW p \in Peers, NEW r \in Peers, NEW wire, NEW notices,
           LeaveCurrentLobby(p, wire, notices)
    PROVE  Stays(r)
<1>1. mode' = [mode EXCEPT ![p] = NoMode] \/ mode' = mode
  BY DEF LeaveCurrentLobby
<1>2. mode'[r] = NoMode \/ mode'[r] = mode[r]
  BY <1>1 DEF TypeOK
<1>. QED  BY <1>2, SameMode DEF Stays, Leaves

LEMMA DropRoster ==
    ASSUME TypeOK, NEW p \in Peers, NEW q \in Peers, NEW r \in Peers, NEW kicked, NEW wire,
           DropPeer(p, q, kicked, wire)
    PROVE  Stays(r)
<1>1. CASE mode[p].kind = "host" /\ q \in mode[p].auth
  <2>. DEFINE rest == mode[p].auth \ {q}
              K == IF kicked THEN mode[p].kicked \cup {q} ELSE mode[p].kicked
  <2>1. mode' = [mode EXCEPT ![p].auth = rest, ![p].kicked = K]
    BY <1>1 DEF DropPeer, TypeOK
  <2>2. CASE r # p
    BY <2>1, <2>2, SameMode DEF TypeOK
  <2>3. CASE r = p
    <3>1. mode[p] \in [kind : {"host"}, party : Parties, auth : SUBSET Peers,
                       kicked : SUBSET Peers]
      BY <1>1 DEF TypeOK, Mode, NoMode, GuestMode
    <3>2. /\ mode'[p].kind = mode[p].kind
          /\ mode'[p].party = mode[p].party
          /\ mode'[p].auth = rest
          /\ mode'[p].kicked = K
      BY <2>1, <3>1 DEF TypeOK
    <3>. QED  BY <1>1, <2>3, <3>2 DEF Stays, Shrinks
  <2>. QED  BY <2>2, <2>3
<1>2. CASE ~(mode[p].kind = "host" /\ q \in mode[p].auth)
  BY <1>2, SameMode DEF DropPeer
<1>. QED  BY <1>1, <1>2

LEMMA ReceiveRoster ==
    ASSUME TypeOK, NEW p \in Peers, NEW q \in Peers, NEW r \in Peers, Receive(p, q)
    PROVE  Stays(r)
<1>. DEFINE m == Head(net[q][p])
            wire == Taken(q, p)
<1>1. CASE UNCHANGED mode
  BY <1>1, SameMode
<1>2. CASE m.type = "hello" /\ mode[p].kind = "host" /\ HandleHello(p, q, m, wire)
  <2>1. CASE Refused(p, q, m)
    BY <1>1, <1>2, <2>1 DEF HandleHello, shell
  <2>2. CASE ~Refused(p, q, m)
    <3>1. mode' = [mode EXCEPT ![p].auth = mode[p].auth \cup {q}]
      BY <1>2, <2>2 DEF HandleHello
    <3>2. CASE r # p
      BY <3>1, <3>2, SameMode DEF TypeOK
    <3>3. CASE r = p
      <4>1. mode[p] \in [kind : {"host"}, party : Parties, auth : SUBSET Peers,
                         kicked : SUBSET Peers]
        BY <1>2 DEF TypeOK, Mode, NoMode, GuestMode
      <4>2. /\ mode'[p].kind = mode[p].kind
            /\ mode'[p].party = mode[p].party
            /\ mode'[p].auth = mode[p].auth \cup {q}
            /\ mode'[p].kicked = mode[p].kicked
        BY <3>1, <4>1 DEF TypeOK
      <4>3. net[q][p] # <<>>
        BY DEF Receive
      <4>. QED  BY <1>2, <2>2, <3>3, <4>2, <4>3 DEF Stays, Admits
    <3>. QED  BY <3>2, <3>3
  <2>. QED  BY <2>1, <2>2
<1>3. CASE HandlePeerLeft(p, q, wire)
  BY <1>3, DropRoster DEF HandlePeerLeft
<1>4. CASE LeaveCurrentLobby(p, wire, chat)
  BY <1>4, LeaveRoster
<1>5. CASE mode[p].kind = "host" /\ HandleHostIncoming(p, q, m, wire)
  BY <1>1, <1>2, <1>3, <1>5 DEF HandleHostIncoming, shell
<1>6. CASE HandleGuestIncoming(p, m, wire)
  BY <1>1, <1>4, <1>6 DEF HandleGuestIncoming, shell
<1>. QED  BY <1>1, <1>5, <1>6 DEF Receive, shell

LEMMA EveryRosterStep ==
    ASSUME TypeOK, [Next]_vars, NEW r \in Peers
    PROVE  RosterStep(r)
<1>1. CASE UNCHANGED mode
  BY <1>1, SameMode DEF RosterStep
<1>2. CASE UNCHANGED vars
  BY <1>1, <1>2 DEF vars, shell
<1>3. ASSUME NEW p \in Peers, UserStep(p) \/ ThreadStep(p)
      PROVE  RosterStep(r)
  <2>1. UNCHANGED mode
    BY <1>3 DEF UserStep, OnStartWatchParty, OnEndWatchParty, OnLeaveWatchParty, OnKick,
                ConnectToHost, ThreadStep, FinishStart, StartTimesOut, SendJoin, JoinTimesOut,
                shell
  <2>. QED  BY <1>1, <2>1
<1>4. ASSUME NEW p \in Peers, HandleCommand(p)
      PROVE  RosterStep(r)
  <2>. DEFINE c == Head(cmdq[p])
  <2>1. \/ LeaveCurrentLobby(p, net, chat)
        \/ c.op = "Kick" /\ KickAuthorizedPeer(p, c.peer)
    BY <1>4 DEF HandleCommand
  <2>2. c \in Command
    BY <1>4, QueueTypes DEF HandleCommand
  <2>3. c.op = "Kick" => c.peer \in Peers
    BY <2>2 DEF Command
  <2>. QED  BY <2>1, <2>3, LeaveRoster, DropRoster DEF KickAuthorizedPeer, RosterStep
<1>5. ASSUME NEW p \in Peers, HandleEvent(p)
      PROVE  RosterStep(r)
  <2>. DEFINE e == Head(evq[p])
  <2>1. e \in Event
    BY <1>5, QueueTypes DEF HandleEvent
  <2>2. CASE \/ e.type = "created" /\ HostLobbyCreated(p, e.party)
             \/ e.type = "joined" /\ GuestLobbyJoined(p, e.party)
    <3>1. \/ e.type = "created" /\ mode' = [mode EXCEPT ![p] = HostMode(e.party)]
          \/ e.type = "joined" /\ mode' = [mode EXCEPT ![p] = GuestMode(e.party)]
      BY <2>2 DEF HostLobbyCreated, GuestLobbyJoined
    <3>2. CASE r = p
      <4>1. \/ e.type = "created" /\ mode'[p] = HostMode(e.party)
            \/ e.type = "joined" /\ mode'[p] = GuestMode(e.party)
        BY <3>1 DEF TypeOK
      <4>2. evq[p] # <<>>
        BY <1>5 DEF HandleEvent
      <4>. QED  BY <3>2, <4>1, <4>2 DEF RosterStep, Enters
    <3>3. CASE r # p
      <4>1. mode'[r] = mode[r]
        BY <3>1, <3>3 DEF TypeOK
      <4>. QED  BY <4>1, SameMode DEF RosterStep
    <3>. QED  BY <3>2, <3>3
  <2>3. CASE HostLobbyFailed(p, e.party) \/ GuestLobbyFailed(p, e.party)
    BY <1>1, <2>3 DEF HostLobbyFailed, GuestLobbyFailed
  <2>4. CASE e.type = "sessionFailed" /\ SessionFailed(p, e.peer)
    <3>1. e.peer \in Peers
      BY <2>1, <2>4 DEF Event
    <3>. QED  BY <2>4, <3>1, DropRoster DEF SessionFailed, HandlePeerLeft, RosterStep
  <2>. QED  BY <1>5, <2>2, <2>3, <2>4 DEF HandleEvent
<1>6. ASSUME NEW p \in Peers, HandleLobbyChatUpdate(p)
      PROVE  RosterStep(r)
  <2>1. PICK n \in chat[p] :
          \/ HandlePeerLeft(p, n[2], net)
          \/ LeaveCurrentLobby(p, net, [chat EXCEPT ![p] = @ \ {n}])
          \/ UNCHANGED mode
    BY <1>6 DEF HandleLobbyChatUpdate, shell
  <2>2. n[2] \in Peers
    BY DEF TypeOK
  <2>. QED  BY <1>1, <2>1, <2>2, LeaveRoster, DropRoster DEF HandlePeerLeft, RosterStep
<1>7. ASSUME NEW p \in Peers, NEW q \in Peers, Receive(p, q)
      PROVE  RosterStep(r)
  BY <1>7, ReceiveRoster DEF RosterStep
<1>8. ASSUME NEW p \in Peers, NEW q \in Peers, SessionRequest(p, q)
      PROVE  RosterStep(r)
  BY <1>1, <1>8 DEF SessionRequest, shell
<1>9. ASSUME NEW p \in Peers, SteamAnswers(p)
      PROVE  RosterStep(r)
  BY <1>1, <1>9 DEF SteamAnswers, shell
<1>10. ASSUME NEW p \in Peers, Failure(p)
       PROVE  RosterStep(r)
  <2>1. UNCHANGED mode \/ mode' = [mode EXCEPT ![p] = NoMode]
    BY <1>10 DEF Failure, SessionBreak, Crash, shell
  <2>2. mode'[r] = NoMode \/ mode'[r] = mode[r]
    BY <2>1 DEF TypeOK
  <2>. QED  BY <2>2, SameMode DEF RosterStep, Stays, Leaves
<1>. QED  BY <1>2, <1>3, <1>4, <1>5, <1>6, <1>7, <1>8, <1>9, <1>10 DEF Next, RuntimeStep

-----------------------------------------------------------------------------
(* The size of a party.                                                      *)

LEMMA FiniteRoster ==
    ASSUME NEW S \in SUBSET Peers
    PROVE  IsFiniteSet(S) /\ Cardinality(S) \in Nat
  BY PeersAssumption, FS_Subset, FS_CardinalityType

LEMMA AddOne ==
    ASSUME NEW S, NEW x, IsFiniteSet(S)
    PROVE  /\ IsFiniteSet(S \cup {x})
           /\ Cardinality(S \cup {x}) \in Nat
           /\ Cardinality(S \cup {x}) <= Cardinality(S) + 1
<1>1. /\ IsFiniteSet(S \cup {x})
      /\ \/ Cardinality(S \cup {x}) = Cardinality(S)
         \/ Cardinality(S \cup {x}) = Cardinality(S) + 1
  BY FS_AddElement
<1>2. Cardinality(S) \in Nat
  BY FS_CardinalityType
<1>. QED  BY <1>1, <1>2

LEMMA RosterLimitInit == Init => RosterWithinLimit
<1>. SUFFICES ASSUME Init, NEW p \in Peers
              PROVE  Cardinality(mode[p].auth \cup {p}) <= MaxSize
  BY DEF RosterWithinLimit
<1>1. mode[p].auth \cup {p} = {p}
  BY DEF Init, NoMode
<1>2. Cardinality({p}) = 1
  BY FS_Singleton
<1>. QED  BY <1>1, <1>2, MaxSizeAssumption

LEMMA RosterLimitStep ==
    ASSUME TypeOK, RosterWithinLimit, [Next]_vars
    PROVE  RosterWithinLimit'
<1>. SUFFICES ASSUME NEW p \in Peers
              PROVE  Cardinality(mode'[p].auth \cup {p}) <= MaxSize
  BY DEF RosterWithinLimit
<1>. DEFINE old == mode[p].auth \cup {p}
            new == mode'[p].auth \cup {p}
<1>1. mode[p].auth \in SUBSET Peers
  BY ModeKinds
<1>2. Cardinality(old) <= MaxSize /\ Cardinality(old) \in Nat /\ MaxSize \in Nat
  BY <1>1, FiniteRoster, MaxSizeAssumption DEF RosterWithinLimit
<1>3. CASE mode'[p].auth \subseteq mode[p].auth
  <2>1. new \subseteq old /\ IsFiniteSet(old)
    BY <1>1, <1>3, FiniteRoster
  <2>2. Cardinality(new) <= Cardinality(old) /\ Cardinality(new) \in Nat
    BY <2>1, FS_Subset, FS_CardinalityType
  <2>. QED  BY <1>2, <2>2
<1>4. ASSUME NEW q \in Peers, Admits(p, q)
      PROVE  Cardinality(new) <= MaxSize
  <2>. DEFINE A == mode[p].auth
              B == A \cup {q}
  <2>1. Cardinality(A) \in Nat /\ IsFiniteSet(A)
    BY <1>1, FiniteRoster
  <2>2. ~(Cardinality(A) + 1 >= MaxSize)
    BY <1>4 DEF Admits, Refused
  <2>3. IsFiniteSet(B) /\ Cardinality(B) \in Nat /\ Cardinality(B) <= Cardinality(A) + 1
    BY <2>1, AddOne
  <2>4. /\ Cardinality(B \cup {p}) \in Nat
        /\ Cardinality(B \cup {p}) <= Cardinality(B) + 1
    BY <2>3, AddOne
  <2>5. Cardinality(B \cup {p}) <= MaxSize
    BY <1>2, <2>1, <2>2, <2>3, <2>4
  <2>. QED  BY <1>4, <2>5 DEF Admits
<1>. QED  BY <1>3, <1>4, EveryRosterStep, Emptied DEF RosterStep, Stays, Shrinks

\* No party outgrows lobby_max_size, whoever comes and goes in whatever order.
THEOREM RosterLimit == Spec => []RosterWithinLimit
<1>1. Init => RosterWithinLimit
  BY RosterLimitInit
<1>2. TypeOK /\ RosterWithinLimit /\ [Next]_vars => RosterWithinLimit'
  BY RosterLimitStep
<1>. QED  BY <1>1, <1>2, Typing, PTL DEF Spec

-----------------------------------------------------------------------------
(* Who is admitted.  A hello carries a party whose secret its sender has     *)
(* used, because the secret goes from the joining thread through the command *)
(* queue, Steam's call and the event queue into the hello.                   *)

NetHeld == \A a, b \in Peers : \A i \in DOMAIN net[a][b] :
             net[a][b][i].type = "hello" => net[a][b][i].party \in held[a]
EvqHeld == \A p \in Peers : \A i \in DOMAIN evq[p] :
             evq[p][i].type = "joined" => evq[p][i].party \in held[p]
CallsHeld == \A p \in Peers : \A i \in DOMAIN calls[p] :
             calls[p][i].op = "join" => calls[p][i].party \in held[p]
CmdqHeld == \A p \in Peers : \A i \in DOMAIN cmdq[p] :
             cmdq[p][i].op = "JoinHost" => cmdq[p][i].party \in held[p]
JoinerHeld == \A p \in Peers : joiner[p].state = "marked" => joiner[p].party \in held[p]

Invited == OnlyInvited /\ NetHeld /\ EvqHeld /\ CallsHeld /\ CmdqHeld /\ JoinerHeld

\* Nobody unlearns a secret.
LEMMA HeldGrows ==
    ASSUME TypeOK, [Next]_vars, NEW p \in Peers
    PROVE  held[p] \subseteq held'[p]
<1>1. CASE UNCHANGED vars
  BY <1>1 DEF vars, secrets
<1>2. ASSUME NEW q \in Peers,
             UserStep(q) \/ ThreadStep(q) \/ RuntimeStep(q) \/ SteamAnswers(q) \/ Failure(q)
      PROVE  held[p] \subseteq held'[p]
  <2>1. \/ UNCHANGED held
        \/ \E k \in known : held' = [held EXCEPT ![q] = @ \cup {k}]
    BY <1>2 DEF UserStep, OnStartWatchParty, OnEndWatchParty, OnLeaveWatchParty, OnKick,
       ConnectToHost, ThreadStep, FinishStart, StartTimesOut, SendJoin, JoinTimesOut,
       RuntimeStep, HandleCommand, HandleEvent, HandleLobbyChatUpdate, Receive,
       SessionRequest, SteamAnswers, Failure, SessionBreak, Crash, secrets
  <2>. QED  BY <2>1 DEF TypeOK
<1>. QED  BY <1>1, <1>2 DEF Next

\* An element of a queue that has lost its head, or got a new last element,
\* was there before or is the new one.
LEMMA TailElements ==
    ASSUME NEW S, NEW s \in Seq(S), s # <<>>
    PROVE  \A i \in DOMAIN Tail(s) : \E j \in DOMAIN s : Tail(s)[i] = s[j]
<1>. SUFFICES ASSUME NEW i \in DOMAIN Tail(s) PROVE \E j \in DOMAIN s : Tail(s)[i] = s[j]
  OBVIOUS
<1>1. i + 1 \in DOMAIN s /\ Tail(s)[i] = s[i + 1]
  OBVIOUS
<1>. QED  BY <1>1

LEMMA AppendElements ==
    ASSUME NEW S, NEW s \in Seq(S), NEW x \in S
    PROVE  \A i \in DOMAIN Append(s, x) :
             Append(s, x)[i] = x \/ \E j \in DOMAIN s : Append(s, x)[i] = s[j]
  OBVIOUS

LEMMA HeadElement ==
    ASSUME NEW S, NEW s \in Seq(S), s # <<>>
    PROVE  1 \in DOMAIN s /\ Head(s) = s[1]
  OBVIOUS

LEMMA ConcatElements ==
    ASSUME NEW S, NEW s \in Seq(S), NEW t \in Seq(S)
    PROVE  \A i \in DOMAIN (s \o t) : \/ \E j \in DOMAIN s : (s \o t)[i] = s[j]
                                      \/ \E j \in DOMAIN t : (s \o t)[i] = t[j]
<1>. SUFFICES ASSUME NEW i \in DOMAIN (s \o t)
              PROVE  \/ \E j \in DOMAIN s : (s \o t)[i] = s[j]
                     \/ \E j \in DOMAIN t : (s \o t)[i] = t[j]
  OBVIOUS
<1>1. CASE i <= Len(s)
  <2>1. i \in DOMAIN s /\ (s \o t)[i] = s[i]
    BY <1>1
  <2>. QED  BY <2>1
<1>2. CASE ~(i <= Len(s))
  <2>1. i - Len(s) \in DOMAIN t /\ (s \o t)[i] = t[i - Len(s)]
    BY <1>2
  <2>. QED  BY <2>1
<1>. QED  BY <1>1, <1>2

\* On the network `n' are messages of `net', and hellos that `hd' vouches for.
FromNet(n) == \A a, b \in Peers : \A i \in DOMAIN n[a][b] :
    \E j \in DOMAIN net[a][b] : n[a][b][i] = net[a][b][j]
Vouched(out, hd) == \A b \in Peers : \A i \in DOMAIN out[b] :
    out[b][i].type = "hello" => out[b][i].party \in hd
AllVouched(n) == \A a, b \in Peers : \A i \in DOMAIN n[a][b] :
    n[a][b][i].type = "hello" => n[a][b][i].party \in held[a]

LEMMA TakenFromNet ==
    ASSUME TypeOK, NEW p \in Peers, NEW q \in Peers, net[q][p] # <<>>
    PROVE  FromNet(Taken(q, p))
<1>1. net[q][p] \in Seq(Msg)
  BY DEF TypeOK
<1>2. \A i \in DOMAIN Tail(net[q][p]) : \E j \in DOMAIN net[q][p] :
        Tail(net[q][p])[i] = net[q][p][j]
  BY <1>1, TailElements
<1>3. ASSUME NEW a \in Peers, NEW b \in Peers
      PROVE  Taken(q, p)[a][b] = IF a = q /\ b = p THEN Tail(net[q][p]) ELSE net[a][b]
  BY DEF Taken, TypeOK
<1>. QED  BY <1>2, <1>3 DEF FromNet

LEMMA SendVouched ==
    ASSUME NEW p \in Peers, NEW out \in MsgSeqs, NEW wire, NetType(wire), AllVouched(wire),
           Vouched(out, held[p]), Send(p, out, wire)
    PROVE  AllVouched(net')
<1>1. ASSUME NEW a \in Peers, NEW b \in Peers
      PROVE  net'[a][b] = IF a = p THEN wire[p][b] \o out[b] ELSE wire[a][b]
  BY DEF Send, NetType, MsgSeqs
<1>2. ASSUME NEW b \in Peers
      PROVE  \A i \in DOMAIN (wire[p][b] \o out[b]) :
               (wire[p][b] \o out[b])[i].type = "hello" =>
                 (wire[p][b] \o out[b])[i].party \in held[p]
  <2>. DEFINE s == wire[p][b]
              t == out[b]
  <2>1. s \in Seq(Msg) /\ t \in Seq(Msg)
    BY DEF NetType, MsgSeqs
  <2>2. /\ \A i \in DOMAIN s : s[i].type = "hello" => s[i].party \in held[p]
        /\ \A i \in DOMAIN t : t[i].type = "hello" => t[i].party \in held[p]
    BY DEF AllVouched, Vouched
  <2>. HIDE DEF s, t
  <2>3. \A i \in DOMAIN (s \o t) : \/ \E j \in DOMAIN s : (s \o t)[i] = s[j]
                                   \/ \E j \in DOMAIN t : (s \o t)[i] = t[j]
    BY <2>1, ConcatElements
  <2>4. \A i \in DOMAIN (s \o t) : (s \o t)[i].type = "hello" => (s \o t)[i].party \in held[p]
    BY <2>2, <2>3
  <2>. QED  BY <2>4 DEF s, t
<1>3. ASSUME NEW a \in Peers, NEW b \in Peers, NEW i \in DOMAIN net'[a][b],
             net'[a][b][i].type = "hello"
      PROVE  net'[a][b][i].party \in held[a]
  <2>1. CASE a = p
    BY <1>1, <1>2, <1>3, <2>1
  <2>2. CASE a # p
    BY <1>1, <1>3, <2>2 DEF AllVouched
  <2>. QED  BY <2>1, <2>2
<1>. QED  BY <1>3 DEF AllVouched

\* What a host or a leaving peer sends holds no hello.
LEMMA NoHellos ==
    ASSUME NEW hd
    PROVE  /\ \A S : \A m \in Msg : m.type # "hello" => Vouched(ToAll(S, m), hd)
           /\ \A r : \A m \in Msg : m.type # "hello" => Vouched(ToOne(r, <<m>>), hd)
           /\ Vouched(Nothing, hd)
  BY DEF Vouched, ToAll, ToOne, Nothing

LEMMA LeaveVouched ==
    ASSUME TypeOK, NEW p \in Peers, NEW wire, NetType(wire), AllVouched(wire), NEW notices,
           LeaveCurrentLobby(p, wire, notices)
    PROVE  AllVouched(net')
<1>1. CASE mode[p].kind = "host"
  <2>1. Send(p, ToAll(mode[p].auth, Plain("closed")), wire)
    BY <1>1 DEF LeaveCurrentLobby
  <2>2. Plain("closed") \in Msg /\ Plain("closed").type # "hello"
    BY PlainType DEF MsgTypes, Plain
  <2>3. ToAll(mode[p].auth, Plain("closed")) \in MsgSeqs
    BY <2>2, ToAllType
  <2>. QED  BY <2>1, <2>2, <2>3, NoHellos, SendVouched
<1>2. CASE mode[p].kind = "guest"
  <2>1. Send(p, ToOne(HostOf(mode[p].party), <<Plain("leave")>>), wire)
    BY <1>2 DEF LeaveCurrentLobby
  <2>2. Plain("leave") \in Msg /\ Plain("leave").type # "hello"
    BY PlainType DEF MsgTypes, Plain
  <2>3. <<Plain("leave")>> \in Seq(Msg)
    BY <2>2
  <2>4. ToOne(HostOf(mode[p].party), <<Plain("leave")>>) \in MsgSeqs
    BY <2>3, ToOneType
  <2>. QED  BY <2>1, <2>2, <2>4, NoHellos, SendVouched
<1>3. CASE mode[p].kind = "none"
  BY <1>3 DEF LeaveCurrentLobby
<1>. QED  BY <1>1, <1>2, <1>3, ModeKinds

LEMMA DropVouched ==
    ASSUME TypeOK, NEW p \in Peers, NEW q \in Peers, NEW kicked \in BOOLEAN,
           NEW wire, NetType(wire), AllVouched(wire), DropPeer(p, q, kicked, wire)
    PROVE  AllVouched(net')
<1>1. CASE mode[p].kind = "host" /\ q \in mode[p].auth
  <2>. DEFINE rest == mode[p].auth \ {q}
              info == LobbyInfo(rest \cup {p})
              told == ToAll(rest, info)
              out == IF kicked THEN [told EXCEPT ![q] = <<Plain("closed")>>] ELSE told
  <2>1. Send(p, out, wire)
    BY <1>1 DEF DropPeer
  <2>2. info \in Msg /\ info.type # "hello"
    BY InfoType, ModeKinds DEF LobbyInfo
  <2>3. told \in MsgSeqs /\ Vouched(told, held[p])
    BY <2>2, ToAllType, NoHellos
  <2>4. Plain("closed") \in Msg /\ Plain("closed").type # "hello"
    BY PlainType DEF MsgTypes, Plain
  <2>. HIDE DEF told, info
  <2>5. out \in MsgSeqs
    BY <2>3, <2>4 DEF MsgSeqs
  <2>6. Vouched(out, held[p])
    BY <2>3, <2>4 DEF Vouched, MsgSeqs
  <2>. QED  BY <2>1, <2>5, <2>6, SendVouched
<1>2. CASE ~(mode[p].kind = "host" /\ q \in mode[p].auth)
  BY <1>2 DEF DropPeer
<1>. QED  BY <1>1, <1>2

LEMMA ReceiveVouched ==
    ASSUME TypeOK, NetHeld, NEW p \in Peers, NEW q \in Peers, Receive(p, q)
    PROVE  AllVouched(net')
<1>. DEFINE m == Head(net[q][p])
            wire == Taken(q, p)
            roster == mode[p].auth \cup {p}
            more == mode[p].auth \cup {q}
<1>1. NetType(wire) /\ FromNet(wire)
  BY TakenType, TakenFromNet DEF Receive
<1>2. AllVouched(wire)
  BY <1>1 DEF FromNet, AllVouched, NetHeld
<1>3. roster \in SUBSET Peers /\ more \cup {p} \in SUBSET Peers
  BY ModeKinds
<1>. HIDE DEF wire, m
<1>4. ASSUME NEW x \in Msg, x.type # "hello", NEW S,
             \/ Send(p, ToAll(S, x), wire)
             \/ Send(p, ToOne(q, <<x>>), wire)
      PROVE  AllVouched(net')
  <2>0. <<x>> \in Seq(Msg)
    OBVIOUS
  <2>1. ToAll(S, x) \in MsgSeqs /\ ToOne(q, <<x>>) \in MsgSeqs
    BY <2>0, ToAllType, ToOneType
  <2>2. Vouched(ToAll(S, x), held[p]) /\ Vouched(ToOne(q, <<x>>), held[p])
    BY <1>4, NoHellos
  <2>. QED  BY <1>1, <1>2, <1>4, <2>1, <2>2, SendVouched
<1>5. CASE Send(p, Nothing, wire)
  BY <1>1, <1>2, <1>5, NothingType, NoHellos, SendVouched
<1>6. CASE HandlePeerLeft(p, q, wire)
  BY <1>1, <1>2, <1>6, DropVouched DEF HandlePeerLeft
<1>7. CASE LeaveCurrentLobby(p, wire, chat)
  BY <1>1, <1>2, <1>7, LeaveVouched
<1>8. CASE HandleHello(p, q, m, wire)
  <2>1. \/ Send(p, ToOne(q, <<Plain("error")>>), wire)
        \/ Send(p, ToAll(more, LobbyInfo(more \cup {p})), wire)
    BY <1>8 DEF HandleHello
  <2>2. Plain("error") \in Msg /\ Plain("error").type # "hello"
    BY PlainType DEF MsgTypes, Plain
  <2>3. LobbyInfo(more \cup {p}) \in Msg /\ LobbyInfo(more \cup {p}).type # "hello"
    BY <1>3, InfoType DEF LobbyInfo
  <2>. QED  BY <1>4, <2>1, <2>2, <2>3
<1>9. CASE Send(p, ToOne(q, <<LobbyInfo(roster)>>), wire)
  <2>1. LobbyInfo(roster) \in Msg /\ LobbyInfo(roster).type # "hello"
    BY <1>3, InfoType DEF LobbyInfo
  <2>. QED  BY <1>4, <1>9, <2>1
<1>10. CASE HandleHostIncoming(p, q, m, wire)
  BY <1>5, <1>6, <1>8, <1>9, <1>10 DEF HandleHostIncoming
<1>11. CASE HandleGuestIncoming(p, m, wire)
  BY <1>5, <1>7, <1>11 DEF HandleGuestIncoming
<1>. QED  BY <1>5, <1>10, <1>11 DEF Receive, m, wire

LEMMA NetHeldStep ==
    ASSUME TypeOK, Invited, [Next]_vars
    PROVE  AllVouched(net')
<1>1. NetType(net) /\ AllVouched(net)
  BY DEF TypeOK, NetType, MsgSeqs, Invited, NetHeld, AllVouched
<1>2. CASE UNCHANGED net
  BY <1>1, <1>2 DEF AllVouched
<1>3. ASSUME NEW p \in Peers, UserStep(p) \/ ThreadStep(p) \/ SteamAnswers(p)
      PROVE  AllVouched(net')
  <2>1. UNCHANGED net
    BY <1>3 DEF UserStep, OnStartWatchParty, OnEndWatchParty, OnLeaveWatchParty, OnKick,
       ConnectToHost, ThreadStep, FinishStart, StartTimesOut, SendJoin, JoinTimesOut,
       SteamAnswers, network
  <2>. QED  BY <1>2, <2>1
<1>4. ASSUME NEW p \in Peers, HandleCommand(p)
      PROVE  AllVouched(net')
  <2>. DEFINE c == Head(cmdq[p])
  <2>1. \/ LeaveCurrentLobby(p, net, chat)
        \/ c.op = "Kick" /\ KickAuthorizedPeer(p, c.peer)
    BY <1>4 DEF HandleCommand
  <2>2. c \in Command
    BY <1>4, QueueTypes DEF HandleCommand
  <2>3. c.op = "Kick" => c.peer \in Peers
    BY <2>2 DEF Command
  <2>. QED  BY <1>1, <2>1, <2>3, LeaveVouched, DropVouched DEF KickAuthorizedPeer
<1>5. ASSUME NEW p \in Peers, HandleEvent(p)
      PROVE  AllVouched(net')
  <2>. DEFINE e == Head(evq[p])
              k == e.party
  <2>1. e \in Event /\ evq[p] \in Seq(Event) /\ evq[p] # <<>>
    BY <1>5, QueueTypes DEF HandleEvent, TypeOK
  <2>2. CASE e.type = "joined" /\ GuestLobbyJoined(p, k)
    <3>1. k \in held[p]
      BY <2>1, <2>2, HeadElement DEF Invited, EvqHeld
    <3>2. k \in Parties
      BY <3>1 DEF TypeOK
    <3>. DEFINE out == ToOne(HostOf(k), <<Hello(k), Plain("request")>>)
    <3>3. <<Hello(k), Plain("request")>> \in Seq(Msg)
      BY <3>2, HelloType, PlainType DEF MsgTypes
    <3>4. out \in MsgSeqs
      BY <3>3, ToOneType
    <3>. HIDE DEF k
    <3>5. Hello(k).party \in held[p] /\ Plain("request").type # "hello"
      BY <3>1 DEF Hello, Plain
    <3>6. Vouched(out, held[p])
      BY <3>5 DEF Vouched, ToOne
    <3>7. Send(p, out, net)
      BY <2>2 DEF GuestLobbyJoined
    <3>. QED  BY <1>1, <3>4, <3>6, <3>7, SendVouched
  <2>3. CASE e.type = "sessionFailed" /\ SessionFailed(p, e.peer)
    <3>1. e.peer \in Peers
      BY <2>1, <2>3 DEF Event
    <3>. QED  BY <1>1, <2>3, <3>1, DropVouched DEF SessionFailed, HandlePeerLeft
  <2>4. CASE HostLobbyCreated(p, k) \/ HostLobbyFailed(p, k) \/ GuestLobbyFailed(p, k)
    BY <1>2, <2>4 DEF HostLobbyCreated, HostLobbyFailed, GuestLobbyFailed, network
  <2>. QED  BY <1>5, <2>2, <2>3, <2>4 DEF HandleEvent
<1>6. ASSUME NEW p \in Peers, HandleLobbyChatUpdate(p)
      PROVE  AllVouched(net')
  <2>1. PICK n \in chat[p] :
          \/ HandlePeerLeft(p, n[2], net)
          \/ LeaveCurrentLobby(p, net, [chat EXCEPT ![p] = @ \ {n}])
          \/ UNCHANGED net
    BY <1>6 DEF HandleLobbyChatUpdate, network
  <2>2. n[2] \in Peers
    BY DEF TypeOK
  <2>. QED  BY <1>1, <1>2, <2>1, <2>2, LeaveVouched, DropVouched DEF HandlePeerLeft
<1>7. ASSUME NEW p \in Peers, NEW q \in Peers, Receive(p, q)
      PROVE  AllVouched(net')
  BY <1>7, ReceiveVouched DEF Invited
<1>8. ASSUME NEW p \in Peers, NEW q \in Peers, SessionRequest(p, q)
      PROVE  AllVouched(net')
  <2>1. UNCHANGED net \/ net' = [net EXCEPT ![q][p] = <<>>]
    BY <1>8 DEF SessionRequest
  <2>2. \A a, b \in Peers : net'[a][b] = <<>> \/ net'[a][b] = net[a][b]
    BY <1>1, <2>1 DEF NetType, MsgSeqs
  <2>. QED  BY <1>1, <2>2 DEF AllVouched
<1>9. ASSUME NEW p \in Peers, Failure(p)
      PROVE  AllVouched(net')
  <2>1. \/ UNCHANGED net
        \/ \E q \in Peers : net' = [a \in Peers |-> [b \in Peers |->
                               IF {a, b} = {p, q} THEN <<>> ELSE net[a][b]]]
    BY <1>9 DEF Failure, Crash, SessionBreak
  <2>2. \A a, b \in Peers : net'[a][b] = <<>> \/ net'[a][b] = net[a][b]
    BY <2>1
  <2>. QED  BY <1>1, <2>2 DEF AllVouched
<1>10. CASE UNCHANGED vars
  BY <1>2, <1>10 DEF vars, network
<1>. QED  BY <1>3, <1>4, <1>5, <1>6, <1>7, <1>8, <1>9, <1>10 DEF Next, RuntimeStep

LEMMA EvqHeldStep ==
    ASSUME TypeOK, Invited, [Next]_vars, NEW p \in Peers, NEW i \in DOMAIN evq'[p],
           evq'[p][i].type = "joined"
    PROVE  evq'[p][i].party \in held[p]
<1>0. evq[p] \in Seq(Event) /\ calls[p] \in Seq(Call)
  BY DEF TypeOK
<1>1. CASE evq'[p] = evq[p]
  BY <1>1 DEF Invited, EvqHeld
<1>2. CASE evq[p] # <<>> /\ evq'[p] = Tail(evq[p])
  <2>1. \E j \in DOMAIN evq[p] : Tail(evq[p])[i] = evq[p][j]
    BY <1>0, <1>2, TailElements
  <2>. QED  BY <1>2, <2>1 DEF Invited, EvqHeld
<1>3. ASSUME NEW e \in Event, evq'[p] = Append(evq[p], e),
             e.type = "joined" => e.party \in held[p]
      PROVE  evq'[p][i].party \in held[p]
  <2>1. \/ Append(evq[p], e)[i] = e
        \/ \E j \in DOMAIN evq[p] : Append(evq[p], e)[i] = evq[p][j]
    BY <1>0, <1>3, AppendElements
  <2>. QED  BY <1>3, <2>1 DEF Invited, EvqHeld
<1>4. CASE evq'[p] = <<>>
  BY <1>4
<1>5. CASE UNCHANGED vars
  BY <1>1, <1>5 DEF vars, steam
<1>6. ASSUME NEW r \in Peers, UserStep(r) \/ ThreadStep(r) \/ HandleCommand(r)
                                \/ HandleLobbyChatUpdate(r)
      PROVE  evq'[p] = evq[p]
  BY <1>6 DEF UserStep, OnStartWatchParty, OnEndWatchParty, OnLeaveWatchParty, OnKick,
     ConnectToHost, ThreadStep, FinishStart, StartTimesOut, SendJoin, JoinTimesOut,
     HandleCommand, HandleLobbyChatUpdate, steam
<1>7. ASSUME NEW r \in Peers, HandleEvent(r)
      PROVE  evq'[p] = evq[p] \/ (evq[p] # <<>> /\ evq'[p] = Tail(evq[p]))
  BY <1>7 DEF HandleEvent, TypeOK
<1>8. ASSUME NEW r \in Peers, NEW q \in Peers, Receive(r, q)
      PROVE  evq'[p] = evq[p]
  BY <1>8 DEF Receive
<1>9. ASSUME NEW r \in Peers, NEW q \in Peers, SessionRequest(r, q)
      PROVE  evq'[p] = evq[p] \/ evq'[p] = Append(evq[p], Failed(r))
  BY <1>9 DEF SessionRequest, TypeOK
<1>10. ASSUME NEW r \in Peers, Failure(r)
       PROVE  evq'[p] = evq[p] \/ evq'[p] = <<>> \/ \E q \in Peers : evq'[p] = Append(evq[p], Failed(q))
  BY <1>10 DEF Failure, Crash, SessionBreak, TypeOK
<1>11. ASSUME NEW r \in Peers, SteamAnswers(r)
       PROVE  evq'[p][i].party \in held[p]
  <2>. DEFINE c == Head(calls[p])
  <2>1. CASE r # p
    BY <1>1, <1>11, <2>1 DEF SteamAnswers, Answer, TypeOK
  <2>2. CASE r = p
    <3>1. PICK t \in {"created", "createFailed", "joined", "joinFailed"} :
            /\ Answer(p, t, c.party)
            /\ t = "joined" => c.op = "join"
      BY <1>11, <2>2 DEF SteamAnswers
    <3>2. calls[p] # <<>> /\ c \in Call
      BY <1>11, <2>2, QueueTypes DEF SteamAnswers
    <3>3. c.op = "join" => c.party \in held[p]
      BY <1>0, <3>2, HeadElement DEF Invited, CallsHeld
    <3>. DEFINE e == [type |-> t, party |-> c.party]
    <3>4. e \in Event
      BY <3>2 DEF Event, Call
    <3>5. evq'[p] = Append(evq[p], e)
      BY <3>1 DEF Answer, TypeOK
    <3>6. e.type = "joined" => e.party \in held[p]
      BY <3>1, <3>3
    <3>. QED  BY <1>3, <3>4, <3>5, <3>6
  <2>. QED  BY <2>1, <2>2
<1>12. \A r \in Peers : Failed(r) \in Event /\ Failed(r).type # "joined"
  BY DEF Failed, Event
<1>. QED  BY <1>1, <1>2, <1>3, <1>4, <1>5, <1>6, <1>7, <1>8, <1>9, <1>10, <1>11, <1>12
          DEF Next, RuntimeStep

LEMMA CallsHeldStep ==
    ASSUME TypeOK, Invited, [Next]_vars, NEW p \in Peers, NEW i \in DOMAIN calls'[p],
           calls'[p][i].op = "join"
    PROVE  calls'[p][i].party \in held[p]
<1>0. cmdq[p] \in Seq(Command) /\ calls[p] \in Seq(Call)
  BY DEF TypeOK
<1>1. CASE calls'[p] = calls[p]
  BY <1>1 DEF Invited, CallsHeld
<1>2. CASE calls[p] # <<>> /\ calls'[p] = Tail(calls[p])
  <2>1. \E j \in DOMAIN calls[p] : Tail(calls[p])[i] = calls[p][j]
    BY <1>0, <1>2, TailElements
  <2>. QED  BY <1>2, <2>1 DEF Invited, CallsHeld
<1>3. CASE calls'[p] = <<>>
  BY <1>3
<1>4. CASE UNCHANGED vars
  BY <1>1, <1>4 DEF vars, steam
<1>5. ASSUME NEW r \in Peers, UserStep(r) \/ ThreadStep(r) \/ HandleEvent(r)
                                \/ HandleLobbyChatUpdate(r)
      PROVE  calls'[p] = calls[p]
  BY <1>5 DEF UserStep, OnStartWatchParty, OnEndWatchParty, OnLeaveWatchParty, OnKick,
     ConnectToHost, ThreadStep, FinishStart, StartTimesOut, SendJoin, JoinTimesOut,
     HandleEvent, HandleLobbyChatUpdate, steam
<1>6. ASSUME NEW r \in Peers, SteamAnswers(r)
      PROVE  calls'[p] = calls[p] \/ (calls[p] # <<>> /\ calls'[p] = Tail(calls[p]))
  BY <1>6 DEF SteamAnswers, TypeOK
<1>7. ASSUME NEW r \in Peers, NEW q \in Peers, Receive(r, q) \/ SessionRequest(r, q)
      PROVE  calls'[p] = calls[p]
  BY <1>7 DEF Receive, SessionRequest
<1>8. ASSUME NEW r \in Peers, Failure(r)
      PROVE  calls'[p] = calls[p] \/ calls'[p] = <<>>
  BY <1>8 DEF Failure, Crash, SessionBreak, TypeOK
<1>9. ASSUME NEW r \in Peers, HandleCommand(r)
      PROVE  calls'[p][i].party \in held[p]
  <2>. DEFINE c == Head(cmdq[p])
              d == [op |-> IF c.op = "StartHost" THEN "create" ELSE "join", party |-> c.party]
  <2>1. \/ UNCHANGED calls
        \/ r # p /\ calls'[p] = calls[p]
        \/ r = p /\ c.op \in {"StartHost", "JoinHost"} /\ calls'[p] = Append(calls[p], d)
    BY <1>9 DEF HandleCommand, TypeOK
  <2>2. CASE r = p /\ c.op \in {"StartHost", "JoinHost"} /\ calls'[p] = Append(calls[p], d)
    <3>1. cmdq[p] # <<>> /\ c \in Command
      BY <1>9, <2>2, QueueTypes DEF HandleCommand
    <3>2. d.op = "join" => d.party \in held[p]
      BY <1>0, <2>2, <3>1, HeadElement DEF Invited, CmdqHeld
    <3>3. d \in Call
      BY <2>2, <3>1 DEF Call, Command
    <3>. HIDE DEF d
    <3>4. \/ Append(calls[p], d)[i] = d
          \/ \E j \in DOMAIN calls[p] : Append(calls[p], d)[i] = calls[p][j]
      BY <1>0, <2>2, <3>3, AppendElements
    <3>. QED  BY <2>2, <3>2, <3>4 DEF Invited, CallsHeld
  <2>. QED  BY <1>1, <2>1, <2>2
<1>. QED  BY <1>1, <1>2, <1>3, <1>4, <1>5, <1>6, <1>7, <1>8, <1>9 DEF Next, RuntimeStep

LEMMA CmdqHeldStep ==
    ASSUME TypeOK, Invited, [Next]_vars, NEW p \in Peers, NEW i \in DOMAIN cmdq'[p],
           cmdq'[p][i].op = "JoinHost"
    PROVE  cmdq'[p][i].party \in held[p]
<1>0. cmdq[p] \in Seq(Command)
  BY DEF TypeOK
<1>1. CASE cmdq'[p] = cmdq[p]
  BY <1>1 DEF Invited, CmdqHeld
<1>2. CASE cmdq[p] # <<>> /\ cmdq'[p] = Tail(cmdq[p])
  <2>1. \E j \in DOMAIN cmdq[p] : Tail(cmdq[p])[i] = cmdq[p][j]
    BY <1>0, <1>2, TailElements
  <2>. QED  BY <1>2, <2>1 DEF Invited, CmdqHeld
<1>3. CASE cmdq'[p] = <<>>
  BY <1>3
<1>4. ASSUME NEW c, cmdq'[p] = Append(cmdq[p], c), c.op = "JoinHost" => c.party \in held[p]
      PROVE  cmdq'[p][i].party \in held[p]
  <2>1. \/ Append(cmdq[p], c)[i] = c
        \/ \E j \in DOMAIN cmdq[p] : Append(cmdq[p], c)[i] = cmdq[p][j]
    BY <1>0, <1>4
  <2>. QED  BY <1>4, <2>1 DEF Invited, CmdqHeld
<1>5. CASE UNCHANGED vars
  BY <1>1, <1>5 DEF vars, threads
<1>6. ASSUME NEW r \in Peers, HandleCommand(r)
      PROVE  cmdq'[p] = cmdq[p] \/ (cmdq[p] # <<>> /\ cmdq'[p] = Tail(cmdq[p]))
  BY <1>6 DEF HandleCommand, TypeOK
<1>7. ASSUME NEW r \in Peers, UserStep(r)
      PROVE  \/ cmdq'[p] = cmdq[p]
             \/ \E c : cmdq'[p] = Append(cmdq[p], c) /\ c.op # "JoinHost"
  <2>1. \/ UNCHANGED cmdq
        \/ \E k : Enqueue(r, [op |-> "StartHost", party |-> k])
        \/ Enqueue(r, [op |-> "Leave"])
        \/ \E q \in Peers : Enqueue(r, [op |-> "Kick", peer |-> q])
    BY <1>7 DEF UserStep, OnStartWatchParty, OnEndWatchParty, OnLeaveWatchParty, OnKick,
                ConnectToHost
  <2>2. \A c : Enqueue(r, c) => cmdq'[p] = cmdq[p] \/ cmdq'[p] = Append(cmdq[p], c)
    BY DEF Enqueue, TypeOK
  <2>3. CASE \E k : Enqueue(r, [op |-> "StartHost", party |-> k])
    <3>1. PICK k : Enqueue(r, [op |-> "StartHost", party |-> k])
      BY <2>3
    <3>2. [op |-> "StartHost", party |-> k].op # "JoinHost"
      OBVIOUS
    <3>. QED  BY <2>2, <3>1, <3>2
  <2>4. CASE Enqueue(r, [op |-> "Leave"])
    <3>1. [op |-> "Leave"].op # "JoinHost"
      OBVIOUS
    <3>. QED  BY <2>2, <2>4, <3>1
  <2>5. CASE \E q \in Peers : Enqueue(r, [op |-> "Kick", peer |-> q])
    <3>1. PICK q \in Peers : Enqueue(r, [op |-> "Kick", peer |-> q])
      BY <2>5
    <3>2. [op |-> "Kick", peer |-> q].op # "JoinHost"
      OBVIOUS
    <3>. QED  BY <2>2, <3>1, <3>2
  <2>. QED  BY <2>1, <2>3, <2>4, <2>5
<1>8. ASSUME NEW r \in Peers, ThreadStep(r)
      PROVE  \/ cmdq'[p] = cmdq[p]
             \/ \E c : /\ cmdq'[p] = Append(cmdq[p], c)
                       /\ c.party \in held[p]
  <2>1. CASE SendJoin(r)
    <3>. DEFINE c == [op |-> "JoinHost", party |-> joiner[r].party]
    <3>1. cmdq'[p] = cmdq[p] \/ (r = p /\ cmdq'[p] = Append(cmdq[p], c))
      BY <2>1 DEF SendJoin, Enqueue, TypeOK
    <3>2. r = p => c.party \in held[p]
      BY <2>1 DEF SendJoin, Invited, JoinerHeld
    <3>. QED  BY <3>1, <3>2
  <2>2. CASE FinishStart(r) \/ StartTimesOut(r) \/ JoinTimesOut(r)
    BY <2>2 DEF FinishStart, StartTimesOut, JoinTimesOut
  <2>. QED  BY <1>8, <2>1, <2>2 DEF ThreadStep
<1>9. ASSUME NEW r \in Peers, HandleEvent(r) \/ HandleLobbyChatUpdate(r) \/ SteamAnswers(r)
      PROVE  cmdq'[p] = cmdq[p]
  BY <1>9 DEF HandleEvent, HandleLobbyChatUpdate, SteamAnswers, threads
<1>10. ASSUME NEW r \in Peers, NEW q \in Peers, Receive(r, q) \/ SessionRequest(r, q)
       PROVE  cmdq'[p] = cmdq[p]
  BY <1>10 DEF Receive, SessionRequest, threads
<1>11. ASSUME NEW r \in Peers, Failure(r)
       PROVE  cmdq'[p] = cmdq[p] \/ cmdq'[p] = <<>>
  BY <1>11 DEF Failure, Crash, SessionBreak, threads, TypeOK
<1>. QED  BY <1>1, <1>2, <1>3, <1>4, <1>5, <1>6, <1>7, <1>8, <1>9, <1>10, <1>11
          DEF Next, RuntimeStep

LEMMA JoinerHeldStep ==
    ASSUME TypeOK, Invited, [Next]_vars, NEW p \in Peers, joiner'[p].state = "marked"
    PROVE  joiner'[p].party \in held'[p]
<1>1. CASE joiner'[p] = joiner[p]
  BY <1>1, HeldGrows DEF Invited, JoinerHeld
<1>2. CASE UNCHANGED vars
  BY <1>1, <1>2 DEF vars, threads
<1>3. ASSUME NEW r \in Peers, UserStep(r)
      PROVE  \/ joiner'[p] = joiner[p]
             \/ \E k \in known : joiner'[p].party = k /\ k \in held'[p]
  <2>1. \/ UNCHANGED joiner
        \/ \E k \in known :
             /\ joiner' = [joiner EXCEPT ![r] = [state |-> "marked", party |-> k]]
             /\ held' = [held EXCEPT ![r] = @ \cup {k}]
    BY <1>3 DEF UserStep, OnStartWatchParty, OnEndWatchParty, OnLeaveWatchParty, OnKick,
                ConnectToHost
  <2>. QED  BY <2>1 DEF TypeOK
<1>4. ASSUME NEW r \in Peers, ThreadStep(r)
      PROVE  joiner'[p] = joiner[p]
  <2>1. joiner[p] \in Thread
    BY DEF TypeOK
  <2>2. \/ joiner'[p] = joiner[p]
        \/ joiner'[p] = [joiner[p] EXCEPT !.state = "waiting"] /\ joiner[p].state = "marked"
        \/ joiner'[p] = Idle
    BY <1>4 DEF ThreadStep, FinishStart, StartTimesOut, SendJoin, JoinTimesOut, TypeOK
  <2>. QED  BY <2>1, <2>2 DEF Thread, Idle
<1>5. ASSUME NEW r \in Peers, HandleEvent(r)
      PROVE  joiner'[p] = joiner[p]
  <2>1. joiner'[p] = joiner[p] \/ joiner'[p] = Idle
    BY <1>5 DEF HandleEvent, HostLobbyCreated, HostLobbyFailed, GuestLobbyJoined,
                GuestLobbyFailed, SessionFailed, JoinerReleased, TypeOK
  <2>. QED  BY <2>1 DEF Idle
<1>6. ASSUME NEW r \in Peers,
             HandleCommand(r) \/ HandleLobbyChatUpdate(r) \/ SteamAnswers(r)
      PROVE  joiner'[p] = joiner[p]
  BY <1>6 DEF HandleCommand, HandleLobbyChatUpdate, SteamAnswers, threads
<1>7. ASSUME NEW r \in Peers, NEW q \in Peers, Receive(r, q) \/ SessionRequest(r, q)
      PROVE  joiner'[p] = joiner[p]
  BY <1>7 DEF Receive, SessionRequest, threads
<1>8. ASSUME NEW r \in Peers, Failure(r)
      PROVE  joiner'[p] = joiner[p]
  <2>1. joiner'[p] = joiner[p] \/ joiner'[p] = Idle
    BY <1>8 DEF Failure, Crash, SessionBreak, threads, TypeOK
  <2>. QED  BY <2>1 DEF Idle
<1>. QED  BY <1>1, <1>2, <1>3, <1>4, <1>5, <1>6, <1>7, <1>8 DEF Next, RuntimeStep

LEMMA OnlyInvitedStep ==
    ASSUME TypeOK, Invited, [Next]_vars
    PROVE  OnlyInvited'
<1>. SUFFICES ASSUME NEW p \in Peers, NEW q \in Peers, q \in mode'[p].auth
              PROVE  mode'[p].party \in held'[q]
  BY DEF OnlyInvited
<1>1. held[q] \subseteq held'[q]
  BY HeldGrows
<1>2. CASE Leaves(p) \/ Enters(p)
  BY <1>2, Emptied
<1>3. CASE Shrinks(p)
  BY <1>1, <1>3 DEF Shrinks, Invited, OnlyInvited
<1>4. ASSUME NEW r \in Peers, Admits(p, r)
      PROVE  mode'[p].party \in held'[q]
  <2>1. CASE q \in mode[p].auth
    BY <1>1, <1>4, <2>1 DEF Admits, Invited, OnlyInvited
  <2>2. CASE q = r
    <3>. DEFINE m == Head(net[r][p])
    <3>1. m.type = "hello" /\ m.party = mode[p].party /\ net[r][p] # <<>>
      BY <1>4 DEF Admits, Refused
    <3>2. net[r][p] \in Seq(Msg)
      BY DEF TypeOK
    <3>3. m.party \in held[r]
      BY <3>1, <3>2, HeadElement DEF Invited, NetHeld
    <3>. QED  BY <1>1, <1>4, <2>2, <3>1, <3>3 DEF Admits
  <2>. QED  BY <1>4, <2>1, <2>2 DEF Admits
<1>. QED  BY <1>2, <1>3, <1>4, EveryRosterStep DEF RosterStep, Stays

\* Every command, call, event, message and mode that names a party which its sender has
\* joined was preceded by that party's secret, and a host's list is of its own party.
THEOREM InvitedAlways == Spec => []Invited
<1>1. Init => Invited
  BY DEF Init, Invited, OnlyInvited, NetHeld, EvqHeld, CallsHeld, CmdqHeld, JoinerHeld,
         NoMode, Idle
<1>2. TypeOK /\ Invited /\ [Next]_vars => Invited'
  <2>. SUFFICES ASSUME TypeOK, Invited, [Next]_vars PROVE Invited'
    OBVIOUS
  <2>1. \A p \in Peers : held[p] \subseteq held'[p]
    BY HeldGrows
  <2>2. NetHeld'
    BY <2>1, NetHeldStep DEF NetHeld, AllVouched
  <2>3. EvqHeld'
    BY <2>1, EvqHeldStep DEF EvqHeld
  <2>4. CallsHeld'
    BY <2>1, CallsHeldStep DEF CallsHeld
  <2>5. CmdqHeld'
    BY <2>1, CmdqHeldStep DEF CmdqHeld
  <2>6. JoinerHeld'
    BY JoinerHeldStep DEF JoinerHeld
  <2>. QED  BY <2>2, <2>3, <2>4, <2>5, <2>6, OnlyInvitedStep DEF Invited
<1>. QED  BY <1>1, <1>2, Typing, PTL DEF Spec

\* Whoever a host has admitted has used the secret of that very party.
THEOREM Invitation == Spec => []OnlyInvited
<1>1. Invited => OnlyInvited
  BY DEF Invited
<1>. QED  BY <1>1, InvitedAlways, PTL

-----------------------------------------------------------------------------
(* A party is made once.  On its way from the menu to the runtime a new      *)
(* party is in one place at a time: it has a number not yet used, or it is   *)
(* in a queued command, in a call, in the answer to the call, or hosted.     *)

Places == {"budget", "cmdq", "calls", "evq", "mode"}
StartCommands == [op : {"StartHost"}, party : Parties]
CreateCalls == [op : {"create"}, party : Parties]
CreateEvents == [type : {"created", "createFailed"}, party : Parties]

\* The elements of X in the queue s of p are about different parties of p, each of
\* them in the place w.
At(s, X, place, w, p) ==
    /\ \A i \in DOMAIN s : s[i] \in X => place[s[i].party] = w /\ HostOf(s[i].party) = p
    /\ \A i, j \in DOMAIN s : s[i] \in X /\ s[j] \in X /\ s[i].party = s[j].party => i = j

Placed(place) ==
    /\ place \in [Parties -> Places]
    /\ \A p \in Peers :
          /\ At(cmdq[p], StartCommands, place, "cmdq", p)
          /\ At(calls[p], CreateCalls, place, "calls", p)
          /\ At(evq[p], CreateEvents, place, "evq", p)
          /\ mode[p].kind = "host" => /\ place[mode[p].party] = "mode"
                                      /\ HostOf(mode[p].party) = p
          /\ ui[p].state = "replied" => /\ place[ui[p].party] = "mode"
                                        /\ HostOf(ui[p].party) = p
    /\ \A k \in Parties : /\ k[2] <= budget[HostOf(k)]["start"] => place[k] = "budget"
                          /\ lobby[k] # {} => place[k] \in {"evq", "mode"}
                          /\ k \in known => place[k] = "mode"

MadeOnce == \E place : Placed(place)

\* A queue that loses elements, or gets one that is not in X.
Thinner(t, s, X) ==
    \/ t = s
    \/ t = <<>>
    \/ s # <<>> /\ t = Tail(s)
    \/ \E x : x \notin X /\ t = Append(s, x)

LEMMA AtTail ==
    ASSUME NEW S, NEW s \in Seq(S), s # <<>>, NEW X, NEW place, NEW w, NEW p,
           At(s, X, place, w, p)
    PROVE  /\ At(Tail(s), X, place, w, p)
           /\ Head(s) \in X =>
                 /\ place[Head(s).party] = w /\ HostOf(Head(s).party) = p
                 /\ \A i \in DOMAIN Tail(s) :
                       Tail(s)[i] \in X => Tail(s)[i].party # Head(s).party
<1>1. /\ Len(s) \in Nat \ {0} /\ DOMAIN s = 1..Len(s)
      /\ DOMAIN Tail(s) = 1..(Len(s) - 1)
      /\ \A i \in 1..(Len(s) - 1) : i + 1 \in 1..Len(s) /\ Tail(s)[i] = s[i + 1]
      /\ Head(s) = s[1] /\ 1 \in 1..Len(s)
  OBVIOUS
<1>2. \A i, j \in 1..Len(s) : s[i] \in X /\ s[j] \in X /\ s[i].party = s[j].party => i = j
  BY <1>1 DEF At
<1>3. \A i \in 1..Len(s) : s[i] \in X => place[s[i].party] = w /\ HostOf(s[i].party) = p
  BY <1>1 DEF At
<1>4. ASSUME NEW i \in DOMAIN Tail(s), NEW j \in DOMAIN Tail(s),
             Tail(s)[i] \in X, Tail(s)[j] \in X, Tail(s)[i].party = Tail(s)[j].party
      PROVE  i = j
  <2>1. i + 1 = j + 1
    BY <1>1, <1>2, <1>4
  <2>. QED  BY <1>1, <2>1
<1>5. At(Tail(s), X, place, w, p)
  BY <1>1, <1>3, <1>4 DEF At
<1>6. ASSUME Head(s) \in X, NEW i \in DOMAIN Tail(s), Tail(s)[i] \in X,
             Tail(s)[i].party = Head(s).party
      PROVE  FALSE
  <2>1. i + 1 = 1
    BY <1>1, <1>2, <1>6
  <2>. QED  BY <1>1, <2>1
<1>. QED  BY <1>1, <1>3, <1>5, <1>6

LEMMA AtAppend ==
    ASSUME NEW S, NEW s \in Seq(S), NEW x, NEW X, NEW place, NEW w, NEW p,
           At(s, X, place, w, p),
           x \in X => /\ place[x.party] = w /\ HostOf(x.party) = p
                      /\ \A i \in DOMAIN s : s[i] \in X => s[i].party # x.party
    PROVE  At(Append(s, x), X, place, w, p)
<1>. DEFINE t == Append(s, x)
            n == Len(s)
<1>1. /\ n \in Nat /\ DOMAIN s = 1..n
      /\ DOMAIN t = 1..(n + 1) /\ t[n + 1] = x
      /\ \A i \in 1..n : t[i] = s[i]
  OBVIOUS
<1>. HIDE DEF t, n
<1>2. \A i \in 1..(n + 1) : i \in 1..n \/ i = n + 1
  BY <1>1
<1>3. \A i \in DOMAIN t : t[i] \in X => place[t[i].party] = w /\ HostOf(t[i].party) = p
  BY <1>1, <1>2 DEF At
<1>4. ASSUME NEW i \in DOMAIN t, NEW j \in DOMAIN t,
             t[i] \in X, t[j] \in X, t[i].party = t[j].party
      PROVE  i = j
  BY <1>1, <1>2, <1>4 DEF At
<1>. QED  BY <1>3, <1>4 DEF At, t

LEMMA AtEmpty ==
    ASSUME NEW X, NEW place, NEW w, NEW p
    PROVE  At(<<>>, X, place, w, p)
  BY DEF At

\* Another party may change its place.
LEMMA AtMoved ==
    ASSUME NEW s, NEW X, NEW place \in [Parties -> Places], NEW w, NEW p,
           NEW k \in Parties, NEW v \in Places, At(s, X, place, w, p),
           \A i \in DOMAIN s : s[i] \in X => s[i].party \in Parties \ {k}
    PROVE  At(s, X, [place EXCEPT ![k] = v], w, p)
  BY DEF At

LEMMA AtThinner ==
    ASSUME NEW S, NEW s \in Seq(S), NEW t, NEW X, NEW place, NEW w, NEW p,
           At(s, X, place, w, p), Thinner(t, s, X)
    PROVE  At(t, X, place, w, p)
<1>1. CASE s # <<>> /\ t = Tail(s)
  BY <1>1, AtTail
<1>2. ASSUME NEW x, x \notin X, t = Append(s, x)
      PROVE  At(t, X, place, w, p)
  BY <1>2, AtAppend
<1>. QED  BY <1>1, <1>2, AtEmpty DEF Thinner

LEMMA PartyNumber == ASSUME NEW k \in Parties PROVE k[2] \in Nat
  BY BudgetAssumption DEF Parties, Ops

\* A step that puts no party into another place.
LEMMA PlacedKept ==
    ASSUME TypeOK, NEW place, Placed(place),
           \A r \in Peers : /\ Thinner(cmdq'[r], cmdq[r], StartCommands)
                            /\ Thinner(calls'[r], calls[r], CreateCalls)
                            /\ Thinner(evq'[r], evq[r], CreateEvents)
                            /\ mode'[r].kind = "host" =>
                                  mode[r].kind = "host" /\ mode'[r].party = mode[r].party
                            /\ ui'[r].state = "replied" => ui'[r] = ui[r]
                            /\ budget'[r]["start"] \in Nat
                            /\ budget'[r]["start"] <= budget[r]["start"],
           \A k \in Parties : lobby[k] = {} => lobby'[k] = {},
           \A k \in known' : k \in known \/ \E r \in Peers : ui[r] = [state |-> "replied", party |-> k]
    PROVE  Placed(place)'
<1>1. ASSUME NEW r \in Peers
      PROVE  /\ At(cmdq'[r], StartCommands, place, "cmdq", r)
             /\ At(calls'[r], CreateCalls, place, "calls", r)
             /\ At(evq'[r], CreateEvents, place, "evq", r)
  <2>1. cmdq[r] \in Seq(Command) /\ calls[r] \in Seq(Call) /\ evq[r] \in Seq(Event)
    BY DEF TypeOK
  <2>. QED  BY <2>1, AtThinner DEF Placed
<1>2. ASSUME NEW k \in Parties, k[2] <= budget'[HostOf(k)]["start"]
      PROVE  place[k] = "budget"
  <2>1. HostOf(k) \in Peers
    BY HostIsPeer
  <2>2. k[2] \in Nat
    BY PartyNumber
  <2>3. budget[HostOf(k)]["start"] \in Nat
    BY <2>1 DEF TypeOK, Ops
  <2>4. k[2] <= budget[HostOf(k)]["start"]
    BY <1>2, <2>1, <2>2, <2>3
  <2>. QED  BY <2>4 DEF Placed
<1>3. ASSUME NEW k \in Parties, k \in known'
      PROVE  place[k] = "mode"
  <2>1. CASE k \in known
    BY <2>1 DEF Placed
  <2>2. ASSUME NEW r \in Peers, ui[r] = [state |-> "replied", party |-> k]
        PROVE  place[k] = "mode"
    <3>1. ui[r].state = "replied" /\ ui[r].party = k
      BY <2>2
    <3>. QED  BY <3>1 DEF Placed
  <2>. QED  BY <1>3, <2>1, <2>2
<1>4. ASSUME NEW r \in Peers
      PROVE  /\ mode'[r].kind = "host" => place[mode'[r].party] = "mode" /\ HostOf(mode'[r].party) = r
             /\ ui'[r].state = "replied" => place[ui'[r].party] = "mode" /\ HostOf(ui'[r].party) = r
  BY DEF Placed
<1>. QED  BY <1>1, <1>2, <1>3, <1>4 DEF Placed

\* One party changes its place, and what is not about it stays as it is.
LEMMA Elsewhere ==
    ASSUME TypeOK, NEW place, Placed(place), NEW k \in Parties, NEW v \in Places, NEW r \in Peers
    PROVE  LET moved == [place EXCEPT ![k] = v] IN
           /\ place[k] # "cmdq" \/ r # HostOf(k) => At(cmdq[r], StartCommands, moved, "cmdq", r)
           /\ place[k] # "calls" \/ r # HostOf(k) => At(calls[r], CreateCalls, moved, "calls", r)
           /\ place[k] # "evq" \/ r # HostOf(k) => At(evq[r], CreateEvents, moved, "evq", r)
           /\ place[k] # "mode" /\ mode[r].kind = "host" =>
                 moved[mode[r].party] = "mode" /\ HostOf(mode[r].party) = r
           /\ place[k] # "mode" /\ ui[r].state = "replied" =>
                 moved[ui[r].party] = "mode" /\ HostOf(ui[r].party) = r
<1>. DEFINE moved == [place EXCEPT ![k] = v]
<1>1. /\ place \in [Parties -> Places]
      /\ At(cmdq[r], StartCommands, place, "cmdq", r)
      /\ At(calls[r], CreateCalls, place, "calls", r)
      /\ At(evq[r], CreateEvents, place, "evq", r)
  BY DEF Placed
<1>2. ASSUME place[k] # "cmdq" \/ r # HostOf(k)
      PROVE  At(cmdq[r], StartCommands, moved, "cmdq", r)
  <2>1. \A i \in DOMAIN cmdq[r] : cmdq[r][i] \in StartCommands =>
             cmdq[r][i].party \in Parties \ {k}
    BY <1>1, <1>2 DEF At, StartCommands
  <2>. QED  BY <1>1, <2>1, AtMoved
<1>3. ASSUME place[k] # "calls" \/ r # HostOf(k)
      PROVE  At(calls[r], CreateCalls, moved, "calls", r)
  <2>1. \A i \in DOMAIN calls[r] : calls[r][i] \in CreateCalls =>
             calls[r][i].party \in Parties \ {k}
    BY <1>1, <1>3 DEF At, CreateCalls
  <2>. QED  BY <1>1, <2>1, AtMoved
<1>4. ASSUME place[k] # "evq" \/ r # HostOf(k)
      PROVE  At(evq[r], CreateEvents, moved, "evq", r)
  <2>1. \A i \in DOMAIN evq[r] : evq[r][i] \in CreateEvents =>
             evq[r][i].party \in Parties \ {k}
    BY <1>1, <1>4 DEF At, CreateEvents
  <2>. QED  BY <1>1, <2>1, AtMoved
<1>5. ASSUME place[k] # "mode", mode[r].kind = "host"
      PROVE  moved[mode[r].party] = "mode" /\ HostOf(mode[r].party) = r
  <2>1. mode[r].party \in Parties /\ place[mode[r].party] = "mode"
    BY <1>5, ModeKinds DEF Placed
  <2>. QED  BY <1>1, <1>5, <2>1 DEF Placed
<1>6. ASSUME place[k] # "mode", ui[r].state = "replied"
      PROVE  moved[ui[r].party] = "mode" /\ HostOf(ui[r].party) = r
  <2>1. ui[r].party \in Parties /\ place[ui[r].party] = "mode"
    BY <1>6 DEF Placed, TypeOK, Thread, Idle
  <2>. QED  BY <1>1, <1>6, <2>1 DEF Placed
<1>. QED  BY <1>2, <1>3, <1>4, <1>5, <1>6

\* The menu takes the next number.
LEMMA PlacedStart ==
    ASSUME TypeOK, NEW place, Placed(place), NEW p \in Peers, OnStartWatchParty(p)
    PROVE  MadeOnce'
<1>. DEFINE k == <<p, budget[p]["start"]>>
            c == [op |-> "StartHost", party |-> k]
            moved == [place EXCEPT ![k] = "cmdq"]
<1>1. /\ Spend(p, "start")
      /\ cmdq' = [cmdq EXCEPT ![p] = Append(@, c)]
      /\ ui' = [ui EXCEPT ![p] = [state |-> "waiting", party |-> k]]
      /\ UNCHANGED <<shell, steam, known>>
  BY DEF OnStartWatchParty, UserActs, Enqueue, secrets
<1>2. k \in Parties /\ HostOf(k) = p /\ k[2] = budget[p]["start"]
  BY <1>1, NextParty DEF Spend, HostOf
<1>3. budget[p]["start"] \in Nat
  BY DEF TypeOK, Ops
<1>4. place[k] = "budget" /\ place \in [Parties -> Places]
  BY <1>2, <1>3 DEF Placed
<1>. HIDE DEF k
<1>5. /\ moved \in [Parties -> Places] /\ moved[k] = "cmdq"
      /\ \A j \in Parties : j # k => moved[j] = place[j]
  BY <1>2, <1>4 DEF Places
<1>6. ASSUME NEW r \in Peers
      PROVE  /\ At(cmdq'[r], StartCommands, moved, "cmdq", r)
             /\ At(calls[r], CreateCalls, moved, "calls", r)
             /\ At(evq[r], CreateEvents, moved, "evq", r)
             /\ mode[r].kind = "host" => /\ moved[mode[r].party] = "mode"
                                         /\ HostOf(mode[r].party) = r
             /\ ui'[r].state = "replied" => /\ moved[ui'[r].party] = "mode"
                                            /\ HostOf(ui'[r].party) = r
  <2>0. "cmdq" \in Places
    BY DEF Places
  <2>1. /\ At(cmdq[r], StartCommands, moved, "cmdq", r)
        /\ At(calls[r], CreateCalls, moved, "calls", r)
        /\ At(evq[r], CreateEvents, moved, "evq", r)
        /\ mode[r].kind = "host" => moved[mode[r].party] = "mode" /\ HostOf(mode[r].party) = r
        /\ ui[r].state = "replied" => moved[ui[r].party] = "mode" /\ HostOf(ui[r].party) = r
    BY <1>2, <1>4, <2>0, Elsewhere
  <2>2. CASE r # p
    BY <1>1, <2>1, <2>2 DEF TypeOK
  <2>3. CASE r = p
    <3>1. cmdq[p] \in Seq(Command) /\ cmdq'[p] = Append(cmdq[p], c)
      BY <1>1 DEF TypeOK
    <3>2. \A i \in DOMAIN cmdq[p] : cmdq[p][i] \in StartCommands => cmdq[p][i].party # k
      BY <1>4 DEF Placed, At
    <3>3. c.party = k
      OBVIOUS
    <3>. HIDE DEF moved, c
    <3>4. At(Append(cmdq[p], c), StartCommands, moved, "cmdq", p)
      BY <1>2, <1>5, <2>1, <2>3, <3>1, <3>2, <3>3, AtAppend
    <3>5. ui'[p].state # "replied"
      BY <1>1 DEF TypeOK
    <3>. QED  BY <2>1, <2>3, <3>1, <3>4, <3>5
  <2>. QED  BY <2>2, <2>3
<1>7. ASSUME NEW j \in Parties
      PROVE  /\ j[2] <= budget'[HostOf(j)]["start"] => moved[j] = "budget"
             /\ lobby[j] # {} => moved[j] \in {"evq", "mode"}
             /\ j \in known => moved[j] = "mode"
  <2>0. HostOf(j) \in Peers
    BY HostIsPeer
  <2>1. j[2] \in Nat /\ budget[HostOf(j)]["start"] \in Nat
    BY <2>0, PartyNumber DEF TypeOK, Ops
  <2>2. budget'[HostOf(j)]["start"] =
           IF HostOf(j) = p THEN budget[p]["start"] - 1 ELSE budget[HostOf(j)]["start"]
    BY <1>1, <2>0 DEF Spend, TypeOK, Ops
  <2>3. CASE j = k
    BY <1>2, <1>3, <1>4, <2>2, <2>3 DEF Placed
  <2>4. CASE j # k
    BY <1>3, <1>5, <2>1, <2>2, <2>4 DEF Placed
  <2>. QED  BY <2>3, <2>4
<1>. HIDE DEF moved
<1>8. PICK made : made = moved
  OBVIOUS
<1>9. Placed(made)'
  BY <1>1, <1>5, <1>6, <1>7, <1>8 DEF Placed, shell, steam
<1>. QED  BY <1>9 DEF MadeOnce

\* Leaving a party puts none into another place.
LEMMA LeaveKeeps ==
    ASSUME TypeOK, NEW p \in Peers, NEW wire, NEW notices, LeaveCurrentLobby(p, wire, notices)
    PROVE  /\ \A r \in Peers : mode'[r] = mode[r] \/ mode'[r] = NoMode
           /\ \A k \in Parties : lobby'[k] \subseteq lobby[k]
<1>1. mode' = [mode EXCEPT ![p] = NoMode] \/ mode' = mode
  BY DEF LeaveCurrentLobby
<1>2. lobby' = lobby \/ \E k : lobby' = [lobby EXCEPT ![k] = @ \ {p}]
  BY DEF LeaveCurrentLobby, LeaveSteamLobby
<1>. QED  BY <1>1, <1>2 DEF TypeOK

\* The runtime asks Steam for a lobby.
LEMMA PlacedCommand ==
    ASSUME TypeOK, NEW place, Placed(place), NEW p \in Peers, HandleCommand(p),
           Head(cmdq[p]).op = "StartHost"
    PROVE  MadeOnce'
<1>. DEFINE k == Head(cmdq[p]).party
            d == [op |-> "create", party |-> k]
            moved == [place EXCEPT ![k] = "calls"]
<1>1. /\ cmdq' = [cmdq EXCEPT ![p] = Tail(@)] /\ cmdq[p] # <<>>
      /\ LeaveCurrentLobby(p, net, chat)
      /\ calls' = [calls EXCEPT ![p] = Append(@, d)]
      /\ UNCHANGED <<evq, budget, ui, known>>
  BY DEF HandleCommand, secrets
<1>2. cmdq[p] \in Seq(Command) /\ calls[p] \in Seq(Call) /\ Head(cmdq[p]) \in StartCommands
  BY <1>1, QueueTypes DEF TypeOK, Command, StartCommands
<1>3. /\ k \in Parties /\ place[k] = "cmdq" /\ HostOf(k) = p
      /\ place \in [Parties -> Places]
      /\ \A i \in DOMAIN Tail(cmdq[p]) :
            Tail(cmdq[p])[i] \in StartCommands => Tail(cmdq[p])[i].party # k
      /\ At(Tail(cmdq[p]), StartCommands, place, "cmdq", p)
  <2>1. At(cmdq[p], StartCommands, place, "cmdq", p)
    BY DEF Placed
  <2>2. /\ At(Tail(cmdq[p]), StartCommands, place, "cmdq", p)
        /\ Head(cmdq[p]) \in StartCommands =>
              /\ place[Head(cmdq[p]).party] = "cmdq" /\ HostOf(Head(cmdq[p]).party) = p
              /\ \A i \in DOMAIN Tail(cmdq[p]) :
                    Tail(cmdq[p])[i] \in StartCommands =>
                       Tail(cmdq[p])[i].party # Head(cmdq[p]).party
    BY <1>1, <1>2, <2>1, AtTail
  <2>3. k \in Parties
    BY <1>2 DEF StartCommands
  <2>. QED  BY <1>2, <2>2, <2>3 DEF Placed
<1>. HIDE DEF k
<1>4. /\ moved \in [Parties -> Places] /\ moved[k] = "calls" /\ "calls" \in Places
      /\ \A j \in Parties : j # k => moved[j] = place[j]
  BY <1>3 DEF Places
<1>5. ASSUME NEW r \in Peers
      PROVE  /\ At(cmdq'[r], StartCommands, moved, "cmdq", r)
             /\ At(calls'[r], CreateCalls, moved, "calls", r)
             /\ At(evq[r], CreateEvents, moved, "evq", r)
             /\ mode'[r].kind = "host" => /\ moved[mode'[r].party] = "mode"
                                          /\ HostOf(mode'[r].party) = r
             /\ ui[r].state = "replied" => /\ moved[ui[r].party] = "mode"
                                           /\ HostOf(ui[r].party) = r
  <2>0. k \in Parties /\ place[k] = "cmdq" /\ HostOf(k) = p /\ "calls" \in Places
    BY <1>3 DEF Places
  <2>1. /\ r # p => At(cmdq[r], StartCommands, moved, "cmdq", r)
        /\ At(calls[r], CreateCalls, moved, "calls", r)
        /\ At(evq[r], CreateEvents, moved, "evq", r)
        /\ mode[r].kind = "host" => moved[mode[r].party] = "mode" /\ HostOf(mode[r].party) = r
        /\ ui[r].state = "replied" => moved[ui[r].party] = "mode" /\ HostOf(ui[r].party) = r
    BY <2>0, Elsewhere
  <2>2. mode'[r].kind = "host" => moved[mode'[r].party] = "mode" /\ HostOf(mode'[r].party) = r
    <3>1. mode'[r] = mode[r] \/ mode'[r] = NoMode
      BY <1>1, LeaveKeeps
    <3>. QED  BY <2>1, <3>1 DEF NoMode
  <2>3. CASE r # p
    BY <1>1, <2>1, <2>2, <2>3 DEF TypeOK
  <2>4. CASE r = p
    <3>1. cmdq'[p] = Tail(cmdq[p]) /\ calls'[p] = Append(calls[p], d)
      BY <1>1 DEF TypeOK
    <3>2. \A i \in DOMAIN Tail(cmdq[p]) : Tail(cmdq[p])[i] \in StartCommands =>
              Tail(cmdq[p])[i].party \in Parties \ {k}
      BY <1>3 DEF StartCommands
    <3>3. At(Tail(cmdq[p]), StartCommands, moved, "cmdq", p)
      BY <1>3, <1>4, <3>2, AtMoved
    <3>4. \A i \in DOMAIN calls[p] : calls[p][i] \in CreateCalls => calls[p][i].party # k
      BY <1>3 DEF Placed, At
    <3>5. d.party = k
      OBVIOUS
    <3>. HIDE DEF moved, d
    <3>6. At(Append(calls[p], d), CreateCalls, moved, "calls", p)
      BY <1>2, <1>3, <1>4, <2>1, <2>4, <3>4, <3>5, AtAppend
    <3>. QED  BY <2>1, <2>2, <2>4, <3>1, <3>3, <3>6
  <2>. QED  BY <2>3, <2>4
<1>6. ASSUME NEW j \in Parties
      PROVE  /\ j[2] <= budget[HostOf(j)]["start"] => moved[j] = "budget"
             /\ lobby'[j] # {} => moved[j] \in {"evq", "mode"}
             /\ j \in known => moved[j] = "mode"
  <2>1. lobby'[j] \subseteq lobby[j]
    BY <1>1, LeaveKeeps
  <2>2. /\ j[2] <= budget[HostOf(j)]["start"] => place[j] = "budget"
        /\ lobby'[j] # {} => place[j] \in {"evq", "mode"}
        /\ j \in known => place[j] = "mode"
    BY <2>1 DEF Placed
  <2>. QED  BY <1>3, <1>4, <2>2
<1>. HIDE DEF moved
<1>7. PICK made : made = moved
  OBVIOUS
<1>8. Placed(made)'
  BY <1>1, <1>4, <1>5, <1>6, <1>7 DEF Placed
<1>. QED  BY <1>8 DEF MadeOnce

\* Steam answers the call.
LEMMA PlacedAnswer ==
    ASSUME TypeOK, NEW place, Placed(place), NEW p \in Peers, SteamAnswers(p),
           Head(calls[p]).op = "create"
    PROVE  MadeOnce'
<1>. DEFINE k == Head(calls[p]).party
            moved == [place EXCEPT ![k] = "evq"]
<1>1. /\ calls' = [calls EXCEPT ![p] = Tail(@)] /\ calls[p] # <<>>
      /\ \E t \in {"created", "createFailed"} : Answer(p, t, k)
      /\ lobby' = lobby \/ lobby' = [lobby EXCEPT ![k] = {p}]
      /\ UNCHANGED <<mode, cmdq, budget, ui, known>>
  BY DEF SteamAnswers, shell, threads, secrets
<1>2. calls[p] \in Seq(Call) /\ evq[p] \in Seq(Event) /\ Head(calls[p]) \in CreateCalls
  BY <1>1, QueueTypes DEF TypeOK, Call, CreateCalls
<1>3. /\ k \in Parties /\ place[k] = "calls" /\ HostOf(k) = p
      /\ place \in [Parties -> Places]
      /\ \A i \in DOMAIN Tail(calls[p]) :
            Tail(calls[p])[i] \in CreateCalls => Tail(calls[p])[i].party # k
      /\ At(Tail(calls[p]), CreateCalls, place, "calls", p)
  <2>1. At(calls[p], CreateCalls, place, "calls", p)
    BY DEF Placed
  <2>2. /\ At(Tail(calls[p]), CreateCalls, place, "calls", p)
        /\ Head(calls[p]) \in CreateCalls =>
              /\ place[Head(calls[p]).party] = "calls" /\ HostOf(Head(calls[p]).party) = p
              /\ \A i \in DOMAIN Tail(calls[p]) :
                    Tail(calls[p])[i] \in CreateCalls =>
                       Tail(calls[p])[i].party # Head(calls[p]).party
    BY <1>1, <1>2, <2>1, AtTail
  <2>3. k \in Parties
    BY <1>2 DEF CreateCalls
  <2>. QED  BY <1>2, <2>2, <2>3 DEF Placed
<1>. HIDE DEF k
<1>4. PICK t \in {"created", "createFailed"} : Answer(p, t, k)
  BY <1>1
<1>. DEFINE e == [type |-> t, party |-> k]
<1>5. /\ moved \in [Parties -> Places] /\ moved[k] = "evq" /\ "evq" \in Places
      /\ \A j \in Parties : j # k => moved[j] = place[j]
  BY <1>3 DEF Places
<1>6. ASSUME NEW r \in Peers
      PROVE  /\ At(cmdq[r], StartCommands, moved, "cmdq", r)
             /\ At(calls'[r], CreateCalls, moved, "calls", r)
             /\ At(evq'[r], CreateEvents, moved, "evq", r)
             /\ mode[r].kind = "host" => /\ moved[mode[r].party] = "mode"
                                         /\ HostOf(mode[r].party) = r
             /\ ui[r].state = "replied" => /\ moved[ui[r].party] = "mode"
                                           /\ HostOf(ui[r].party) = r
  <2>0. k \in Parties /\ place[k] = "calls" /\ HostOf(k) = p /\ "evq" \in Places
    BY <1>3 DEF Places
  <2>1. /\ At(cmdq[r], StartCommands, moved, "cmdq", r)
        /\ r # p => At(calls[r], CreateCalls, moved, "calls", r)
        /\ At(evq[r], CreateEvents, moved, "evq", r)
        /\ mode[r].kind = "host" => moved[mode[r].party] = "mode" /\ HostOf(mode[r].party) = r
        /\ ui[r].state = "replied" => moved[ui[r].party] = "mode" /\ HostOf(ui[r].party) = r
    BY <2>0, Elsewhere
  <2>2. CASE r # p
    BY <1>1, <1>4, <2>1, <2>2 DEF TypeOK, Answer
  <2>3. CASE r = p
    <3>1. calls'[p] = Tail(calls[p]) /\ evq'[p] = Append(evq[p], e)
      BY <1>1, <1>4 DEF TypeOK, Answer
    <3>2. \A i \in DOMAIN Tail(calls[p]) : Tail(calls[p])[i] \in CreateCalls =>
              Tail(calls[p])[i].party \in Parties \ {k}
      BY <1>3 DEF CreateCalls
    <3>3. At(Tail(calls[p]), CreateCalls, moved, "calls", p)
      BY <1>3, <1>5, <3>2, AtMoved
    <3>4. \A i \in DOMAIN evq[p] : evq[p][i] \in CreateEvents => evq[p][i].party # k
      BY <1>3 DEF Placed, At
    <3>5. e.party = k
      OBVIOUS
    <3>. HIDE DEF moved, e
    <3>6. At(Append(evq[p], e), CreateEvents, moved, "evq", p)
      BY <1>2, <1>3, <1>5, <2>1, <2>3, <3>4, <3>5, AtAppend
    <3>. QED  BY <2>1, <2>3, <3>1, <3>3, <3>6
  <2>. QED  BY <2>2, <2>3
<1>7. ASSUME NEW j \in Parties
      PROVE  /\ j[2] <= budget[HostOf(j)]["start"] => moved[j] = "budget"
             /\ lobby'[j] # {} => moved[j] \in {"evq", "mode"}
             /\ j \in known => moved[j] = "mode"
  <2>1. j # k => lobby'[j] = lobby[j]
    BY <1>1 DEF TypeOK
  <2>2. /\ j[2] <= budget[HostOf(j)]["start"] => place[j] = "budget"
        /\ lobby[j] # {} => place[j] \in {"evq", "mode"}
        /\ j \in known => place[j] = "mode"
    BY DEF Placed
  <2>. QED  BY <1>3, <1>5, <2>1, <2>2
<1>. HIDE DEF moved
<1>8. PICK made : made = moved
  OBVIOUS
<1>9. Placed(made)'
  BY <1>1, <1>5, <1>6, <1>7, <1>8 DEF Placed
<1>. QED  BY <1>9 DEF MadeOnce

\* The runtime is told of its new lobby.
LEMMA PlacedCreated ==
    ASSUME TypeOK, NEW place, Placed(place), NEW p \in Peers, HandleEvent(p),
           Head(evq[p]).type = "created"
    PROVE  MadeOnce'
<1>. DEFINE k == Head(evq[p]).party
            moved == [place EXCEPT ![k] = "mode"]
<1>1. /\ evq' = [evq EXCEPT ![p] = Tail(@)] /\ evq[p] # <<>>
      /\ mode' = [mode EXCEPT ![p] = HostMode(k)]
      /\ ui' = ui \/ ui' = [ui EXCEPT ![p] = [state |-> "replied", party |-> k]]
      /\ UNCHANGED <<cmdq, calls, lobby, budget, known>>
  BY DEF HandleEvent, HostLobbyCreated, UiGets, secrets
<1>2. evq[p] \in Seq(Event) /\ Head(evq[p]) \in CreateEvents
  BY <1>1, QueueTypes DEF TypeOK, Event, CreateEvents
<1>3. /\ k \in Parties /\ place[k] = "evq" /\ HostOf(k) = p
      /\ place \in [Parties -> Places]
      /\ \A i \in DOMAIN Tail(evq[p]) :
            Tail(evq[p])[i] \in CreateEvents => Tail(evq[p])[i].party # k
      /\ At(Tail(evq[p]), CreateEvents, place, "evq", p)
  <2>1. At(evq[p], CreateEvents, place, "evq", p)
    BY DEF Placed
  <2>2. /\ At(Tail(evq[p]), CreateEvents, place, "evq", p)
        /\ Head(evq[p]) \in CreateEvents =>
              /\ place[Head(evq[p]).party] = "evq" /\ HostOf(Head(evq[p]).party) = p
              /\ \A i \in DOMAIN Tail(evq[p]) :
                    Tail(evq[p])[i] \in CreateEvents =>
                       Tail(evq[p])[i].party # Head(evq[p]).party
    BY <1>1, <1>2, <2>1, AtTail
  <2>3. k \in Parties
    BY <1>2 DEF CreateEvents
  <2>. QED  BY <1>2, <2>2, <2>3 DEF Placed
<1>. HIDE DEF k
<1>4. /\ moved \in [Parties -> Places] /\ moved[k] = "mode" /\ "mode" \in Places
      /\ \A j \in Parties : j # k => moved[j] = place[j]
  BY <1>3 DEF Places
<1>5. ASSUME NEW r \in Peers
      PROVE  /\ At(cmdq[r], StartCommands, moved, "cmdq", r)
             /\ At(calls[r], CreateCalls, moved, "calls", r)
             /\ At(evq'[r], CreateEvents, moved, "evq", r)
             /\ mode'[r].kind = "host" => /\ moved[mode'[r].party] = "mode"
                                          /\ HostOf(mode'[r].party) = r
             /\ ui'[r].state = "replied" => /\ moved[ui'[r].party] = "mode"
                                            /\ HostOf(ui'[r].party) = r
  <2>0. k \in Parties /\ place[k] = "evq" /\ HostOf(k) = p /\ "mode" \in Places
    BY <1>3 DEF Places
  <2>1. /\ At(cmdq[r], StartCommands, moved, "cmdq", r)
        /\ At(calls[r], CreateCalls, moved, "calls", r)
        /\ r # p => At(evq[r], CreateEvents, moved, "evq", r)
        /\ mode[r].kind = "host" => moved[mode[r].party] = "mode" /\ HostOf(mode[r].party) = r
        /\ ui[r].state = "replied" => moved[ui[r].party] = "mode" /\ HostOf(ui[r].party) = r
    BY <2>0, Elsewhere
  <2>2. CASE r # p
    BY <1>1, <2>1, <2>2 DEF TypeOK
  <2>3. CASE r = p
    <3>1. evq'[p] = Tail(evq[p]) /\ mode'[p].party = k
      BY <1>1 DEF TypeOK, HostMode
    <3>2. \A i \in DOMAIN Tail(evq[p]) : Tail(evq[p])[i] \in CreateEvents =>
              Tail(evq[p])[i].party \in Parties \ {k}
      BY <1>3 DEF CreateEvents
    <3>3. At(Tail(evq[p]), CreateEvents, moved, "evq", p)
      BY <1>3, <1>4, <3>2, AtMoved
    <3>4. ui'[p] = ui[p] \/ ui'[p].party = k
      BY <1>1 DEF TypeOK
    <3>. HIDE DEF moved
    <3>. QED  BY <1>3, <1>4, <2>1, <2>3, <3>1, <3>3, <3>4
  <2>. QED  BY <2>2, <2>3
<1>6. ASSUME NEW j \in Parties
      PROVE  /\ j[2] <= budget[HostOf(j)]["start"] => moved[j] = "budget"
             /\ lobby[j] # {} => moved[j] \in {"evq", "mode"}
             /\ j \in known => moved[j] = "mode"
  <2>1. /\ j[2] <= budget[HostOf(j)]["start"] => place[j] = "budget"
        /\ lobby[j] # {} => place[j] \in {"evq", "mode"}
        /\ j \in known => place[j] = "mode"
    BY DEF Placed
  <2>. QED  BY <1>3, <1>4, <2>1
<1>. HIDE DEF moved
<1>7. PICK made : made = moved
  OBVIOUS
<1>8. Placed(made)'
  BY <1>1, <1>4, <1>5, <1>6, <1>7 DEF Placed
<1>. QED  BY <1>8 DEF MadeOnce

\* Who stays in a party, or leaves it, does not come to host one.
LEMMA StaysHost ==
    ASSUME NEW r \in Peers, Stays(r), mode'[r].kind = "host"
    PROVE  mode[r].kind = "host" /\ mode'[r].party = mode[r].party
  BY DEF Stays, Leaves, Shrinks, Admits, NoMode

LEMMA SpendLess ==
    ASSUME TypeOK, NEW p \in Peers, NEW op \in Ops, Spend(p, op), NEW r \in Peers
    PROVE  budget'[r]["start"] \in Nat /\ budget'[r]["start"] <= budget[r]["start"]
<1>1. budget[r]["start"] \in Nat /\ budget[p][op] > 0 /\ budget \in [Peers -> [Ops -> Nat]]
  BY DEF TypeOK, Ops, Spend
<1>2. \/ budget'[r]["start"] = budget[r]["start"]
      \/ budget'[r]["start"] = budget[r]["start"] - 1 /\ budget[r]["start"] > 0
  BY <1>1 DEF Spend, Ops
<1>. QED  BY <1>1, <1>2

LEMMA MadeOnceStep ==
    ASSUME TypeOK, MadeOnce, [Next]_vars
    PROVE  MadeOnce'
<1>1. PICK place : Placed(place)
  BY DEF MadeOnce
<1>. DEFINE Shell == \A r \in Peers :
                 mode'[r].kind = "host" =>
                    mode[r].kind = "host" /\ mode'[r].party = mode[r].party
            Budgets == \A r \in Peers : /\ budget'[r]["start"] \in Nat
                                        /\ budget'[r]["start"] <= budget[r]["start"]
            Queues == \A r \in Peers : /\ Thinner(cmdq'[r], cmdq[r], StartCommands)
                                       /\ Thinner(calls'[r], calls[r], CreateCalls)
                                       /\ Thinner(evq'[r], evq[r], CreateEvents)
            Lobbies == \A k \in Parties : lobby[k] = {} => lobby'[k] = {}
            Threads == \A r \in Peers : ui'[r].state = "replied" => ui'[r] = ui[r]
            Secrets == \A k \in known' :
                 k \in known \/ \E r \in Peers : ui[r] = [state |-> "replied", party |-> k]
<1>2. Shell /\ Budgets /\ Queues /\ Lobbies /\ Threads /\ Secrets => MadeOnce'
  <2>1. Shell /\ Budgets /\ Queues /\ Lobbies /\ Threads /\ Secrets => Placed(place)'
    BY <1>1, PlacedKept
  <2>. QED  BY <2>1 DEF MadeOnce
<1>3. budget' = budget => Budgets
  BY DEF TypeOK, Ops
<1>4. mode' = mode => Shell
  OBVIOUS
<1>5. UNCHANGED <<cmdq, calls, evq>> => Queues
  BY DEF Thinner
<1>6. ui' = ui => Threads
  OBVIOUS
<1>7. known' = known => Secrets
  OBVIOUS
<1>. HIDE DEF Shell, Budgets, Queues, Lobbies, Threads, Secrets
<1>8. CASE UNCHANGED vars
  BY <1>2, <1>3, <1>4, <1>5, <1>6, <1>7, <1>8
     DEF vars, shell, threads, steam, secrets, Lobbies
<1>9. ASSUME NEW p \in Peers, UserStep(p)
      PROVE  MadeOnce'
  <2>1. CASE OnStartWatchParty(p)
    BY <1>1, <2>1, PlacedStart
  <2>2. CASE OnEndWatchParty(p) \/ OnLeaveWatchParty(p)
    <3>1. Spend(p, "leave") /\ Enqueue(p, [op |-> "Leave"])
          /\ UNCHANGED <<mode, steam, ui, known>>
      BY <2>2 DEF OnEndWatchParty, OnLeaveWatchParty, UserActs, shell, secrets
    <3>2. [op |-> "Leave"] \notin StartCommands
      BY DEF StartCommands
    <3>3. Queues
      BY <3>1, <3>2 DEF Queues, Enqueue, Thinner, steam, TypeOK
    <3>. QED  BY <1>2, <1>4, <1>6, <1>7, <3>1, <3>3, SpendLess
              DEF Budgets, Lobbies, Ops, steam
  <2>3. ASSUME NEW q \in Peers, OnKick(p, q)
        PROVE  MadeOnce'
    <3>1. Spend(p, "kick") /\ Enqueue(p, [op |-> "Kick", peer |-> q])
          /\ UNCHANGED <<mode, steam, ui, known>>
      BY <2>3 DEF OnKick, UserActs, shell, secrets
    <3>2. [op |-> "Kick", peer |-> q] \notin StartCommands
      BY DEF StartCommands
    <3>3. Queues
      BY <3>1, <3>2 DEF Queues, Enqueue, Thinner, steam, TypeOK
    <3>. QED  BY <1>2, <1>4, <1>6, <1>7, <3>1, <3>3, SpendLess
              DEF Budgets, Lobbies, Ops, steam
  <2>4. ASSUME NEW k \in known, ConnectToHost(p, k)
        PROVE  MadeOnce'
    <3>1. Spend(p, "join") /\ UNCHANGED <<mode, ui, cmdq, steam, known>>
      BY <2>4 DEF ConnectToHost, UserActs
    <3>. QED  BY <1>2, <1>4, <1>5, <1>6, <1>7, <3>1, SpendLess
              DEF Budgets, Lobbies, Ops, steam
  <2>. QED  BY <1>9, <2>1, <2>2, <2>3, <2>4 DEF UserStep
<1>10. ASSUME NEW p \in Peers, ThreadStep(p)
      PROVE  MadeOnce'
  <2>1. CASE SendJoin(p)
    <3>1. Enqueue(p, [op |-> "JoinHost", party |-> joiner[p].party])
      BY <2>1 DEF SendJoin
    <3>2. [op |-> "JoinHost", party |-> joiner[p].party] \notin StartCommands
      BY DEF StartCommands
    <3>3. UNCHANGED <<mode, ui, known, steam, budget>>
      BY <2>1 DEF SendJoin, shell, secrets
    <3>4. Queues
      BY <3>1, <3>2, <3>3 DEF Queues, Enqueue, Thinner, steam, TypeOK
    <3>. QED  BY <1>2, <1>3, <1>4, <1>6, <1>7, <3>3, <3>4 DEF Lobbies, steam
  <2>2. CASE FinishStart(p) \/ StartTimesOut(p) \/ JoinTimesOut(p)
    <3>1. UNCHANGED <<mode, cmdq, steam, budget>>
      BY <2>2 DEF FinishStart, StartTimesOut, JoinTimesOut, shell
    <3>2. Threads
      BY <2>2 DEF FinishStart, StartTimesOut, JoinTimesOut, Threads, TypeOK, Idle
    <3>3. Secrets
      <4>1. CASE FinishStart(p)
        <5>1. ui[p] = [state |-> "replied", party |-> ui[p].party]
          BY <4>1 DEF FinishStart, TypeOK, Thread, Idle
        <5>. QED  BY <4>1, <5>1 DEF FinishStart, Secrets
      <4>. QED  BY <1>7, <2>2, <4>1 DEF StartTimesOut, JoinTimesOut, secrets
    <3>. QED  BY <1>2, <1>3, <1>4, <1>5, <3>1, <3>2, <3>3 DEF Lobbies, steam
  <2>. QED  BY <1>10, <2>1, <2>2 DEF ThreadStep
<1>11. ASSUME NEW p \in Peers, HandleCommand(p)
      PROVE  MadeOnce'
  <2>. DEFINE c == Head(cmdq[p])
  <2>1. CASE c.op = "StartHost"
    BY <1>1, <1>11, <2>1, PlacedCommand
  <2>2. CASE c.op # "StartHost"
    <3>1. /\ cmdq[p] # <<>> /\ cmdq' = [cmdq EXCEPT ![p] = Tail(@)] /\ UNCHANGED <<evq, budget>>
          /\ UNCHANGED <<ui, known>> /\ c \in Command
      BY <1>11, QueueTypes DEF HandleCommand, secrets
    <3>2. \/ LeaveCurrentLobby(p, net, chat)
          \/ c.op = "Kick" /\ KickAuthorizedPeer(p, c.peer) /\ UNCHANGED lobby
      BY <1>11 DEF HandleCommand
    <3>3. Shell /\ Lobbies
      <4>1. CASE LeaveCurrentLobby(p, net, chat)
        <5>1. \A r \in Peers : Stays(r)
          BY <4>1, LeaveRoster
        <5>2. Lobbies
          BY <4>1, LeaveKeeps DEF Lobbies
        <5>. QED  BY <5>1, <5>2, StaysHost DEF Shell
      <4>2. CASE c.op = "Kick" /\ KickAuthorizedPeer(p, c.peer) /\ UNCHANGED lobby
        <5>1. c.peer \in Peers
          BY <3>1, <4>2 DEF Command
        <5>2. \A r \in Peers : Stays(r)
          BY <4>2, <5>1, DropRoster DEF KickAuthorizedPeer
        <5>. QED  BY <4>2, <5>2, StaysHost DEF Shell, Lobbies
      <4>. QED  BY <3>2, <4>1, <4>2
    <3>4. \/ UNCHANGED calls
          \/ calls' = [calls EXCEPT ![p] = Append(@, [op |-> "join", party |-> c.party])]
      BY <1>11, <2>2 DEF HandleCommand
    <3>5. [op |-> "join", party |-> c.party] \notin CreateCalls
      BY DEF CreateCalls
    <3>6. Queues
      BY <3>1, <3>4, <3>5 DEF Queues, Thinner, TypeOK
    <3>. QED  BY <1>2, <1>3, <1>6, <1>7, <3>1, <3>3, <3>6
  <2>. QED  BY <2>1, <2>2
<1>12. ASSUME NEW p \in Peers, SteamAnswers(p)
       PROVE  MadeOnce'
  <2>. DEFINE c == Head(calls[p])
  <2>1. CASE c.op = "create"
    BY <1>1, <1>12, <2>1, PlacedAnswer
  <2>2. CASE c.op # "create"
    <3>1. /\ calls[p] # <<>> /\ calls' = [calls EXCEPT ![p] = Tail(@)]
          /\ UNCHANGED <<mode, ui, cmdq, known, budget>>
          /\ c \in Call
      BY <1>12, QueueTypes DEF SteamAnswers, shell, threads, secrets
    <3>2. PICK t \in {"joined", "joinFailed"} : Answer(p, t, c.party)
      BY <1>12, <2>2 DEF SteamAnswers
    <3>3. [type |-> t, party |-> c.party] \notin CreateEvents
      BY DEF CreateEvents
    <3>4. Queues
      BY <3>1, <3>2, <3>3 DEF Queues, Answer, Thinner, TypeOK
    <3>5. \/ UNCHANGED lobby
          \/ lobby[c.party] # {} /\ lobby' = [lobby EXCEPT ![c.party] = @ \cup {p}]
      BY <1>12, <2>2 DEF SteamAnswers
    <3>6. Lobbies
      BY <3>5 DEF Lobbies, TypeOK
    <3>. QED  BY <1>2, <1>3, <1>4, <1>6, <1>7, <3>1, <3>4, <3>6
  <2>. QED  BY <2>1, <2>2
<1>13. ASSUME NEW p \in Peers, HandleEvent(p)
       PROVE  MadeOnce'
  <2>. DEFINE e == Head(evq[p])
  <2>1. CASE e.type = "created"
    BY <1>1, <1>13, <2>1, PlacedCreated
  <2>2. CASE e.type # "created"
    <3>1. /\ evq[p] # <<>> /\ evq' = [evq EXCEPT ![p] = Tail(@)]
          /\ UNCHANGED <<cmdq, calls, lobby, known, budget>>
          /\ e \in Event
      BY <1>13, QueueTypes DEF HandleEvent, secrets
    <3>2. Queues /\ Lobbies
      BY <3>1 DEF Queues, Thinner, Lobbies, TypeOK
    <3>3. Shell
      <4>1. CASE e.type = "sessionFailed" /\ SessionFailed(p, e.peer)
        <5>1. e.peer \in Peers
          BY <3>1, <4>1 DEF Event
        <5>2. \A r \in Peers : Stays(r)
          BY <4>1, <5>1, DropRoster DEF SessionFailed, HandlePeerLeft
        <5>. QED  BY <5>2, StaysHost DEF Shell
      <4>2. CASE GuestLobbyJoined(p, e.party)
        <5>1. \A r \in Peers : mode'[r] = mode[r] \/ mode'[r] = GuestMode(e.party)
          BY <4>2 DEF GuestLobbyJoined, TypeOK
        <5>. QED  BY <5>1 DEF Shell, GuestMode
      <4>3. CASE HostLobbyFailed(p, e.party) \/ GuestLobbyFailed(p, e.party)
        BY <1>4, <4>3 DEF HostLobbyFailed, GuestLobbyFailed
      <4>. QED  BY <1>13, <2>2, <4>1, <4>2, <4>3 DEF HandleEvent
    <3>4. ui' = ui \/ ui' = [ui EXCEPT ![p] = Idle]
      BY <1>13, <2>2
         DEF HandleEvent, HostLobbyFailed, GuestLobbyJoined, GuestLobbyFailed, SessionFailed, UiGets
    <3>5. Threads
      BY <3>4 DEF Threads, TypeOK, Idle
    <3>. QED  BY <1>2, <1>3, <1>7, <3>1, <3>2, <3>3, <3>5
  <2>. QED  BY <2>1, <2>2
<1>14. ASSUME NEW p \in Peers, HandleLobbyChatUpdate(p)
       PROVE  MadeOnce'
  <2>1. UNCHANGED <<ui, cmdq, calls, evq, known, budget>>
    BY <1>14 DEF HandleLobbyChatUpdate, threads, secrets
  <2>2. PICK n \in chat[p] :
          \/ HandlePeerLeft(p, n[2], net) /\ UNCHANGED lobby
          \/ LeaveCurrentLobby(p, net, [chat EXCEPT ![p] = @ \ {n}])
          \/ UNCHANGED <<mode, lobby>>
    BY <1>14 DEF HandleLobbyChatUpdate, shell
  <2>3. n[2] \in Peers
    BY DEF TypeOK
  <2>4. Lobbies
    BY <2>2, LeaveKeeps DEF Lobbies
  <2>5. Shell
    <3>1. CASE UNCHANGED mode
      BY <1>4, <3>1
    <3>2. CASE \A r \in Peers : Stays(r)
      BY <3>2, StaysHost DEF Shell
    <3>. QED  BY <2>2, <2>3, <3>1, <3>2, DropRoster, LeaveRoster DEF HandlePeerLeft
  <2>. QED  BY <1>2, <1>3, <1>5, <1>6, <1>7, <2>1, <2>4, <2>5
<1>15. ASSUME NEW p \in Peers, NEW q \in Peers, Receive(p, q)
       PROVE  MadeOnce'
  <2>1. UNCHANGED <<ui, cmdq, calls, evq, known, budget>>
    BY <1>15 DEF Receive, threads, secrets
  <2>2. Shell
    <3>1. \A r \in Peers : Stays(r)
      BY <1>15, ReceiveRoster
    <3>. QED  BY <3>1, StaysHost DEF Shell
  <2>3. UNCHANGED lobby \/ LeaveCurrentLobby(p, Taken(q, p), chat)
    BY <1>15 DEF Receive, HandleGuestIncoming
  <2>4. Lobbies
    BY <2>3, LeaveKeeps DEF Lobbies
  <2>. QED  BY <1>2, <1>3, <1>5, <1>6, <1>7, <2>1, <2>2, <2>4
<1>16. ASSUME NEW p \in Peers, NEW q \in Peers, SessionRequest(p, q)
       PROVE  MadeOnce'
  <2>1. UNCHANGED <<mode, ui, cmdq, calls, lobby, known, budget>>
    BY <1>16 DEF SessionRequest, shell, threads, secrets
  <2>2. UNCHANGED evq \/ evq' = [evq EXCEPT ![q] = Append(@, Failed(p))]
    BY <1>16 DEF SessionRequest
  <2>3. Failed(p) \notin CreateEvents
    BY DEF Failed, CreateEvents
  <2>4. Queues /\ Lobbies
    BY <2>1, <2>2, <2>3 DEF Queues, Thinner, Lobbies, TypeOK
  <2>. QED  BY <1>2, <1>3, <1>4, <1>6, <1>7, <2>1, <2>4
<1>17. ASSUME NEW p \in Peers, Failure(p)
       PROVE  MadeOnce'
  <2>1. ASSUME NEW q \in Peers, SessionBreak(p, q)
        PROVE  MadeOnce'
    <3>1. UNCHANGED <<mode, ui, cmdq, calls, lobby, known>> /\ Spend(p, "break")
      BY <2>1 DEF SessionBreak, shell, threads, secrets
    <3>2. \A r \in Peers : Failed(r) \notin CreateEvents
      BY DEF Failed, CreateEvents
    <3>3. Queues /\ Lobbies
      BY <2>1, <3>1, <3>2 DEF SessionBreak, Queues, Thinner, Lobbies
    <3>4. Budgets
      BY <3>1, SpendLess DEF Budgets, Ops
    <3>. QED  BY <1>2, <1>4, <1>6, <1>7, <3>1, <3>3, <3>4
  <2>2. CASE Crash(p)
    <3>1. /\ Spend(p, "crash")
          /\ mode' = [mode EXCEPT ![p] = NoMode]
          /\ cmdq' = [cmdq EXCEPT ![p] = <<>>]
          /\ calls' = [calls EXCEPT ![p] = <<>>]
          /\ evq' = [evq EXCEPT ![p] = <<>>]
          /\ lobby' = [k \in Parties |-> lobby[k] \ {p}]
          /\ ui' = [ui EXCEPT ![p] = Idle]
          /\ UNCHANGED known
      BY <2>2 DEF Crash, secrets
    <3>2. Queues /\ Lobbies
      BY <3>1 DEF Queues, Thinner, Lobbies, TypeOK
    <3>3. Shell
      BY <3>1 DEF Shell, NoMode, TypeOK
    <3>4. Budgets
      BY <3>1, SpendLess DEF Budgets, Ops
    <3>5. Threads
      BY <3>1 DEF Threads, TypeOK, Idle
    <3>. QED  BY <1>2, <1>7, <3>1, <3>2, <3>3, <3>4, <3>5
  <2>. QED  BY <1>17, <2>1, <2>2 DEF Failure
<1>. QED  BY <1>8, <1>9, <1>10, <1>11, <1>12, <1>13, <1>14, <1>15, <1>16, <1>17
          DEF Next, RuntimeStep

LEMMA MadeOnceInit == Init => MadeOnce
<1>. SUFFICES ASSUME Init PROVE MadeOnce
  OBVIOUS
<1>1. PICK place : place = [k \in Parties |-> "budget"]
  OBVIOUS
<1>2. \A p \in Peers : mode[p].kind # "host" /\ ui[p].state # "replied"
  BY DEF Init, NoMode, Idle
<1>3. \A p \in Peers : /\ At(cmdq[p], StartCommands, place, "cmdq", p)
                       /\ At(calls[p], CreateCalls, place, "calls", p)
                       /\ At(evq[p], CreateEvents, place, "evq", p)
  BY AtEmpty DEF Init
<1>4. Placed(place)
  BY <1>1, <1>2, <1>3 DEF Init, Placed, Places
<1>. QED  BY <1>4 DEF MadeOnce

\* On its way from the menu to the runtime (command, call of Steam, answer, mode) a new party
\* is in one place at a time, and its secret is published only once it is hosted.
THEOREM EachPartyOnce == Spec => []MadeOnce
<1>1. TypeOK /\ MadeOnce /\ [Next]_vars => MadeOnce'
  BY MadeOnceStep
<1>. QED  BY <1>1, MadeOnceInit, Typing, PTL DEF Spec

-----------------------------------------------------------------------------
(* A kick is final.                                                          *)

\* Nobody holds the secret of a party of its own, and nobody who was kicked is
\* admitted.
OthersHeld == \A p \in Peers : \A k \in held[p] : HostOf(k) # p
Barred == \A p \in Peers : mode[p].kicked \cap mode[p].auth = {}

LEMMA OthersHeldStep ==
    ASSUME TypeOK, OthersHeld, [Next]_vars
    PROVE  OthersHeld'
<1>1. CASE UNCHANGED held
  BY <1>1 DEF OthersHeld
<1>2. ASSUME NEW p \in Peers, NEW k \in known, ConnectToHost(p, k)
      PROVE  OthersHeld'
  BY <1>2 DEF ConnectToHost, OthersHeld, TypeOK
<1>3. CASE UNCHANGED vars
  BY <1>1, <1>3 DEF vars, secrets
<1>4. ASSUME NEW p \in Peers,
             UserStep(p) \/ ThreadStep(p) \/ RuntimeStep(p) \/ SteamAnswers(p) \/ Failure(p),
             \A k \in known : ~ConnectToHost(p, k)
      PROVE  UNCHANGED held
  BY <1>4 DEF UserStep, OnStartWatchParty, OnEndWatchParty, OnLeaveWatchParty, OnKick,
     ThreadStep, FinishStart, StartTimesOut, SendJoin, JoinTimesOut,
     RuntimeStep, HandleCommand, HandleEvent, HandleLobbyChatUpdate, Receive,
     SessionRequest, SteamAnswers, Failure, SessionBreak, Crash, secrets
<1>. QED  BY <1>1, <1>2, <1>3, <1>4 DEF Next

LEMMA BarredStep ==
    ASSUME TypeOK, Barred, [Next]_vars
    PROVE  Barred'
<1>. SUFFICES ASSUME NEW p \in Peers PROVE mode'[p].kicked \cap mode'[p].auth = {}
  BY DEF Barred
<1>1. mode[p].kicked \cap mode[p].auth = {}
  BY DEF Barred
<1>2. CASE Leaves(p) \/ Enters(p)
  BY <1>2, Emptied
<1>3. CASE Shrinks(p)
  BY <1>1, <1>3 DEF Shrinks
<1>4. CASE \E q \in Peers : Admits(p, q)
  BY <1>1, <1>4 DEF Admits, Refused
<1>. QED  BY <1>2, <1>3, <1>4, EveryRosterStep DEF RosterStep, Stays

\* A host that enters a party by an answer enters another one.
LEMMA EntersAnother ==
    ASSUME TypeOK, Invited, MadeOnce, OthersHeld, NEW p \in Peers, mode[p].kind = "host",
           Enters(p)
    PROVE  mode'[p].party # mode[p].party
<1>. DEFINE e == Head(evq[p])
<1>1. evq[p] \in Seq(Event) /\ e \in Event /\ evq[p] # <<>> /\ 1 \in DOMAIN evq[p] /\ e = evq[p][1]
  BY QueueTypes, HeadElement DEF TypeOK, Enters
<1>2. PICK place : Placed(place)
  BY DEF MadeOnce
<1>3. place[mode[p].party] = "mode" /\ HostOf(mode[p].party) = p
  BY <1>2 DEF Placed
<1>4. CASE e.type = "created" /\ mode'[p] = HostMode(e.party)
  <2>1. e \in CreateEvents
    BY <1>1, <1>4 DEF Event, CreateEvents
  <2>2. place[e.party] = "evq"
    BY <1>1, <1>2, <2>1 DEF Placed, At
  <2>. QED  BY <1>3, <1>4, <2>2 DEF HostMode
<1>5. CASE e.type = "joined" /\ mode'[p] = GuestMode(e.party)
  <2>1. e.party \in held[p]
    BY <1>1, <1>5 DEF Invited, EvqHeld
  <2>. QED  BY <1>3, <1>5, <2>1 DEF OthersHeld, GuestMode
<1>. QED  BY <1>4, <1>5 DEF Enters

\* As long as a host keeps its party nobody it kicked is forgotten or admitted again,
\* for any number of peers and parties and whatever hellos, leaves, failed sessions,
\* crashes and late answers of Steam arrive (kick_authorized_peer, kicked_peers).
THEOREM KicksAreFinal == Spec => KickIsFinal
<1>1. Init => OthersHeld /\ Barred
  BY DEF Init, OthersHeld, Barred, NoMode
<1>2. /\ TypeOK /\ OthersHeld /\ [Next]_vars => OthersHeld'
      /\ TypeOK /\ Barred /\ [Next]_vars => Barred'
  BY OthersHeldStep, BarredStep
<1>3. TypeOK /\ Invited /\ MadeOnce /\ OthersHeld /\ Barred /\ [Next]_vars =>
         [\A p \in Peers : mode[p].kind = "host" /\ mode'[p].party = mode[p].party =>
              mode[p].kicked \subseteq mode'[p].kicked \ mode'[p].auth]_vars
  <2>. SUFFICES ASSUME TypeOK, Invited, MadeOnce, OthersHeld, Barred, [Next]_vars,
                       NEW p \in Peers, mode[p].kind = "host",
                       mode'[p].party = mode[p].party
                PROVE  mode[p].kicked \subseteq mode'[p].kicked \ mode'[p].auth
    OBVIOUS
  <2>1. mode[p].kicked \cap mode[p].auth = {} /\ mode[p].party \in Parties
    BY ModeKinds DEF Barred
  <2>2. ~Leaves(p)
    <3>1. NoParty \notin Parties
      BY DEF Parties, NoParty
    <3>. QED  BY <2>1, <3>1 DEF Leaves, NoMode
  <2>3. ~Enters(p)
    BY EntersAnother
  <2>4. CASE Shrinks(p)
    BY <2>1, <2>4 DEF Shrinks
  <2>5. CASE \E q \in Peers : Admits(p, q)
    BY <2>1, <2>5 DEF Admits, Refused
  <2>. QED  BY <2>2, <2>3, <2>4, <2>5, EveryRosterStep DEF RosterStep, Stays
<1>. QED  BY <1>1, <1>2, <1>3, Typing, InvitedAlways, EachPartyOnce, PTL DEF Spec, KickIsFinal

=============================================================================
