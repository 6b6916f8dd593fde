----------------------------- MODULE WatchParty -----------------------------
(***************************************************************************)
(* The watch-party runtime of Stremio Shell (steam_sync.rs), the lobby     *)
(* globals it shares with the user interface (app.rs), and the parts of    *)
(* Steam it relies on: lobbies, lobby membership notices, and reliable     *)
(* ordered messages between two peers.                                     *)
(*                                                                         *)
(* Every peer runs one shell.  In a shell three threads meet:              *)
(*   - the UI thread starts a party and blocks for the runtime's answer,   *)
(*   - the pipe thread joins a party and blocks for the answer,            *)
(*   - the runtime thread owns `mode' and handles, one at a time, queued   *)
(*     commands, Steam's lobby notices, Steam's call results and messages. *)
(* A party stands for its lobby id, party id, token and host Steam id,     *)
(* which the code makes, publishes and compares together.                  *)
(***************************************************************************)
EXTENDS Naturals, Sequences, FiniteSets

CONSTANTS
    Peers,      \* the Steam users
    MaxSize,    \* lobby_max_size of every shell
    Budget,     \* how often each peer may do each operation
    Patient,    \* the user waits for an operation to settle, and leaves a
                \* party before entering another
    Timeouts    \* the 20 second waits for the runtime's answer may run out

Ops == {"start", "join", "leave", "kick", "break", "crash"}

ASSUME PeersAssumption == IsFiniteSet(Peers)
\* The clamp of the configuration loader.
ASSUME MaxSizeAssumption == MaxSize \in 2..16
ASSUME BudgetAssumption == Budget \in [Peers -> [Ops -> Nat]]
ASSUME SwitchAssumption == Patient \in BOOLEAN /\ Timeouts \in BOOLEAN

VARIABLES
    mode,       \* mode[p]: the runtime's Option<Mode>
    globals,    \* globals[p]: LOBBY_PARTY_ID, .._MEMBER_COUNT, .._MEMBERS, .._ROLE
    ui,         \* ui[p]: the party the UI thread is starting
    joiner,     \* joiner[p]: the party the pipe thread is joining
    cmdq,       \* cmdq[p]: queued RuntimeCommands
    calls,      \* calls[p]: Steam calls not yet answered, in order of issue
    evq,        \* evq[p]: queued RuntimeEvents: call results, failed sessions
    chat,       \* chat[p]: lobby notices <<party, peer>> "peer is gone"
    lobby,      \* lobby[k]: the members of k's Steam lobby
    net,        \* net[p][q]: messages on their way from p to q
    open,       \* open[p]: the peers p has an accepted session with
    known,      \* the parties whose join secret has been published
    held,       \* held[p]: the parties whose secret p has used (history)
    budget      \* what is left of Budget

shell == <<mode, globals>>
threads == <<ui, joiner, cmdq>>
steam == <<calls, evq, chat, lobby>>
network == <<net, open>>
secrets == <<known, held>>
vars == <<shell, threads, steam, network, secrets, budget>>

-----------------------------------------------------------------------------
Parties == UNION {{p} \X (1..Budget[p]["start"]) : p \in Peers}
NoParty == <<>>
HostOf(k) == k[1]

MsgTypes == {"hello", "request", "leave", "info", "closed", "error"}
Msg == [type : MsgTypes, party : Parties \cup {NoParty}, members : SUBSET Peers]
Plain(t) == [type |-> t, party |-> NoParty, members |-> {}]
Hello(k) == [type |-> "hello", party |-> k, members |-> {}]
LobbyInfo(S) == [type |-> "info", party |-> NoParty, members |-> S]

Command == [op : {"StartHost", "JoinHost"}, party : Parties]
             \cup [op : {"Leave"}]
             \cup [op : {"Kick"}, peer : Peers]
Call == [op : {"create", "join"}, party : Parties]
Event == [type : {"created", "createFailed", "joined", "joinFailed"}, party : Parties]
           \cup [type : {"sessionFailed"}, peer : Peers]

NoMode == [kind |-> "none", party |-> NoParty, auth |-> {}, kicked |-> {}]
HostMode(k) == [kind |-> "host", party |-> k, auth |-> {}, kicked |-> {}]
GuestMode(k) == [kind |-> "guest", party |-> k, auth |-> {}, kicked |-> {}]
Mode == {NoMode}
          \cup [kind : {"host"}, party : Parties, auth : SUBSET Peers, kicked : SUBSET Peers]
          \cup {GuestMode(k) : k \in Parties}

Globals == [id : Parties \cup {NoParty}, count : Nat,
            members : SUBSET Peers, role : {"None", "Host", "Guest"}]
NoGlobals == [id |-> NoParty, count |-> 0, members |-> {}, role |-> "None"]

Idle == [state |-> "idle", party |-> NoParty]
Thread == {Idle} \cup [state : {"marked", "waiting", "replied"}, party : Parties]

Hosting(p, k) == mode[p].kind = "host" /\ mode[p].party = k
GuestOf(p, k) == mode[p].kind = "guest" /\ mode[p].party = k
Member(p, k) == LET h == HostOf(k) IN Hosting(h, k) /\ p \in mode[h].auth

\* Nothing p asked of the runtime is still under way.
Settled(p) == /\ ui[p] = Idle
              /\ joiner[p] = Idle
              /\ cmdq[p] = <<>>
              /\ calls[p] = <<>>
              /\ \A i \in DOMAIN evq[p] : evq[p][i].type = "sessionFailed"

Init ==
    /\ mode = [p \in Peers |-> NoMode]
    /\ globals = [p \in Peers |-> NoGlobals]
    /\ ui = [p \in Peers |-> Idle]
    /\ joiner = [p \in Peers |-> Idle]
    /\ cmdq = [p \in Peers |-> <<>>]
    /\ calls = [p \in Peers |-> <<>>]
    /\ evq = [p \in Peers |-> <<>>]
    /\ chat = [p \in Peers |-> {}]
    /\ lobby = [k \in Parties |-> {}]
    /\ net = [p \in Peers |-> [q \in Peers |-> <<>>]]
    /\ open = [p \in Peers |-> {}]
    /\ known = {}
    /\ held = [p \in Peers |-> {}]
    /\ budget = Budget

Spend(p, op) == /\ budget[p][op] > 0
                /\ budget' = [budget EXCEPT ![p][op] = @ - 1]

\* The user of p does something only now and then.
UserActs(p, op) == Spend(p, op) /\ (Patient => Settled(p))

Enqueue(p, c) == cmdq' = [cmdq EXCEPT ![p] = Append(@, c)]

-----------------------------------------------------------------------------
(* Messages.  out[q] is what p sends to q in one step.                     *)

Nothing == [q \in Peers |-> <<>>]
ToAll(S, m) == [q \in Peers |-> IF q \in S THEN <<m>> ELSE <<>>]
ToOne(r, s) == [q \in Peers |-> IF q = r THEN s ELSE <<>>]

\* send_wire_msg: sending opens the sender's side of the session.
Send(p, out, wire) ==
    /\ net' = [wire EXCEPT ![p] = [q \in Peers |-> @[q] \o out[q]]]
    /\ open' = [open EXCEPT ![p] = @ \cup {q \in Peers : out[q] # <<>>}]

Taken(q, p) == [net EXCEPT ![q][p] = Tail(@)]

-----------------------------------------------------------------------------
(* What the runtime's handlers have in common.                             *)

\* Bug: the role and the members of the last party stay behind.
ClearIdOnly(p) == globals' = [globals EXCEPT ![p].id = NoParty, ![p].count = 0]

ClearLobbyGlobals(p) == globals' = [globals EXCEPT ![p] = NoGlobals]

\* set_lobby_counts and set_lobby_members
ShowMembers(p, S) ==
    globals' = [globals EXCEPT ![p].count = Cardinality(S), ![p].members = S]

\* Bug: the lobby handle is dropped and Steam is not told.
ForgetSteamLobby(p, k, notices) == chat' = notices /\ UNCHANGED lobby

\* Steam tells the members that stay.
LeaveSteamLobby(p, k, notices) ==
    /\ lobby' = [lobby EXCEPT ![k] = @ \ {p}]
    /\ chat' = [q \in Peers |-> IF p \in lobby[k] /\ q \in lobby[k] \ {p}
                                THEN notices[q] \cup {<<k, p>>} ELSE notices[q]]

LeaveCurrentLobby(p, wire, notices) ==
    \/ /\ mode[p].kind = "host"
       /\ Send(p, ToAll(mode[p].auth, Plain("closed")), wire)
       /\ LeaveSteamLobby(p, mode[p].party, notices)
       /\ ClearLobbyGlobals(p)
       /\ mode' = [mode EXCEPT ![p] = NoMode]
    \/ /\ mode[p].kind = "guest"
       /\ Send(p, ToOne(HostOf(mode[p].party), <<Plain("leave")>>), wire)
       /\ LeaveSteamLobby(p, mode[p].party, notices)
       /\ ClearLobbyGlobals(p)
       /\ mode' = [mode EXCEPT ![p] = NoMode]
    \/ /\ mode[p].kind = "none"
       /\ net' = wire
       /\ chat' = notices
       /\ UNCHANGED <<mode, globals, open, lobby>>

\* The host p drops q and tells the others; `kicked' also bars q for good
\* and tells q.
DropPeer(p, q, kicked, wire) ==
    IF mode[p].kind = "host" /\ q \in mode[p].auth
    THEN LET rest == mode[p].auth \ {q}
             told == ToAll(rest, LobbyInfo(rest \cup {p}))
         IN /\ mode' = [mode EXCEPT ![p].auth = rest,
                           ![p].kicked = IF kicked THEN @ \cup {q} ELSE @]
            /\ Send(p, IF kicked THEN [told EXCEPT ![q] = <<Plain("closed")>>]
                                 ELSE told, wire)
            /\ ShowMembers(p, rest \cup {p})
    ELSE /\ net' = wire
         /\ UNCHANGED <<mode, globals, open>>

HandlePeerLeft(p, q, wire) == DropPeer(p, q, FALSE, wire)
\* Bug: a kick is treated like a peer that left.
KickSilently(p, q) == DropPeer(p, q, FALSE, net)

KickAuthorizedPeer(p, q) == DropPeer(p, q, TRUE, net)

-----------------------------------------------------------------------------
(* The user and the threads that act for the user.                         *)

OnStartWatchParty(p) ==
    LET k == <<p, budget[p]["start"]>> IN
    /\ ui[p] = Idle
    /\ globals[p].id = NoParty
    /\ UserActs(p, "start")
    /\ ui' = [ui EXCEPT ![p] = [state |-> "waiting", party |-> k]]
    /\ Enqueue(p, [op |-> "StartHost", party |-> k])
    /\ UNCHANGED <<shell, joiner, steam, network, secrets>>

\* Bug: the UI thread does not wait for the runtime's answer.
FinishStartEarly(p) ==
    LET k == ui[p].party IN
    /\ ui' = [ui EXCEPT ![p] = Idle]
    /\ globals' = [globals EXCEPT ![p].id = k, ![p].count = 1]
    /\ known' = known \cup {k}
    /\ UNCHANGED <<mode, joiner, cmdq, steam, network, held, budget>>

\* The UI thread wakes up with the secret and publishes it.
FinishStart(p) ==
    LET k == ui[p].party IN
    /\ ui[p].state = "replied"
    /\ ui' = [ui EXCEPT ![p] = Idle]
    /\ globals' = [globals EXCEPT ![p].id = k, ![p].count = 1]
    /\ known' = known \cup {k}
    /\ UNCHANGED <<mode, joiner, cmdq, steam, network, held, budget>>

StartTimesOut(p) ==
    /\ Timeouts
    /\ ui[p].state = "waiting"
    /\ ui' = [ui EXCEPT ![p] = Idle]
    /\ UNCHANGED <<shell, joiner, cmdq, steam, network, secrets, budget>>

\* The menu and the overlay offer End and Remove in an active party.
Active(p) == globals[p].id # NoParty /\ globals[p].count > 0

OnEndWatchParty(p) ==
    /\ ui[p] = Idle
    /\ Active(p)
    /\ globals[p].role = "Host"
    /\ UserActs(p, "leave")
    /\ Enqueue(p, [op |-> "Leave"])
    /\ UNCHANGED <<shell, ui, joiner, steam, network, secrets>>

\* Leave is offered by the tray to a guest, and by the page to whoever its overlay shows in a
\* party, which may be out of date and which nobody checks.
OnLeaveWatchParty(p) ==
    /\ UserActs(p, "leave")
    /\ Enqueue(p, [op |-> "Leave"])
    /\ UNCHANGED <<shell, ui, joiner, steam, network, secrets>>

OnKick(p, q) ==
    /\ Active(p)
    /\ globals[p].role = "Host"
    /\ q \in globals[p].members \ {p}
    /\ UserActs(p, "kick")
    /\ Enqueue(p, [op |-> "Kick", peer |-> q])
    /\ UNCHANGED <<shell, ui, joiner, steam, network, secrets>>

\* connect_to_host first shows the party it is about to ask the runtime for.  One thread
\* joins at a time: the page's, which joins when the shell was started with a link, is done
\* before the pipe brings another.
ConnectToHost(p, k) ==
    /\ joiner[p] = Idle
    /\ k \in known
    /\ HostOf(k) # p
    /\ UserActs(p, "join")
    /\ Patient => mode[p] = NoMode /\ globals[p].id = NoParty
    /\ joiner' = [joiner EXCEPT ![p] = [state |-> "marked", party |-> k]]
    /\ globals' = [globals EXCEPT ![p] =
                     [id |-> k, count |-> 1, members |-> {}, role |-> "Guest"]]
    /\ held' = [held EXCEPT ![p] = @ \cup {k}]
    /\ UNCHANGED <<mode, ui, cmdq, steam, network, known>>

SendJoin(p) ==
    /\ joiner[p].state = "marked"
    /\ joiner' = [joiner EXCEPT ![p].state = "waiting"]
    /\ Enqueue(p, [op |-> "JoinHost", party |-> joiner[p].party])
    /\ UNCHANGED <<shell, ui, steam, network, secrets, budget>>

JoinTimesOut(p) ==
    /\ Timeouts
    /\ joiner[p].state = "waiting"
    /\ joiner' = [joiner EXCEPT ![p] = Idle]
    /\ UNCHANGED <<shell, ui, cmdq, steam, network, secrets, budget>>

-----------------------------------------------------------------------------
(* handle_command                                                          *)

HandleCommand(p) ==
    /\ cmdq[p] # <<>>
    /\ cmdq' = [cmdq EXCEPT ![p] = Tail(@)]
    /\ LET c == Head(cmdq[p]) IN
       \/ /\ c.op \in {"StartHost", "JoinHost"}
          /\ LeaveCurrentLobby(p, net, chat)
          /\ calls' = [calls EXCEPT ![p] = Append(@,
                [op |-> IF c.op = "StartHost" THEN "create" ELSE "join",
                 party |-> c.party])]
       \/ /\ c.op = "Leave"
          /\ LeaveCurrentLobby(p, net, chat)
          /\ UNCHANGED calls
       \/ /\ c.op = "Kick"
          /\ KickAuthorizedPeer(p, c.peer)
          /\ UNCHANGED <<calls, lobby, chat>>
    /\ UNCHANGED <<ui, joiner, evq, secrets, budget>>

-----------------------------------------------------------------------------
(* Steam answers create_lobby and join_lobby.                              *)

Answer(p, t, k) == evq' = [evq EXCEPT ![p] = Append(@, [type |-> t, party |-> k])]

SteamAnswers(p) ==
    /\ calls[p] # <<>>
    /\ calls' = [calls EXCEPT ![p] = Tail(@)]
    /\ LET c == Head(calls[p])
           k == c.party
           full == Cardinality(lobby[k]) >= MaxSize
       IN \/ /\ c.op = "create"
             /\ lobby' = [lobby EXCEPT ![k] = {p}]
             /\ Answer(p, "created", k)
          \/ /\ c.op = "create"
             /\ Answer(p, "createFailed", k)
             /\ UNCHANGED lobby
          \/ /\ c.op = "join"
             /\ lobby[k] # {}
             /\ p \in lobby[k] \/ ~full
             /\ lobby' = [lobby EXCEPT ![k] = @ \cup {p}]
             /\ Answer(p, "joined", k)
          \/ /\ c.op = "join"
             /\ Answer(p, "joinFailed", k)
             /\ UNCHANGED lobby
    /\ UNCHANGED <<shell, threads, chat, network, secrets, budget>>

-----------------------------------------------------------------------------
(* handle_event                                                            *)

\* A thread that still waits for party k gets its answer.
UiGets(p, k, a) == ui' = IF ui[p] = [state |-> "waiting", party |-> k]
                         THEN [ui EXCEPT ![p] = a] ELSE ui
JoinerReleased(p, k) == joiner' = IF joiner[p] = [state |-> "waiting", party |-> k]
                                  THEN [joiner EXCEPT ![p] = Idle] ELSE joiner

HostLobbyCreated(p, k) ==
    /\ mode' = [mode EXCEPT ![p] = HostMode(k)]
    /\ globals' = [globals EXCEPT ![p].count = 1, ![p].members = {p},
                                  ![p].role = "Host"]
    /\ UiGets(p, k, [state |-> "replied", party |-> k])
    /\ UNCHANGED <<joiner, network>>

HostLobbyFailed(p, k) ==
    /\ globals' = [globals EXCEPT ![p].count = 0]
    /\ UiGets(p, k, Idle)
    /\ UNCHANGED <<mode, joiner, network>>

GuestLobbyJoined(p, k) ==
    /\ mode' = [mode EXCEPT ![p] = GuestMode(k)]
    /\ Send(p, ToOne(HostOf(k), <<Hello(k), Plain("request")>>), net)
    /\ globals' = [globals EXCEPT ![p].role = "Guest"]
    /\ JoinerReleased(p, k)
    /\ UNCHANGED ui

\* Bug: a failed join leaves the globals of connect_to_host as they are.
GuestLobbyFailedKeepsGlobals(p, k) ==
    /\ JoinerReleased(p, k)
    /\ UNCHANGED <<mode, globals, ui, network>>

GuestLobbyFailed(p, k) ==
    /\ ClearLobbyGlobals(p)
    /\ JoinerReleased(p, k)
    /\ UNCHANGED <<mode, ui, network>>

SessionFailed(p, q) ==
    /\ HandlePeerLeft(p, q, net)
    /\ UNCHANGED <<ui, joiner>>

HandleEvent(p) ==
    /\ evq[p] # <<>>
    /\ evq' = [evq EXCEPT ![p] = Tail(@)]
    /\ LET e == Head(evq[p]) IN
       \/ e.type = "created" /\ HostLobbyCreated(p, e.party)
       \/ e.type = "createFailed" /\ HostLobbyFailed(p, e.party)
       \/ e.type = "joined" /\ GuestLobbyJoined(p, e.party)
       \/ e.type = "joinFailed" /\ GuestLobbyFailed(p, e.party)
       \/ e.type = "sessionFailed" /\ SessionFailed(p, e.peer)
    /\ UNCHANGED <<cmdq, calls, chat, lobby, secrets, budget>>

-----------------------------------------------------------------------------
(* handle_lobby_chat_update: q is gone from the lobby of k.  The set       *)
(* chat[p] lets notices overtake call results and each other: the loop     *)
(* handles the notices of one callback round before its call results.      *)

HandleLobbyChatUpdate(p) ==
    \E n \in chat[p] :
       LET k == n[1]
           q == n[2]
           seen == [chat EXCEPT ![p] = @ \ {n}]
       IN /\ \/ /\ Hosting(p, k)
                /\ HandlePeerLeft(p, q, net)
                /\ chat' = seen
                /\ UNCHANGED lobby
             \/ /\ GuestOf(p, k)
                /\ q = HostOf(k)
                /\ LeaveCurrentLobby(p, net, seen)
             \/ /\ ~Hosting(p, k)
                /\ ~(GuestOf(p, k) /\ q = HostOf(k))
                /\ chat' = seen
                /\ UNCHANGED <<shell, network, lobby>>
          /\ UNCHANGED <<threads, calls, evq, secrets, budget>>

-----------------------------------------------------------------------------
(* drain_incoming_messages: p takes the first message q sent to it.        *)

\* Bugs: the host does not ask whom it kicked; does not compare the token;
\* leaves itself out of the party's size.
RefusedForgiving(p, q, m) ==
    \/ m.party # mode[p].party
    \/ Cardinality(mode[p].auth) + 1 >= MaxSize
RefusedAnyToken(p, q, m) ==
    \/ q \in mode[p].kicked
    \/ Cardinality(mode[p].auth) + 1 >= MaxSize
RefusedOffByOne(p, q, m) ==
    \/ q \in mode[p].kicked
    \/ m.party # mode[p].party
    \/ Cardinality(mode[p].auth) >= MaxSize

\* The hello of q is refused: q was kicked, used another party's token, or
\* the party is full.
Refused(p, q, m) ==
    \/ q \in mode[p].kicked
    \/ m.party # mode[p].party
    \/ Cardinality(mode[p].auth) + 1 >= MaxSize

\* Bug: only the newcomer is sent the new list.
HelloTellsNewcomer(p, q, m, wire) ==
    IF Refused(p, q, m)
    THEN /\ Send(p, ToOne(q, <<Plain("error")>>), wire)
         /\ UNCHANGED shell
    ELSE LET auth == mode[p].auth \cup {q}
         IN /\ mode' = [mode EXCEPT ![p].auth = auth]
            /\ ShowMembers(p, auth \cup {p})
            /\ Send(p, ToOne(q, <<LobbyInfo(auth \cup {p})>>), wire)

HandleHello(p, q, m, wire) ==
    IF Refused(p, q, m)
    THEN /\ Send(p, ToOne(q, <<Plain("error")>>), wire)
         /\ UNCHANGED shell
    ELSE LET auth == mode[p].auth \cup {q}
         IN /\ mode' = [mode EXCEPT ![p].auth = auth]
            /\ ShowMembers(p, auth \cup {p})
            /\ Send(p, ToAll(auth, LobbyInfo(auth \cup {p})), wire)

HandleHostIncoming(p, q, m, wire) ==
    \/ /\ m.type = "hello"
       /\ HandleHello(p, q, m, wire)
    \/ /\ m.type = "request"
       /\ IF q \in mode[p].auth
          THEN Send(p, ToOne(q, <<LobbyInfo(mode[p].auth \cup {p})>>), wire)
          ELSE Send(p, Nothing, wire)
       /\ UNCHANGED shell
    \/ /\ m.type = "leave"
       /\ HandlePeerLeft(p, q, wire)
    \/ /\ m.type \in {"info", "closed", "error"}
       /\ Send(p, Nothing, wire)
       /\ UNCHANGED shell

\* A guest does not ask who sent the message.
HandleGuestIncoming(p, m, wire) ==
    \/ /\ m.type = "closed"
       /\ LeaveCurrentLobby(p, wire, chat)
    \/ /\ m.type = "info"
       /\ ShowMembers(p, m.members)
       /\ Send(p, Nothing, wire)
       /\ UNCHANGED <<mode, lobby, chat>>
    \/ /\ m.type \in {"hello", "request", "leave", "error"}
       /\ Send(p, Nothing, wire)
       /\ UNCHANGED <<shell, lobby, chat>>

Receive(p, q) ==
    /\ net[q][p] # <<>>
    /\ q \in open[p]
    /\ LET m == Head(net[q][p])
           wire == Taken(q, p)
       IN \/ /\ mode[p].kind = "host"
             /\ HandleHostIncoming(p, q, m, wire)
             /\ UNCHANGED <<lobby, chat>>
          \/ /\ mode[p].kind = "guest"
             /\ HandleGuestIncoming(p, m, wire)
          \/ /\ mode[p].kind = "none"
             /\ Send(p, Nothing, wire)
             /\ UNCHANGED <<shell, lobby, chat>>
    /\ UNCHANGED <<threads, calls, evq, secrets, budget>>

-----------------------------------------------------------------------------
(* Sessions.  Steam asks p about the first message of a peer p has no      *)
(* session with (session_request_callback); the answer follows `mode'.     *)

\* Bug: a host lets in only those it knows already.
AcceptMembers(p, q) == \/ mode[p].kind = "host" /\ q \in mode[p].auth
                       \/ mode[p].kind = "guest" /\ q = HostOf(mode[p].party)

ShouldAccept(p, q) == \/ mode[p].kind = "host"
                      \/ mode[p].kind = "guest" /\ q = HostOf(mode[p].party)

Failed(q) == [type |-> "sessionFailed", peer |-> q]

SessionRequest(p, q) ==
    /\ net[q][p] # <<>>
    /\ q \notin open[p]
    /\ \/ /\ ShouldAccept(p, q)
          /\ open' = [open EXCEPT ![p] = @ \cup {q}]
          /\ UNCHANGED <<net, evq>>
       \/ /\ ~ShouldAccept(p, q)
          /\ net' = [net EXCEPT ![q][p] = <<>>]
          /\ open' = [open EXCEPT ![q] = @ \ {p}]
          /\ evq' = [evq EXCEPT ![q] = Append(@, Failed(p))]
    /\ UNCHANGED <<shell, threads, calls, chat, lobby, secrets, budget>>

\* The connection between p and q is lost with what is on its way; Steam
\* reports the failed session to both.
SessionBreak(p, q) ==
    /\ q \in open[p]
    /\ p \in open[q]
    /\ Spend(p, "break")
    /\ net' = [a \in Peers |-> [b \in Peers |->
                 IF {a, b} = {p, q} THEN <<>> ELSE net[a][b]]]
    /\ open' = [a \in Peers |-> {b \in open[a] : {a, b} # {p, q}}]
    /\ evq' = [a \in Peers |-> IF a \in {p, q}
                 THEN Append(evq[a], Failed(IF a = p THEN q ELSE p)) ELSE evq[a]]
    /\ UNCHANGED <<shell, threads, calls, chat, lobby, secrets>>

\* The shell of p ends and is started again: all its state is in memory.
\* Steam takes p out of its lobbies; what p sent is still delivered.
Crash(p) ==
    /\ Spend(p, "crash")
    /\ mode' = [mode EXCEPT ![p] = NoMode]
    /\ ClearLobbyGlobals(p)
    /\ ui' = [ui EXCEPT ![p] = Idle]
    /\ joiner' = [joiner EXCEPT ![p] = Idle]
    /\ cmdq' = [cmdq EXCEPT ![p] = <<>>]
    /\ calls' = [calls EXCEPT ![p] = <<>>]
    /\ evq' = [evq EXCEPT ![p] = <<>>]
    /\ lobby' = [k \in Parties |-> lobby[k] \ {p}]
    /\ chat' = [q \in Peers |->
                  IF q = p THEN {}
                  ELSE chat[q] \cup {<<k, p>> : k \in {j \in Parties : {p, q} \subseteq lobby[j]}}]
    /\ open' = [open EXCEPT ![p] = {}]
    /\ UNCHANGED <<net, secrets>>

-----------------------------------------------------------------------------
UserStep(p) ==
    \/ OnStartWatchParty(p)
    \/ OnEndWatchParty(p)
    \/ OnLeaveWatchParty(p)
    \/ \E q \in Peers : OnKick(p, q)
    \/ \E k \in known : ConnectToHost(p, k)

ThreadStep(p) ==
    \/ FinishStart(p)
    \/ StartTimesOut(p)
    \/ SendJoin(p)
    \/ JoinTimesOut(p)

RuntimeStep(p) ==
    \/ HandleCommand(p)
    \/ HandleEvent(p)
    \/ HandleLobbyChatUpdate(p)
    \/ \E q \in Peers : Receive(p, q)
    \/ \E q \in Peers : SessionRequest(p, q)

Failure(p) ==
    \/ \E q \in Peers : SessionBreak(p, q)
    \/ Crash(p)

Next == \E p \in Peers :
    UserStep(p) \/ ThreadStep(p) \/ RuntimeStep(p) \/ SteamAnswers(p) \/ Failure(p)

Spec == Init /\ [][Next]_vars

\* The runtime's loop takes everything queued in every turn, the waiting
\* threads go on once answered, Steam answers every call.  Nothing makes a
\* user act, a wait time out, a session fail or a shell end.
Fairness == \A p \in Peers :
    /\ WF_vars(FinishStart(p))
    /\ WF_vars(SendJoin(p))
    /\ WF_vars(SteamAnswers(p))
    /\ WF_vars(HandleCommand(p))
    /\ WF_vars(HandleEvent(p))
    /\ WF_vars(HandleLobbyChatUpdate(p))
    /\ \A q \in Peers : WF_vars(Receive(p, q)) /\ WF_vars(SessionRequest(p, q))

FairSpec == Spec /\ Fairness

-----------------------------------------------------------------------------
(* Properties.                                                             *)

\* Every variable has its type; in particular every queued item is one that
\* its handler knows (RuntimeCommand, RuntimeEvent, SteamSyncWireMsg).
TypeOK ==
    /\ mode \in [Peers -> Mode]
    /\ globals \in [Peers -> Globals]
    /\ ui \in [Peers -> Thread]
    /\ joiner \in [Peers -> Thread]
    /\ cmdq \in [Peers -> Seq(Command)]
    /\ calls \in [Peers -> Seq(Call)]
    /\ evq \in [Peers -> Seq(Event)]
    /\ chat \in [Peers -> SUBSET (Parties \X Peers)]
    /\ lobby \in [Parties -> SUBSET Peers]
    /\ net \in [Peers -> [Peers -> Seq(Msg)]]
    /\ open \in [Peers -> SUBSET Peers]
    /\ known \in SUBSET Parties
    /\ held \in [Peers -> SUBSET Parties]
    /\ budget \in [Peers -> [Ops -> Nat]]
    /\ \A p \in Peers, o \in Ops : budget[p][o] <= Budget[p][o]

\* The token check of the host (handle_host_incoming): whoever is admitted to
\* a party has used that party's own join secret, even when hellos for an
\* earlier party of the same host are still on their way.
OnlyInvited == \A p, q \in Peers : q \in mode[p].auth => mode[p].party \in held[q]

\* The size check of the host: the party never outgrows lobby_max_size, also
\* when Steam's own lobby has room again before the host knows who left.
RosterWithinLimit == \A p \in Peers : Cardinality(mode[p].auth \cup {p}) <= MaxSize

\* A kick is final (kick_authorized_peer, kicked_peers): as long as the host
\* keeps the party nobody it kicked is forgotten or admitted again, whatever
\* hellos, leaves and failed sessions arrive later.
KickIsFinal == [][\A p \in Peers :
    mode[p].kind = "host" /\ mode'[p].party = mode[p].party =>
        mode[p].kicked \subseteq mode'[p].kicked \ mode'[p].auth]_vars

\* Of a user who waits for each operation to settle: the lobby globals, which
\* drive the menu, the overlay and Discord, tell what the runtime does.
ShownMatchesRuntime == \A p \in Peers : Settled(p) =>
    /\ globals[p].id = mode[p].party
    /\ globals[p].role = CASE mode[p].kind = "none" -> "None"
                           [] mode[p].kind = "host" -> "Host"
                           [] mode[p].kind = "guest" -> "Guest"
    /\ mode[p].kind = "host" => globals[p].members = mode[p].auth \cup {p}
    /\ globals[p].members # {} => globals[p].count = Cardinality(globals[p].members)

\* Of the same user: the shell sits in the Steam lobby of its party and in no
\* other (leave_current_lobby before every start and join).
NoLeakedLobby == \A p \in Peers : Settled(p) =>
    {k \in Parties : p \in lobby[k]} = IF mode[p].kind = "none" THEN {} ELSE {mode[p].party}

Quiet(p, q) == /\ net[p][q] = <<>>
               /\ net[q][p] = <<>>
               /\ \A i \in DOMAIN evq[p] : evq[p][i] # Failed(q)

\* With one host about, an admitted guest with nothing on its way shows the
\* host's member list (every change of the list is sent to all that remain).
RosterInSync == \A q \in Peers, k \in Parties :
    LET h == HostOf(k) IN
    GuestOf(q, k) /\ Member(q, k) /\ Quiet(h, q) =>
        globals[q].members = mode[h].auth \cup {h}

\* A party shown as joined becomes the runtime's party or is no longer shown:
\* connect_to_host shows it before anything is asked of Steam.
ShownPartyResolves == \A p \in Peers, k \in Parties :
    globals[p].id = k /\ globals[p].role = "Guest" ~> GuestOf(p, k) \/ globals[p].id # k

\* While sessions hold, an admitted guest stays on the host's list for ever or
\* comes out of the party: it hears of a kick and of the end of the party.
AdmittedStayOrLeave == \A q \in Peers, k \in Parties :
    [](GuestOf(q, k) /\ Member(q, k) => <>[]Member(q, k) \/ <>~GuestOf(q, k))

\* While sessions hold, a guest's hello is answered: a guest in a party that its
\* host keeps open is put on the list, unless it was kicked or goes again.
JoinedAreAdmitted == \A q \in Peers, k \in Parties :
    LET h == HostOf(k) IN
    GuestOf(q, k) ~> Member(q, k) \/ ~GuestOf(q, k) \/ ~Hosting(h, k) \/ q \in mode[h].kicked

-----------------------------------------------------------------------------
(* What the documentation says and the code does not keep.                 *)

\* wiki/watch-party.md: "Guests follow host playback updates such as loading,
\* play, pause, and seeking."  A guest the host has admitted stays admitted as
\* long as both remain in the party.
GuestsKeepFollowing == \A q \in Peers, k \in Parties :
    [](GuestOf(q, k) /\ Member(q, k) =>
         <>[]Member(q, k) \/ <>~GuestOf(q, k) \/ <>~Hosting(HostOf(k), k))

=============================================================================
