---------------------------- MODULE PlaybackSync ----------------------------
(***************************************************************************)
(* How a guest of a watch party follows its host's playback                *)
(* (tick_host_broadcast and handle_host_message of steam_sync.rs).         *)
(*                                                                         *)
(* Once a second the host tells each guest what has changed, reliably, and *)
(* its whole state, unreliably.  The two overtake each other, and datagrams*)
(* are lost.  A guest that is shown a new page sleeps 1.5 s in its         *)
(* runtime thread before it applies the rest of the message, while its web *)
(* application opens the page and its player loads the file.               *)
(*                                                                         *)
(* Who is in the party is the matter of WatchParty; here is one guest.     *)
(***************************************************************************)
EXTENDS Integers, Sequences

CONSTANTS
    Pages,          \* URLs of the host's web view
    NoPage,         \* the empty URL
    Openable,       \* the pages whose URL has a part after "#/"
    Worlds,         \* in which a party may be: the host's page when the party begins,
                    \*   the length of every file, in seconds; a prompt world's network
                    \*   delivers in order and within a second, its player reports before
                    \*   the next message comes; bounds: how many datagrams are lost,
                    \*   and what the users of host and guest may do
    Jumps,          \* the positions that users and applications seek to
    MaxFlight       \* bound: datagrams under way

AnyPage == Pages \cup {NoPage}

ASSUME PagesAssumption ==
    /\ NoPage \notin Pages
    /\ Openable \subseteq Pages
ASSUME BoundsAssumption ==
    /\ Worlds \subseteq [page : AnyPage, length : Nat, prompt : BOOLEAN,
                        losses : Nat, host : Nat, guest : Nat]
    /\ Jumps \subseteq Nat
    /\ \A w \in Worlds, t \in Jumps : t <= w.length
    /\ MaxFlight \in Nat

VARIABLES
    world,      \* one of Worlds
    host,       \* the globals that gather_host_state reads
    last,       \* last_paused, last_time, and whether a second has passed
    guest,      \* Mode::Guest, and the message that its thread sleeps over
    player,     \* the guest's player and its globals
    reliable,   \* messages sent with reliable = true
    datagrams,  \* and with reliable = false
    quiet,      \* history of a prompt network: seconds without a deed or a loss, and
                \*   how often the guest was moved after them
    left        \* how often users and the network may still act

vars == <<world, host, last, guest, player, reliable, datagrams, quiet, left>>

-----------------------------------------------------------------------------
Time == 0..world.length
Host == [page : AnyPage, time : Time, paused : BOOLEAN]

\* HostMsg, without Load, which a guest only logs, and what is about membership.
\* last_stream_url and last_web_url decide about Load only.
State(h) == [type |-> "State", page |-> h.page, time |-> h.time, paused |-> h.paused]
Short(type, h) == [type |-> type, page |-> NoPage, time |-> h.time, paused |-> h.paused]
Msg == [type : {"State", "Play", "Pause", "Seek"},
        page : AnyPage, time : Time, paused : BOOLEAN]

\* A guest's player: the page whose file it has and the one that it is to open, its
\* position, and CURRENT_TIME and TOTAL_DURATION as last reported.
Player == [file : AnyPage, opening : AnyPage, time : Time, paused : BOOLEAN,
           seen : Time, known : BOOLEAN]

Away(a, b) == IF a > b THEN a - b ELSE b - a
Later(t) == IF t < world.length THEN t + 1 ELSE t

Init ==
    /\ world \in Worlds
    /\ host = [page |-> world.page, time |-> 0, paused |-> FALSE]
    /\ last = [time |-> 0, paused |-> FALSE, due |-> TRUE]
    /\ guest = [in |-> FALSE, page |-> NoPage, asleep |-> <<>>]
    /\ player = [file |-> NoPage, opening |-> NoPage, time |-> 0, paused |-> FALSE,
                 seen |-> 0, known |-> FALSE]
    /\ reliable = <<>>
    /\ datagrams = <<>>
    /\ quiet = [for |-> 0, moves |-> 0]
    /\ left = [host |-> world.host, guest |-> world.guest, losses |-> world.losses]

\* How many seconds after the last deed or loss everything has caught up.
Settled == 3
Stir == quiet' = [for |-> 0, moves |-> 0]

-----------------------------------------------------------------------------
(* The host.                                                               *)

\* expected_time, after last_paused was brought up to date.
Expected == IF host.paused THEN last.time ELSE last.time + 1

\* Bug: the state is sent only along with something that has changed.
SendsStateOnChange(changes) == changes # <<>>

\* The state goes out in every round.
SendsState(changes) == TRUE

\* The messages about what has changed.
Changes ==
    (IF host.paused = last.paused THEN <<>>
     ELSE <<Short(IF host.paused THEN "Pause" ELSE "Play", host)>>)
    \o
    (IF Away(host.time, Expected) > 3 THEN <<Short("Seek", host)>> ELSE <<>>)

\* tick_host_broadcast, with a guest in the party and a second after the last one.
\* A datagram too many is dropped.
Broadcast ==
    /\ guest.in
    /\ last.due
    /\ reliable' = reliable \o Changes
    /\ datagrams' = IF SendsState(Changes) /\ Len(datagrams) < MaxFlight
                    THEN Append(datagrams, State(host)) ELSE datagrams
    /\ last' = [time |-> host.time, paused |-> host.paused, due |-> FALSE]
    /\ UNCHANGED <<world, host, guest, player, quiet, left>>

\* A hello has arrived, and the host answers it with its state.  The same answer to the
\* RequestState behind it is left out.
GuestJoins ==
    /\ ~guest.in
    /\ left.guest > 0
    /\ left' = [left EXCEPT !.guest = @ - 1]
    /\ guest' = [in |-> TRUE, page |-> NoPage, asleep |-> <<>>]
    /\ reliable' = <<State(host)>>
    /\ Stir
    /\ UNCHANGED <<world, host, last, player, datagrams>>

\* The guest leaves, or its session ends.  Mode::None drops what still arrives, so what is
\* under way is gone; none of it is kept for a guest that joins again.
GuestLeaves ==
    /\ guest.in
    /\ guest.asleep = <<>>
    /\ left.guest > 0
    /\ left' = [left EXCEPT !.guest = @ - 1]
    /\ guest' = [guest EXCEPT !.in = FALSE]
    /\ reliable' = <<>>
    /\ datagrams' = <<>>
    /\ Stir
    /\ UNCHANGED <<world, host, last, player>>

-----------------------------------------------------------------------------
(* The guest.                                                              *)

\* Commands to the player, which it carries out at once and reports later.  A seek
\* without a file fails.
SetPause(p, paused) == [p EXCEPT !.paused = paused]

\* Bug: the seek is relative.
SeekBy(p, t) == IF p.file = NoPage THEN p ELSE [p EXCEPT !.time = @ + t]

\* ["seek", t, "absolute"].
Seek(p, t) == IF p.file = NoPage THEN p ELSE [p EXCEPT !.time = t]

Moved(p) ==
    quiet' = IF quiet.for = Settled /\ p.time # player.time /\ quiet.moves < 2
             THEN [quiet EXCEPT !.moves = @ + 1] ELSE quiet

\* Bug: a guest is moved however close it is.
FarAny(p, t) == p.known /\ p.seen # t

\* A guest is moved only if it is more than two seconds away.
Far(p, t) == p.known /\ Away(p.seen, t) > 2

\* A state's pause and position.
Apply(p, m) ==
    LET q == SetPause(p, m.paused) IN IF Far(p, m.time) THEN Seek(q, m.time) ELSE q

\* Play, Pause and Seek.
Obey(p, m) ==
    CASE m.type = "Play" -> Seek(SetPause(p, FALSE), m.time)
      [] m.type = "Pause" -> Seek(SetPause(p, TRUE), m.time)
      [] m.type = "Seek" -> Seek(p, m.time)

\* Bug: a page is opened once.
NewPageFirst(m) == m.page # NoPage /\ guest.page = NoPage

\* A state shows a page other than the last one it showed.
NewPage(m) == m.page # NoPage /\ m.page # guest.page

\* handle_host_message, up to its sleep.
Handle(m) ==
    \/ /\ m.type = "State" /\ NewPage(m)
       /\ guest' = [guest EXCEPT !.page = m.page, !.asleep = <<m>>]
       /\ player' = IF m.page \in Openable THEN [player EXCEPT !.opening = m.page] ELSE player
       /\ UNCHANGED quiet
    \/ /\ m.type = "State" /\ ~NewPage(m)
       /\ player' = Apply(player, m)
       /\ Moved(player')
       /\ UNCHANGED guest
    \/ /\ m.type # "State"
       /\ player' = Obey(player, m)
       /\ Moved(player')
       /\ UNCHANGED guest

\* The player's globals are up to date.
Reported == player.file # NoPage => player.known /\ player.seen = player.time

Awake == guest.in /\ guest.asleep = <<>>

\* drain_incoming_messages of a guest, one message.
ReceiveReliable ==
    /\ Awake
    /\ reliable # <<>>
    /\ Handle(Head(reliable))
    /\ reliable' = Tail(reliable)
    /\ UNCHANGED <<world, host, last, datagrams, left>>

Without(s, i) == SubSeq(s, 1, i - 1) \o SubSeq(s, i + 1, Len(s))

\* Datagrams overtake each other.
ReceiveDatagram(i) ==
    /\ Awake
    /\ world.prompt => i = 1 /\ reliable = <<>> /\ Reported
    /\ Handle(datagrams[i])
    /\ datagrams' = Without(datagrams, i)
    /\ UNCHANGED <<world, host, last, reliable, left>>

LoseDatagram(i) ==
    /\ left.losses > 0
    /\ left' = [left EXCEPT !.losses = @ - 1]
    /\ datagrams' = Without(datagrams, i)
    /\ Stir
    /\ UNCHANGED <<world, host, last, guest, player, reliable>>

\* The 1.5 s are over, and the rest of the message is applied.
Wake ==
    /\ guest.in
    /\ guest.asleep # <<>>
    /\ player' = Apply(player, Head(guest.asleep))
    /\ Moved(player')
    /\ guest' = [guest EXCEPT !.asleep = <<>>]
    /\ UNCHANGED <<world, host, last, reliable, datagrams, left>>

-----------------------------------------------------------------------------
(* The guest's web application and player, which are external.             *)

\* The page is opened and its file loaded, playing, from where it was left.
FileLoads(t) ==
    /\ player.opening # NoPage
    /\ player' = [file |-> player.opening, opening |-> NoPage, time |-> t, paused |-> FALSE,
                  seen |-> 0, known |-> FALSE]
    /\ Stir
    /\ UNCHANGED <<world, host, last, guest, reliable, datagrams, left>>

\* mpv reports position and duration.
Reports ==
    /\ player.file # NoPage
    /\ player.seen # player.time \/ ~player.known
    /\ player' = [player EXCEPT !.seen = player.time, !.known = TRUE]
    /\ UNCHANGED <<world, host, last, guest, reliable, datagrams, quiet, left>>

-----------------------------------------------------------------------------
(* Time and users.                                                         *)

Plays(p) == p.file # NoPage /\ ~p.paused

\* With a prompt network whatever was sent a second ago has arrived, and the loop has
\* had its turn.
InTime ==
    /\ guest.in => ~last.due
    /\ reliable = <<>>
    /\ Len(datagrams) <= 1
    /\ Reported

\* A second passes.
Second ==
    /\ world.prompt => InTime
    /\ host' = IF host.page # NoPage /\ ~host.paused THEN [host EXCEPT !.time = Later(@)] ELSE host
    /\ player' = IF Plays(player) THEN [player EXCEPT !.time = Later(@)] ELSE player
    /\ last' = [last EXCEPT !.due = TRUE]
    /\ quiet' = [quiet EXCEPT !.for = IF world.prompt /\ @ < Settled THEN @ + 1 ELSE @]
    /\ UNCHANGED <<world, guest, reliable, datagrams, left>>

HostActs ==
    /\ left.host > 0
    /\ left' = [left EXCEPT !.host = @ - 1]
    /\ \/ \E p \in Pages : host' = [page |-> p, time |-> 0, paused |-> FALSE]
       \/ \E t \in Jumps : host' = [host EXCEPT !.time = t]
       \/ host' = [host EXCEPT !.paused = ~@]
    /\ Stir
    /\ UNCHANGED <<world, last, guest, player, reliable, datagrams>>

\* The guest's user, whose player is the guest's own.  The user stays on the host's page: of
\* one who opens another the shell knows nothing, and current_web_url does not change, so a
\* guest is not brought back before the host's page changes.
GuestActs ==
    /\ left.guest > 0
    /\ left' = [left EXCEPT !.guest = @ - 1]
    /\ player.file # NoPage
    /\ \/ \E t \in Jumps : player' = [player EXCEPT !.time = t]
       \/ player' = [player EXCEPT !.paused = ~@]
    /\ Stir
    /\ UNCHANGED <<world, host, last, guest, reliable, datagrams>>

ReceiveOldest == datagrams # <<>> /\ ReceiveDatagram(1)

Next ==
    \/ Broadcast \/ GuestJoins \/ GuestLeaves
    \/ ReceiveReliable \/ Wake
    \/ \E i \in DOMAIN datagrams : ReceiveDatagram(i) \/ LoseDatagram(i)
    \/ \E t \in Jumps : FileLoads(t)
    \/ Reports \/ Second \/ HostActs \/ GuestActs

Spec == Init /\ [][Next]_vars

\* Both runtimes' loops go on, Steam delivers what it does not lose, time passes, and
\* the guest's application opens what it is told to.
FairSpec ==
    /\ Spec
    /\ WF_vars(Broadcast) /\ WF_vars(ReceiveReliable) /\ WF_vars(ReceiveOldest) /\ WF_vars(Wake)
    /\ WF_vars(\E t \in Jumps : FileLoads(t)) /\ WF_vars(Reports) /\ WF_vars(Second)

-----------------------------------------------------------------------------
(* Properties.                                                             *)

\* Every variable has its type; a message under way is one of the host's.
TypeOK ==
    /\ world \in Worlds
    /\ host \in Host
    /\ last \in [time : Time, paused : BOOLEAN, due : BOOLEAN]
    /\ guest \in [in : BOOLEAN, page : AnyPage, asleep : Seq(Msg)]
    /\ player \in Player
    /\ reliable \in Seq(Msg)
    /\ datagrams \in Seq([type : {"State"}, page : AnyPage, time : Time, paused : BOOLEAN])
    /\ quiet \in [for : 0..Settled, moves : 0..2]
    /\ left \in [{"host", "guest", "losses"} -> Nat]

\* The guest's player has the host's file and plays or pauses with it, at most two
\* seconds away, or three with a report under way.
InSync ==
    /\ player.file = host.page
    /\ player.paused = host.paused
    /\ Away(player.time, host.time) <= 3

Following == guest.in /\ host.page \in Openable

\* A guest that stays in the party ends up with the host's page, pause and position
\* and stays there unless its user opens another, whatever was lost, overtaken or slept through
\* (tick_host_broadcast, handle_host_message; wiki/watch-party.md: "Guests follow host
\* playback updates such as loading, play, pause, and seeking").
FollowsHost == <>[]Following => <>[]InSync

\* While the host just plays and the network is prompt, a guest is corrected once at
\* most: neither the second between two broadcasts nor the guest's lag nor a change of
\* the network's delay moves it to and fro (the thresholds of 3 and 2 seconds).
MovedOnce == quiet.moves <= 1

=============================================================================
