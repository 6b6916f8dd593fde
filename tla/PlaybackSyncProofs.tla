--------------------------- MODULE PlaybackSyncProofs -----------------------
(***************************************************************************)
(* Proofs about PlaybackSync: every variable keeps its type, and a quiet   *)
(* and prompt network moves a guest once at most.                          *)
(*                                                                         *)
(* Why once: with every second that passes without a deed or a loss the    *)
(* guest knows more of its host.  After the first (FirstSecond) the newest *)
(* state is under way or handled.  After the second (SecondSecond) all     *)
(* that is under way shows the host as it is, at most a second late, and   *)
(* no reliable message is needed any more.  After the third (Caught) what  *)
(* a guest may still sleep over is at most two seconds old, and no state   *)
(* puts it to sleep again.  A guest that is moved then stays within two    *)
(* seconds behind the host (Behindhand), and a state that is at most one   *)
(* second old never finds it more than two away.                           *)
(***************************************************************************)
EXTENDS PlaybackSync, SequenceTheorems, TLAPS

-----------------------------------------------------------------------------
(* The invariant.                                                          *)

\* The messages that the guest's thread sleeps over: one at most.
SleptOver == {guest.asleep[i] : i \in DOMAIN guest.asleep}

\* Before the host has a page there is none to follow.
NoPageYet ==
    host.page = NoPage =>
        /\ player.file = NoPage
        /\ player.opening = NoPage
        /\ \A i \in DOMAIN reliable : reliable[i].page = NoPage
        /\ \A i \in DOMAIN datagrams : datagrams[i].page = NoPage

\* A message shows the host as it is, or as it was at most so many seconds ago.
Near(m, age) ==
    /\ m.page = host.page
    /\ m.paused = host.paused
    /\ m.time <= host.time
    /\ host.time <= m.time + age

\* The guest has the host's page, if there is one.
Shown == host.page # NoPage => guest.page = host.page

\* How many states the guest has yet to handle, the one that is due included.
Behind == Len(datagrams) + (IF last.due THEN 1 ELSE 0)

\* What the next broadcast compares the host with differs by the second that passed.
LastNear ==
    /\ last.paused = host.paused
    /\ last.time <= host.time
    /\ host.time <= last.time + (IF last.due THEN 1 ELSE 0)

\* The states under way, the oldest first.
OnTheWay == \A i \in DOMAIN datagrams : Near(datagrams[i], Behind - i)

FirstSecond ==
    /\ last.due => reliable = <<>>
    /\ ~last.due =>
          /\ LastNear
          /\ datagrams # <<>> => Near(datagrams[Len(datagrams)], 0)
          /\ datagrams = <<>> =>
                /\ reliable = <<>>
                /\ Shown
                /\ \A m \in SleptOver : Near(m, 0)

Current == reliable = <<>> /\ LastNear /\ OnTheWay

SecondSecond ==
    /\ Current
    /\ Behind < 2 => Shown
    /\ Behind = 1 => \A m \in SleptOver : Near(m, 1)
    /\ Behind = 0 => guest.asleep = <<>>

Caught ==
    /\ Current
    /\ Shown
    /\ Behind = 2 => \A m \in SleptOver : Near(m, 2)
    /\ Behind < 2 => guest.asleep = <<>>

\* Where a guest is that has been moved.
Behindhand ==
    /\ guest.asleep = <<>>
    /\ player.file # NoPage
    /\ player.paused = host.paused
    /\ player.time <= host.time
    /\ host.time <= player.time + 2

\* With every quiet second the guest knows more.
Steady ==
    /\ ~world.prompt => quiet.for = 0
    /\ quiet.for < Settled \/ ~guest.in => quiet.moves = 0
    /\ guest.in /\ quiet.for > 0 => Behind <= 2
    /\ guest.in /\ quiet.for = 1 => FirstSecond
    /\ guest.in /\ quiet.for = 2 => SecondSecond
    /\ guest.in /\ quiet.for = Settled => Caught
    /\ quiet.moves > 0 => Behindhand

Inv == TypeOK /\ NoPageYet /\ Steady /\ MovedOnce

-----------------------------------------------------------------------------
(* Sequences.                                                              *)

LEMMA WithoutOne ==
    ASSUME NEW S, NEW s \in Seq(S), NEW i \in 1..Len(s)
    PROVE  /\ Without(s, i) \in Seq(S)
           /\ Len(Without(s, i)) = Len(s) - 1
           /\ \A j \in 1..(Len(s) - 1) : Without(s, i)[j] = IF j < i THEN s[j] ELSE s[j + 1]
  <1> DEFINE a == SubSeq(s, 1, i - 1)
             b == SubSeq(s, i + 1, Len(s))
  <1>1. /\ i \in Int /\ Len(s) \in Nat /\ i - 1 \in Int /\ i + 1 \in Int
        /\ \A j \in 1..Len(s) : s[j] \in S
    OBVIOUS
  <1>2. /\ a \in Seq(S)
        /\ Len(a) = i - 1
        /\ \A j \in 1..(i - 1) : a[j] = s[j]
    <2>1. \A j \in 1..(i - 1) : s[j] \in S  BY <1>1
    <2>2. /\ a \in Seq(S)
          /\ Len(a) = IF 1 <= i - 1 THEN (i - 1) - 1 + 1 ELSE 0
          /\ \A j \in 1..((i - 1) - 1 + 1) : a[j] = s[1 + j - 1]
      BY <1>1, <2>1, SubSeqProperties
    <2> QED  BY <1>1, <2>2
  <1>3. /\ b \in Seq(S)
        /\ Len(b) = Len(s) - i
        /\ \A j \in 1..(Len(s) - i) : b[j] = s[i + j]
    <2>1. \A j \in (i + 1)..Len(s) : s[j] \in S  BY <1>1
    <2>2. /\ b \in Seq(S)
          /\ Len(b) = IF i + 1 <= Len(s) THEN Len(s) - (i + 1) + 1 ELSE 0
          /\ \A j \in 1..(Len(s) - (i + 1) + 1) : b[j] = s[(i + 1) + j - 1]
      BY <1>1, <2>1, SubSeqProperties
    <2> QED  BY <1>1, <2>2
  <1> HIDE DEF a, b
  <1>4. /\ a \o b \in Seq(S)
        /\ Len(a \o b) = Len(a) + Len(b)
        /\ \A j \in 1..(Len(a) + Len(b)) : (a \o b)[j] = IF j <= Len(a) THEN a[j] ELSE b[j - Len(a)]
    BY <1>2, <1>3, ConcatProperties
  <1>5. Without(s, i) = a \o b  BY DEF Without, a, b
  <1>6. Len(a) + Len(b) = Len(s) - 1  BY <1>1, <1>2, <1>3
  <1>7. ASSUME NEW j \in 1..(Len(s) - 1)
        PROVE  (a \o b)[j] = IF j < i THEN s[j] ELSE s[j + 1]
    <2>1. (a \o b)[j] = IF j <= Len(a) THEN a[j] ELSE b[j - Len(a)]  BY <1>4, <1>6
    <2>2. CASE j < i  BY <1>1, <1>2, <2>1, <2>2
    <2>3. CASE ~(j < i)
      <3>1. j - Len(a) \in 1..(Len(s) - i) /\ i + (j - Len(a)) = j + 1
        BY <1>1, <1>2, <2>3
      <3>2. b[j - Len(a)] = s[j + 1]  BY <1>3, <3>1
      <3> QED  BY <1>1, <1>2, <2>1, <2>3, <3>2
    <2> QED  BY <2>2, <2>3
  <1> QED  BY <1>4, <1>5, <1>6, <1>7

-----------------------------------------------------------------------------
(* Types.                                                                  *)

DatagramMsg == [type : {"State"}, page : AnyPage, time : Time, paused : BOOLEAN]
GuestType == [in : BOOLEAN, page : AnyPage, asleep : Seq(Msg)]
QuietType == [for : 0..Settled, moves : 0..2]

\* The world that a party is in does not change.
LEMMA WorldType ==
    ASSUME TypeOK
    PROVE  world.length \in Nat /\ world.prompt \in BOOLEAN
  BY BoundsAssumption DEF TypeOK

LEMMA TimeStays ==
    ASSUME world' = world
    PROVE  Time' = Time /\ Host' = Host /\ Msg' = Msg /\ Player' = Player
  BY DEF Time, Host, Msg, Player

LEMMA LaterType ==
    ASSUME TypeOK, NEW t \in Time
    PROVE  Later(t) \in Time /\ t \in Nat
  BY WorldType DEF Later, Time

LEMMA StateType ==
    ASSUME TypeOK
    PROVE  State(host) \in DatagramMsg /\ State(host) \in Msg
  BY DEF TypeOK, State, DatagramMsg, Msg, Host

LEMMA ChangesType ==
    ASSUME TypeOK
    PROVE  Changes \in Seq(Msg)
  <1>1. \A type \in {"Play", "Pause", "Seek"} : Short(type, host) \in Msg
    BY DEF TypeOK, Short, Msg, Host, AnyPage
  <1>2. <<>> \in Seq(Msg) /\ \A m \in Msg : <<m>> \in Seq(Msg)  OBVIOUS
  <1> QED  BY <1>1, <1>2 DEF Changes

LEMMA ApplyType ==
    ASSUME TypeOK, NEW m \in Msg
    PROVE  Apply(player, m) \in Player
  <1>1. player \in Player  BY DEF TypeOK
  <1>2. SetPause(player, m.paused) \in Player  BY <1>1 DEF SetPause, Player, Msg
  <1>3. \A q \in Player : Seek(q, m.time) \in Player  BY DEF Seek, Player, Msg
  <1> QED  BY <1>2, <1>3 DEF Apply

LEMMA ObeyType ==
    ASSUME TypeOK, NEW m \in Msg, m.type # "State"
    PROVE  Obey(player, m) \in Player
  <1>1. player \in Player  BY DEF TypeOK
  <1>2. \A b \in BOOLEAN : SetPause(player, b) \in Player  BY <1>1 DEF SetPause, Player
  <1>3. \A q \in Player : Seek(q, m.time) \in Player  BY DEF Seek, Player, Msg
  <1>4. m.type \in {"Play", "Pause", "Seek"}  BY DEF Msg
  <1> QED  BY <1>1, <1>2, <1>3, <1>4 DEF Obey

LEMMA MovedType ==
    ASSUME TypeOK, Moved(player')
    PROVE  quiet' \in QuietType
  <1>1. quiet \in QuietType  BY DEF TypeOK, QuietType
  <1>2. quiet.moves < 2 => [quiet EXCEPT !.moves = @ + 1] \in QuietType
    BY <1>1 DEF QuietType
  <1> QED  BY <1>1, <1>2 DEF Moved

LEMMA HandleType ==
    ASSUME TypeOK, NEW m \in Msg, Handle(m)
    PROVE  guest' \in GuestType /\ player' \in Player /\ quiet' \in QuietType
  <1>1. guest \in GuestType /\ player \in Player /\ quiet \in QuietType
    BY DEF TypeOK, GuestType, QuietType
  <1>2. CASE m.type = "State" /\ NewPage(m)
    <2>1. <<m>> \in Seq(Msg)  OBVIOUS
    <2>2. m.page \in AnyPage  BY DEF Msg
    <2>3. guest' = [guest EXCEPT !.page = m.page, !.asleep = <<m>>] /\ quiet' = quiet
      BY <1>2 DEF Handle
    <2>4. guest' \in GuestType  BY <1>1, <2>1, <2>2, <2>3 DEF GuestType
    <2>5. player' \in Player  BY <1>1, <1>2, <2>2 DEF Handle, Player
    <2> QED  BY <1>1, <2>3, <2>4, <2>5
  <1>3. CASE m.type = "State" /\ ~NewPage(m)
    BY <1>1, <1>3, ApplyType, MovedType DEF Handle
  <1>4. CASE m.type # "State"
    BY <1>1, <1>4, ObeyType, MovedType DEF Handle
  <1> QED  BY <1>2, <1>3, <1>4

\* Every step keeps the types.
LEMMA TypeStep ==
    ASSUME TypeOK, [Next]_vars
    PROVE  TypeOK'
  <1>1. /\ world \in Worlds /\ host \in Host
        /\ last \in [time : Time, paused : BOOLEAN, due : BOOLEAN]
        /\ guest \in GuestType /\ player \in Player
        /\ reliable \in Seq(Msg) /\ datagrams \in Seq(DatagramMsg)
        /\ quiet \in QuietType /\ left \in [{"host", "guest", "losses"} -> Nat]
    BY DEF TypeOK, GuestType, DatagramMsg, QuietType
  <1>2. world' = world => /\ Time' = Time /\ Host' = Host /\ Player' = Player
                          /\ Seq(Msg)' = Seq(Msg) /\ GuestType' = GuestType
                          /\ Seq(DatagramMsg)' = Seq(DatagramMsg)
    BY TimeStays DEF GuestType, DatagramMsg
  <1>3. SUFFICES
          /\ world' = world /\ host' \in Host
          /\ last' \in [time : Time, paused : BOOLEAN, due : BOOLEAN]
          /\ guest' \in GuestType /\ player' \in Player
          /\ reliable' \in Seq(Msg) /\ datagrams' \in Seq(DatagramMsg)
          /\ quiet' \in QuietType /\ left' \in [{"host", "guest", "losses"} -> Nat]
    BY <1>1, <1>2 DEF TypeOK, GuestType, DatagramMsg, QuietType
  <1>4. /\ Stir => quiet' \in QuietType
        /\ left.guest > 0 => [left EXCEPT !.guest = @ - 1] \in [{"host", "guest", "losses"} -> Nat]
        /\ left.host > 0 => [left EXCEPT !.host = @ - 1] \in [{"host", "guest", "losses"} -> Nat]
        /\ left.losses > 0 => [left EXCEPT !.losses = @ - 1] \in [{"host", "guest", "losses"} -> Nat]
    BY <1>1 DEF Stir, QuietType, Settled
  <1>5. CASE Broadcast
    <2>1. datagrams' \in Seq(DatagramMsg)
      BY <1>1, <1>5, StateType DEF Broadcast
    <2>2. reliable' \in Seq(Msg)  BY <1>1, <1>5, ChangesType DEF Broadcast
    <2>3. last' \in [time : Time, paused : BOOLEAN, due : BOOLEAN]
      BY <1>1, <1>5 DEF Broadcast, Host
    <2> QED  BY <1>1, <1>5, <2>1, <2>2, <2>3 DEF Broadcast
  <1>6. CASE GuestJoins
    <2>1. guest' \in GuestType  BY <1>6 DEF GuestJoins, GuestType, AnyPage
    <2>2. reliable' \in Seq(Msg)  BY <1>6, StateType DEF GuestJoins
    <2> QED  BY <1>1, <1>4, <1>6, <2>1, <2>2 DEF GuestJoins
  <1>7. CASE GuestLeaves
    <2>1. guest' \in GuestType  BY <1>1, <1>7 DEF GuestLeaves, GuestType
    <2> QED  BY <1>1, <1>4, <1>7, <2>1 DEF GuestLeaves
  <1>8. CASE ReceiveReliable
    <2>1. Head(reliable) \in Msg /\ reliable' \in Seq(Msg)
      BY <1>1, <1>8 DEF ReceiveReliable
    <2> QED  BY <1>1, <1>8, <2>1, HandleType DEF ReceiveReliable
  <1>9. CASE Wake
    <2>1. Head(guest.asleep) \in Msg  BY <1>1, <1>9 DEF Wake, GuestType
    <2>2. guest' \in GuestType
      <3>1. <<>> \in Seq(Msg)  OBVIOUS
      <3>2. [guest EXCEPT !.asleep = <<>>] \in GuestType  BY <1>1, <3>1 DEF GuestType
      <3> QED  BY <1>9, <3>2 DEF Wake
    <2> QED  BY <1>1, <1>9, <2>1, <2>2, ApplyType, MovedType DEF Wake
  <1>10. ASSUME NEW i \in DOMAIN datagrams, ReceiveDatagram(i)
         PROVE  /\ world' = world /\ host' \in Host
                /\ last' \in [time : Time, paused : BOOLEAN, due : BOOLEAN]
                /\ guest' \in GuestType /\ player' \in Player
                /\ reliable' \in Seq(Msg) /\ datagrams' \in Seq(DatagramMsg)
                /\ quiet' \in QuietType /\ left' \in [{"host", "guest", "losses"} -> Nat]
    <2>1. i \in 1..Len(datagrams)  BY <1>1
    <2>2. datagrams[i] \in DatagramMsg  BY <1>1, <2>1
    <2>3. datagrams[i] \in Msg  BY <2>2 DEF DatagramMsg, Msg
    <2>4. datagrams' \in Seq(DatagramMsg)
      BY <1>1, <1>10, <2>1, WithoutOne DEF ReceiveDatagram
    <2> QED  BY <1>1, <1>10, <2>3, <2>4, HandleType DEF ReceiveDatagram
  <1>11. ASSUME NEW i \in DOMAIN datagrams, LoseDatagram(i)
         PROVE  /\ world' = world /\ host' \in Host
                /\ last' \in [time : Time, paused : BOOLEAN, due : BOOLEAN]
                /\ guest' \in GuestType /\ player' \in Player
                /\ reliable' \in Seq(Msg) /\ datagrams' \in Seq(DatagramMsg)
                /\ quiet' \in QuietType /\ left' \in [{"host", "guest", "losses"} -> Nat]
    <2>1. i \in 1..Len(datagrams)  BY <1>1
    <2>2. datagrams' \in Seq(DatagramMsg)
      BY <1>1, <1>11, <2>1, WithoutOne DEF LoseDatagram
    <2> QED  BY <1>1, <1>4, <1>11, <2>2 DEF LoseDatagram
  <1>12. ASSUME NEW t \in Jumps, FileLoads(t)
         PROVE  /\ world' = world /\ host' \in Host
                /\ last' \in [time : Time, paused : BOOLEAN, due : BOOLEAN]
                /\ guest' \in GuestType /\ player' \in Player
                /\ reliable' \in Seq(Msg) /\ datagrams' \in Seq(DatagramMsg)
                /\ quiet' \in QuietType /\ left' \in [{"host", "guest", "losses"} -> Nat]
    <2>1. t \in Time /\ 0 \in Time  BY <1>1, BoundsAssumption, WorldType DEF Time
    <2>2. player' \in Player  BY <1>1, <1>12, <2>1 DEF FileLoads, Player, AnyPage
    <2> QED  BY <1>1, <1>4, <1>12, <2>2 DEF FileLoads
  <1>13. CASE Reports
    <2>1. player' \in Player  BY <1>1, <1>13 DEF Reports, Player
    <2> QED  BY <1>1, <1>13, <2>1 DEF Reports
  <1>14. CASE Second
    <2>1. host.time \in Time /\ player.time \in Time  BY <1>1 DEF Host, Player
    <2>2. Later(host.time) \in Time /\ Later(player.time) \in Time  BY <2>1, LaterType
    <2>3. host' \in Host  BY <1>1, <1>14, <2>2 DEF Second, Host
    <2>4. player' \in Player  BY <1>1, <1>14, <2>2 DEF Second, Player
    <2>5. last' \in [time : Time, paused : BOOLEAN, due : BOOLEAN]  BY <1>1, <1>14 DEF Second
    <2>6. quiet' \in QuietType  BY <1>1, <1>14 DEF Second, QuietType, Settled
    <2> QED  BY <1>1, <1>14, <2>3, <2>4, <2>5, <2>6 DEF Second
  <1>15. CASE HostActs
    <2>1. Jumps \subseteq Time /\ 0 \in Time  BY <1>1, BoundsAssumption, WorldType DEF Time
    <2>2. \A p \in Pages : [page |-> p, time |-> 0, paused |-> FALSE] \in Host
      BY <2>1 DEF Host, AnyPage
    <2>3. \A t \in Jumps : [host EXCEPT !.time = t] \in Host
      BY <1>1, <2>1 DEF Host
    <2>4. [host EXCEPT !.paused = ~@] \in Host  BY <1>1 DEF Host
    <2>5. host' \in Host  BY <1>15, <2>2, <2>3, <2>4 DEF HostActs
    <2> QED  BY <1>1, <1>4, <1>15, <2>5 DEF HostActs
  <1>16. CASE GuestActs
    <2>1. Jumps \subseteq Time  BY <1>1, BoundsAssumption, WorldType DEF Time
    <2>2. player' \in Player  BY <1>1, <1>16, <2>1 DEF GuestActs, Player
    <2> QED  BY <1>1, <1>4, <1>16, <2>2 DEF GuestActs
  <1>17. CASE UNCHANGED vars
    BY <1>1, <1>17 DEF vars
  <1> QED
    BY <1>5, <1>6, <1>7, <1>8, <1>9, <1>10, <1>11, <1>12, <1>13, <1>14, <1>15, <1>16, <1>17
    DEF Next

LEMMA TypeInit == ASSUME Init PROVE TypeOK
  <1>1. world \in [page : AnyPage, length : Nat, prompt : BOOLEAN,
                   losses : Nat, host : Nat, guest : Nat]
    BY BoundsAssumption DEF Init
  <1>2. 0 \in Time /\ world.page \in AnyPage /\ NoPage \in AnyPage
    BY <1>1 DEF Time, AnyPage
  <1> QED  BY <1>1, <1>2 DEF Init, TypeOK, Host, Player, Settled

\* Every variable has its type, whatever pages, positions and worlds there are.
THEOREM TypeCorrect == Spec => []TypeOK
  BY TypeInit, TypeStep, PTL DEF Spec

-----------------------------------------------------------------------------
(* A guest is moved once at most.                                          *)

\* There is no page to follow before the host has one: it is told of no other.
LEMMA NoPageStep ==
    ASSUME TypeOK, NoPageYet, [Next]_vars
    PROVE  NoPageYet'
  <1>1. SUFFICES ASSUME host'.page = NoPage
                 PROVE  /\ player'.file = NoPage
                        /\ player'.opening = NoPage
                        /\ \A i \in DOMAIN reliable' : reliable'[i].page = NoPage
                        /\ \A i \in DOMAIN datagrams' : datagrams'[i].page = NoPage
    BY DEF NoPageYet
  <1>2. host \in Host /\ player \in Player /\ reliable \in Seq(Msg) /\ datagrams \in Seq(DatagramMsg)
    BY DEF TypeOK, DatagramMsg
  <1>3. host.page = NoPage
    <2>1. CASE HostActs
      BY <1>1, <1>2, <2>1, PagesAssumption DEF HostActs, Host
    <2>2. CASE Second  BY <1>1, <1>2, <2>2 DEF Second, Host
    <2>3. CASE host' = host  BY <1>1, <2>3
    <2> QED
      BY <2>1, <2>2, <2>3
      DEF Next, vars, Broadcast, GuestJoins, GuestLeaves, ReceiveReliable, Wake, ReceiveDatagram,
          LoseDatagram, FileLoads, Reports, GuestActs
  <1>4. /\ player.file = NoPage
        /\ player.opening = NoPage
        /\ \A i \in DOMAIN reliable : reliable[i].page = NoPage
        /\ \A i \in DOMAIN datagrams : datagrams[i].page = NoPage
    BY <1>3 DEF NoPageYet
  <1>5. ASSUME NEW m \in Msg, m.page = NoPage, Handle(m)
        PROVE  player'.file = NoPage /\ player'.opening = NoPage
    <2>1. ~NewPage(m)  BY <1>5 DEF NewPage
    <2>2. \A b \in BOOLEAN : SetPause(player, b) = [player EXCEPT !.paused = b]  BY DEF SetPause
    <2>3. \A q \in Player, t \in Time :
             Seek(q, t).file = q.file /\ Seek(q, t).opening = q.opening
      BY DEF Seek, Player
    <2>4. m.paused \in BOOLEAN /\ m.time \in Time  BY DEF Msg
    <2>5. \A b \in BOOLEAN : /\ SetPause(player, b) \in Player
                             /\ SetPause(player, b).file = NoPage
                             /\ SetPause(player, b).opening = NoPage
      BY <1>2, <1>4 DEF SetPause, Player
    <2>6. CASE m.type = "State"
      BY <1>5, <2>1, <2>3, <2>4, <2>5, <2>6 DEF Handle, Apply
    <2>7. CASE m.type # "State"
      <3>1. m.type \in {"Play", "Pause", "Seek"}  BY <2>7 DEF Msg
      <3>2. Obey(player, m) \in {Seek(SetPause(player, FALSE), m.time),
                                 Seek(SetPause(player, TRUE), m.time), Seek(player, m.time)}
        BY <3>1 DEF Obey
      <3>3. player' = Obey(player, m)  BY <1>5, <2>7 DEF Handle
      <3>4. \A q \in Player :
               q.file = NoPage /\ q.opening = NoPage =>
                  Seek(q, m.time).file = NoPage /\ Seek(q, m.time).opening = NoPage
        BY <2>3, <2>4
      <3>5. \E q \in Player : /\ q.file = NoPage
                              /\ q.opening = NoPage
                              /\ player' = Seek(q, m.time)
        BY <1>2, <1>4, <2>5, <3>2, <3>3
      <3> QED  BY <3>4, <3>5
    <2> QED  BY <2>6, <2>7
  <1>6. CASE Broadcast
    <2> DEFINE Blank == {m \in Msg : m.page = NoPage}
    <2>1. Changes \in Seq(Blank)
      <3>1. \A t \in {"Play", "Pause", "Seek"} : Short(t, host) \in Blank
        BY <1>2 DEF Short, Msg, Host, AnyPage
      <3>2. <<>> \in Seq(Blank) /\ \A m \in Blank : <<m>> \in Seq(Blank)  OBVIOUS
      <3> DEFINE toggled == IF host.paused = last.paused THEN <<>>
                            ELSE <<Short(IF host.paused THEN "Pause" ELSE "Play", host)>>
                 jumped == IF Away(host.time, Expected) > 3 THEN <<Short("Seek", host)>>
                           ELSE <<>>
      <3> HIDE DEF Blank
      <3>3. toggled \in Seq(Blank)  BY <3>1, <3>2
      <3>4. jumped \in Seq(Blank)  BY <3>1, <3>2
      <3>5. Changes = toggled \o jumped  BY DEF Changes
      <3> HIDE DEF toggled, jumped
      <3> QED  BY <3>3, <3>4, <3>5, ConcatProperties
    <2>2. \A i \in DOMAIN reliable' : reliable'[i].page = NoPage
      <3>1. reliable \in Seq(Blank)
        <4>1. Len(reliable) \in Nat /\ reliable \in [1..Len(reliable) -> Blank]  BY <1>2, <1>4
        <4> QED  BY <4>1
      <3>2. reliable' \in Seq(Blank)  BY <1>6, <2>1, <3>1, ConcatProperties DEF Broadcast
      <3> QED  BY <3>2
    <2>3. \A i \in DOMAIN datagrams' : datagrams'[i].page = NoPage
      <3>1. State(host).page = NoPage  BY <1>3 DEF State
      <3>2. datagrams' \in {datagrams, Append(datagrams, State(host))}  BY <1>6 DEF Broadcast
      <3>3. \A i \in DOMAIN Append(datagrams, State(host)) :
               Append(datagrams, State(host))[i].page = NoPage
        BY <1>2, <1>4, <3>1
      <3> QED  BY <1>4, <3>2, <3>3
    <2> QED  BY <1>4, <1>6, <2>2, <2>3 DEF Broadcast
  <1>7. CASE GuestJoins
    <2>1. reliable' = <<State(host)>> /\ State(host).page = NoPage
      BY <1>3, <1>7 DEF GuestJoins, State
    <2> QED  BY <1>4, <1>7, <2>1 DEF GuestJoins
  <1>8. CASE GuestLeaves  BY <1>4, <1>8 DEF GuestLeaves
  <1>9. CASE ReceiveReliable
    <2>1. Head(reliable) \in Msg /\ Head(reliable).page = NoPage
      BY <1>2, <1>4, <1>9 DEF ReceiveReliable
    <2>2. \A i \in DOMAIN Tail(reliable) : Tail(reliable)[i].page = NoPage
      BY <1>2, <1>4, <1>9 DEF ReceiveReliable
    <2> QED  BY <1>4, <1>5, <1>9, <2>1, <2>2 DEF ReceiveReliable
  <1>10. CASE Wake
    <2>1. player'.file = player.file /\ player'.opening = player.opening
      BY <1>2, <1>10 DEF Wake, Apply, SetPause, Seek, Player
    <2> QED  BY <1>4, <1>10, <2>1 DEF Wake
  <1>11. ASSUME NEW i \in DOMAIN datagrams
         PROVE  \A j \in DOMAIN Without(datagrams, i) : Without(datagrams, i)[j].page = NoPage
    <2>1. i \in 1..Len(datagrams)  BY <1>2
    <2>2. /\ DOMAIN Without(datagrams, i) = 1..(Len(datagrams) - 1)
          /\ \A j \in 1..(Len(datagrams) - 1) :
                Without(datagrams, i)[j] = IF j < i THEN datagrams[j] ELSE datagrams[j + 1]
      BY <1>2, <2>1, WithoutOne
    <2> QED  BY <1>2, <1>4, <2>2
  <1>12. ASSUME NEW i \in DOMAIN datagrams, ReceiveDatagram(i)
         PROVE  /\ player'.file = NoPage
                /\ player'.opening = NoPage
                /\ \A j \in DOMAIN reliable' : reliable'[j].page = NoPage
                /\ \A j \in DOMAIN datagrams' : datagrams'[j].page = NoPage
    <2>1. datagrams[i] \in DatagramMsg  BY <1>2
    <2>2. datagrams[i] \in Msg /\ datagrams[i].page = NoPage
      BY <1>4, <2>1 DEF DatagramMsg, Msg
    <2> QED  BY <1>4, <1>5, <1>11, <1>12, <2>2 DEF ReceiveDatagram
  <1>13. ASSUME NEW i \in DOMAIN datagrams, LoseDatagram(i)
         PROVE  /\ player'.file = NoPage
                /\ player'.opening = NoPage
                /\ \A j \in DOMAIN reliable' : reliable'[j].page = NoPage
                /\ \A j \in DOMAIN datagrams' : datagrams'[j].page = NoPage
    BY <1>4, <1>11, <1>13 DEF LoseDatagram
  <1>14. ASSUME NEW t \in Jumps
         PROVE  ~FileLoads(t)
    BY <1>4 DEF FileLoads
  <1>15. CASE Reports  BY <1>4, <1>15 DEF Reports
  <1>16. CASE Second  BY <1>2, <1>4, <1>16 DEF Second, Player
  <1>17. CASE HostActs  BY <1>4, <1>17 DEF HostActs
  <1>18. ~GuestActs  BY <1>4 DEF GuestActs
  <1>19. CASE UNCHANGED vars  BY <1>4, <1>19 DEF vars
  <1> QED
    BY <1>6, <1>7, <1>8, <1>9, <1>10, <1>12, <1>13, <1>14, <1>15, <1>16, <1>17, <1>18, <1>19
    DEF Next

LEMMA NearStays ==
    ASSUME host' = host, NEW m, NEW a
    PROVE  Near(m, a)' <=> Near(m, a)
  BY DEF Near

\* A second later what was near is a second older.
LEMMA NearLater ==
    ASSUME TypeOK, Second, NEW m \in Msg, NEW a \in Nat, Near(m, a)
    PROVE  Near(m, a + 1)'
  BY WorldType DEF TypeOK, Second, Near, Host, Msg, Time, Later

\* After a deed or a loss nothing is promised.
LEMMA StirSteady ==
    ASSUME Stir
    PROVE  Steady' /\ MovedOnce'
  BY DEF Stir, Steady, MovedOnce, Settled

\* Nor without a guest, nor before a second has passed.
LEMMA IdleSteady ==
    ASSUME TypeOK, Steady, quiet' = quiet, world' = world, guest'.in = guest.in,
           quiet.for = 0 \/ ~guest.in
    PROVE  Steady' /\ MovedOnce'
  <1>1. quiet.moves = 0  BY DEF Steady, Settled
  <1> QED  BY <1>1 DEF Steady, MovedOnce, Settled

\* What a quiet network with a guest is known to be.
LEMMA QuietFacts ==
    ASSUME TypeOK, Steady, MovedOnce, guest.in, quiet.for # 0
    PROVE  /\ world.prompt
           /\ quiet.for \in {1, 2, 3} /\ quiet.moves \in {0, 1}
           /\ quiet.for # 3 => quiet.moves = 0
           /\ Len(datagrams) \in Nat
           /\ Behind = Len(datagrams) + (IF last.due THEN 1 ELSE 0)
           /\ Behind \in 0..2
           /\ quiet.for = 1 => FirstSecond
           /\ quiet.for = 2 => SecondSecond
           /\ quiet.for = 3 => Caught
           /\ quiet.moves = 1 => Behindhand
  <1>1. quiet.for \in 0..3 /\ quiet.moves \in 0..2  BY DEF TypeOK, Settled
  <1>2. Len(datagrams) \in Nat /\ last.due \in BOOLEAN  BY DEF TypeOK
  <1>3. Behind \in Nat  BY <1>2 DEF Behind
  <1>4. Behind = Len(datagrams) + (IF last.due THEN 1 ELSE 0)  BY DEF Behind
  <1>5. world.prompt  BY DEF Steady
  <1>6. quiet.for > 0 /\ quiet.moves <= 1  BY <1>1 DEF MovedOnce
  <1>7. Behind <= 2  BY <1>6 DEF Steady
  <1>8. /\ quiet.for = 1 => FirstSecond
        /\ quiet.for = 2 => SecondSecond
        /\ quiet.for = 3 => Caught
    BY DEF Steady, Settled
  <1>9. quiet.for # 3 => quiet.moves = 0  BY <1>1 DEF Steady, Settled
  <1>10. quiet.moves = 1 => Behindhand  BY DEF Steady
  <1>11. quiet.for \in {1, 2, 3} /\ quiet.moves \in {0, 1} /\ Behind \in 0..2
    BY <1>1, <1>3, <1>6, <1>7
  <1> QED  BY <1>2, <1>4, <1>5, <1>8, <1>9, <1>10, <1>11

\* A broadcast says nothing but the host's state, and that is as new as can be.
LEMMA BroadcastSteady ==
    ASSUME TypeOK, Steady, MovedOnce, Broadcast, guest.in, quiet.for # 0, MaxFlight >= 2
    PROVE  Steady' /\ MovedOnce'
  <1>1. /\ last.due /\ ~last'.due
        /\ last'.time = host.time /\ last'.paused = host.paused
        /\ host' = host /\ guest' = guest /\ player' = player /\ quiet' = quiet /\ world' = world
    BY DEF Broadcast
  <1>2. /\ host \in Host /\ host.time \in Nat
        /\ last.time \in Nat /\ datagrams \in Seq(DatagramMsg)
    BY WorldType DEF TypeOK, Host, Time, DatagramMsg
  <1>3. Len(datagrams) \in {0, 1}
    <2>1. Len(datagrams) \in Nat /\ Behind \in 0..2  BY QuietFacts
    <2>2. Behind = Len(datagrams) + 1  BY <1>1 DEF Behind
    <2>3. \A n \in Nat : n + 1 \in 0..2 => n \in {0, 1}  OBVIOUS
    <2> QED  BY <2>1, <2>2, <2>3
  <1>4. /\ datagrams' = Append(datagrams, State(host))
        /\ Len(datagrams') = Len(datagrams) + 1
        /\ datagrams'[Len(datagrams')] = State(host)
        /\ \A i \in DOMAIN datagrams : datagrams'[i] = datagrams[i]
        /\ DOMAIN datagrams' = DOMAIN datagrams \cup {Len(datagrams')}
    <2>1. Len(datagrams) < MaxFlight
      <3>1. MaxFlight \in Nat  BY BoundsAssumption
      <3> QED  BY <1>3, <3>1
    <2>2. datagrams' = Append(datagrams, State(host))
      BY <2>1 DEF Broadcast, SendsState
    <2>3. State(host) \in DatagramMsg  BY StateType
    <2> QED  BY <1>2, <2>2, <2>3
  <1>5. Behind' = Behind  BY <1>1, <1>3, <1>4 DEF Behind
  <1>6. Near(State(host), 0)  BY <1>2 DEF Near, State
  <1>7. LastNear'  BY <1>1, <1>2 DEF LastNear
  <1>8. datagrams' # <<>>  BY <1>2, <1>3, <1>4
  <1>9. FirstSecond'
    <2>1. Near(datagrams'[Len(datagrams')], 0)  BY <1>4, <1>6
    <2>2. Near(datagrams[Len(datagrams)], 0)'  BY <1>1, <2>1 DEF Near
    <2> QED  BY <1>1, <1>7, <1>8, <2>2 DEF FirstSecond
  <1>10. Current => Current'
    <2>1. ASSUME Current  PROVE Changes = <<>>
      <3>1. /\ last.paused = host.paused /\ last.time <= host.time
            /\ host.time <= last.time + 1
        BY <1>1, <2>1 DEF Current, LastNear
      <3>2. ~(Away(host.time, Expected) > 3)  BY <1>2, <3>1 DEF Away, Expected
      <3> QED  BY <3>1, <3>2 DEF Changes
    <2>2. ASSUME Current  PROVE reliable' = <<>>
      BY <2>1, <2>2 DEF Current, Broadcast
    <2>3. ASSUME Current, NEW i \in DOMAIN datagrams'
          PROVE  Near(datagrams'[i], Behind' - i)
      <3>1. CASE i \in DOMAIN datagrams  BY <1>4, <1>5, <2>3, <3>1 DEF Current, OnTheWay
      <3>2. CASE i = Len(datagrams')
        <4>1. Behind' - i = 0  BY <1>1, <1>3, <1>4, <3>2 DEF Behind
        <4> QED  BY <1>4, <1>6, <3>2, <4>1
      <3> QED  BY <1>4, <3>1, <3>2
    <2>4. ASSUME Current  PROVE OnTheWay'
      BY <1>1, <2>3, <2>4, NearStays DEF OnTheWay, Near
    <2> QED  BY <1>7, <2>2, <2>4 DEF Current
  <1>11. /\ Shown' <=> Shown
         /\ SleptOver' = SleptOver
         /\ Behindhand' <=> Behindhand
         /\ \A m, a : Near(m, a)' <=> Near(m, a)
    BY <1>1 DEF Shown, SleptOver, Behindhand, Near
  <1>12. SecondSecond => SecondSecond'
    BY <1>1, <1>5, <1>10, <1>11 DEF SecondSecond
  <1>13. Caught => Caught'
    BY <1>1, <1>5, <1>10, <1>11 DEF Caught
  <1> QED
    BY <1>1, <1>5, <1>9, <1>11, <1>12, <1>13 DEF Steady, MovedOnce

\* A message about a change is handled in the first second only.
LEMMA ReliableSteady ==
    ASSUME TypeOK, Steady, MovedOnce, ReceiveReliable, quiet.for # 0
    PROVE  Steady' /\ MovedOnce'
  <1>1. guest.in /\ reliable # <<>> /\ Handle(Head(reliable))
    BY DEF ReceiveReliable, Awake
  <1>2. /\ host' = host /\ last' = last /\ datagrams' = datagrams /\ world' = world
    BY DEF ReceiveReliable
  <1>3. quiet.for = 1
    BY <1>1, QuietFacts DEF SecondSecond, Caught, Current
  <1>4. quiet.moves = 0  BY <1>1, <1>3, QuietFacts
  <1>5. quiet' = quiet
    BY <1>1, <1>3 DEF Handle, Moved, Settled
  <1>6. FirstSecond  BY <1>1, <1>3, QuietFacts
  <1>7. ~last.due /\ LastNear /\ datagrams # <<>> /\ Near(datagrams[Len(datagrams)], 0)
    BY <1>1, <1>6 DEF FirstSecond
  <1>8. LastNear' /\ Near(datagrams[Len(datagrams)], 0)'
    BY <1>2, <1>7 DEF LastNear, Near
  <1>9. FirstSecond'  BY <1>2, <1>7, <1>8 DEF FirstSecond
  <1>10. Behind' = Behind  BY <1>2 DEF Behind
  <1> QED  BY <1>1, <1>2, <1>3, <1>4, <1>5, <1>9, <1>10, QuietFacts DEF Steady, MovedOnce, Settled

\* What a handled state does to the page that the guest shows and to its sleep.
LEMMA HandledState ==
    ASSUME TypeOK, NEW m \in Msg, m.type = "State", m.page = host.page, host' = host,
           Handle(m), guest.asleep = <<>>
    PROVE  /\ guest'.in = guest.in
           /\ Shown'
           /\ guest'.asleep = <<>> \/ guest'.asleep = <<m>>
           /\ \A n \in SleptOver' : n = m
           /\ Shown => /\ ~NewPage(m)
                       /\ guest' = guest
                       /\ player' = Apply(player, m)
                       /\ Moved(player')
  <1>1. guest \in GuestType  BY DEF TypeOK, GuestType
  <1>2. CASE NewPage(m)
    <2>1. guest' = [guest EXCEPT !.page = m.page, !.asleep = <<m>>]  BY <1>2 DEF Handle
    <2>2. guest'.in = guest.in /\ guest'.page = m.page /\ guest'.asleep = <<m>>
      BY <1>1, <2>1 DEF GuestType
    <2>3. ~Shown  BY <1>2 DEF Shown, NewPage
    <2>4. \A n \in SleptOver' : n = m  BY <2>2 DEF SleptOver
    <2> QED  BY <2>2, <2>3, <2>4 DEF Shown
  <1>3. CASE ~NewPage(m)
    <2>1. guest' = guest /\ player' = Apply(player, m) /\ Moved(player')
      BY <1>3 DEF Handle
    <2>2. Shown'  BY <1>3, <2>1 DEF NewPage, Shown
    <2>3. SleptOver' = {}  BY <2>1 DEF SleptOver
    <2> QED  BY <1>3, <2>1, <2>2, <2>3
  <1> QED  BY <1>2, <1>3

\* A state that is at most two seconds old moves a guest to where it stays behindhand, and
\* if it is behindhand already a state of the last second leaves it where it is.
LEMMA AppliedState ==
    ASSUME TypeOK, MovedOnce, NEW m \in Msg, Near(m, 2), host' = host, guest'.asleep = <<>>,
           player' = Apply(player, m), Moved(player'), quiet.for = 3,
           quiet.moves = 1 => Behindhand /\ Near(m, 1) /\ Reported
    PROVE  /\ quiet'.for = 3
           /\ quiet'.moves \in {0, 1}
           /\ quiet'.moves = 1 => Behindhand'
  <1>1. /\ player \in Player /\ quiet \in QuietType
        /\ player.time \in Nat /\ player.seen \in Nat
        /\ host.time \in Nat /\ m.time \in Nat /\ m.paused \in BOOLEAN
    BY WorldType DEF TypeOK, QuietType, Player, Host, Msg, Time
  <1>2. quiet.moves \in {0, 1}
    BY <1>1 DEF QuietType, MovedOnce
  <1>3. /\ SetPause(player, m.paused) \in Player
        /\ SetPause(player, m.paused).paused = m.paused
        /\ SetPause(player, m.paused).time = player.time
        /\ SetPause(player, m.paused).file = player.file
        /\ SetPause(player, m.paused).seen = player.seen
        /\ SetPause(player, m.paused).known = player.known
    BY <1>1 DEF SetPause, Player
  <1>4. /\ player'.file = player.file
        /\ player'.paused = m.paused
        /\ \/ player'.time = player.time
           \/ /\ player'.time = m.time
              /\ player.file # NoPage
              /\ Away(player.seen, m.time) > 2
    <2>1. \A q \in Player : /\ q.file = NoPage => Seek(q, m.time) = q
                            /\ Seek(q, m.time).file = q.file
                            /\ Seek(q, m.time).paused = q.paused
                            /\ Seek(q, m.time).time \in {q.time, m.time}
      BY <1>1 DEF Seek, Player
    <2>2. CASE Far(player, m.time)
      <3>1. player' = Seek(SetPause(player, m.paused), m.time)  BY <2>2 DEF Apply
      <3>2. Away(player.seen, m.time) > 2  BY <1>3, <2>2 DEF Far
      <3> QED  BY <1>3, <2>1, <3>1, <3>2
    <2>3. CASE ~Far(player, m.time)
      BY <1>3, <2>3 DEF Apply
    <2> QED  BY <2>2, <2>3
  <1>5. m.paused = host.paused /\ m.time <= host.time /\ host.time <= m.time + 2
    BY DEF Near
  <1>6. CASE player'.time # player.time
    <2>1. player'.time = m.time /\ player.file # NoPage /\ Away(player.seen, m.time) > 2
      BY <1>4, <1>6
    <2>2. quiet.moves = 0
      <3>1. SUFFICES ASSUME quiet.moves = 1  PROVE FALSE  BY <1>2
      <3>2. player.seen = player.time  BY <2>1, <3>1 DEF Reported
      <3>3. player.time <= host.time /\ host.time <= player.time + 2  BY <3>1 DEF Behindhand
      <3>4. host.time <= m.time + 1  BY <3>1 DEF Near
      <3> QED  BY <1>1, <1>5, <2>1, <3>2, <3>3, <3>4 DEF Away
    <2>3. quiet' = [quiet EXCEPT !.moves = @ + 1]  BY <1>6, <2>2 DEF Moved, Settled
    <2>4. quiet'.for = 3 /\ quiet'.moves = 1  BY <1>1, <2>2, <2>3 DEF QuietType
    <2>5. Behindhand'  BY <1>4, <1>5, <2>1 DEF Behindhand
    <2> QED  BY <2>4, <2>5
  <1>7. CASE player'.time = player.time
    <2>1. quiet' = quiet  BY <1>7 DEF Moved
    <2>2. quiet.moves = 1 => Behindhand'
      <3>1. SUFFICES ASSUME quiet.moves = 1  PROVE Behindhand'  OBVIOUS
      <3>2. Behindhand  BY <3>1
      <3> QED  BY <1>4, <1>5, <1>7, <3>2 DEF Behindhand
    <2> QED  BY <1>2, <2>1, <2>2
  <1> QED  BY <1>6, <1>7

LEMMA DatagramSteady ==
    ASSUME TypeOK, Steady, MovedOnce, NEW i \in DOMAIN datagrams, ReceiveDatagram(i),
           quiet.for # 0
    PROVE  Steady' /\ MovedOnce'
  <1> DEFINE m == datagrams[1]
  <1>1. guest.in /\ guest.asleep = <<>>  BY DEF ReceiveDatagram, Awake
  <1>2. /\ world.prompt /\ Len(datagrams) \in Nat /\ Behind \in 0..2
        /\ quiet.for \in {1, 2, 3} /\ quiet.moves \in {0, 1}
    BY <1>1, QuietFacts
  <1>3. i = 1 /\ reliable = <<>> /\ Reported /\ Handle(m)
    BY <1>2 DEF ReceiveDatagram
  <1>4. /\ host' = host /\ last' = last /\ reliable' = <<>> /\ world' = world
        /\ datagrams' = Without(datagrams, 1)
    BY <1>3 DEF ReceiveDatagram
  <1>5. /\ datagrams \in Seq(DatagramMsg) /\ quiet \in QuietType /\ last.due \in BOOLEAN
    BY DEF TypeOK, DatagramMsg, QuietType
  <1>6. 1 \in 1..Len(datagrams)  BY <1>3, <1>5
  <1>7. /\ m \in Msg /\ m.type = "State"
    <2>1. m \in DatagramMsg  BY <1>5, <1>6
    <2> QED  BY <2>1 DEF DatagramMsg, Msg
  <1>8. /\ Len(datagrams') = Len(datagrams) - 1
        /\ DOMAIN datagrams' = 1..(Len(datagrams) - 1)
        /\ \A j \in 1..(Len(datagrams) - 1) : datagrams'[j] = datagrams[j + 1]
        /\ datagrams' = <<>> => Len(datagrams) = 1
    <2>1. /\ datagrams' \in Seq(DatagramMsg)
          /\ Len(datagrams') = Len(datagrams) - 1
          /\ \A j \in 1..(Len(datagrams) - 1) :
                datagrams'[j] = IF j < 1 THEN datagrams[j] ELSE datagrams[j + 1]
      BY <1>4, <1>5, <1>6, WithoutOne
    <2> QED  BY <1>2, <2>1
  <1>9. Behind' = Behind - 1 /\ Behind' \in {0, 1}
    <2>1. Behind = Len(datagrams) + (IF last.due THEN 1 ELSE 0)  BY DEF Behind
    <2>2. Behind' = (Len(datagrams) - 1) + (IF last.due THEN 1 ELSE 0)
      BY <1>4, <1>8 DEF Behind
    <2>3. Len(datagrams) >= 1  BY <1>6
    <2>4. CASE last.due
      <3>1. \A n \in Nat : n >= 1 /\ n + 1 \in 0..2 => (n - 1) + 1 = (n + 1) - 1 /\ n \in {0, 1}
        OBVIOUS
      <3> QED  BY <1>2, <2>1, <2>2, <2>3, <2>4, <3>1
    <2>5. CASE ~last.due
      <3>1. \A n \in Nat : n >= 1 /\ n + 0 \in 0..2 => n - 1 \in {0, 1} /\ n + 0 = n
        OBVIOUS
      <3> QED  BY <1>2, <2>1, <2>2, <2>3, <2>5, <3>1
    <2> QED  BY <1>5, <2>4, <2>5
  <1>10. /\ LastNear' <=> LastNear
         /\ \A n, a : Near(n, a)' <=> Near(n, a)
    BY <1>4 DEF LastNear, Near
  <1> HIDE DEF m
  <1>11. CASE quiet.for = 1
    <2>1. FirstSecond /\ quiet.moves = 0  BY <1>1, <1>11, QuietFacts
    <2>2. quiet' = quiet  BY <1>3, <1>11 DEF Handle, Moved, Settled
    <2>3. guest'.in = guest.in
      BY <1>3 DEF Handle, TypeOK
    <2>4. CASE last.due
      <3>1. FirstSecond'  BY <1>4, <2>4 DEF FirstSecond
      <3> QED  BY <1>2, <1>4, <1>9, <1>11, <2>1, <2>2, <2>3, <3>1 DEF Steady, MovedOnce, Settled
    <2>5. CASE ~last.due
      <3>1. LastNear /\ Near(datagrams[Len(datagrams)], 0)
        BY <1>6, <2>1, <2>5 DEF FirstSecond
      <3>2. FirstSecond'
        <4>1. CASE datagrams' # <<>>
          <5>1. Len(datagrams') >= 1 /\ Len(datagrams') \in Nat
            <6>1. datagrams' \in Seq(DatagramMsg)  BY <1>4, <1>5, <1>6, WithoutOne
            <6> QED  BY <4>1, <6>1
          <5>2. datagrams'[Len(datagrams')] = datagrams[Len(datagrams)]
            BY <1>2, <1>8, <5>1
          <5>3. Near(datagrams[Len(datagrams)], 0)'
            BY <1>4, <1>10, <3>1, <5>2 DEF Near
          <5> QED  BY <1>4, <1>10, <2>5, <3>1, <4>1, <5>3 DEF FirstSecond
        <4>2. CASE datagrams' = <<>>
          <5>1. Near(m, 0)  BY <1>8, <3>1, <4>2 DEF m
          <5>2. m.page = host.page  BY <5>1 DEF Near
          <5>3. Shown' /\ \A n \in SleptOver' : n = m
            BY <1>1, <1>3, <1>4, <1>7, <5>2, HandledState
          <5>4. \A n \in SleptOver' : Near(n, 0)'  BY <1>10, <5>1, <5>3
          <5> QED  BY <1>4, <1>10, <2>5, <3>1, <4>2, <5>3, <5>4 DEF FirstSecond
        <4> QED  BY <4>1, <4>2
      <3> QED  BY <1>2, <1>4, <1>9, <1>11, <2>1, <2>2, <2>3, <3>2 DEF Steady, MovedOnce, Settled
    <2> QED  BY <1>5, <2>4, <2>5
  <1>12. ASSUME Current
         PROVE  Current' /\ Near(m, Behind - 1) /\ m.page = host.page
    <2>1. \A j \in DOMAIN datagrams : Near(datagrams[j], Behind - j)
      BY <1>12 DEF Current, OnTheWay
    <2>2. Near(m, Behind - 1)  BY <1>3, <2>1 DEF m
    <2>3. ASSUME NEW j \in DOMAIN datagrams'
          PROVE  Near(datagrams'[j], Behind' - j)
      <3>1. j \in 1..(Len(datagrams) - 1)  BY <1>8
      <3>2. j + 1 \in DOMAIN datagrams  BY <1>2, <1>5, <3>1
      <3>3. Behind - (j + 1) = Behind' - j  BY <1>2, <1>9, <3>1
      <3> QED  BY <1>8, <2>1, <3>1, <3>2, <3>3
    <2>4. OnTheWay'  BY <1>10, <2>3 DEF OnTheWay
    <2> QED  BY <1>4, <1>10, <1>12, <2>2, <2>4 DEF Current, Near
  <1>13. CASE quiet.for = 2
    <2>1. SecondSecond /\ quiet.moves = 0  BY <1>1, <1>13, QuietFacts
    <2>2. quiet' = quiet  BY <1>3, <1>13 DEF Handle, Moved, Settled
    <2>3. Current' /\ Near(m, Behind - 1) /\ m.page = host.page
      BY <1>12, <2>1 DEF SecondSecond
    <2>4. /\ guest'.in = guest.in
          /\ Shown'
          /\ \A n \in SleptOver' : n = m
          /\ Shown => guest' = guest
      BY <1>1, <1>3, <1>4, <1>7, <2>3, HandledState
    <2>5. Behind' = 1 => \A n \in SleptOver' : Near(n, 1)'
      <3>1. Behind' = 1 => Near(m, 1)  BY <1>2, <1>9, <2>3
      <3> QED  BY <1>10, <2>4, <3>1
    <2>6. Behind' = 0 => guest'.asleep = <<>>
      <3>1. Behind' = 0 => Behind < 2  BY <1>2, <1>9
      <3> QED  BY <1>1, <2>1, <2>4, <3>1 DEF SecondSecond
    <2>7. SecondSecond'  BY <2>3, <2>4, <2>5, <2>6 DEF SecondSecond
    <2> QED  BY <1>2, <1>4, <1>9, <1>13, <2>1, <2>2, <2>4, <2>7 DEF Steady, MovedOnce, Settled
  <1>14. CASE quiet.for = 3
    <2>1. Caught /\ (quiet.moves = 1 => Behindhand)  BY <1>1, <1>14, QuietFacts
    <2>2. Current' /\ Near(m, Behind - 1) /\ m.page = host.page
      BY <1>12, <2>1 DEF Caught
    <2>3. /\ guest' = guest
          /\ Shown'
          /\ player' = Apply(player, m)
          /\ Moved(player')
      BY <1>1, <1>3, <1>4, <1>7, <2>1, <2>2, HandledState DEF Caught
    <2>4. Caught'
      BY <1>1, <1>9, <2>2, <2>3 DEF Caught
    <2>5. Near(m, 1) /\ Near(m, 2)
      <3>1. host.time \in Nat /\ m.time \in Nat
        BY <1>7, WorldType DEF TypeOK, Host, Msg, Time
      <3> QED  BY <1>2, <1>9, <2>2, <3>1 DEF Near
    <2>6. /\ quiet'.for = 3
          /\ quiet'.moves \in {0, 1}
          /\ quiet'.moves = 1 => Behindhand'
      BY <1>1, <1>3, <1>4, <1>7, <1>14, <2>1, <2>3, <2>5, AppliedState
    <2> QED  BY <1>1, <1>2, <1>4, <1>9, <2>3, <2>4, <2>6 DEF Steady, MovedOnce, Settled
  <1> QED  BY <1>2, <1>11, <1>13, <1>14

LEMMA WakeSteady ==
    ASSUME TypeOK, Steady, MovedOnce, Wake, quiet.for # 0
    PROVE  Steady' /\ MovedOnce'
  <1> DEFINE m == Head(guest.asleep)
  <1>1. /\ guest.in /\ guest.asleep # <<>>
        /\ player' = Apply(player, m)
        /\ Moved(player')
        /\ guest' = [guest EXCEPT !.asleep = <<>>]
        /\ world' = world /\ host' = host /\ last' = last /\ reliable' = reliable
        /\ datagrams' = datagrams
    BY DEF Wake
  <1>2. guest \in GuestType /\ guest.asleep \in Seq(Msg)  BY DEF TypeOK, GuestType
  <1>3. guest'.in = guest.in /\ guest'.page = guest.page /\ guest'.asleep = <<>>
    BY <1>1, <1>2 DEF GuestType
  <1>4. m \in Msg /\ m \in SleptOver  BY <1>1, <1>2 DEF SleptOver
  <1>5. /\ world.prompt /\ Behind \in 0..2 /\ quiet.for \in {1, 2, 3} /\ quiet.moves \in {0, 1}
        /\ quiet.for # 3 => quiet.moves = 0
        /\ quiet.moves # 1
    BY <1>1, QuietFacts DEF Behindhand
  <1>6. /\ Behind' = Behind
        /\ Shown' <=> Shown
        /\ LastNear' <=> LastNear
        /\ \A n, a : Near(n, a)' <=> Near(n, a)
        /\ SleptOver' = {}
    BY <1>1, <1>3 DEF Behind, Shown, LastNear, Near, SleptOver
  <1> HIDE DEF m
  <1>7. Current => Current'  BY <1>1, <1>6 DEF Current, OnTheWay
  <1>8. CASE quiet.for # 3
    <2>1. quiet' = quiet  BY <1>1, <1>8 DEF Moved, Settled
    <2>2. FirstSecond => FirstSecond'
      <3>1. Near(datagrams[Len(datagrams)], 0)' <=> Near(datagrams[Len(datagrams)], 0)
        BY <1>1 DEF Near
      <3> QED  BY <1>1, <1>6, <3>1 DEF FirstSecond
    <2>3. SecondSecond => SecondSecond'  BY <1>3, <1>6, <1>7 DEF SecondSecond
    <2>4. (quiet.for = 1 => FirstSecond) /\ (quiet.for = 2 => SecondSecond)
      BY <1>1, QuietFacts
    <2> QED  BY <1>1, <1>3, <1>5, <1>6, <1>8, <2>1, <2>2, <2>3, <2>4 DEF Steady, MovedOnce, Settled
  <1>9. CASE quiet.for = 3
    <2>1. Caught  BY <1>1, <1>9, QuietFacts
    <2>2. Near(m, 2)  BY <1>1, <1>4, <1>5, <2>1 DEF Caught
    <2>3. Caught'  BY <1>3, <1>6, <1>7, <2>1 DEF Caught
    <2>4. /\ quiet'.for = 3
          /\ quiet'.moves \in {0, 1}
          /\ quiet'.moves = 1 => Behindhand'
      BY <1>1, <1>3, <1>4, <1>5, <1>9, <2>2, AppliedState
    <2> QED  BY <1>1, <1>3, <1>5, <1>6, <2>3, <2>4 DEF Steady, MovedOnce, Settled
  <1> QED  BY <1>8, <1>9

LEMMA ReportsSteady ==
    ASSUME TypeOK, Steady, MovedOnce, Reports
    PROVE  Steady' /\ MovedOnce'
  <1>1. /\ player'.file = player.file /\ player'.time = player.time
        /\ player'.paused = player.paused
    BY DEF TypeOK, Player, Reports
  <1>2. /\ world' = world /\ host' = host /\ last' = last /\ guest' = guest
        /\ reliable' = reliable /\ datagrams' = datagrams /\ quiet' = quiet
    BY DEF Reports
  <1>3. /\ Behind' = Behind
        /\ Shown' <=> Shown
        /\ LastNear' <=> LastNear
        /\ \A n, a : Near(n, a)' <=> Near(n, a)
        /\ SleptOver' = SleptOver
        /\ Behindhand' <=> Behindhand
    BY <1>1, <1>2 DEF Behind, Shown, LastNear, Near, SleptOver, Behindhand
  <1>4. Near(datagrams[Len(datagrams)], 0)' <=> Near(datagrams[Len(datagrams)], 0)
    BY <1>2 DEF Near
  <1>5. Current' <=> Current  BY <1>2, <1>3 DEF Current, OnTheWay
  <1>6. FirstSecond' <=> FirstSecond  BY <1>2, <1>3, <1>4 DEF FirstSecond
  <1>7. SecondSecond' <=> SecondSecond  BY <1>2, <1>3, <1>5 DEF SecondSecond
  <1>8. Caught' <=> Caught  BY <1>2, <1>3, <1>5 DEF Caught
  <1> QED  BY <1>2, <1>3, <1>6, <1>7, <1>8 DEF Steady, MovedOnce

\* A second makes what is known of the guest a second older, and it has heard once more.
LEMMA SecondSteady ==
    ASSUME TypeOK, NoPageYet, Steady, MovedOnce, Second
    PROVE  Steady' /\ MovedOnce'
  <1>1. /\ world' = world /\ guest' = guest /\ reliable' = reliable /\ datagrams' = datagrams
        /\ last' = [last EXCEPT !.due = TRUE]
        /\ world.prompt => InTime
        /\ quiet' = [quiet EXCEPT !.for = IF world.prompt /\ @ < Settled THEN @ + 1 ELSE @]
    BY DEF Second
  <1>2. /\ host \in Host /\ player \in Player /\ quiet \in QuietType
        /\ datagrams \in Seq(DatagramMsg) /\ guest \in GuestType
        /\ last \in [time : Time, paused : BOOLEAN, due : BOOLEAN]
    BY DEF TypeOK, DatagramMsg, GuestType, QuietType
  <1>3. /\ last'.due /\ last'.time = last.time /\ last'.paused = last.paused
        /\ quiet'.moves = quiet.moves
        /\ quiet'.for = IF world.prompt /\ quiet.for < 3 THEN quiet.for + 1 ELSE quiet.for
    BY <1>1, <1>2 DEF QuietType, Settled
  <1>4. quiet.for \in 0..3 /\ quiet.moves \in 0..2  BY <1>2 DEF QuietType, Settled
  <1>5. CASE ~world.prompt
    <2>1. quiet.for = 0 /\ quiet.moves = 0  BY <1>5 DEF Steady, Settled
    <2> QED  BY <1>1, <1>3, <1>5, <2>1 DEF Steady, MovedOnce, Settled
  <1>6. CASE world.prompt /\ ~guest.in
    <2>1. quiet.moves = 0  BY <1>6 DEF Steady
    <2> QED  BY <1>1, <1>3, <1>4, <1>6, <2>1 DEF Steady, MovedOnce, Settled
  <1>7. CASE world.prompt /\ guest.in
    <2>1. ~last.due /\ reliable = <<>> /\ Len(datagrams) <= 1  BY <1>1, <1>7 DEF InTime
    <2>2. Len(datagrams) \in {0, 1}
      <3>1. Len(datagrams) \in Nat  BY <1>2
      <3> QED  BY <2>1, <3>1
    <2>3. /\ Behind = Len(datagrams)
          /\ Behind' = Len(datagrams) + 1
          /\ Behind' = Behind + 1
      <3>1. \A n \in {0, 1} : n + 0 = n  OBVIOUS
      <3> QED  BY <1>1, <1>3, <2>1, <2>2, <3>1 DEF Behind
    <2>4. Behind \in {0, 1} /\ Behind' \in {1, 2}  BY <2>2, <2>3
    <2>5. /\ host'.page = host.page /\ host'.paused = host.paused
          /\ host.time \in Nat /\ host'.time \in Nat /\ player.time \in Nat /\ last.time \in Nat
          /\ host.time <= host'.time /\ host'.time <= host.time + 1
      BY <1>2, WorldType DEF Second, Host, Player, Time, Later
    <2>6. /\ Shown' <=> Shown
          /\ SleptOver' = SleptOver
      BY <1>1, <2>5 DEF Shown, SleptOver
    <2>7. SleptOver \subseteq Msg  BY <1>2 DEF SleptOver, GuestType
    <2>8. \A i \in DOMAIN datagrams : datagrams[i] \in Msg
      <3>1. \A i \in DOMAIN datagrams : datagrams[i] \in DatagramMsg  BY <1>2
      <3> QED  BY <3>1 DEF DatagramMsg, Msg
    <2>9. LastNear => LastNear'
      BY <1>3, <2>1, <2>5 DEF LastNear
    <2>10. \A m \in Msg : /\ Near(m, 0) => Near(m, 1)'
                          /\ Near(m, 1) => Near(m, 2)'
      <3>1. 0 + 1 = 1 /\ 1 + 1 = 2  OBVIOUS
      <3>2. ASSUME NEW m \in Msg, Near(m, 0)  PROVE Near(m, 1)'
        <4>1. Near(m, 0 + 1)'  BY <3>2, NearLater
        <4> QED  BY <4>1
      <3>3. ASSUME NEW m \in Msg, Near(m, 1)  PROVE Near(m, 2)'
        <4>1. Near(m, 1 + 1)'  BY <3>3, NearLater
        <4> QED  BY <4>1
      <3> QED  BY <3>2, <3>3
    <2>11. FirstSecond'
      BY <1>1, <1>3, <2>1 DEF FirstSecond
    <2>12. FirstSecond => SecondSecond'
      <3>1. SUFFICES ASSUME FirstSecond  PROVE SecondSecond'
        OBVIOUS
      <3>2. LastNear  BY <2>1, <3>1 DEF FirstSecond
      <3>3. CASE Len(datagrams) = 1
        <4>1. Near(datagrams[1], 0)
          <5>1. datagrams # <<>>
            <6>1. Len(<<>>) = 0  OBVIOUS
            <6> QED  BY <3>3, <6>1
          <5> QED  BY <2>1, <3>1, <3>3, <5>1 DEF FirstSecond
        <4>2. DOMAIN datagrams = {1}  BY <1>2, <3>3
        <4>3. Near(datagrams[1], 1)'  BY <1>1, <2>8, <2>10, <4>1, <4>2 DEF Near
        <4>4. Behind' = 2  BY <2>3, <3>3
        <4>5. OnTheWay'
          <5>1. Behind' - 1 = 1  BY <4>4
          <5>2. \A i \in DOMAIN datagrams' : i = 1  BY <1>1, <4>2
          <5>3. \A i \in DOMAIN datagrams' : Near(datagrams[1], 1)' /\ Behind' - i = 1
            BY <4>3, <5>1, <5>2
          <5> QED  BY <1>1, <5>2, <5>3 DEF OnTheWay, Near
        <4> QED  BY <1>1, <2>1, <2>9, <3>2, <4>4, <4>5 DEF SecondSecond, Current
      <3>4. CASE Len(datagrams) = 0
        <4>1. datagrams = <<>>  BY <1>2, <3>4
        <4>2. Shown /\ \A m \in SleptOver : Near(m, 0)  BY <2>1, <3>1, <4>1 DEF FirstSecond
        <4>3. \A m \in SleptOver' : Near(m, 1)'  BY <2>6, <2>7, <2>10, <4>2
        <4>4. OnTheWay'  BY <1>1, <4>1 DEF OnTheWay
        <4>5. Behind' = 1  BY <2>3, <3>4
        <4> QED  BY <1>1, <2>1, <2>6, <2>9, <3>2, <4>2, <4>3, <4>4, <4>5 DEF SecondSecond, Current
      <3> QED  BY <2>2, <3>3, <3>4
    <2>13. Current => Current'
      <3>1. SUFFICES ASSUME Current  PROVE Current'
        OBVIOUS
      <3>2. LastNear /\ \A i \in DOMAIN datagrams : Near(datagrams[i], Behind - i)
        BY <3>1 DEF Current, OnTheWay
      <3>3. OnTheWay'
        <4>1. CASE Len(datagrams) = 0
          <5>1. datagrams = <<>>  BY <1>2, <4>1
          <5> QED  BY <1>1, <5>1 DEF OnTheWay
        <4>2. CASE Len(datagrams) = 1
          <5>1. DOMAIN datagrams = {1}  BY <1>2, <4>2
          <5>2. Near(datagrams[1], 0)
            <6>1. Behind - 1 = 0  BY <2>3, <4>2
            <6> QED  BY <3>2, <5>1, <6>1
          <5>3. Near(datagrams[1], 1)'  BY <1>1, <2>8, <2>10, <5>1, <5>2 DEF Near
          <5>4. \A i \in DOMAIN datagrams' : i = 1  BY <1>1, <5>1
          <5>5. \A i \in DOMAIN datagrams' : Behind' - i = 1  BY <2>3, <4>2, <5>4
          <5> QED  BY <1>1, <5>3, <5>4, <5>5 DEF OnTheWay, Near
        <4> QED  BY <2>2, <4>1, <4>2
      <3> QED  BY <1>1, <2>1, <2>9, <3>2, <3>3 DEF Current
    <2>14. SecondSecond => Caught'
      <3>1. SUFFICES ASSUME SecondSecond  PROVE Caught'
        OBVIOUS
      <3>2. Current' /\ Shown'  BY <2>4, <2>6, <2>13, <3>1 DEF SecondSecond
      <3>3. CASE Behind = 1
        <4>1. \A m \in SleptOver' : Near(m, 2)'  BY <2>6, <2>7, <2>10, <3>1, <3>3 DEF SecondSecond
        <4>2. Behind' = 2  BY <2>3, <3>3
        <4> QED  BY <3>2, <4>1, <4>2 DEF Caught
      <3>4. CASE Behind = 0
        <4>1. guest'.asleep = <<>>  BY <1>1, <3>1, <3>4 DEF SecondSecond
        <4>2. Behind' = 1  BY <2>3, <3>4
        <4> QED  BY <3>2, <4>1, <4>2 DEF Caught
      <3> QED  BY <2>4, <3>3, <3>4
    <2>15. Caught => Caught'
      <3>1. SUFFICES ASSUME Caught  PROVE Caught'
        OBVIOUS
      <3>2. Current' /\ Shown' /\ guest'.asleep = <<>>
        BY <1>1, <2>4, <2>6, <2>13, <3>1 DEF Caught
      <3>3. SleptOver' = {}  BY <3>2 DEF SleptOver
      <3> QED  BY <3>2, <3>3 DEF Caught
    <2>16. Behindhand => Behindhand'
      <3>1. SUFFICES ASSUME Behindhand  PROVE Behindhand'
        OBVIOUS
      <3>2. /\ guest.asleep = <<>> /\ player.file # NoPage /\ player.paused = host.paused
            /\ player.time <= host.time /\ host.time <= player.time + 2
        BY <3>1 DEF Behindhand
      <3>3. host.page # NoPage  BY <3>2 DEF NoPageYet
      <3>4. player'.file = player.file /\ player'.paused = player.paused
        BY <1>2 DEF Second, Player
      <3>5. player'.time <= host'.time /\ host'.time <= player'.time + 2
        <4>1. world.length \in Nat /\ host.time <= world.length /\ player.time <= world.length
          BY <1>2, WorldType DEF Host, Player, Time
        <4>2. CASE host.paused
          <5>1. host'.time = host.time /\ player'.time = player.time
            BY <1>2, <3>2, <4>2 DEF Second, Plays
          <5> QED  BY <3>2, <5>1
        <4>3. CASE ~host.paused
          <5>1. host'.time = Later(host.time) /\ player'.time = Later(player.time)
            BY <1>2, <3>2, <3>3, <4>3 DEF Second, Plays, Host, Player
          <5> QED  BY <2>5, <3>2, <4>1, <5>1 DEF Later
        <4> QED  BY <4>2, <4>3
      <3> QED  BY <1>1, <2>5, <3>2, <3>4, <3>5 DEF Behindhand
    <2>17. /\ quiet.for = 1 => FirstSecond
           /\ quiet.for = 2 => SecondSecond
           /\ quiet.for = 3 => Caught
           /\ quiet.for < 3 => quiet.moves = 0
           /\ quiet.moves > 0 => Behindhand
      BY <1>7 DEF Steady, Settled
    <2>18. /\ quiet'.for \in {1, 2, 3}
           /\ quiet'.for = 2 => quiet.for = 1
           /\ quiet'.for = 3 => quiet.for \in {2, 3}
           /\ quiet'.for < 3 => quiet.for < 3
      BY <1>3, <1>4, <1>7
    <2>19. Behind' <= 2  BY <2>4
    <2> QED
      BY <1>1, <1>3, <1>4, <1>7, <2>11, <2>12, <2>14, <2>15, <2>16, <2>17, <2>18, <2>19
      DEF Steady, MovedOnce, Settled
  <1> QED  BY <1>5, <1>6, <1>7

LEMMA SteadyStep ==
    ASSUME MaxFlight >= 2, TypeOK, NoPageYet, Steady, MovedOnce, [Next]_vars
    PROVE  Steady' /\ MovedOnce'
  <1>1. CASE Broadcast
    <2>1. guest.in /\ guest' = guest /\ quiet' = quiet /\ world' = world
      BY <1>1 DEF Broadcast
    <2> QED  BY <1>1, <2>1, BroadcastSteady, IdleSteady
  <1>2. ASSUME NEW m, Handle(m), quiet.for = 0, world' = world
        PROVE  Steady' /\ MovedOnce'
    <2>1. quiet' = quiet  BY <1>2 DEF Handle, Moved, Settled
    <2>2. guest'.in = guest.in  BY <1>2 DEF Handle, TypeOK
    <2> QED  BY <1>2, <2>1, <2>2, IdleSteady
  <1>3. CASE ReceiveReliable
    <2>1. Handle(Head(reliable)) /\ world' = world  BY <1>3 DEF ReceiveReliable
    <2> QED  BY <1>2, <1>3, <2>1, ReliableSteady
  <1>4. ASSUME NEW i \in DOMAIN datagrams, ReceiveDatagram(i)
        PROVE  Steady' /\ MovedOnce'
    <2>1. Handle(datagrams[i]) /\ world' = world  BY <1>4 DEF ReceiveDatagram
    <2> QED  BY <1>2, <1>4, <2>1, DatagramSteady
  <1>5. CASE Wake
    <2>1. quiet.for = 0 => quiet' = quiet  BY <1>5 DEF Wake, Moved, Settled
    <2>2. guest'.in = guest.in /\ world' = world  BY <1>5 DEF Wake, TypeOK
    <2> QED  BY <1>5, <2>1, <2>2, WakeSteady, IdleSteady
  <1>6. CASE Stir  BY <1>6, StirSteady
  <1>7. CASE Reports  BY <1>7, ReportsSteady
  <1>8. CASE Second  BY <1>8, SecondSteady
  <1>9. CASE UNCHANGED vars
    BY <1>9
    DEF vars, Steady, MovedOnce, FirstSecond, SecondSecond, Caught, Current, OnTheWay, LastNear,
        Behindhand, Behind, Shown, SleptOver, Near
  <1> QED
    BY <1>1, <1>3, <1>4, <1>5, <1>6, <1>7, <1>8, <1>9
    DEF Next, GuestJoins, GuestLeaves, LoseDatagram, FileLoads, HostActs, GuestActs

\* While the host just plays and the network is prompt a guest is moved once at most, however
\* long the party goes on, if the bound lets the two states be under way that a prompt network
\* may hold.
THEOREM MovedAtMostOnce == ASSUME MaxFlight >= 2 PROVE Spec => []MovedOnce
  <1>1. Init => Inv
    <2> SUFFICES ASSUME Init  PROVE Inv
      OBVIOUS
    <2>1. NoPageYet  BY DEF Init, NoPageYet
    <2>2. Steady /\ MovedOnce  BY DEF Init, Steady, MovedOnce, Settled
    <2> QED  BY <2>1, <2>2, TypeInit DEF Inv
  <1>2. Inv /\ [Next]_vars => Inv'
    BY TypeStep, NoPageStep, SteadyStep DEF Inv
  <1>3. Inv => MovedOnce  BY DEF Inv
  <1> QED  BY <1>1, <1>2, <1>3, PTL DEF Spec

=============================================================================
