------------------------- MODULE PlayerPhasesProofs -------------------------
(***************************************************************************)
(* The proof that PlayerController implements LoadPhases: what every       *)
(* handler does to the state and to the load that waits, and then every    *)
(* step as a step of LoadPhases or none.                                   *)
(***************************************************************************)
EXTENDS PlayerPhases, PlayerControllerProofs

\* d is in the phase of c, and the same load waits.
Same(d, c) == d.state = c.state /\ d.deferred = c.deferred

\* d has sent a loadfile, or was refused it, and leaves u waiting.
Sent(d, u) == d.state \in {"Loading", "Idle"} /\ d.deferred = u

\* d has sent the load that waited in c; if there was none, its state is in S.
SentPending(d, c, S) ==
    IF c.deferred = NoUrl THEN d.state \in S /\ d.deferred = NoUrl ELSE Sent(d, NoUrl)

-----------------------------------------------------------------------------
\* The commands.

LEMMA PhaseOfAbort ==
    ASSUME NEW c \in Controller
    PROVE  AbortActive(c) \in Controller /\ Same(AbortActive(c), c)
  <1>1. c.active \in Active /\ c.active.id \in Nat /\ NoActive \in Active
    BY DEF Controller, Active, NoActive
  <1>2. AbortIf(c, c.active.id) \in SUBSET Nat
    BY <1>1 DEF AbortIf, Controller
  <1> QED BY <1>1, <1>2 DEF AbortActive, Controller, Same

LEMMA PhaseOfSend ==
    ASSUME NEW c \in Controller, NEW u, NEW ok
    PROVE  Sent(SendLoadfileNow(c, u, ok), c.deferred)
  <1> DEFINE d == AbortActive(c)
  <1>1. d \in Controller /\ Same(d, c)
    BY PhaseOfAbort
  <1> HIDE DEF d
  <1>2. SendLoadfileNow(c, u, ok) =
          IF ok
          THEN [d EXCEPT !.state = "Loading", !.stopClock = FALSE, !.fileLoaded = FALSE,
                   !.stopInFlight = FALSE, !.ids = d.ids + 1,
                   !.core = Append(d.core, [op |-> "loadfile", url |-> u, id |-> d.ids]),
                   !.active = [url |-> u, id |-> d.ids, replied |-> FALSE,
                               started |-> FALSE]]
          ELSE [d EXCEPT !.state = "Idle", !.stopClock = FALSE, !.fileLoaded = FALSE,
                         !.stopInFlight = FALSE]
    BY DEF SendLoadfileNow, d
  <1> QED BY <1>1, <1>2 DEF Controller, Same, Sent

LEMMA PhaseOfReload ==
    ASSUME NEW c \in Controller, NEW u \in Url, NEW ok \in BOOLEAN
    PROVE  Sent(Reload(c, u, ok), c.deferred)
  <1> DEFINE s == SendLoadfileNow(c, u, ok)
  <1>1. Sent(s, c.deferred)
    BY PhaseOfSend
  <1>2. Reload(c, u, ok).state = s.state /\ Reload(c, u, ok).deferred = s.deferred
    BY DEF Reload
  <1> QED BY <1>1, <1>2 DEF Sent

LEMMA PhaseOfPending ==
    ASSUME NEW c \in Controller, NEW ok
    PROVE  SentPending(SendPendingLoadfile(c, ok), c, {c.state})
  <1> DEFINE d == [c EXCEPT !.deferred = NoUrl]
  <1>1. CASE c.deferred = NoUrl
    BY <1>1 DEF SendPendingLoadfile, SentPending
  <1>2. CASE c.deferred # NoUrl
    <2>1. d \in Controller /\ d.deferred = NoUrl
      BY UrlFacts DEF Controller
    <2>2. SendPendingLoadfile(c, ok) = SendLoadfileNow(d, c.deferred, ok)
      BY <1>2 DEF SendPendingLoadfile
    <2> HIDE DEF d
    <2> QED BY <1>2, <2>1, <2>2, PhaseOfSend DEF SentPending
  <1> QED BY <1>1, <1>2

LEMMA PhaseOfRelease ==
    ASSUME NEW c \in Controller, NEW ok
    PROVE  SentPending(Release(c, ok), c, {"Idle"})
  <1> DEFINE d == [c EXCEPT !.state = "Idle", !.stopClock = FALSE, !.stopId = 0,
                            !.fileLoaded = FALSE, !.stopInFlight = FALSE]
  <1>1. d \in Controller /\ d.state = "Idle" /\ d.deferred = c.deferred
    BY DEF Controller, LoadState
  <1>2. Release(c, ok) = SendPendingLoadfile(d, ok)
    BY DEF Release
  <1> HIDE DEF d
  <1> QED BY <1>1, <1>2, PhaseOfPending DEF SentPending

LEMMA PhaseOfStop ==
    ASSUME NEW c \in Controller, NEW ok
    PROVE  /\ Same(SendStop(c, ok), c)
           /\ EnterStopping(c, ok).state = "Stopping"
           /\ EnterStopping(c, ok).deferred = c.deferred
  <1>1. SendStop(c, ok) = [c EXCEPT !.ids = SendStop(c, ok).ids, !.core = SendStop(c, ok).core]
    BY DEF SendStop, Controller
  <1>2. Same(SendStop(c, ok), c)
    BY <1>1 DEF Same, Controller
  <1> DEFINE d == SendStop(c, ok)
  <1>3. d = [c EXCEPT !.ids = d.ids, !.core = d.core] /\ Same(d, c)
    BY <1>1, <1>2
  <1>4. EnterStopping(c, ok) =
            [d EXCEPT !.state = "Stopping", !.stopClock = TRUE, !.fileLoaded = FALSE,
                      !.stopInFlight = TRUE, !.stopId = IF ok THEN c.ids ELSE 0]
    BY DEF EnterStopping
  <1> HIDE DEF d
  <1> QED BY <1>2, <1>3, <1>4 DEF Same, Controller

-----------------------------------------------------------------------------
\* The handlers.

LEMMA PhaseOfHandleStop ==
    ASSUME NEW c \in Controller, NEW ok
    PROVE  LET d == HandleStop(c, ok) IN
           /\ d.deferred = c.deferred
           /\ d.state \in CASE c.state = "Idle" -> {"Idle"}
                            [] c.state = "Loading" -> {"Stopping", "Idle"}
                            [] OTHER -> {"Stopping"}
  <1> DEFINE a == AbortActive(c)
  <1>1. a \in Controller /\ Same(a, c)
    BY PhaseOfAbort
  <1> HIDE DEF a
  <1>2. CASE c.state = "Stopping"
    BY <1>2 DEF HandleStop
  <1>3. CASE c.state = "Idle"
    BY <1>1, <1>3 DEF HandleStop, a, Same
  <1>4. CASE c.state = "Loading" /\ c.active # NoActive /\ ~c.active.started
    <2>1. HandleStop(c, ok) =
              [a EXCEPT !.state = "Idle", !.stopClock = FALSE, !.stopId = 0,
                        !.fileLoaded = FALSE, !.stopInFlight = FALSE]
      BY <1>4 DEF HandleStop, a
    <2> QED BY <1>1, <1>4, <2>1 DEF Same, Controller
  <1>5. CASE c.state = "Loading" /\ (c.active # NoActive => c.active.started)
    <2>1. HandleStop(c, ok) = EnterStopping(a, ok)
      BY <1>5 DEF HandleStop, a
    <2> QED BY <1>1, <1>5, <2>1, PhaseOfStop DEF Same
  <1>6. CASE c.state = "Loaded"
    <2>1. HandleStop(c, ok) = EnterStopping(c, ok)
      BY <1>6 DEF HandleStop
    <2> QED BY <1>6, <2>1, PhaseOfStop
  <1> QED BY <1>2, <1>3, <1>4, <1>5, <1>6 DEF Controller, LoadState

LEMMA PhaseOfHandleLoadfile ==
    ASSUME NEW c \in Controller, NEW u \in Url, NEW ok
    PROVE  LET d == HandleLoadfile(c, u, ok) IN
           IF c.state = "Stopping" THEN d.state = c.state /\ d.deferred = u
                                   ELSE Sent(d, c.deferred)
  <1> DEFINE d == CaptureUrl(c, u)
  <1>1. d \in Controller /\ Same(d, c)
    BY UrlFacts DEF CaptureUrl, Controller, Same
  <1>2. HandleLoadfile(c, u, ok) =
            IF d.state = "Stopping" THEN [d EXCEPT !.deferred = u] ELSE SendLoadfileNow(d, u, ok)
    BY DEF HandleLoadfile
  <1> HIDE DEF d
  <1>3. CASE c.state = "Stopping"
    BY <1>1, <1>2, <1>3 DEF Same, Controller
  <1>4. CASE c.state # "Stopping"
    BY <1>1, <1>2, <1>4, PhaseOfSend DEF Same
  <1> QED BY <1>3, <1>4

LEMMA PhaseOfRetry ==
    ASSUME NEW c \in Controller, NEW u
    PROVE  Same(ScheduleRetry(c, u), c) /\ Same(RetryStartupFailure(c), c)
  <1>1. \A v : Same(ScheduleRetry(c, v), c)
    BY DEF ScheduleRetry, Same, Controller
  <1> QED BY <1>1 DEF RetryStartupFailure, Same

LEMMA PhaseOfRunRetry ==
    ASSUME NEW c \in Controller, c.retry # NoUrl, NEW ok \in BOOLEAN
    PROVE  LET d == RunRetry(c, ok) IN
           Same(d, c) \/ (c.state # "Stopping" /\ Sent(d, c.deferred))
  <1> DEFINE u == CacheBusted(c.retry)
             d == [c EXCEPT !.retry = NoUrl]
             e == [d EXCEPT !.url = u]
  <1>1. c.retry \in Url /\ u \in Url /\ u \in AnyUrl
    BY UrlFacts DEF Controller
  <1>2. d \in Controller /\ Same(d, c)
    BY UrlFacts DEF Controller, Same
  <1>3. RunRetry(c, ok) = IF c.state = "Stopping" \/ c.url # c.retry THEN d
                          ELSE Reload(e, u, ok)
    BY DEF RunRetry
  <1> HIDE DEF u, d
  <1>4. e \in Controller /\ Same(e, c)
    BY <1>1, <1>2 DEF Controller, Same
  <1> HIDE DEF e
  <1>5. CASE c.state = "Stopping" \/ c.url # c.retry
    BY <1>2, <1>3, <1>5
  <1>6. CASE ~(c.state = "Stopping" \/ c.url # c.retry)
    <2>1. Sent(Reload(e, u, ok), e.deferred)
      BY <1>1, <1>4, PhaseOfReload
    <2> QED BY <1>3, <1>4, <1>6, <2>1 DEF Same
  <1> QED BY <1>5, <1>6

\* The load that is sent again waits for no longer than the handler runs.
LEMMA PhaseOfRecover ==
    ASSUME NEW c \in Controller, c.active # NoActive, NEW ok
    PROVE  Sent(RecoverLoadfile(c, ok), NoUrl)
  <1> DEFINE u == CacheBusted(c.active.url)
             a == AbortActive(c)
             d == [a EXCEPT !.deferred = u, !.url = u,
                            !.recoveries = c.recoveries + 1, !.auto = c.auto + 1]
  <1>1. c.active.url \in Url /\ c.recoveries + 1 \in Nat /\ c.auto + 1 \in Nat
    BY DEF Controller, Active
  <1>2. u \in Url /\ u \in AnyUrl /\ u # NoUrl
    BY <1>1, UrlFacts
  <1>3. a \in Controller
    BY PhaseOfAbort
  <1>4. RecoverLoadfile(c, ok) = Release(d, ok)
    BY DEF RecoverLoadfile
  <1> HIDE DEF u, a
  <1>5. d \in Controller /\ d.deferred = u
    BY <1>1, <1>2, <1>3 DEF Controller
  <1> HIDE DEF d
  <1> QED BY <1>2, <1>4, <1>5, PhaseOfRelease DEF SentPending

LEMMA PhaseOfCancel ==
    ASSUME NEW c \in Controller, NEW ok
    PROVE  CancelLoadfile(c, ok).state = "Idle" /\ CancelLoadfile(c, ok).deferred = c.deferred
  <1> DEFINE a == AbortActive(c)
             b == SendStop(a, ok)
             d == [b EXCEPT !.state = "Idle"]
  <1>1. a \in Controller /\ Same(a, c)
    BY PhaseOfAbort
  <1>2. CancelLoadfile(c, ok) = IF c.url # c.active.url THEN d
                                ELSE ScheduleRetry(d, c.active.url)
    BY DEF CancelLoadfile
  <1> HIDE DEF a
  <1>3. Same(b, a) /\ b = [a EXCEPT !.ids = b.ids, !.core = b.core]
    BY <1>1, PhaseOfStop DEF SendStop, Controller
  <1> HIDE DEF b
  <1>4. d.state = "Idle" /\ d.deferred = c.deferred /\ d = [b EXCEPT !.state = "Idle"]
    BY <1>1, <1>3 DEF Same, Controller
  <1>5. \A v : Same(ScheduleRetry(d, v), d)
    BY <1>1, <1>3, <1>4 DEF ScheduleRetry, Same, Controller
  <1> HIDE DEF d
  <1> QED BY <1>2, <1>4, <1>5 DEF Same

LEMMA PhaseOfStaleStop ==
    ASSUME NEW c \in Controller, NEW ok
    PROVE  SentPending(ReleaseStaleStop(c, ok), c, {"Idle"})
  <1> DEFINE x == IF c.stopId = 0 THEN c.aborted ELSE AbortIf(c, c.stopId)
             d == [c EXCEPT !.aborted = x]
  <1>1. x \in SUBSET Nat
    BY DEF AbortIf, Controller
  <1>2. ReleaseStaleStop(c, ok) = Release(d, ok)
    BY DEF ReleaseStaleStop, Controller
  <1> HIDE DEF x
  <1>3. d \in Controller /\ d.deferred = c.deferred
    BY <1>1 DEF Controller
  <1> HIDE DEF d
  <1> QED BY <1>2, <1>3, PhaseOfRelease DEF SentPending

LEMMA PhaseOfEndFile ==
    ASSUME NEW c \in Controller, NEW type, NEW ok \in BOOLEAN
    PROVE  SentPending(HandleEndFile(c, type, ok), c, {"Idle", "Loading"})
  <1> DEFINE b == IF type = "EndError" THEN RetryStartupFailure(c) ELSE c
             d == OnEndFile(b)
  <1>1. b \in Controller /\ Same(b, c)
    <2>1. RetryStartupFailure(c) \in Controller
      <3>1. IsLocal(c.url) => [c EXCEPT !.attempts = c.attempts + 1, !.retry = c.url]
                                  \in Controller
        <4>1. c.attempts + 1 \in Nat /\ c.url \in AnyUrl
          BY DEF Controller
        <4> QED BY <4>1 DEF Controller
      <3> QED BY <3>1 DEF RetryStartupFailure, ScheduleRetry
    <2> QED BY <2>1, PhaseOfRetry DEF Same
  <1> HIDE DEF b
  <1>2. d \in Controller /\ d.state \in {"Idle", "Loading"} /\ d.deferred = c.deferred
    BY <1>1 DEF OnEndFile, Controller, LoadState, Same
  <1>3. HandleEndFile(c, type, ok) =
            CASE d.deferred # NoUrl -> SendPendingLoadfile(d, ok)
              [] d.deferred = NoUrl /\ type = "EndEof" /\ Premature(c) -> ReloadAfterEof(d, ok)
              [] d.deferred = NoUrl /\ ~(type = "EndEof" /\ Premature(c)) -> d
    BY DEF HandleEndFile, b
  <1> HIDE DEF d
  <1>4. CASE d.deferred # NoUrl
    BY <1>2, <1>3, <1>4, PhaseOfPending DEF SentPending
  <1>5. CASE d.deferred = NoUrl /\ type = "EndEof" /\ Premature(c)
    <2> DEFINE u == CacheBusted(d.url)
               e == [d EXCEPT !.eofs = d.eofs + 1, !.url = u]
    <2>1. d.url = c.url
      <3>1. b.url = c.url
        BY <1>1 DEF b, RetryStartupFailure, ScheduleRetry, Controller
      <3> QED BY <1>1, <3>1 DEF d, OnEndFile, Controller
    <2>2. u \in Url /\ u \in AnyUrl
      BY <1>2, <1>5, <2>1, UrlFacts DEF Premature, Controller
    <2>3. ReloadAfterEof(d, ok) = Reload(e, u, ok)
      BY DEF ReloadAfterEof
    <2> HIDE DEF u
    <2>4. e \in Controller /\ e.deferred = d.deferred
      <3>1. d.eofs + 1 \in Nat
        BY <1>2 DEF Controller
      <3> QED BY <1>2, <2>2, <3>1 DEF Controller
    <2> HIDE DEF e
    <2>5. HandleEndFile(c, type, ok) = Reload(e, u, ok)
      BY <1>3, <1>5, <2>3
    <2> QED BY <1>2, <1>5, <2>2, <2>4, <2>5, PhaseOfReload DEF Sent, SentPending
  <1>6. CASE d.deferred = NoUrl /\ ~(type = "EndEof" /\ Premature(c))
    BY <1>2, <1>3, <1>6 DEF SentPending
  <1> QED BY <1>4, <1>5, <1>6

LEMMA PhaseOfReply ==
    ASSUME NEW c \in Controller, NEW n, NEW ok
    PROVE  LET d == OnCommandReply(c, n, ok) IN
           Same(d, c) \/ (c.state = "Stopping" /\ SentPending(d, c, {"Idle"}))
  <1> DEFINE stop == c.stopId # 0 /\ n = c.stopId
             load == c.active # NoActive /\ n = c.active.id
  <1>1. CASE stop /\ c.state = "Stopping"
    BY <1>1, PhaseOfRelease DEF OnCommandReply
  <1>2. CASE stop /\ c.state # "Stopping"
    BY <1>2 DEF OnCommandReply, Same, Controller
  <1>3. CASE ~stop /\ load
    BY <1>3 DEF OnCommandReply, Same, Controller
  <1>4. CASE ~stop /\ ~load
    BY <1>4 DEF OnCommandReply, Same
  <1> QED BY <1>1, <1>2, <1>3, <1>4

-----------------------------------------------------------------------------
\* The steps.

Mapped == <<ctl.state, ctl.deferred # NoUrl>>
Implements == Phases!PhaseNext \/ UNCHANGED Mapped

LEMMA StayingPut ==
    ASSUME Same(ctl', ctl)
    PROVE  Implements
  BY DEF Same, Implements, Mapped

LEMMA Answering ==
    ASSUME Inv, HandleEvent
    PROVE  Implements
  <1> USE MpvAssumption
  <1> DEFINE e == Head(events)
  <1>1. ctl \in Controller
    BY DEF Inv, Good, Typed
  <1>2. e \in Event
    BY DEF Inv, Waits, HandleEvent
  <1>3. PICK ok \in BOOLEAN : ctl' = OnEvent(ctl, e, ok)
    BY DEF HandleEvent, Accepted
  <1> HIDE DEF e
  <1>4. CASE e.type = "StartFile"
    <2>1. ctl' = OnStartFile(ctl)
      BY <1>3, <1>4 DEF OnEvent
    <2>2. ctl'.state = "Loading" /\ ctl'.deferred = ctl.deferred
      BY <1>1, <2>1 DEF OnStartFile, Controller
    <2>3. Phases!FileStarts
      BY <2>2 DEF Phases!FileStarts
    <2> QED BY <2>3 DEF Implements, Phases!PhaseNext
  <1>5. CASE e.type = "FileLoaded"
    <2>1. ctl' = OnFileLoaded(ctl)
      BY <1>3, <1>5 DEF OnEvent
    <2>2. ctl'.state = "Loaded" /\ ctl'.deferred = ctl.deferred
      BY <1>1, <2>1 DEF OnFileLoaded, Controller
    <2>3. Phases!FileLoads
      BY <2>2 DEF Phases!FileLoads
    <2> QED BY <2>3 DEF Implements, Phases!PhaseNext
  <1>6. CASE e.type = "Progress"
    <2>1. ctl' = [ctl EXCEPT !.midway = TRUE]
      BY <1>3, <1>6 DEF OnEvent
    <2>2. Same(ctl', ctl)
      BY <1>1, <2>1 DEF Same, Controller
    <2> QED BY <2>2, StayingPut
  <1>7. CASE e.type \in {"EndStop", "EndEof", "EndError"}
    <2>1. ctl' = HandleEndFile(ctl, e.type, ok)
      BY <1>3, <1>7 DEF OnEvent
    <2>2. SentPending(ctl', ctl, {"Idle", "Loading"})
      BY <1>1, <2>1, PhaseOfEndFile
    <2>3. Phases!FileEnds
      BY <2>2 DEF SentPending, Sent, Phases!FileEnds, Phases!SendDeferred, Phases!Sends
    <2> QED BY <2>3 DEF Implements, Phases!PhaseNext
  <1>8. CASE e.type = "Reply"
    <2>1. ctl' = OnCommandReply(ctl, e.id, ok)
      BY <1>3, <1>8 DEF OnEvent
    <2>2. Same(ctl', ctl) \/ (ctl.state = "Stopping" /\ SentPending(ctl', ctl, {"Idle"}))
      BY <1>1, <2>1, PhaseOfReply
    <2>3. CASE ctl.state = "Stopping" /\ SentPending(ctl', ctl, {"Idle"})
      <3>1. Phases!Release
        BY <2>3 DEF SentPending, Sent, Phases!Release, Phases!SendDeferred, Phases!Sends
      <3> QED BY <3>1 DEF Implements, Phases!PhaseNext
    <2> QED BY <2>2, <2>3, StayingPut
  <1>9. CASE e.type = "Err"
    <2>1. ctl' = RetryStartupFailure(ctl)
      BY <1>3, <1>9 DEF OnEvent
    <2> QED BY <1>1, <2>1, PhaseOfRetry, StayingPut
  <1> QED BY <1>2, <1>4, <1>5, <1>6, <1>7, <1>8, <1>9 DEF Event

LEMMA Watching ==
    ASSUME Inv, ControllerStep
    PROVE  Implements
  <1> USE MpvAssumption
  <1>0. ctl \in Controller /\ Followed(ctl)
    BY DEF Inv, Good, Typed
  <1>1. CASE FlushStaleStop
    <2>1. PICK ok \in BOOLEAN : ctl.state = "Stopping" /\ ctl' = ReleaseStaleStop(ctl, ok)
      BY <1>1 DEF FlushStaleStop, Accepted
    <2>2. SentPending(ctl', ctl, {"Idle"})
      BY <1>0, <2>1, PhaseOfStaleStop
    <2>3. Phases!Release
      BY <2>1, <2>2 DEF SentPending, Sent, Phases!Release, Phases!SendDeferred, Phases!Sends
    <2> QED BY <2>3 DEF Implements, Phases!PhaseNext
  <1>2. CASE FlushUnansweredLoadfile
    <2>1. PICK ok \in BOOLEAN : ctl.active # NoActive /\ ctl' = RecoverLoadfile(ctl, ok)
      BY <1>2 DEF FlushUnansweredLoadfile, Accepted, Waiting
    <2>2. Sent(ctl', NoUrl) /\ ctl.state = "Loading"
      BY <1>0, <2>1, PhaseOfRecover DEF Followed
    <2>3. Phases!Recover
      BY <2>2 DEF Sent, Phases!Recover, Phases!Sends
    <2> QED BY <2>3 DEF Implements, Phases!PhaseNext
  <1>3. CASE FlushUnstartedLoadfile
    <2>1. PICK ok \in BOOLEAN : ctl.active # NoActive /\ ctl' = CancelLoadfile(ctl, ok)
      BY <1>3 DEF FlushUnstartedLoadfile, Accepted, Waiting
    <2>2. /\ ctl'.state = "Idle" /\ ctl'.deferred = ctl.deferred
          /\ ctl.state = "Loading"
      BY <1>0, <2>1, PhaseOfCancel DEF Followed
    <2>3. Phases!GiveUp
      BY <2>2 DEF Phases!GiveUp
    <2> QED BY <2>3 DEF Implements, Phases!PhaseNext
  <1>4. CASE FlushStartupRetry
    <2>1. PICK ok \in BOOLEAN : ctl.retry # NoUrl /\ ctl' = RunRetry(ctl, ok)
      BY <1>4 DEF FlushStartupRetry, Accepted
    <2>2. Same(ctl', ctl) \/ (ctl.state # "Stopping" /\ Sent(ctl', ctl.deferred))
      BY <1>0, <2>1, PhaseOfRunRetry
    <2>3. CASE ctl.state # "Stopping" /\ Sent(ctl', ctl.deferred)
      <3>1. Phases!Reload
        BY <2>3 DEF Sent, Phases!Reload, Phases!Sends
      <3> QED BY <3>1 DEF Implements, Phases!PhaseNext
    <2> QED BY <2>2, <2>3, StayingPut
  <1>5. CASE HandleEvent
    BY <1>5, Answering
  <1> QED BY <1>1, <1>2, <1>3, <1>4, <1>5 DEF ControllerStep

LEMMA Using ==
    ASSUME Inv, UserLoads \/ UserStops
    PROVE  Implements
  <1> USE MpvAssumption
  <1>0. ctl \in Controller
    BY DEF Inv, Good, Typed
  <1>1. CASE UserLoads
    <2>1. PICK s \in Streams, ok \in BOOLEAN :
              ctl' = HandleLoadfile(ctl, [stream |-> s, reload |-> 0], ok)
      BY <1>1 DEF UserLoads, Accepted
    <2>2. [stream |-> s, reload |-> 0] \in Url
      BY DEF Url
    <2>3. IF ctl.state = "Stopping"
          THEN ctl'.state = ctl.state /\ ctl'.deferred # NoUrl
          ELSE Sent(ctl', ctl.deferred)
      BY <1>0, <2>1, <2>2, PhaseOfHandleLoadfile, UrlFacts
    <2>4. Phases!Load
      BY <2>3 DEF Sent, Phases!Load, Phases!Sends
    <2> QED BY <2>4 DEF Implements, Phases!PhaseNext
  <1>2. CASE UserStops
    <2>1. PICK ok \in BOOLEAN : ctl' = HandleStop(ctl, ok)
      BY <1>2 DEF UserStops, Accepted
    <2>2. Phases!Stop
      BY <1>0, <2>1, PhaseOfHandleStop DEF Phases!Stop
    <2> QED BY <2>2 DEF Implements, Phases!PhaseNext
  <1> QED BY <1>1, <1>2

\* mpv's own steps at most take a command off the queue.
LEMMA Playing ==
    ASSUME Inv, MpvStep
    PROVE  Implements
  <1>1. ctl \in Controller
    BY DEF Inv, Good, Typed
  <1>2. \/ ctl' = [ctl EXCEPT !.core = Tail(@), !.aborted = @ \ {Head(ctl.core).id}]
        \/ ctl' = ctl
    BY DEF MpvStep, MpvRunsCommand, MpvDropsCommand, MpvSwitches, MpvLoads, MpvFails,
           MpvReachesEof
  <1>3. Same(ctl', ctl)
    BY <1>1, <1>2 DEF Same, Controller
  <1> QED BY <1>3, StayingPut

-----------------------------------------------------------------------------
(* The load that waits.  Beside it only the page's latest load is followed  *)
(* (Newest), so that no retry but that one's can take its place.            *)

Newest(c) == c.active # NoActive /\ c.deferred # NoUrl => c.active.url = c.url

\* From c to d the place is left alone, and no other load is followed.
SamePlace(d, c) ==
    /\ d.url = c.url /\ d.deferred = c.deferred
    /\ d.active # NoActive => c.active # NoActive /\ d.active.url = c.active.url

\* u is what is followed now, or mpv refused it.
Pursues(d, u, ok) == IF ok THEN d.active.url = u ELSE d.active = NoActive

\* What waited in c is sent.
PlaceSent(d, c, ok) ==
    /\ d.url = c.url
    /\ IF c.deferred = NoUrl
       THEN d.deferred = NoUrl /\ d.active = c.active
       ELSE d.deferred = NoUrl /\ Pursues(d, c.deferred, ok)

\* What WaitingIsKept allows.
KeepsPlace(d, c) ==
    c.deferred # NoUrl /\ d.deferred # c.deferred =>
       \/ c.state = "Stopping" /\ d.deferred = d.url
       \/ d.deferred = NoUrl /\ (d.active.url = c.deferred \/ (d.active = NoActive /\ Rejects))
       \/ /\ d.deferred = NoUrl /\ c.active # NoActive /\ c.active.url = c.url
          /\ d.url = CacheBusted(c.url)

Fine(d, c) == Newest(d) /\ KeepsPlace(d, c)

LEMMA SamePlaceFine ==
    ASSUME NEW c, NEW d, Newest(c), SamePlace(d, c)
    PROVE  Fine(d, c)
  BY DEF Fine, Newest, SamePlace, KeepsPlace

LEMMA PlaceSentFine ==
    ASSUME NEW c, NEW d, NEW ok \in Accepted, PlaceSent(d, c, ok)
    PROVE  Fine(d, c)
  <1>1. ok \in BOOLEAN /\ (~ok => Rejects)  BY DEF Accepted
  <1> QED  BY <1>1 DEF Fine, Newest, PlaceSent, Pursues, KeepsPlace

LEMMA PlaceOfAbort ==
    ASSUME NEW c \in Controller
    PROVE  LET a == AbortActive(c) IN
           /\ a \in Controller /\ a.active = NoActive
           /\ a.url = c.url /\ a.deferred = c.deferred /\ a.state = c.state
  <1>1. AbortActive(c) \in Controller
    BY PhaseOfAbort
  <1> QED BY <1>1 DEF AbortActive, Controller

LEMMA PlaceOfSend ==
    ASSUME NEW c \in Controller, NEW u, NEW ok
    PROVE  LET d == SendLoadfileNow(c, u, ok) IN
           d.url = c.url /\ d.deferred = c.deferred /\ Pursues(d, u, ok)
  <1> DEFINE d == AbortActive(c)
  <1>1. d \in Controller /\ d.active = NoActive /\ d.url = c.url /\ d.deferred = c.deferred
    BY PlaceOfAbort
  <1> HIDE DEF d
  <1>2. SendLoadfileNow(c, u, ok) =
          IF ok
          THEN [d EXCEPT !.state = "Loading", !.stopClock = FALSE, !.fileLoaded = FALSE,
                   !.stopInFlight = FALSE, !.ids = d.ids + 1,
                   !.core = Append(d.core, [op |-> "loadfile", url |-> u, id |-> d.ids]),
                   !.active = [url |-> u, id |-> d.ids, replied |-> FALSE,
                               started |-> FALSE]]
          ELSE [d EXCEPT !.state = "Idle", !.stopClock = FALSE, !.fileLoaded = FALSE,
                         !.stopInFlight = FALSE]
    BY DEF SendLoadfileNow, d
  <1> QED BY <1>1, <1>2 DEF Controller, Pursues

LEMMA PlaceOfReload ==
    ASSUME NEW c \in Controller, NEW u, NEW ok
    PROVE  LET d == Reload(c, u, ok) IN
           d.url = c.url /\ d.deferred = c.deferred /\ Pursues(d, u, ok)
  <1> DEFINE s == SendLoadfileNow(c, u, ok)
  <1>1. s.url = c.url /\ s.deferred = c.deferred /\ Pursues(s, u, ok)
    BY PlaceOfSend
  <1>2. /\ Reload(c, u, ok).url = s.url /\ Reload(c, u, ok).deferred = s.deferred
        /\ Reload(c, u, ok).active = s.active
    BY DEF Reload
  <1> QED BY <1>1, <1>2 DEF Pursues

LEMMA PlaceOfPending ==
    ASSUME NEW c \in Controller, NEW ok
    PROVE  PlaceSent(SendPendingLoadfile(c, ok), c, ok)
  <1> DEFINE d == [c EXCEPT !.deferred = NoUrl]
  <1>1. CASE c.deferred = NoUrl
    BY <1>1 DEF SendPendingLoadfile, PlaceSent
  <1>2. CASE c.deferred # NoUrl
    <2>1. d \in Controller /\ d.deferred = NoUrl /\ d.url = c.url
      BY UrlFacts DEF Controller
    <2>2. SendPendingLoadfile(c, ok) = SendLoadfileNow(d, c.deferred, ok)
      BY <1>2 DEF SendPendingLoadfile
    <2> HIDE DEF d
    <2> QED BY <1>2, <2>1, <2>2, PlaceOfSend DEF PlaceSent
  <1> QED BY <1>1, <1>2

LEMMA PlaceOfRelease ==
    ASSUME NEW c \in Controller, NEW ok
    PROVE  PlaceSent(Release(c, ok), c, ok)
  <1> DEFINE d == [c EXCEPT !.state = "Idle", !.stopClock = FALSE, !.stopId = 0,
                            !.fileLoaded = FALSE, !.stopInFlight = FALSE]
  <1>1. /\ d \in Controller /\ d.deferred = c.deferred /\ d.url = c.url
        /\ d.active = c.active
    BY DEF Controller, LoadState
  <1>2. Release(c, ok) = SendPendingLoadfile(d, ok)
    BY DEF Release
  <1> HIDE DEF d
  <1>3. PlaceSent(SendPendingLoadfile(d, ok), d, ok)
    BY <1>1, PlaceOfPending
  <1> QED BY <1>1, <1>2, <1>3 DEF PlaceSent

LEMMA PlaceOfStop ==
    ASSUME NEW c \in Controller, NEW ok
    PROVE  /\ SamePlace(SendStop(c, ok), c) /\ SendStop(c, ok).active = c.active
           /\ SamePlace(EnterStopping(c, ok), c)
  <1> DEFINE d == SendStop(c, ok)
  <1>1. d = [c EXCEPT !.ids = d.ids, !.core = d.core]
    BY DEF SendStop, Controller
  <1>2. EnterStopping(c, ok) =
            [d EXCEPT !.state = "Stopping", !.stopClock = TRUE, !.fileLoaded = FALSE,
                      !.stopInFlight = TRUE, !.stopId = IF ok THEN c.ids ELSE 0]
    BY DEF EnterStopping
  <1> HIDE DEF d
  <1>3. d.url = c.url /\ d.deferred = c.deferred /\ d.active = c.active
    BY <1>1 DEF Controller
  <1>4. /\ EnterStopping(c, ok).url = d.url /\ EnterStopping(c, ok).deferred = d.deferred
        /\ EnterStopping(c, ok).active = d.active
    BY <1>1, <1>2 DEF Controller
  <1> QED BY <1>3, <1>4 DEF SamePlace, d

LEMMA PlaceOfHandleStop ==
    ASSUME NEW c \in Controller, NEW ok
    PROVE  SamePlace(HandleStop(c, ok), c)
  <1> DEFINE a == AbortActive(c)
  <1>1. /\ a \in Controller /\ a.active = NoActive /\ a.url = c.url
        /\ a.deferred = c.deferred
    BY PlaceOfAbort
  <1> HIDE DEF a
  <1>2. CASE c.state = "Stopping"
    BY <1>2 DEF HandleStop, SamePlace
  <1>3. CASE c.state = "Idle"
    BY <1>1, <1>3 DEF HandleStop, a, SamePlace
  <1>4. CASE c.state = "Loading" /\ c.active # NoActive /\ ~c.active.started
    <2>1. HandleStop(c, ok) =
              [a EXCEPT !.state = "Idle", !.stopClock = FALSE, !.stopId = 0,
                        !.fileLoaded = FALSE, !.stopInFlight = FALSE]
      BY <1>4 DEF HandleStop, a
    <2> QED BY <1>1, <2>1 DEF SamePlace, Controller
  <1>5. CASE c.state = "Loading" /\ (c.active # NoActive => c.active.started)
    <2>1. HandleStop(c, ok) = EnterStopping(a, ok)
      BY <1>5 DEF HandleStop, a
    <2>2. SamePlace(EnterStopping(a, ok), a)
      BY <1>1, PlaceOfStop
    <2> QED BY <1>1, <2>1, <2>2 DEF SamePlace
  <1>6. CASE c.state = "Loaded"
    <2>1. HandleStop(c, ok) = EnterStopping(c, ok)
      BY <1>6 DEF HandleStop
    <2> QED BY <2>1, PlaceOfStop
  <1> QED BY <1>2, <1>3, <1>4, <1>5, <1>6 DEF Controller, LoadState

LEMMA PlaceOfHandleLoadfile ==
    ASSUME NEW c \in Controller, Followed(c), NEW u \in Url, NEW ok \in BOOLEAN
    PROVE  Fine(HandleLoadfile(c, u, ok), c)
  <1> DEFINE d == CaptureUrl(c, u)
  <1>1. /\ d \in Controller /\ d.url = u /\ d.deferred = c.deferred
        /\ d.state = c.state /\ d.active = c.active
    BY UrlFacts DEF CaptureUrl, Controller
  <1>2. HandleLoadfile(c, u, ok) =
            IF d.state = "Stopping" THEN [d EXCEPT !.deferred = u] ELSE SendLoadfileNow(d, u, ok)
    BY DEF HandleLoadfile
  <1> HIDE DEF d
  <1>3. CASE c.state = "Stopping"
    <2>1. HandleLoadfile(c, u, ok) = [d EXCEPT !.deferred = u]
      BY <1>1, <1>2, <1>3
    <2>2. /\ HandleLoadfile(c, u, ok).deferred = u /\ HandleLoadfile(c, u, ok).url = u
          /\ HandleLoadfile(c, u, ok).active = c.active
      BY <1>1, <2>1 DEF Controller
    <2>3. c.active = NoActive
      BY <1>3 DEF Followed
    <2> QED BY <1>3, <2>2, <2>3 DEF Fine, Newest, KeepsPlace
  <1>4. CASE c.state # "Stopping"
    <2>1. HandleLoadfile(c, u, ok) = SendLoadfileNow(d, u, ok)
      BY <1>1, <1>2, <1>4
    <2> QED BY <1>1, <2>1, PlaceOfSend DEF Fine, Newest, KeepsPlace, Pursues
  <1> QED BY <1>3, <1>4

LEMMA PlaceOfRetry ==
    ASSUME NEW c \in Controller, NEW u
    PROVE  SamePlace(ScheduleRetry(c, u), c) /\ SamePlace(RetryStartupFailure(c), c)
  <1>1. \A v : SamePlace(ScheduleRetry(c, v), c)
    BY DEF ScheduleRetry, SamePlace, Controller
  <1> QED BY <1>1 DEF RetryStartupFailure, SamePlace

LEMMA PlaceOfRunRetry ==
    ASSUME NEW c \in Controller, Newest(c), c.retry # NoUrl, NEW ok \in BOOLEAN
    PROVE  Fine(RunRetry(c, ok), c)
  <1> DEFINE u == CacheBusted(c.retry)
             d == [c EXCEPT !.retry = NoUrl]
             e == [d EXCEPT !.url = u]
  <1>1. c.retry \in Url /\ u \in Url /\ u \in AnyUrl
    BY UrlFacts DEF Controller
  <1>2. /\ d \in Controller /\ d.url = c.url /\ d.deferred = c.deferred
        /\ d.active = c.active
    BY UrlFacts DEF Controller
  <1>3. RunRetry(c, ok) = IF c.state = "Stopping" \/ c.url # c.retry THEN d
                          ELSE Reload(e, u, ok)
    BY DEF RunRetry
  <1> HIDE DEF u, d
  <1>4. e \in Controller /\ e.url = u /\ e.deferred = c.deferred
    BY <1>1, <1>2 DEF Controller
  <1> HIDE DEF e
  <1>5. CASE c.state = "Stopping" \/ c.url # c.retry
    <2>1. RunRetry(c, ok) = d
      BY <1>3, <1>5
    <2>2. SamePlace(d, c)
      BY <1>2 DEF SamePlace
    <2> QED BY <2>1, <2>2, SamePlaceFine
  <1>6. CASE ~(c.state = "Stopping" \/ c.url # c.retry)
    <2>1. RunRetry(c, ok) = Reload(e, u, ok)
      BY <1>3, <1>6
    <2> QED BY <1>4, <2>1, PlaceOfReload DEF Fine, Newest, KeepsPlace, Pursues
  <1> QED BY <1>5, <1>6

LEMMA PlaceOfRecover ==
    ASSUME NEW c \in Controller, Newest(c), c.active # NoActive, NEW ok
    PROVE  Fine(RecoverLoadfile(c, ok), c)
  <1> DEFINE u == CacheBusted(c.active.url)
             a == AbortActive(c)
             d == [a EXCEPT !.deferred = u, !.url = u,
                            !.recoveries = c.recoveries + 1, !.auto = c.auto + 1]
  <1>1. c.active.url \in Url /\ c.recoveries + 1 \in Nat /\ c.auto + 1 \in Nat
    BY DEF Controller, Active
  <1>2. u \in Url /\ u \in AnyUrl /\ u # NoUrl
    BY <1>1, UrlFacts
  <1>3. a \in Controller
    BY PhaseOfAbort
  <1>4. RecoverLoadfile(c, ok) = Release(d, ok)
    BY DEF RecoverLoadfile
  <1>5. c.deferred # NoUrl => c.active.url = c.url /\ u = CacheBusted(c.url)
    BY DEF Newest
  <1> HIDE DEF u, a
  <1>6. d \in Controller /\ d.deferred = u /\ d.url = u
    BY <1>1, <1>2, <1>3 DEF Controller
  <1> HIDE DEF d
  <1>7. PlaceSent(Release(d, ok), d, ok)
    BY <1>6, PlaceOfRelease
  <1> QED BY <1>2, <1>4, <1>5, <1>6, <1>7 DEF PlaceSent, Fine, Newest, KeepsPlace

LEMMA PlaceOfCancel ==
    ASSUME NEW c \in Controller, NEW ok
    PROVE  SamePlace(CancelLoadfile(c, ok), c)
  <1> DEFINE a == AbortActive(c)
             b == SendStop(a, ok)
             d == [b EXCEPT !.state = "Idle"]
  <1>1. /\ a \in Controller /\ a.active = NoActive /\ a.url = c.url
        /\ a.deferred = c.deferred
    BY PlaceOfAbort
  <1>2. CancelLoadfile(c, ok) = IF c.url # c.active.url THEN d
                                ELSE ScheduleRetry(d, c.active.url)
    BY DEF CancelLoadfile
  <1> HIDE DEF a
  <1>3. b = [a EXCEPT !.ids = b.ids, !.core = b.core]
    BY <1>1 DEF SendStop, Controller
  <1> HIDE DEF b
  <1>4. d.active = NoActive /\ d.url = c.url /\ d.deferred = c.deferred
    BY <1>1, <1>3 DEF Controller
  <1>5. \A v : /\ ScheduleRetry(d, v).active = d.active /\ ScheduleRetry(d, v).url = d.url
               /\ ScheduleRetry(d, v).deferred = d.deferred
    BY <1>1, <1>3 DEF ScheduleRetry, Controller
  <1> HIDE DEF d
  <1> QED BY <1>2, <1>4, <1>5 DEF SamePlace

LEMMA PlaceOfStaleStop ==
    ASSUME NEW c \in Controller, NEW ok
    PROVE  PlaceSent(ReleaseStaleStop(c, ok), c, ok)
  <1> DEFINE x == IF c.stopId = 0 THEN c.aborted ELSE AbortIf(c, c.stopId)
             d == [c EXCEPT !.aborted = x]
  <1>1. x \in SUBSET Nat
    BY DEF AbortIf, Controller
  <1>2. ReleaseStaleStop(c, ok) = Release(d, ok)
    BY DEF ReleaseStaleStop, Controller
  <1> HIDE DEF x
  <1>3. d \in Controller /\ d.deferred = c.deferred /\ d.url = c.url /\ d.active = c.active
    BY <1>1 DEF Controller
  <1> HIDE DEF d
  <1>4. PlaceSent(Release(d, ok), d, ok)
    BY <1>3, PlaceOfRelease
  <1> QED BY <1>2, <1>3, <1>4 DEF PlaceSent

LEMMA PlaceOfEndFile ==
    ASSUME NEW c \in Controller, NEW type, NEW ok \in Accepted
    PROVE  Fine(HandleEndFile(c, type, ok), c)
  <1> DEFINE b == IF type = "EndError" THEN RetryStartupFailure(c) ELSE c
             d == OnEndFile(b)
  <1>0. ok \in BOOLEAN  BY DEF Accepted
  <1>1. b.deferred = c.deferred /\ b.url = c.url
    BY PlaceOfRetry DEF SamePlace
  <1>2. b \in Controller
    <2>1. IsLocal(c.url) => [c EXCEPT !.attempts = c.attempts + 1, !.retry = c.url] \in Controller
      <3>1. c.attempts + 1 \in Nat /\ c.url \in AnyUrl
        BY DEF Controller
      <3> QED BY <3>1 DEF Controller
    <2>2. RetryStartupFailure(c) \in Controller
      BY <2>1 DEF RetryStartupFailure, ScheduleRetry
    <2> QED BY <2>2
  <1> HIDE DEF b
  <1>3. d \in Controller /\ d.deferred = c.deferred /\ d.url = c.url
    BY <1>1, <1>2 DEF OnEndFile, Controller, LoadState
  <1>4. d.deferred # NoUrl => HandleEndFile(c, type, ok) = SendPendingLoadfile(d, ok)
    BY DEF HandleEndFile, b
  <1>5. CASE c.deferred # NoUrl
    <2>1. PlaceSent(SendPendingLoadfile(d, ok), d, ok)
      BY <1>3, PlaceOfPending DEF d
    <2> HIDE DEF d
    <2>2. PlaceSent(HandleEndFile(c, type, ok), c, ok)
      BY <1>3, <1>4, <1>5, <2>1 DEF PlaceSent
    <2> QED BY <2>2, PlaceSentFine
  <1>6. CASE c.deferred = NoUrl
    <2>1. SentPending(HandleEndFile(c, type, ok), c, {"Idle", "Loading"})
      BY <1>0, PhaseOfEndFile
    <2> QED BY <1>6, <2>1 DEF SentPending, Fine, Newest, KeepsPlace
  <1> QED BY <1>5, <1>6

LEMMA PlaceOfReply ==
    ASSUME NEW c \in Controller, Newest(c), NEW n, NEW ok \in Accepted
    PROVE  Fine(OnCommandReply(c, n, ok), c)
  <1> DEFINE stop == c.stopId # 0 /\ n = c.stopId
             load == c.active # NoActive /\ n = c.active.id
             r == [c.active EXCEPT !.replied = TRUE]
  <1>1. CASE stop /\ c.state = "Stopping"
    <2>1. PlaceSent(OnCommandReply(c, n, ok), c, ok)
      BY <1>1, PlaceOfRelease DEF OnCommandReply
    <2> QED BY <2>1, PlaceSentFine
  <1>2. CASE stop /\ c.state # "Stopping"
    <2>1. SamePlace(OnCommandReply(c, n, ok), c)
      BY <1>2 DEF OnCommandReply, SamePlace, Controller
    <2> QED BY <2>1, SamePlaceFine
  <1>3. CASE ~stop /\ load
    <2>1. OnCommandReply(c, n, ok) = [c EXCEPT !.active = r]
      BY <1>3 DEF OnCommandReply
    <2>2. r.url = c.active.url
      BY DEF Controller, Active, NoActive
    <2> HIDE DEF r
    <2>3. SamePlace(OnCommandReply(c, n, ok), c)
      BY <1>3, <2>1, <2>2 DEF SamePlace, Controller
    <2> QED BY <2>3, SamePlaceFine
  <1>4. CASE ~stop /\ ~load
    <2>1. SamePlace(OnCommandReply(c, n, ok), c)
      BY <1>4 DEF OnCommandReply, SamePlace
    <2> QED BY <2>1, SamePlaceFine
  <1> QED BY <1>1, <1>2, <1>3, <1>4

LEMMA PlaceOfEvent ==
    ASSUME NEW c \in Controller, Newest(c), NEW e \in Event, NEW ok \in Accepted
    PROVE  Fine(OnEvent(c, e, ok), c)
  <1>1. CASE e.type = "StartFile"
    <2> DEFINE a == IF c.active = NoActive THEN c.active
                    ELSE [c.active EXCEPT !.started = TRUE]
    <2>1. a.url = c.active.url /\ (c.active = NoActive => a = NoActive)
      BY DEF Controller, Active, NoActive
    <2>2. OnStartFile(c) = [c EXCEPT !.state = "Loading", !.stopClock = FALSE,
                              !.fileLoaded = FALSE, !.stopInFlight = FALSE,
                              !.midway = FALSE, !.active = a]
      BY DEF OnStartFile
    <2> HIDE DEF a
    <2>3. SamePlace(OnStartFile(c), c)
      BY <2>1, <2>2 DEF SamePlace, Controller
    <2> QED BY <1>1, <2>3, SamePlaceFine DEF OnEvent
  <1>2. CASE e.type = "FileLoaded"
    <2>1. SamePlace(OnFileLoaded(c), c)
      BY DEF OnFileLoaded, SamePlace, Controller
    <2> QED BY <1>2, <2>1, SamePlaceFine DEF OnEvent
  <1>3. CASE e.type = "Progress"
    <2>1. SamePlace([c EXCEPT !.midway = TRUE], c)
      BY DEF SamePlace, Controller
    <2> QED BY <1>3, <2>1, SamePlaceFine DEF OnEvent
  <1>4. CASE e.type \in {"EndStop", "EndEof", "EndError"}
    BY <1>4, PlaceOfEndFile DEF OnEvent
  <1>5. CASE e.type = "Reply"
    BY <1>5, PlaceOfReply DEF OnEvent
  <1>6. CASE e.type = "Err"
    BY <1>6, PlaceOfRetry, SamePlaceFine DEF OnEvent
  <1> QED BY <1>1, <1>2, <1>3, <1>4, <1>5, <1>6 DEF Event

LEMMA PlaceStep ==
    ASSUME Inv, Newest(ctl), [Next]_vars
    PROVE  Fine(ctl', ctl)
  <1> USE MpvAssumption
  <1>1. ctl \in Controller /\ Followed(ctl)
    BY DEF Inv, Good, Typed
  <1>2. \A ok \in Accepted : ok \in BOOLEAN
    BY DEF Accepted
  <1>3. CASE UserLoads
    <2>1. PICK s \in Streams, ok \in Accepted :
              ctl' = HandleLoadfile(ctl, [stream |-> s, reload |-> 0], ok)
      BY <1>3 DEF UserLoads
    <2>2. [stream |-> s, reload |-> 0] \in Url
      BY DEF Url
    <2> QED BY <1>1, <1>2, <2>1, <2>2, PlaceOfHandleLoadfile
  <1>4. CASE UserStops
    BY <1>1, <1>4, PlaceOfHandleStop, SamePlaceFine DEF UserStops
  <1>5. CASE FlushStaleStop
    BY <1>1, <1>5, PlaceOfStaleStop, PlaceSentFine DEF FlushStaleStop
  <1>6. CASE FlushUnansweredLoadfile
    BY <1>1, <1>6, PlaceOfRecover DEF FlushUnansweredLoadfile, Waiting
  <1>7. CASE FlushUnstartedLoadfile
    BY <1>1, <1>7, PlaceOfCancel, SamePlaceFine DEF FlushUnstartedLoadfile
  <1>8. CASE FlushStartupRetry
    BY <1>1, <1>2, <1>8, PlaceOfRunRetry DEF FlushStartupRetry
  <1>9. CASE HandleEvent
    <2>1. Head(events) \in Event
      BY <1>9 DEF Inv, Waits, HandleEvent
    <2>2. PICK ok \in Accepted : ctl' = OnEvent(ctl, Head(events), ok)
      BY <1>9 DEF HandleEvent
    <2> QED BY <1>1, <2>1, <2>2, PlaceOfEvent
  <1>10. CASE MpvStep \/ UNCHANGED vars
    <2>1. \/ ctl' = [ctl EXCEPT !.core = Tail(@), !.aborted = @ \ {Head(ctl.core).id}]
          \/ ctl' = ctl
      BY <1>10 DEF MpvStep, MpvRunsCommand, MpvDropsCommand, MpvSwitches, MpvLoads, MpvFails,
             MpvReachesEof, vars
    <2>2. SamePlace(ctl', ctl)
      BY <1>1, <2>1 DEF SamePlace, Controller
    <2> QED BY <2>2, SamePlaceFine
  <1> QED
    BY <1>3, <1>4, <1>5, <1>6, <1>7, <1>8, <1>9, <1>10 DEF Next, ControllerStep

LEMMA AlwaysNewest == Spec => [](Inv /\ Newest(ctl))
  <1>1. Init => Newest(ctl)
    BY DEF Init, NewController, Newest
  <1>2. Inv /\ Newest(ctl) /\ [Next]_vars => Newest(ctl)'
    BY PlaceStep DEF Fine, Newest
  <1> QED BY <1>1, <1>2, Invariance, PTL DEF Spec

LEMMA WaitingKept == Spec => WaitingIsKept
  <1>1. ASSUME Inv, Newest(ctl), [Next]_vars
        PROVE  ctl.deferred # NoUrl /\ ctl'.deferred # ctl.deferred =>
                  PageReplaces \/ WaitingIsSent \/ RetryReplaces
    BY <1>1, PlaceStep DEF Fine, KeepsPlace, PageReplaces, WaitingIsSent, RetryReplaces
  <1>2. Inv /\ Newest(ctl) /\ [Next]_vars =>
           [ctl.deferred # NoUrl /\ ctl'.deferred # ctl.deferred =>
               PageReplaces \/ WaitingIsSent \/ RetryReplaces]_vars
    BY <1>1
  <1> QED BY <1>2, AlwaysNewest, PTL DEF Spec, WaitingIsKept

-----------------------------------------------------------------------------
\* The controller with its urls, request ids, clocks and counters, beside an mpv that
\* is late, drops and refuses commands, goes through the phases as LoadPhases says: every
\* handler of a stop, a load, a watchdog or an event is a step of it; and however many
\* loads there are, the one that waits leaves its place only for being sent, for a newer
\* load of the page, or for the retry of one (release_queued_transition_after_stop,
\* handle_loadfile, flush_stale_loadfile).
THEOREM RefinesPhases == Spec => ImplementsPhases
  <1>1. Init => Phases!PhaseInit
    BY DEF Init, NewController, Phases!PhaseInit
  <1>2. Inv /\ [Next]_vars => [Phases!PhaseNext]_<<ctl.state, ctl.deferred # NoUrl>>
    <2> SUFFICES ASSUME Inv, [Next]_vars PROVE Implements
      BY DEF Implements, Mapped
    <2>1. CASE UNCHANGED vars
      BY <2>1 DEF vars, Implements, Mapped
    <2> QED BY <2>1, Using, Watching, Playing DEF Next
  <1> QED
    BY <1>1, <1>2, Invariance, WaitingKept, PTL DEF Spec, ImplementsPhases, Phases!PhaseSpec

=============================================================================
