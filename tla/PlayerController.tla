-------------------------- MODULE PlayerController --------------------------
(***************************************************************************)
(* The player thread of Stremio Shell (stremio_player/player.rs): the      *)
(* PlayerController that turns the web page's `loadfile' and `stop' into   *)
(* commands for mpv and follows mpv's events, with its deferred load, its  *)
(* watchdogs and its automatic reloads of local streams.                   *)
(*                                                                         *)
(* mpv is external: it takes commands from a queue, in order, answers each *)
(* of them, and reports what becomes of a file through a queue of events.  *)
(* The controller never waits for it, so what it knows of mpv is as old as *)
(* the queue of events is long.                                            *)
(*                                                                         *)
(* The handlers call each other one after the other on `self'; here they   *)
(* are operators from one controller to the next, and an action applies    *)
(* one of them to the variable ctl.                                        *)
(***************************************************************************)
EXTENDS Naturals, Sequences

CONSTANTS
    Streams,        \* what the web page can ask for
    LocalStreams,   \* those served by the streaming server on this machine
    RetryLimit,     \* LOCAL_STREAM_STARTUP_RETRY_LIMIT
    RecoveryLimit,  \* MPV_COMMAND_QUEUE_RECOVERY_LIMIT
    Budgets,        \* bounds: loads and stops of the user, and failures
    Drops,          \* mpv may drop an aborted command, and fail a loadfile
    Rejects         \* mpv may refuse to queue a command

ASSUME StreamsAssumption == LocalStreams \subseteq Streams /\ "none" \notin Streams
ASSUME LimitsAssumption == RetryLimit \in Nat /\ RecoveryLimit \in Nat
ASSUME BoundsAssumption == Budgets \subseteq [{"load", "stop", "fault"} -> Nat]
ASSUME MpvAssumption == Drops \in BOOLEAN /\ Rejects \in BOOLEAN

VARIABLES
    ctl,        \* the controller, the globals it keeps and the commands it queued
    mpv,        \* the file mpv has and the one it will turn to
    events,     \* events mpv has queued for the controller
    left        \* how often the user and the failures may still act

vars == <<ctl, mpv, events, left>>

-----------------------------------------------------------------------------
\* A stream's URL with its _reload parameter, which every reload renews.
Url == [stream : Streams, reload : Nat]
NoUrl == [stream |-> "none", reload |-> 0]
AnyUrl == Url \cup {NoUrl}
CacheBusted(u) == [stream |-> u.stream, reload |-> u.reload + 1]
IsLocal(u) == u.stream \in LocalStreams

\* ActiveLoadfile.  Its file_loaded is never read while it is true: on_file_loaded
\* drops the record in the same breath.
NoActive == [url |-> NoUrl, id |-> 0, replied |-> FALSE, started |-> FALSE]
Active == {NoActive} \cup [url : Url, id : Nat, replied : BOOLEAN, started : BOOLEAN]

LoadState == {"Idle", "Loading", "Loaded", "Stopping"}
Queued == [op : {"loadfile", "stop"}, url : AnyUrl, id : Nat]

Controller ==
    [state : LoadState,
     url : AnyUrl,              \* current_url, CURRENT_STREAM_URL
     deferred : AnyUrl,         \* pending_loadfile
     active : Active,           \* active_loadfile
     retry : AnyUrl,            \* pending_startup_retry: its expected_url
     attempts : Nat,            \* startup_retry_attempts
     recoveries : Nat,          \* command_queue_recoveries
     eofs : Nat,                \* premature_eof_reloads
     stopClock : BOOLEAN,       \* stop_started_at is set
     stopId : Nat,              \* stop_command_request_id, 0 if none
     fileLoaded : BOOLEAN,      \* IS_FILE_LOADED
     stopInFlight : BOOLEAN,    \* STOP_COMMAND_IN_FLIGHT
     midway : BOOLEAN,          \* CURRENT_TIME is past 0 and 10 s short of the end
     core : Seq(Queued),        \* commands mpv has not begun
     aborted : SUBSET Nat,      \* those of them that the controller aborted
     ids : Nat,                 \* NEXT_MPV_REQUEST_ID
     auto : Nat]                \* history: automatic loadfiles since the user's last

NewController ==
    [state |-> "Idle", url |-> NoUrl, deferred |-> NoUrl, active |-> NoActive,
     retry |-> NoUrl, attempts |-> 0, recoveries |-> 0,
     eofs |-> 0, stopClock |-> FALSE, stopId |-> 0, fileLoaded |-> FALSE,
     stopInFlight |-> FALSE, midway |-> FALSE, core |-> <<>>, aborted |-> {},
     ids |-> 1, auto |-> 0]

\* What mpv has: no file, one it opens, one it plays; and whether it is about to
\* turn to another file, or to none.
Phase == {"none", "opening", "playing"}
Mpv == [file : AnyUrl, phase : Phase, switching : BOOLEAN, next : AnyUrl]
NewMpv == [file |-> NoUrl, phase |-> "none", switching |-> FALSE, next |-> NoUrl]

\* The url of a FileLoaded is the file's; the controller does not get it.
Event == [type : {"StartFile", "FileLoaded", "Progress", "EndStop", "EndEof", "EndError",
                  "Reply", "Err"},
          url : AnyUrl, id : Nat]
About(t, u) == [type |-> t, url |-> u, id |-> 0]
Reply(n) == [type |-> "Reply", url |-> NoUrl, id |-> n]
Err == About("Err", NoUrl)

Init ==
    /\ ctl = NewController
    /\ mpv = NewMpv
    /\ events = <<>>
    /\ left \in Budgets

-----------------------------------------------------------------------------
(* Commands to mpv.  ok says whether mpv queues the command of this step.  *)

AbortIf(c, n) ==
    IF Drops /\ \E i \in DOMAIN c.core : c.core[i].id = n
    THEN c.aborted \cup {n} ELSE c.aborted

\* abort_active_loadfile
AbortActive(c) ==
    IF c.active = NoActive THEN c
    ELSE [c EXCEPT !.active = NoActive, !.aborted = AbortIf(c, c.active.id)]

SendLoadfileNow(c, u, ok) ==
    LET d == AbortActive(c) IN
    IF ok
    THEN [d EXCEPT !.state = "Loading", !.stopClock = FALSE, !.fileLoaded = FALSE,
                   !.stopInFlight = FALSE, !.ids = d.ids + 1,
                   !.core = Append(d.core, [op |-> "loadfile", url |-> u, id |-> d.ids]),
                   !.active = [url |-> u, id |-> d.ids, replied |-> FALSE,
                               started |-> FALSE]]
    ELSE [d EXCEPT !.state = "Idle", !.stopClock = FALSE, !.fileLoaded = FALSE,
                   !.stopInFlight = FALSE]

\* The controller's own loads, which the user has not asked for.
Reload(c, u, ok) == [SendLoadfileNow(c, u, ok) EXCEPT !.auto = c.auto + 1]

SendPendingLoadfile(c, ok) ==
    IF c.deferred = NoUrl THEN c
    ELSE SendLoadfileNow([c EXCEPT !.deferred = NoUrl], c.deferred, ok)

\* Bug: the deferred load waits for an EndFile that may never come.
ReleaseWithoutLoad(c, ok) ==
    [c EXCEPT !.state = "Idle", !.stopClock = FALSE, !.stopId = 0,
              !.fileLoaded = FALSE, !.stopInFlight = FALSE]

\* release_queued_transition_after_stop
Release(c, ok) ==
    SendPendingLoadfile([c EXCEPT !.state = "Idle", !.stopClock = FALSE, !.stopId = 0,
                                  !.fileLoaded = FALSE, !.stopInFlight = FALSE], ok)

SendStop(c, ok) ==
    IF ok THEN [c EXCEPT !.ids = c.ids + 1,
                         !.core = Append(c.core, [op |-> "stop", url |-> NoUrl, id |-> c.ids])]
    ELSE c

-----------------------------------------------------------------------------
(* handle_command                                                          *)

\* Bugs: the stop is not sent; its clock is not started.
EnterStoppingUnsent(c, ok) ==
    [c EXCEPT !.state = "Stopping", !.stopClock = TRUE, !.fileLoaded = FALSE,
              !.stopInFlight = TRUE, !.stopId = 0]
EnterStoppingUnclocked(c, ok) ==
    [SendStop(c, ok) EXCEPT !.state = "Stopping", !.fileLoaded = FALSE,
                            !.stopInFlight = TRUE, !.stopId = IF ok THEN c.ids ELSE 0]

\* handle_stop; a stop that is not waited for has no request id.
EnterStopping(c, ok) ==
    [SendStop(c, ok) EXCEPT !.state = "Stopping", !.stopClock = TRUE, !.fileLoaded = FALSE,
                            !.stopInFlight = TRUE, !.stopId = IF ok THEN c.ids ELSE 0]

\* Bug: an idle player is stopped too.
HandleStopWhenIdle(c, ok) ==
    IF c.state = "Stopping" THEN c ELSE EnterStopping(AbortActive(c), ok)

HandleStop(c, ok) ==
    CASE c.state = "Stopping" -> c
      [] c.state = "Idle" -> AbortActive(c)
      [] c.state = "Loading" /\ c.active # NoActive /\ ~c.active.started ->
            [AbortActive(c) EXCEPT !.state = "Idle", !.stopClock = FALSE, !.stopId = 0,
                                   !.fileLoaded = FALSE, !.stopInFlight = FALSE]
      [] c.state = "Loading" /\ (c.active # NoActive => c.active.started) ->
            EnterStopping(AbortActive(c), ok)
      [] c.state = "Loaded" -> EnterStopping(c, ok)

\* capture_loadfile_url of a URL without _reload, the only kind the page sends.
CaptureUrl(c, u) ==
    [c EXCEPT !.url = u, !.midway = FALSE, !.attempts = 0, !.recoveries = 0, !.eofs = 0,
              !.retry = NoUrl, !.auto = 0]

HandleLoadfile(c, u, ok) ==
    LET d == CaptureUrl(c, u) IN
    IF d.state = "Stopping" THEN [d EXCEPT !.deferred = u] ELSE SendLoadfileNow(d, u, ok)

-----------------------------------------------------------------------------
(* Automatic retries.                                                      *)

\* Bug: the limit is not looked at.
ScheduleRetryForEver(c, u) ==
    IF c.state # "Stopping" /\ IsLocal(u)
    THEN [c EXCEPT !.attempts = c.attempts + 1, !.retry = u]
    ELSE c

\* schedule_local_stream_startup_retry
ScheduleRetry(c, u) ==
    IF c.state # "Stopping" /\ IsLocal(u) /\ c.attempts < RetryLimit
    THEN [c EXCEPT !.attempts = c.attempts + 1, !.retry = u]
    ELSE c

\* retry_local_stream_startup_failure
RetryStartupFailure(c) ==
    IF c.state = "Loading" /\ IsLocal(c.url) /\ c.active # NoActive /\ c.active.started
    THEN ScheduleRetry(c, c.url) ELSE c

\* flush_pending_startup_retry, 5 s after the retry was scheduled.
RunRetry(c, ok) ==
    LET u == CacheBusted(c.retry)
        d == [c EXCEPT !.retry = NoUrl]
    IN IF c.state = "Stopping" \/ c.url # c.retry THEN d
       ELSE Reload([d EXCEPT !.url = u], u, ok)

\* Bug: recoveries are not counted.
RecoverUncounted(c, ok) ==
    LET u == CacheBusted(c.active.url)
        d == [AbortActive(c) EXCEPT !.deferred = u, !.url = u, !.auto = c.auto + 1]
    IN Release(d, ok)

\* flush_stale_loadfile: no reply to the loadfile after 8 s.
RecoverLoadfile(c, ok) ==
    LET u == CacheBusted(c.active.url)
        d == [AbortActive(c) EXCEPT !.deferred = u, !.url = u,
                                    !.recoveries = c.recoveries + 1, !.auto = c.auto + 1]
    IN Release(d, ok)

\* flush_stale_loadfile: no StartFile after 20 s.
CancelLoadfile(c, ok) ==
    LET u == c.active.url
        d == [SendStop(AbortActive(c), ok) EXCEPT !.state = "Idle"]
    IN IF c.url # u THEN d ELSE ScheduleRetry(d, u)

\* flush_stale_stop: no end of the stop after 2 s.
ReleaseStaleStop(c, ok) ==
    Release([c EXCEPT !.aborted = IF c.stopId = 0 THEN @ ELSE AbortIf(c, c.stopId)], ok)

-----------------------------------------------------------------------------
(* Events.                                                                 *)

\* Bug: a stop that a StartFile overtakes is still reported as in flight.
OnStartFileInFlight(c) ==
    [c EXCEPT !.state = "Loading", !.stopClock = FALSE, !.fileLoaded = FALSE,
              !.midway = FALSE,
              !.active = IF @ = NoActive THEN @ ELSE [@ EXCEPT !.started = TRUE]]

OnStartFile(c) ==
    [c EXCEPT !.state = "Loading", !.stopClock = FALSE, !.fileLoaded = FALSE,
              !.stopInFlight = FALSE, !.midway = FALSE,
              !.active = IF @ = NoActive THEN @ ELSE [@ EXCEPT !.started = TRUE]]

OnFileLoaded(c) ==
    [c EXCEPT !.state = "Loaded", !.stopClock = FALSE, !.stopId = 0, !.active = NoActive,
              !.retry = NoUrl, !.attempts = 0, !.fileLoaded = TRUE,
              !.stopInFlight = FALSE]

\* Bug: the end of the old file is taken for the end of its replacement.
OnEndFileAlwaysIdle(c) ==
    [c EXCEPT !.state = "Idle", !.stopClock = FALSE, !.stopId = 0, !.fileLoaded = FALSE,
              !.stopInFlight = FALSE]

OnEndFile(c) ==
    [c EXCEPT !.state = IF c.active = NoActive THEN "Idle" ELSE "Loading",
              !.stopClock = FALSE, !.stopId = 0, !.fileLoaded = FALSE,
              !.stopInFlight = FALSE]

\* The file ended well before its duration, and was not reloaded for it before.
Premature(c) == IsLocal(c.url) /\ c.midway /\ c.eofs < 1

ReloadAfterEof(c, ok) ==
    LET u == CacheBusted(c.url) IN
    Reload([c EXCEPT !.eofs = c.eofs + 1, !.url = u], u, ok)

HandleEndFile(c, type, ok) ==
    LET d == OnEndFile(IF type = "EndError" THEN RetryStartupFailure(c) ELSE c) IN
    CASE d.deferred # NoUrl -> SendPendingLoadfile(d, ok)
      [] d.deferred = NoUrl /\ type = "EndEof" /\ Premature(c) -> ReloadAfterEof(d, ok)
      [] d.deferred = NoUrl /\ ~(type = "EndEof" /\ Premature(c)) -> d

OnCommandReply(c, n, ok) ==
    LET stop == c.stopId # 0 /\ n = c.stopId
        load == c.active # NoActive /\ n = c.active.id
    IN CASE stop /\ c.state = "Stopping" -> Release(c, ok)
         [] stop /\ c.state # "Stopping" -> [c EXCEPT !.stopId = 0]
         [] ~stop /\ load -> [c EXCEPT !.active = [@ EXCEPT !.replied = TRUE]]
         [] ~stop /\ ~load -> c

OnEvent(c, e, ok) ==
    CASE e.type = "StartFile" -> OnStartFile(c)
      [] e.type = "FileLoaded" -> OnFileLoaded(c)
      [] e.type = "Progress" -> [c EXCEPT !.midway = TRUE]
      [] e.type \in {"EndStop", "EndEof", "EndError"} -> HandleEndFile(c, e.type, ok)
      [] e.type = "Reply" -> OnCommandReply(c, e.id, ok)
      [] e.type = "Err" -> RetryStartupFailure(c)

-----------------------------------------------------------------------------
(* The turns of the player thread's loop.                                  *)

Spend(op) == left[op] > 0 /\ left' = [left EXCEPT ![op] = @ - 1]

\* Whether mpv queues what this step sends.
Accepted == IF Rejects THEN BOOLEAN ELSE {TRUE}

UserLoads ==
    \E s \in Streams, ok \in Accepted :
        /\ Spend("load")
        /\ ctl' = HandleLoadfile(ctl, [stream |-> s, reload |-> 0], ok)
        /\ UNCHANGED <<mpv, events>>

UserStops ==
    \E ok \in Accepted :
        /\ Spend("stop")
        /\ ctl' = HandleStop(ctl, ok)
        /\ UNCHANGED <<mpv, events>>

FlushStaleStop ==
    \E ok \in Accepted :
        /\ ctl.state = "Stopping"
        /\ ctl.stopClock
        /\ ctl' = ReleaseStaleStop(ctl, ok)
        /\ UNCHANGED <<mpv, events, left>>

Waiting == ctl.active # NoActive /\ ~ctl.active.started

FlushUnansweredLoadfile ==
    \E ok \in Accepted :
        /\ Waiting
        /\ ~ctl.active.replied
        /\ ctl.recoveries < RecoveryLimit
        /\ ctl' = RecoverLoadfile(ctl, ok)
        /\ UNCHANGED <<mpv, events, left>>

FlushUnstartedLoadfile ==
    \E ok \in Accepted :
        /\ Waiting
        /\ ctl.active.replied
        /\ ~IsLocal(ctl.active.url)
        /\ ctl' = CancelLoadfile(ctl, ok)
        /\ UNCHANGED <<mpv, events, left>>

FlushStartupRetry ==
    \E ok \in Accepted :
        /\ ctl.retry # NoUrl
        /\ ctl' = RunRetry(ctl, ok)
        /\ UNCHANGED <<mpv, events, left>>

HandleEvent ==
    \E ok \in Accepted :
        /\ events # <<>>
        /\ events' = Tail(events)
        /\ ctl' = OnEvent(ctl, Head(events), ok)
        /\ UNCHANGED <<mpv, left>>

-----------------------------------------------------------------------------
(* mpv.                                                                    *)

\* mpv runs a command: the reply comes first, the file changes after it.
MpvRunsCommand ==
    /\ ctl.core # <<>>
    /\ LET q == Head(ctl.core)
           rest == [ctl EXCEPT !.core = Tail(@), !.aborted = @ \ {q.id}]
       IN /\ ctl' = rest
          /\ mpv' = [mpv EXCEPT !.switching = TRUE, !.next = q.url]
          /\ events' = Append(events, Reply(q.id))
    /\ UNCHANGED left

\* mpv drops an aborted command, or a loadfile fails: its reply is an error.
MpvDropsCommand ==
    /\ Drops
    /\ ctl.core # <<>>
    /\ LET q == Head(ctl.core) IN
       /\ \/ q.id \in ctl.aborted /\ UNCHANGED left
          \/ q.id \notin ctl.aborted /\ q.op = "loadfile" /\ Spend("fault")
       /\ ctl' = [ctl EXCEPT !.core = Tail(@), !.aborted = @ \ {q.id}]
    /\ events' = Append(events, Err)
    /\ UNCHANGED mpv

\* The old file ends and the next one begins.
MpvSwitches ==
    /\ mpv.switching
    /\ mpv' = [file |-> mpv.next, switching |-> FALSE, next |-> NoUrl,
               phase |-> IF mpv.next = NoUrl THEN "none" ELSE "opening"]
    /\ events' = events
         \o (IF mpv.phase = "none" THEN <<>> ELSE <<About("EndStop", NoUrl)>>)
         \o (IF mpv.next = NoUrl THEN <<>> ELSE <<About("StartFile", NoUrl)>>)
    /\ UNCHANGED <<ctl, left>>

MpvLoads ==
    /\ mpv.phase = "opening"
    /\ mpv' = [mpv EXCEPT !.phase = "playing"]
    /\ events' = Append(events, About("FileLoaded", mpv.file))
    /\ UNCHANGED <<ctl, left>>

\* The binding hands a file's failure over as an error or as its end.
MpvFails ==
    /\ mpv.phase = "opening"
    /\ Spend("fault")
    /\ mpv' = [mpv EXCEPT !.file = NoUrl, !.phase = "none"]
    /\ \E e \in {About("EndError", NoUrl), Err} : events' = Append(events, e)
    /\ UNCHANGED ctl

\* A file ends, after its last time-pos told that it is not over yet, or after
\* one that told it is.
MpvReachesEof ==
    /\ mpv.phase = "playing"
    /\ Spend("fault")
    /\ mpv' = [mpv EXCEPT !.file = NoUrl, !.phase = "none"]
    /\ \E told \in {<<>>, <<About("Progress", NoUrl)>>} :
           events' = events \o told \o <<About("EndEof", NoUrl)>>
    /\ UNCHANGED ctl

-----------------------------------------------------------------------------
ControllerStep ==
    \/ FlushStaleStop
    \/ FlushUnansweredLoadfile
    \/ FlushUnstartedLoadfile
    \/ FlushStartupRetry
    \/ HandleEvent

MpvStep ==
    \/ MpvRunsCommand
    \/ MpvDropsCommand
    \/ MpvSwitches
    \/ MpvLoads
    \/ MpvFails
    \/ MpvReachesEof

Next == UserLoads \/ UserStops \/ ControllerStep \/ MpvStep

Spec == Init /\ [][Next]_vars

\* The thread's loop looks at the clock and takes an event in every turn.
ControllerFairness == WF_vars(FlushStaleStop) /\ WF_vars(HandleEvent)

\* mpv may hang, as it does while it tears down a demuxer.
FairSpec == Spec /\ ControllerFairness

\* mpv at work: its core takes what it has queued, and every stop was queued.
MpvWorks == /\ WF_vars(MpvRunsCommand)
            /\ WF_vars(MpvSwitches)
            /\ [](ctl.state = "Stopping" => ctl.stopId # 0)

-----------------------------------------------------------------------------
(* Properties.                                                             *)

\* Every variable has its type (struct PlayerController, ActiveLoadfile,
\* ScheduledStartupRetry) and the counters keep to their limits.
TypeOK ==
    /\ ctl \in Controller
    /\ ctl.attempts <= RetryLimit
    /\ ctl.recoveries <= RecoveryLimit
    /\ ctl.eofs <= 1
    /\ mpv \in Mpv
    /\ events \in Seq(Event)
    /\ left \in [{"load", "stop", "fault"} -> Nat]

\* The globals other threads read follow the state machine through every
\* handler: IS_FILE_LOADED is Loaded, STOP_COMMAND_IN_FLIGHT is Stopping, and a
\* stop that is waited for always has its 2 s clock running (flush_stale_stop).
FlagsFollowState ==
    /\ ctl.fileLoaded <=> ctl.state = "Loaded"
    /\ ctl.stopInFlight <=> ctl.state = "Stopping"
    /\ ctl.state = "Stopping" => ctl.stopClock

\* A loadfile that mpv has not loaded is followed up only while Loading: no
\* event, however late, leaves it behind in another state, where its watchdogs
\* would reload a file nobody waits for (active_loadfile).
ActiveIsLoading == ctl.active # NoActive => ctl.state = "Loading"

\* However files fail, replies get lost and events arrive late, the controller
\* reloads only so often on its own after a load of the user: the counters are
\* reset by capture_loadfile_url and by on_file_loaded, never by a failure.
ReloadsAreBounded == ctl.auto <= 3 * RetryLimit + RecoveryLimit + 1

\* mpv has nothing left to do and to tell.
Settled == /\ ctl.core = <<>>
           /\ events = <<>>
           /\ ~mpv.switching
           /\ mpv.phase # "opening"

\* When all is told, the controller, and with it IS_FILE_LOADED, knows whether mpv
\* has a file loaded, whatever loads and stops were superseded on the way.
SettledAgrees == Settled => (ctl.fileLoaded <=> mpv.phase = "playing")

\* The controller does not stay in Stopping, even if mpv hangs.
StoppingEnds == ctl.state = "Stopping" ~> ctl.state # "Stopping"

\* A load that was put off until mpv has stopped is sent in the end if mpv does
\* its work, whatever late events and clocks come between.
DeferredIsSent == MpvWorks => (ctl.deferred # NoUrl ~> ctl.deferred = NoUrl)

-----------------------------------------------------------------------------
(* What the comments say and the code does not keep.                       *)

\* CURRENT_STREAM_URL: "The actual video stream URL passed to `loadfile`".  When
\* all is told, it names the stream that mpv plays.
StreamUrlIsPlayed ==
    Settled /\ ctl.fileLoaded => ctl.url.stream = mpv.file.stream

=============================================================================
