---------------------------- MODULE PlayerPhases ----------------------------
(***************************************************************************)
(* PlayerController implements LoadPhases, and what becomes of the load    *)
(* that waits.                                                             *)
(***************************************************************************)
EXTENDS PlayerController

Phases == INSTANCE LoadPhases WITH phase <- ctl.state, deferred <- ctl.deferred # NoUrl

-----------------------------------------------------------------------------
(* LoadPhases says that the place of a waiting load (pending_loadfile) is   *)
(* emptied only by sending a load, not which one is sent: these say that.   *)

\* The page's newer load, in the same stop, waits in its place.
PageReplaces == ctl.state = "Stopping" /\ ctl'.deferred = ctl'.url

\* It is sent, or mpv refuses it.
WaitingIsSent ==
    /\ ctl'.deferred = NoUrl
    /\ \/ ctl'.active.url = ctl.deferred
       \/ ctl'.active = NoActive /\ Rejects

\* flush_stale_loadfile puts the retry of the page's latest load in its place: the one
\* that waited, which that load had overtaken, is lost.
RetryReplaces ==
    /\ ctl'.deferred = NoUrl
    /\ ctl.active # NoActive
    /\ ctl.active.url = ctl.url
    /\ ctl'.url = CacheBusted(ctl.url)

WaitingIsKept ==
    [][ctl.deferred # NoUrl /\ ctl'.deferred # ctl.deferred =>
          PageReplaces \/ WaitingIsSent \/ RetryReplaces]_vars

\* However late mpv's events and replies are, the thread moves between its phases as
\* LoadPhases allows, and the load that waits leaves its place in three ways: it is sent,
\* a newer load of the page waits there instead, or, after a late event has ended the stop
\* and a newer load has been sent ahead of it, mpv leaves that one unanswered and its retry
\* takes the place (release_queued_transition_after_stop, handle_loadfile,
\* flush_stale_loadfile).  Only what the page asked for later can cost it its turn.
ImplementsPhases == Phases!PhaseSpec /\ WaitingIsKept

=============================================================================
