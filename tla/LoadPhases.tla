----------------------------- MODULE LoadPhases -----------------------------
(***************************************************************************)
(* What the player thread promises of its LoadState: the phases that a     *)
(* file goes through and the one load that waits for the end of a stop.    *)
(* PlayerController implements it, which leaves out urls, request ids,     *)
(* clocks and counters; PlayerProps builds on it.                          *)
(***************************************************************************)

VARIABLES
    phase,      \* the controller's LoadState
    deferred    \* whether a load waits: pending_loadfile

Phase == {"Idle", "Loading", "Loaded", "Stopping"}

PhaseTypeOK == phase \in Phase /\ deferred \in BOOLEAN

PhaseInit == phase = "Idle" /\ deferred = FALSE

-----------------------------------------------------------------------------
\* send_loadfile_now: mpv may refuse the command.
Sends == phase' \in {"Loading", "Idle"}

\* The page's load waits while a stop is under way.
Load ==
    \/ phase = "Stopping" /\ deferred' = TRUE /\ UNCHANGED phase
    \/ phase # "Stopping" /\ Sends /\ UNCHANGED deferred

\* The page's stop is not sent twice, and one that comes before the file has begun
\* takes the load back.
Stop ==
    /\ phase' \in CASE phase = "Idle" -> {"Idle"}
                    [] phase = "Loading" -> {"Stopping", "Idle"}
                    [] OTHER -> {"Stopping"}
    /\ UNCHANGED deferred

\* The controller's own loads: a retry, or a file that ended early.
Reload == phase # "Stopping" /\ Sends /\ UNCHANGED deferred

\* A load that mpv does not answer is sent again.  It is put where a load waits, and the
\* one that may still wait there is lost.
Recover == phase = "Loading" /\ Sends /\ deferred' = FALSE

\* A load that mpv has answered and does not begin is given up.
GiveUp == phase = "Loading" /\ phase' = "Idle" /\ UNCHANGED deferred

\* The load that waits is sent.
SendDeferred == deferred /\ deferred' = FALSE /\ Sends

\* The stop is over, or has taken too long.
Release ==
    /\ phase = "Stopping"
    /\ SendDeferred \/ (~deferred /\ phase' = "Idle" /\ UNCHANGED deferred)

\* mpv's events, which may be about a file that the controller has turned from.
FileStarts == phase' = "Loading" /\ UNCHANGED deferred
FileLoads == phase' = "Loaded" /\ UNCHANGED deferred
FileEnds == SendDeferred \/ (~deferred /\ Sends /\ UNCHANGED deferred)

PhaseNext ==
    \/ Load \/ Stop \/ Reload \/ Recover \/ GiveUp \/ Release
    \/ FileStarts \/ FileLoads \/ FileEnds

PhaseSpec == PhaseInit /\ [][PhaseNext]_<<phase, deferred>>

=============================================================================
