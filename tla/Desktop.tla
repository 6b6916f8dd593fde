------------------------------ MODULE Desktop ------------------------------
(***************************************************************************)
(* The shell's process around its player: the window and its modes, the    *)
(* streaming server and the updater, who share the UI thread and its       *)
(* notices, and what is left of them on disk when the process ends, dies   *)
(* or is started again.                                                    *)
(***************************************************************************)
EXTENDS StreamingServer, Updater

CONSTANT Budgets    \* bounds: how often each kind of thing may happen

Bounded == {"start", "kill", "volume", "user", "mode", "quit", "runtime", "check"}

ASSUME BudgetsAssumption == Budgets \subseteq [Bounded -> Nat]

VARIABLE left       \* what is left of the budget of this behaviour

vars == <<store, window, server, updater, left>>

Spend(kind) ==
    /\ left[kind] > 0
    /\ left' = [left EXCEPT ![kind] = @ - 1]

TypeOK ==
    /\ StoreTypeOK /\ WindowTypeOK /\ ServerTypeOK /\ UpdaterTypeOK
    /\ left \in [Bounded -> Nat]

Init ==
    /\ StoreInit /\ WindowInit /\ ServerInit /\ UpdaterInit
    /\ left \in Budgets

-----------------------------------------------------------------------------
Starts ==
    /\ Spend("start")
    /\ ProcessStarts
    /\ UNCHANGED updater

\* The threads of the process are gone, and its job object takes the runtime with it.
Over ==
    /\ win' = NewWin /\ request' = NewRequest /\ page' = NewPage
    /\ notices' = <<>> /\ ui' = "building"
    /\ server' = NewServer
    /\ checker' = NewChecker /\ setup' = NoRelease /\ again' = FALSE
    /\ UNCHANGED temp

Dies ==
    /\ Spend("kill")
    /\ StoreCrash
    /\ Over

Ends ==
    /\ ~server.dialog /\ ui # "blocked"
    /\ ProcessEnds
    /\ Over
    /\ UNCHANGED left

LoadsState ==
    /\ LoadState \/ RemoveLegacy
    /\ UNCHANGED <<window, server, updater, left>>

VolumeIsSet(v) ==
    /\ page.ready
    /\ Spend("volume")
    /\ SetVolume(v)
    /\ UNCHANGED <<window, server, updater>>

VolumeIsReported ==
    /\ ReportVolume
    /\ UNCHANGED <<window, server, updater, left>>

VolumeIsWritten ==
    /\ SaveVolume
    /\ UNCHANGED <<window, server, updater, left>>

\* The user at the window and at the tray.
UserActs ==
    /\ Spend("user")
    /\ \/ OnWindowStateChanged
       \/ Minimise
       \/ ToggleTopmost
       \/ OnQuit
       \/ OnShowHide
       \/ AskFocus
    /\ UNCHANGED <<server, updater>>

ModeIsAsked ==
    /\ Spend("mode")
    /\ \/ \E b \in BOOLEAN : AskFullScreen(b)
       \/ \E option \in Option : AskPip(option)
       \/ TrayTogglesPip
       \/ PipCloses
    /\ UNCHANGED <<server, updater>>

PageIsReady ==
    /\ AppReady
    /\ CheckForUpdate
    /\ UNCHANGED <<server, left>>

\* "autoupdater-notif-clicked": the installer is spawned, and if that works the shell quits.
UpdateIsClicked ==
    /\ page.ready
    /\ setup # NoRelease /\ temp[setup] # "none"
    /\ AskQuit
    /\ UNCHANGED <<server, updater>>

QuitIsAsked ==
    /\ Spend("quit")
    /\ \/ AskQuit /\ UNCHANGED <<server, updater>>
       \/ UpdateIsClicked

TrayExits ==
    /\ Spend("quit")
    /\ TrayExit
    /\ UNCHANGED <<server, updater>>

\* One more step of the UI thread.
UiStep ==
    /\ \/ /\ \/ OnInit
             \/ OnPipNotice
             \/ OnFullNotice
             \/ LeavePip
             \/ TakeFull
             \/ FinishResize
             \/ OnFocusNotice
             \/ OnQuitNotice
             \/ CloseAll
          /\ UNCHANGED server
       \/ OnCrashNotice
       \/ StartReturns
    /\ UNCHANGED <<updater, left>>

RuntimeIsHeard ==
    /\ \E port \in Ports : Announce(port)
    /\ UNCHANGED <<updater, left>>

RuntimeIsOver ==
    /\ Spend("runtime")
    /\ RuntimeEnds
    /\ UNCHANGED updater

LogIsRead ==
    /\ DialogCloses
    /\ UNCHANGED <<updater, left>>

UpdaterStep ==
    /\ \/ DownloadBegins /\ UNCHANGED left
       \/ NothingToDownload /\ UNCHANGED left
       \/ DownloadFails /\ UNCHANGED left
       \/ \E whole \in BOOLEAN : DownloadEnds(whole) /\ UNCHANGED left
       \/ CheckAgain /\ Spend("check")
    /\ UNCHANGED <<store, window, server>>

Next ==
    \/ Starts \/ Dies \/ Ends \/ LoadsState
    \/ \E v \in Volumes \cup Beyond : VolumeIsSet(v)
    \/ VolumeIsReported \/ VolumeIsWritten
    \/ UserActs \/ ModeIsAsked \/ PageIsReady \/ QuitIsAsked \/ TrayExits
    \/ UiStep
    \/ RuntimeIsHeard \/ RuntimeIsOver \/ LogIsRead
    \/ UpdaterStep

Spec == Init /\ [][Next]_vars

\* The UI thread runs, mpv reports what it was set to, the saving thread wakes up, the user
\* closes a dialog, and a runtime that has been launched prints its endpoint or ends.
Fairness ==
    /\ WF_vars(UiStep)
    /\ WF_vars(LoadsState)
    /\ WF_vars(Ends)
    /\ WF_vars(VolumeIsReported)
    /\ WF_vars(VolumeIsWritten)
    /\ WF_vars(LogIsRead)
    /\ WF_vars(server.runtime = "launched" /\ (RuntimeIsHeard \/ RuntimeIsOver))

FairSpec == Spec /\ Fairness

-----------------------------------------------------------------------------
\* Who asks the shell to quit sees it go: neither a mode in the middle of its change, nor a
\* runtime that ended before it told its endpoint, nor an open dialog keeps the UI thread.
QuitIsHandled == Queued("quit") ~> process = "off"

=============================================================================
