---------------------------- MODULE WindowModes ----------------------------
(***************************************************************************)
(* The modes of the main window (app.rs, window_helper.rs): full screen,   *)
(* picture in picture, hidden, minimised.  The page asks from the thread   *)
(* of its messages: it leaves a request in a mutex and raises a notice;    *)
(* the UI thread takes notices in their order and the request when it gets *)
(* there.  Every change ends on disk (ShellState).                         *)
(*                                                                         *)
(* A mode changes in several steps of the UI thread, between which the     *)
(* page asks for more, Windows calls the window back, and the process may  *)
(* die.  A maximised window is a place like another.                       *)
(*                                                                         *)
(* A window is not minimised while it changes its mode: two guards below   *)
(* say so which the code has not, since what Windows makes of a change of  *)
(* a minimised window is not known here.  The code would take the place of *)
(* an icon for the one to return to (set_full_screen).                     *)
(***************************************************************************)
EXTENDS ShellState

CONSTANT Centre     \* where a window goes that was nowhere before

ASSUME CentreAssumption == Centre \in Places

VARIABLES
    win,        \* the main window and its WindowStyle
    request,    \* requested_fullscreen, requested_pip
    notices,    \* posted to the UI thread, not dispatched yet
    ui,         \* where the UI thread is
    page        \* what the page asked for last and what it was told last

window == <<win, request, notices, ui, page>>

-----------------------------------------------------------------------------
Option == {{}} \cup {{b} : b \in BOOLEAN}
Given(option, default) == IF option = {} THEN default ELSE CHOOSE b \in option : TRUE

Notice == {"full", "pip", "focus", "quit", "crash"}
Ui == {"building", "idle", "leaving", "taking", "resizing", "closing", "blocked"}

WindowTypeOK ==
    /\ win \in [full : BOOLEAN,         \* WindowStyle.full_screen
                place : AnyPlace,       \* what GetWindowPlacement says
                normal : AnyPlace,      \* WindowStyle.pos and size
                pip : BOOLEAN,          \* pip_active
                shown : BOOLEAN,
                iconic : BOOLEAN,
                top : BOOLEAN]          \* WS_EX_TOPMOST of WindowStyle.ex_style
    /\ request \in [full : Option, pip : Option]
    /\ notices \in Seq(Notice)
    /\ ui \in Ui
    /\ page \in [ready : BOOLEAN, asked : Option, told : BOOLEAN]

NewWin == [full |-> FALSE, place |-> NoPlace, normal |-> NoPlace, pip |-> FALSE,
           shown |-> FALSE, iconic |-> FALSE, top |-> FALSE]
NewRequest == [full |-> {}, pip |-> {}]
NewPage == [ready |-> FALSE, asked |-> {}, told |-> FALSE]

WindowInit ==
    /\ win = NewWin /\ request = NewRequest /\ page = NewPage
    /\ notices = <<>> /\ ui = "building"

Queued(n) == \E i \in DOMAIN notices : notices[i] = n
Post(n) == notices' = Append(notices, n)
Idle == process = "running" /\ ui = "idle"
Handles(n) ==
    /\ Idle
    /\ notices # <<>> /\ Head(notices) = n
    /\ notices' = Tail(notices)

\* transmit_window_visibility_change, as far as full screen goes
Tell(full) == page' = [page EXCEPT !.told = full]

\* save_window_state: what it leaves in SHELL_STATE
WithWindow(m, w, full) ==
    [m EXCEPT !.full = full,
              !.window = IF full \/ w.iconic THEN @ ELSE w.place]

-----------------------------------------------------------------------------
\* on_init: the window comes back as it was left.
OnInit ==
    /\ process = "running" /\ ui = "building"
    /\ LET place == IF mem.window = NoPlace THEN Centre ELSE mem.window IN
       \E hidden \in BOOLEAN :      \* --start-hidden
           win' = [win EXCEPT !.full = mem.full,
                              !.normal = place,
                              !.place = IF mem.full THEN Screen ELSE place,
                              !.shown = ~hidden]
    /\ ui' = "idle"
    /\ UNCHANGED <<store, request, notices, page>>

\* "app-ready": the page is told that it is not full screen, whatever the window is.  The
\* page loads once in a process; one that is loaded anew would send this again.
AppReady ==
    /\ process = "running" /\ ui # "building"
    /\ ~page.ready
    /\ page' = [page EXCEPT !.ready = TRUE, !.told = FALSE]
    /\ UNCHANGED <<store, win, request, notices, ui>>

\* "win-set-visibility", from a page that waits for the answer before it asks again, and of
\* a window that is not minimised: these guards are the page's and the user's, not the code's.
AskFullScreen(b) ==
    /\ process = "running" /\ page.ready
    /\ ~win.iconic
    /\ ~Queued("full") /\ ui \in {"idle", "blocked"}
    /\ request' = [request EXCEPT !.full = {b}]
    /\ page' = [page EXCEPT !.asked = {b}]
    /\ Post("full")
    /\ UNCHANGED <<store, win, ui>>

\* "win-set-pip", at any moment; without a value it toggles.
AskPip(option) ==
    /\ process = "running" /\ page.ready
    /\ request' = [request EXCEPT !.pip = option]
    /\ Post("pip")
    /\ UNCHANGED <<store, win, ui, page>>

\* on_tray_toggle_pip
TrayTogglesPip ==
    /\ Idle
    /\ request' = [request EXCEPT !.pip = {}]
    /\ Post("pip")
    /\ UNCHANGED <<store, win, ui, page>>

\* The close button of the PiP window: close_sender.
PipCloses ==
    /\ Idle /\ win.pip
    /\ Post("pip")
    /\ UNCHANGED <<store, win, request, ui, page>>

-----------------------------------------------------------------------------
(* on_toggle_pip_notice, also called by the handlers of full screen and    *)
(* exit.  The PiP window is built and the video's child window is there.   *)

PipTarget == Given(request.pip, ~win.pip)
LeavesPip == win.pip /\ ~win.full /\ ~PipTarget
EntersPip == ~win.pip /\ ~win.full /\ PipTarget

TogglePip ==
    /\ request' = [request EXCEPT !.pip = {}]
    /\ win' = [win EXCEPT !.pip = (@ \/ EntersPip) /\ ~LeavesPip]
    /\ IF LeavesPip THEN \E p \in Places : Save([mem EXCEPT !.pip = p])
       ELSE UNCHANGED <<mem, file, kept>>

OnPipNotice ==
    /\ Handles("pip")
    /\ TogglePip
    /\ UNCHANGED <<process, legacy, volume, ui, page>>

-----------------------------------------------------------------------------
(* on_toggle_fullscreen_notice: out of picture in picture, then the        *)
(* request is taken, the window resized, and the outcome saved and told.   *)

OnFullNotice ==
    /\ Handles("full")
    /\ IF win.pip
       THEN /\ ui' = "leaving"
            /\ request' = [request EXCEPT !.pip = {FALSE}]
       ELSE ui' = "taking" /\ UNCHANGED request
    /\ UNCHANGED <<store, win, page>>

LeavePip ==
    /\ process = "running" /\ ui = "leaving"
    /\ TogglePip
    /\ ui' = "taking"
    /\ UNCHANGED <<process, legacy, volume, notices, page>>

\* Bug: the handler toggles, as it did before the page could say what it wants.
FullTargetToggles == ~win.full

FullTarget == Given(request.full, ~win.full)

\* The monitor is always found (GetMonitorInfoA).
TakeFull ==
    /\ process = "running" /\ ui = "taking"
    /\ request' = [request EXCEPT !.full = {}]
    /\ IF FullTarget = win.full
       THEN /\ Save(WithWindow(mem, win, win.full))
            /\ Tell(win.full)
            /\ ui' = "idle"
            /\ UNCHANGED win
       ELSE /\ IF FullTarget THEN Save(WithWindow(mem, win, FALSE))
               ELSE UNCHANGED <<mem, file, kept>>
            /\ win' = IF FullTarget THEN [win EXCEPT !.normal = win.place, !.place = Screen]
                      ELSE [win EXCEPT !.place = win.normal]
            /\ ui' = "resizing"
            /\ UNCHANGED page
    /\ UNCHANGED <<process, legacy, volume, notices>>

FinishResize ==
    /\ process = "running" /\ ui = "resizing"
    /\ win' = [win EXCEPT !.full = ~@]
    /\ Save(WithWindow(mem, win', win'.full))
    /\ Tell(win'.full)
    /\ ui' = "idle"
    /\ UNCHANGED <<process, legacy, volume, request, notices>>

\* Bug: the callback does not ask whether the style is being changed.
NotBorrowed == FALSE

\* saved_window_style.try_borrow() fails.
Borrowed == ui = "resizing"

\* OnResizeEnd and OnWindowMaximize; Windows sends the second from within SetWindowPos too.
OnWindowStateChanged ==
    /\ process = "running" /\ ui \in {"idle", "resizing"}
    /\ ~win.iconic
    /\ \E p \in IF win.full \/ ui = "resizing" THEN {win.place} ELSE Places :
           win' = [win EXCEPT !.place = p]
    /\ IF Borrowed THEN UNCHANGED <<mem, file, kept>>
       ELSE Save(WithWindow(mem, win', win.full))
    /\ UNCHANGED <<process, legacy, volume, request, notices, ui, page>>

-----------------------------------------------------------------------------
(* Hiding, showing, leaving.                                               *)

\* OnWindowMinimize, and back: the page hears a state that is not modelled.  The user does
\* not minimise a window that is about to change.
Minimise ==
    /\ Idle /\ ~Queued("full")
    /\ win' = [win EXCEPT !.iconic = ~@]
    /\ UNCHANGED <<store, request, notices, ui, page>>

\* on_toggle_topmost; the item is disabled in full screen.
ToggleTopmost ==
    /\ Idle /\ ~win.full
    /\ win' = [win EXCEPT !.top = ~@]
    /\ UNCHANGED <<store, request, notices, ui, page>>

\* on_quit: the window's close button hides it.
OnQuit ==
    /\ Idle /\ win.shown
    /\ Save(WithWindow(mem, win, win.full))
    /\ win' = [win EXCEPT !.shown = FALSE]
    /\ Tell(win.full)
    /\ UNCHANGED <<process, legacy, volume, request, notices, ui>>

\* on_show_hide, on_show
OnShowHide ==
    /\ Idle
    /\ win' = IF win.shown THEN [win EXCEPT !.shown = FALSE]
              ELSE [win EXCEPT !.shown = TRUE, !.iconic = FALSE]
    /\ Tell(win.full)
    /\ UNCHANGED <<store, request, notices, ui>>

\* "win-focus", or another instance that handed over its command and left.
AskFocus ==
    /\ process = "running" /\ ui # "building"
    /\ Post("focus")
    /\ UNCHANGED <<store, win, request, ui, page>>

\* on_focus_notice: the page is not told that the window is back.
OnFocusNotice ==
    /\ Handles("focus")
    /\ win' = [win EXCEPT !.shown = TRUE]
    /\ UNCHANGED <<store, request, ui, page>>

\* "quit"
AskQuit ==
    /\ process = "running" /\ page.ready
    /\ Post("quit")
    /\ UNCHANGED <<store, win, request, ui, page>>

\* on_exit
Exit ==
    /\ request' = IF win.pip THEN [request EXCEPT !.pip = {FALSE}] ELSE request
    /\ ui' = "closing"
    /\ UNCHANGED <<store, win, page>>

OnQuitNotice == Handles("quit") /\ Exit
TrayExit == Idle /\ Exit /\ UNCHANGED notices

\* The three saves of exit (picture in picture, window, volume) are one, the last.
CloseAll ==
    /\ process = "running" /\ ui = "closing"
    /\ \E p \in Places :
           LET pip == IF win.pip => LeavesPip THEN p ELSE mem.pip
               m == WithWindow([mem EXCEPT !.pip = pip], win, win.full)
           IN Save([m EXCEPT !.volume = Sanitised(volume.current)])
    /\ request' = IF win.pip THEN [request EXCEPT !.pip = {}] ELSE request
    /\ win' = [win EXCEPT !.pip = @ /\ ~LeavesPip]
    /\ process' = "ending"
    /\ ui' = "idle"
    /\ UNCHANGED <<legacy, volume, notices, page>>

-----------------------------------------------------------------------------
(* Properties.                                                             *)

\* What comes back after a restart is a window the user had: never the rectangle of a full
\* screen as that of a normal window (a callback of Windows may save in the middle of the
\* change), and full screen only if that is how the window is.
StoredWindow ==
    /\ mem.window # Screen
    /\ Idle => mem.full = win.full

\* A page that waits for the answer gets the mode that it asked for, and is told of it,
\* whatever is asked of picture in picture at the same time; until it asks again nothing
\* changes the mode behind its back.
PageGetsItsMode ==
    Idle /\ ~Queued("full") /\ page.asked # {} =>
        /\ win.full \in page.asked
        /\ page.told \in page.asked

=============================================================================
