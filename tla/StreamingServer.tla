-------------------------- MODULE StreamingServer --------------------------
(***************************************************************************)
(* The supervisor of stremio-runtime (server.rs).  A thread runs the       *)
(* process, passes on the endpoint that it prints and raises a notice when *)
(* it is over; the UI thread shows its log and, once the dialog is closed, *)
(* starts another.  start waits for the endpoint in the UI thread: nothing *)
(* is dispatched until the channel has one or the thread has ended.        *)
(*                                                                         *)
(* stremio-runtime is external.  The dialog dispatches messages while it   *)
(* is open.                                                                *)
(***************************************************************************)
EXTENDS WindowModes

CONSTANTS
    Ports,      \* an endpoint is its port: local_runtime_endpoint
    NoPort

VARIABLE server

ServerTypeOK ==
    server \in [runtime : {"none", "launched", "up", "gone"},
                channel : SUBSET Ports,         \* rx of start
                url : Ports \cup {NoPort},      \* server_url
                dialog : BOOLEAN]

NewServer == [runtime |-> "none", channel |-> {}, url |-> NoPort, dialog |-> FALSE]

ServerInit == server = NewServer

Launched == [server EXCEPT !.runtime = "launched", !.channel = {}, !.dialog = FALSE]

\* The process is started: build_partial calls start before there is a window.
ProcessStarts ==
    /\ process = "off"
    /\ process' = "starting"
    /\ server' = Launched
    /\ UNCHANGED <<mem, file, legacy, volume, kept, window>>

\* The thread out_thread finds the line with the endpoint.
Announce(port) ==
    /\ server.runtime = "launched"
    /\ server' = [server EXCEPT !.runtime = "up", !.channel = {port}]
    /\ UNCHANGED <<store, window>>

\* stdout and stderr are at their end, or there was nothing to run; the thread drops its
\* sender of the channel.
RuntimeEnds ==
    /\ server.runtime \in {"launched", "up"}
    /\ server' = [server EXCEPT !.runtime = "gone"]
    /\ Post("crash")
    /\ UNCHANGED <<store, win, request, ui, page>>

\* Bug: the supervisor keeps a sender of its own, and the channel is never closed.
NeverClosed == FALSE

Closed == server.runtime = "gone"

\* rx.recv() in the UI thread
StartReturns ==
    /\ process = "starting" \/ ui = "blocked"
    /\ server.channel # {} \/ Closed
    /\ server' = IF server.channel = {} THEN server
                 ELSE [server EXCEPT !.channel = {},
                                     !.url = CHOOSE port \in server.channel : TRUE]
    /\ IF process = "starting" THEN process' = "loading" /\ UNCHANGED ui
       ELSE ui' = "idle" /\ UNCHANGED process
    /\ UNCHANGED <<mem, file, legacy, volume, kept, win, request, notices, page>>

OnCrashNotice ==
    /\ Handles("crash")
    /\ server' = [server EXCEPT !.dialog = TRUE]
    /\ UNCHANGED <<store, win, request, ui, page>>

\* Whoever reads the log closes it; an exit closes it too.
DialogCloses ==
    /\ server.dialog
    /\ process \in {"running", "ending"} /\ ui = "idle"
    /\ server' = Launched
    /\ ui' = "blocked"
    /\ UNCHANGED <<store, win, request, notices, page>>

=============================================================================
