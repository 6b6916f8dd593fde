# A TLA+ model of Stremio Shell

Stremio Shell is a Windows program that shows the Stremio web application in a
web view, plays its streams with mpv, runs the local streaming server, and lets
friends watch together over Steam. The web application, mpv, Steam, Discord and
the streaming server are not in this repository; everything between them is, and
is a dozen threads with queues, shared globals, clocks and notices. This
directory holds TLA+ modules of that part, TLC configurations that check them on
small instances, and TLAPS proofs for all instances.

Paths below are relative to `src/` of the repository, that is `app.rs` is
`src/stremio_app/app.rs`, and so on. `PROJECT.json` names for every definition
the lines of code it stands for.

## 1. The system

| Part | State | Operations | Talks to |
|---|---|---|---|
| Watch party, membership (`steam_sync.rs`, `sync_protocol.rs`) | `mode` of the runtime thread (none, host with authorized and kicked peers, guest), Steam calls under way | start, join, leave, kick; call results, lobby notices, failed sessions, messages | UI and pipe thread (commands, a reply each waits for), lobby globals, other shells through Steam |
| Watch party, playback (`steam_sync.rs`) | what was last broadcast; the page a guest was shown | tick, gather state, handle state, play, pause, seek | player globals, player commands, web view |
| Lobby globals, menu, overlay (`app.rs`) | `LOBBY_PARTY_ID`, `LOBBY_JOIN_SECRET`, `LOBBY_MEMBER_COUNT`, `LOBBY_MEMBERS`, `LOBBY_ROLE` | start, end, leave, kick, and showing what they say | written by runtime, UI and pipe thread, read by menu, overlay, Discord, intro skip |
| Player, loads and stops (`player.rs`) | `PlayerController`, `IS_FILE_LOADED`, `STOP_COMMAND_IN_FLIGHT`, `FILE_LOAD_EPOCH`, `CURRENT_STREAM_URL` | load, stop, five watchdogs and retries, mpv's events | web view (messages), mpv (queue of commands, queue of events) |
| Player, properties (`player.rs`) | settings that wait, what mpv renders with, cache of reported values, `IS_PAUSED` | set, observe, apply before or after a load, replies and notices | web view, mpv, `app.rs` (`media.status`) |
| Window modes (`app.rs`, `window_helper.rs`) | one slot each for a requested full screen and a requested picture in picture | request and notice, toggles, escape, close | web view and UI thread |
| Intro skip (`intro_skip.rs`) | route, file epochs, segments, history of skips | one polling loop | player globals, network, player commands |
| Shell state (`shell_state.rs`) | volume and flags, on disk and in memory | update, debounced volume, save at exit, migration | player, UI thread, disk |
| Streaming server (`server.rs`) | child process, endpoint, log | start, announce, crash notice, restart | UI thread, web view |
| Updater (`updater.rs`, `app.rs`) | installer file, pending notification | check, download, install | network, UI thread |
| Single instance, deep links (`main.rs`, `named_pipe.rs`, `app.rs`) | who owns the pipe | connect, forward, bind, accept | other instances, watch party |
| Discord presence (`discord.rs`, `app.rs`) | connection, last activity, back-off | connect, update, clear, stop | player and lobby globals |
| Web view bridge (`wevbiew.rs`, `ipc.rs`) | queues both ways, current page | send, receive, navigate | all of the above |

### What is hard in it

* **Three threads and a party.** The UI thread and the pipe thread write the
  lobby globals, give the runtime a command and wait up to 20 s; the runtime
  takes commands, lobby notices, call results and messages in turns and writes
  the same globals. Steam's answers come whenever they come, and no later command
  cancels them.
* **Peers.** A guest counts itself in when Steam has let it into the lobby; the
  host counts it in when its hello has come. Sessions fail, shells end and come
  back, messages of one party arrive in the next.
* **mpv is a queue away.** The controller learns what mpv did from events that
  were queued before its latest command. A load may be superseded, deferred
  behind a stop, aborted, sent again for want of a reply, or reloaded
  automatically, and the events of all of these come in one stream that does not
  say which file they are about.
* **One slot, many notices**: full screen, picture in picture, the pending
  installer, the pending retry.
* **Believing ahead**: the player's caches are written when a property is set,
  when mpv answers a get that waited in its queue, when mpv reports a change, and
  by the thread that reads the page's messages.
* **A network that overtakes**: a guest gets the host's state in datagrams beside
  reliable messages and sleeps 1.5 s in the middle of handling one.
* **Windows calls back**: `on_window_state_changed` runs inside the change of mode
  that caused it, and saves.
* **The process ends anywhere**: between the files of a migration, in a write, with
  a thread that has yet to save, with the UI thread waiting for a runtime.

### What makes each part correct

* Membership: only invited peers are admitted, the party keeps its limit, a kick
  is final, a shell shows what its runtime does and leaves no Steam lobby behind,
  the member lists agree, whatever is shown as joined is joined or disappears.
* Playback sync: a guest ends where the host is; no old state undoes a newer one.
* Player: globals follow the state machine, no stop lasts for ever, no deferred
  load is forgotten, reloads are bounded, and when mpv is quiet the controller
  knows what it plays.
* Properties: what was set last is what mpv has once a file plays.
* Window modes: the window ends in the mode that was asked for last.
* Intro skip: nothing is skipped twice, nothing of one route in the file of another
  unless a lookup has outlasted the change, and no file is left unskipped for ever.
* Shell state: what is on disk at the end is what was set last.
* Server, updater, single instance: the page has the endpoint of the server that
  runs; what is installed was downloaded whole; one instance owns the pipe.

## 2. Plan

| # | Module | What | State |
|---|---|---|---|
| 1 | `WatchParty` (+ `MC`, `WatchPartyProofs`, `PatientPartyProofs`) | membership, composed of UI, pipe and runtime thread of every peer, Steam and the network | done |
| 2 | `PlayerController` (+ `MC`, `Proofs`) | loads and stops against mpv's queues | done |
| 3 | `LoadPhases`, `PlayerPhases` (+ `Proofs`) | what the controller promises to the rest of the player; `PlayerController` implements it | done |
| 4 | `PlayerProps` (+ `MC`, `Proofs`) | settings of the page in every phase of `LoadPhases`, mpv's queue, replies, notices, caches | done |
| 5 | `IntroSkip` (+ `MC`, `Proofs`) | route and file epochs against the page, the player and a slow network | done |
| 6 | `PlaybackSync` (+ `MC`, `Proofs`) | tick and guest handlers over a reliable and an unreliable channel, with the sleep of the guest | done |
| 7 | `ShellState`, `WindowModes`, `StreamingServer`, `Updater`, composed in `Desktop` (+ `MC`) | the process around the player: its window, runtime, updater and what it leaves on disk | done |
| 8 | `DesktopProofs` | types and every invariant of row 7 for every instance | done |
| 9 | `Membership` (abstract) | a party as one set of members; `WatchParty` implements it under a refinement mapping | next |
| 10 | the start of the runtime thread (`ensure_runtime`) before `WatchParty`'s initial state | its lock, its 5 s, a second thread | later |

Which module uses which:

    LoadPhases <--INSTANCE-- PlayerPhases --EXTENDS--> PlayerController
        ^                        ^
        |                        +-- PlayerPhasesProofs, MCPlayerController
        +--EXTENDS-- PlayerProps <-- MCPlayerProps, PlayerPropsProofs
    ShellState <-- WindowModes <-- StreamingServer <--+
                                          Updater <---+-- Desktop <-- MCDesktop, DesktopProofs
    WatchParty <-- WatchPartyProofs <-- PatientPartyProofs
    WatchParty, IntroSkip, PlaybackSync stand alone, each with its MC and Proofs modules.

Every invariant and every action property that a run checks is now also a theorem
(section 6). What is left to prove is the refinement of row 9.

## 3. The modules

### WatchParty

One shell per peer. `ui[p]` is the UI thread inside `start_host_lobby`,
`joiner[p]` the pipe thread inside `connect_to_host`, `cmdq[p]` the queue of
`RuntimeCommand`s, `calls[p]` Steam's calls not yet answered, `evq[p]` the queue of
`RuntimeEvent`s, `mode[p]` the runtime's `Option<Mode>`, `globals[p]` the lobby
globals. `lobby[k]` is Steam's lobby, `chat[p]` the notices of it, `net[p][q]` the
messages on their way and `open[p]` the sessions `p` has accepted.

| Action | Code |
|---|---|
| `OnStartWatchParty`, `FinishStart`, `StartTimesOut` | `on_start_watch_party`, up to and after its wait |
| `OnEndWatchParty`, `OnLeaveWatchParty`, `OnKick` | the menu's, the overlay's and the web page's requests; a leave needs no party and no role, since the page's is not checked (`app.rs:1622`) |
| `ConnectToHost`, `SendJoin`, `JoinTimesOut` | `connect_to_host`: the globals, the command, the wait |
| `HandleCommand` | `handle_command` with `leave_current_lobby` or `kick_authorized_peer` |
| `SteamAnswers` | Steam's call results, which enter the queue of events |
| `HandleEvent` | `handle_event` for call results and failed sessions |
| `HandleLobbyChatUpdate` | `handle_lobby_chat_update` |
| `Receive` | `drain_incoming_messages` with `handle_host_incoming`, and the membership part of `handle_host_message` |
| `SessionRequest`, `SessionBreak` | the two session callbacks |
| `Crash` | the end of a shell and its restart |

What is abstracted, and why it is sound to do so:

* A party stands for lobby id, party id, token and host, which the code makes and
  compares together. Parties are numbered by what is left of the host's budget of
  starts.
* Messages about playback (state, load, play, pause, seek) touch no membership and
  are left to `PlaybackSync`.
* Left, disconnected, kicked and banned are one notice, since the code treats them
  alike; *entered* does nothing in the code. Notices are a set, so they may
  overtake each other and Steam's call results, as they do in the loop, which
  handles callbacks before `event_rx`.
* Steam answers calls in the order they were made.
* The globals that `connect_to_host` writes one after the other are written in one
  step. `SendJoin` is a step of its own, so a leave or the web page gets between.
* The session policy is the mode: `update_session_policy` runs between anything that
  changes the mode and `process_callbacks`.
* A broken session is reported to both ends; what was under way is lost.
* A pipe link while another join waits is read after it: there is one `joiner`. The
  link the program was started with is joined by the thread of the page's messages, when
  the page is ready (`app.rs:1655`); that join counts as the pipe thread's, so two joins
  of one shell at once are left out.

`Patient` restricts the *environment*: a user who waits until an operation has
settled and leaves a party before entering another. Some properties hold only of
such a user, and the runs say which. `Timeouts` lets the 20 s waits run out.

### PlayerController

The controller is one record, as in the code, and its handlers are operators from
one controller to the next that call each other as the methods do; an action
applies one of them. `mpv` is what mpv has: a file that opens or plays, and the one
it is about to turn to. `events` is its queue of events.

| Action | Code |
|---|---|
| `UserLoads`, `UserStops` | `handle_in_msg` to `handle_command`, `capture_loadfile_url`, `send_loadfile_now`, `handle_stop` |
| `FlushStaleStop` | `flush_stale_stop`: 2 s after a stop |
| `FlushUnansweredLoadfile` | `flush_stale_loadfile`: 8 s without a reply |
| `FlushUnstartedLoadfile` | `flush_stale_loadfile`: 20 s without a StartFile |
| `FlushStartupRetry` | `flush_pending_startup_retry`: 5 s after a failure |
| `HandleEvent` | the event loop, one event: the handlers `on_...`, the premature end, the retry |
| `MpvRunsCommand`, `MpvDropsCommand` | mpv's core takes a command, or finds it aborted or impossible |
| `MpvSwitches`, `MpvLoads`, `MpvFails`, `MpvReachesEof` | what becomes of the file |

Abstractions: a clock that has to run may run out at any time while its guard
holds, so every order of the clocks and of mpv's answers is covered, also those
that would be slow. The resume position, the deferred properties, rendering and
the display are left out: none of them decides about a load. A behaviour has one of
`Budgets` for loads, stops and failures. The two tests of a
local stream's URL (`:11470/` and `127.0.0.1:11470`) are one. What a retry will
load is derived from the URL it expects. A page never sends a URL with a
`_reload` parameter; the controller's own loads go round `capture_loadfile_url`.
`Rejects` lets mpv refuse a command, `Drops` lets it drop one that was aborted and
fail one that was not.

Observations from the model, which no property states: the retry of
`flush_stale_loadfile`'s last line never happens, since local streams return before
it and others are not retried; neither does the abort of an idle stop, since an
active load is always Loading; a second stop is skipped while stopping even if a
load is deferred, and that load then plays; a stop before StartFile only aborts,
so a load that mpv has begun still plays; a retry survives a stop; any error event
of mpv counts as a failed start; a file loaded while stopping ends the stop. After such a
late event a load still waits while a newer one is sent ahead of it: if mpv leaves that
one unanswered, its retry takes the place of the one that waits (`player.rs:1580`), which
is lost.

### IntroSkip

`loop` holds the thread's variables about the route, `turn` says whether it sleeps
or is inside a lookup, with the position it read before; `skipped` is
`skip_history`, `cached` is `segments_cache`. `page` and `player` are the globals the
thread reads, with what stands behind them: what the page has yet to tell the
player, the file mpv has, and the loads on their way. `sent` is history, for the
properties: of each skip it holds the route that the thread means, and beside it what is
true at the moment of sending, the route the page shows, mpv's file and the player's
epoch, and whether the lookup that the skip ends has outlasted a change of these
(`Outlasted`).

| Action | Code |
|---|---|
| `LookElsewhere` | a turn of `run_intro_skip_loop` that ends at one of its `continue`s before chapters |
| `SkipChapter` | a turn that skips by a chapter's title |
| `StartLookup`, `KitsuFails`, `LookupEnds` | a turn that calls `resolve_media_and_segments`, until the call and during it; then `SkipSegment` with the position read before |
| `LookForSegment` | a turn that needs no lookup, or is too early for one |
| `ResolveIsDue` | `next_resolve_at` has come |
| `Navigate`, `PageLoads`, `FileStops`, `Reload`, `FileLoads`, `FileFails` | what page, `PlayerController` and mpv do to the route, `IS_FILE_LOADED` and `FILE_LOAD_EPOCH` |
| `MpvReportsTime`, `MpvReportsChapter`, `MpvReportsTitle`, `TogglePause`, `ChangeRole` | the other globals |

Abstractions:

* A turn up to its lookup is one step: its reads are microseconds apart, the lookup
  takes up to minutes. `on_file_loaded` raises the epoch and the flag in one step. If
  a turn fell between `player.rs:1331` and `1332`, the file would count as not loaded
  and be locked out; the window is two instructions wide.
* StartFile and FileLoaded are one step, since the thread sees neither between them.
* `CURRENT_URL` changes before the page's load message arrives, as the page sends it
  after it has changed its route.
* A URL is a route, or another page; ids are parsed by constants (`VideoOf`,
  `MediaOf`), titles of chapters are their kinds. What the databases answer is a
  constant, besides failure. Kitsu's cache only saves requests.
* Positions are integers and the epsilon of a second is one of them. Whether the
  position is in the last 0.05 s is a choice.
* Channels to the player and the page do not fail while the program runs. Of two
  segments with one start either may come first. The number of chapters may come
  late, so the last chapter's outro may or may not be known to be last. A title
  arrives after its chapter's index.
* Skipping is enabled; if it is not, the loop does nothing.

A skip sent at the end of a lookup that the page or the player did not wait for goes to
whatever plays by then. `OneRoutePerFile` and `SkipsAreOfRoute` say that this is the only
way in which two routes skip in one file, or one route's segment in another's page, and
that even then the segment is of the route that was looked up.

Observations from the model, which no property states: a shell that becomes a guest
during a lookup still skips at its end, though the loop means to leave guests alone
(`intro_skip.rs:215`); the position read before a lookup is used after it, so a user
who went on may be taken back; an intro or recap whose end lies beyond the file is
found first in every turn and leads to no action, and segments after it wait until it
is over; between the report of a chapter and the report of its title the old title
is taken for the new chapter.

### LoadPhases and PlayerPhases

`LoadPhases` is what other parts of the player may rely on: the four phases of a
`LoadState`, whether a load waits, and the steps between them, without urls,
request ids, clocks, counters and mpv. `PlayerPhases` maps `PlayerController` to it
(`phase <- ctl.state`, `deferred <- ctl.deferred # NoUrl`) and states
`ImplementsPhases`. `LoadPhases` does not say which load is sent; `WaitingIsKept`, the
second half of `ImplementsPhases`, does: the load that waits is sent, or a newer load of
the page replaces it, or the retry of a newer load that overtook it does. `PlayerProps` is
built on `LoadPhases`, so what is checked there
holds beside any lateness of mpv that the controller meets.

### PlayerProps

`pending` is `pending_startup_props`, `render` the values mpv renders with, `cache` and
`paused` what the shell believes, `observed` what the page watches, `core` the sets and
gets that mpv has not run, `replies` and `told` its answers and notices, `media` the
page's own `media.status`.

| Action | Code |
|---|---|
| `PageSets`, `PageObserves` | `set_or_queue_prop`, `observe_and_emit_current_property` |
| `PageReports`, `OnMediaStatus` | the web application; `handle_media_status` of `app.rs` |
| `Loads`, `Stops`, `AppliesPreload`, `Fails`, `OnStartFile`, `OnFileLoaded` | the handlers of a load, a stop, mpv's events and the watchdogs, with `apply_pending_preload_properties`, `apply_pending_file_properties`, `clear_file_scoped_cached_props` and the gets of `request_loaded_property_snapshot` |
| `OnReply`, `OnChange` | `emit_async_property_reply`, `update_cached_property` |
| `MpvRuns`, `MpvChanges` | mpv: its queue, keys it is bound to, its choice of tracks |

Abstractions: three properties stand for the classes the code distinguishes (one that
the globals know, one that mpv renders with, one of the file) with two values each.
mpv's notices: the latest value only, none while replies wait, none for a value that has
come back to the one it told last. `missed` is history: the properties that came back so
while the shell believed, or was about to be told, another value. mpv takes every set
and get into its queue; a set that it would refuse later is left out, and so are
`video-params`, the versions, the resume position and the conversions between JSON and
mpv's formats.

Observation, which is the exception that `PausedSettles` and `CacheSettles` make: the page
pauses, which `IS_PAUSED` and the cache say at once, and a key resumes before mpv has told
of the pause. mpv's value is again the one it told last, so it tells nothing, and both
stay wrong until the next change (`player.rs:2151`, `2181`).

### PlaybackSync

One guest and its host. `host` is what `gather_host_state` reads, `last` what
`tick_host_broadcast` remembers, `guest` the `Mode::Guest` with the message its thread
sleeps over, `player` the guest's own player with the globals it reports, `reliable` and
`datagrams` the two channels.

| Action | Code |
|---|---|
| `Broadcast`, `GuestJoins` | `tick_host_broadcast`, the answer to a hello |
| `ReceiveReliable`, `ReceiveDatagram`, `Wake` | `drain_incoming_messages`, `handle_host_message` up to and after its sleep |
| `GuestLeaves`, `LoseDatagram` | the end of a session; Steam |
| `FileLoads`, `Reports`, `Second`, `HostActs`, `GuestActs` | application and player of the guest, time, users |

A world says how the network behaves in a behaviour: it may deliver in any order, or
promptly with a loss. Seconds are integers; a file has a handful of them, which is
enough for the thresholds of 2 and 3. `Load` is only logged by a guest and left out. A
guest that joins is sent two states, one for its hello and one for its `RequestState`
(`steam_sync.rs:619`); the second says what the first does and is left out. A guest that
leaves takes both channels with it. Its user does not leave the host's page: who did
would not be brought back until the host goes elsewhere (`steam_sync.rs:905`). Positions
end with the file, so a host that plays on is met there at the latest.

### ShellState, WindowModes, StreamingServer, Updater, Desktop

The four modules have variables and actions of their own; the last composes them, gives
each action what it leaves unchanged elsewhere, and adds the life of the process.

| Module | State | Actions |
|---|---|---|
| `ShellState` | `process`, `mem` (`SHELL_STATE`), `file`, `legacy`, `volume` (`CURRENT_VOLUME`, the saving thread) | `LoadState`, `RemoveLegacy`, `Save`, `SetVolume`, `ReportVolume`, `SaveVolume`, `StoreCrash`, `ProcessEnds` |
| `WindowModes` | `win` (window, `WindowStyle`, `pip_active`), `request` (the two slots), `notices`, `ui`, `page` | `OnInit`, `AppReady`, `AskFullScreen`, `AskPip`, `OnFullNotice` with `LeavePip`, `TakeFull`, `FinishResize`, `OnPipNotice`, `OnWindowStateChanged`, `Minimise`, `OnQuit`, `OnShowHide`, `Exit` with `CloseAll`, ... |
| `StreamingServer` | `server`: runtime, channel of `start`, `server_url`, dialog | `ProcessStarts`, `Announce`, `RuntimeEnds`, `StartReturns`, `OnCrashNotice`, `DialogCloses` |
| `Updater` | `checker`, `temp`, `setup` | `CheckForUpdate`, `DownloadBegins`, `DownloadEnds`, `DownloadFails`, `NothingToDownload`, `CheckAgain` |
| `Desktop` | the bounds | `Starts`, `Dies`, `Ends`, and the above |

Abstractions: the UI thread's messages are one queue of notices, handled in order; a
handler that Windows calls back into is split where it does (`TakeFull` and
`FinishResize`), and so are those that call another handler. A rectangle is a model value,
a full-screen window has one of its own. A volume is in mpv's range or beyond it. A
write is whole or, if the process dies in it, `Torn`; it does not fail otherwise. The
PiP window exists when it is asked for. What the dialog shows, drawing and dragging are
left out. The page asks for no full screen of a minimised window, and no window is
minimised while such a request is in the queue: the code has neither guard, and would take
the rectangle of a minimised window (-32000) for the one to return to
(`window_helper.rs:135`). `GetMonitorInfoA` does not fail. A page is ready once in a
process; one that is loaded again says so again (`app.rs:1646`). The saves of exit, of
picture in picture, window and volume, are one write. mpv tells of a volume if the page
observes it, as the web application does and the shell's own list does not
(`player.rs:633`), and a volume set in the middle of a stop is set at once, not after it
(`player.rs:1812`).

Observations from the model, which no property states:

* Picture in picture and full screen can both be on: `on_toggle_fullscreen_notice` asks
  for the end of picture in picture in the slot that the page writes too, and a request
  that falls between (`app.rs:1845`, `1892`, `1610`) wins. `PageGetsItsMode` holds all
  the same. The same race at exit leaves picture in picture on and its place unsaved.
* Two requests for full screen of a page that does not wait: the first notice takes the
  later request, the second finds none and toggles (`app.rs:1601`).
* A window that comes back full screen is reported as not full screen when the page is
  ready; a notice for focus shows the window and does not tell the page.
* Exit does not wait for the volume's thread: a save that was due may write the older
  volume over that of exit (`shell_state.rs:240`).
* A torn write loses all settings (`fs::write` is not atomic); old files that a crash
  has left in the middle of a migration stay, and are read again after one.
* A volume that mpv refuses stays in `CURRENT_VOLUME` and is saved, clamped, at exit.
* The next check empties the announced installer while it downloads it again
  (`updater.rs:118`): a click in that moment runs a part of one, and if the second
  download fails the part stays.
* A quit while the crash dialog is open starts another runtime and waits for it. The
  port of a new runtime is never told to a page that is loaded (`server.rs:267`).
* A choice of tracks made for a file that never loads is made for the next file
  (`player.rs:1403`).
* A shell that moves from one party to another joins with an empty party id:
  `connect_to_host` sets the globals, the runtime leaves the old party and clears them
  (`steam_sync.rs:181`, `379`).
* Two instances that start together may both find no pipe; the one that cannot create it
  runs without a listener (`main.rs:127`).

## 4. The runs

| Run | Instance | Holds / fails |
|---|---|---|
| `party_safety` | a host that starts again if its wait runs out, a guest that joins twice and leaves, a third peer; impatient; timeouts, one kick, one failed session; limit 2 | `TypeOK`, `RosterWithinLimit`, `KickIsFinal` hold |
| `party_patient` | a patient host that starts twice, two guests, one failed session, one crash; limit 3 | `OnlyInvited`, `ShownMatchesRuntime`, `NoLeakedLobby`, `RosterInSync` hold |
| `party_progress` | a host, two guests, a leave of each side, a kick; impatient, timeouts; no failed session, nobody joins twice; limit 3 | `ShownPartyResolves`, `AdmittedStayOrLeave`, `JoinedAreAdmitted` hold |
| `party_break` | a host, a guest, one failed session | `GuestsKeepFollowing` fails |
| `player_safety` | a local and a remote stream; 2 loads, 1 stop and 2 failures, or 3 loads and 1 stop; limits 1 | `TypeOK`, `FlagsFollowState`, `ActiveIsLoading`, `ReloadsAreBounded`, `SettledAgrees`, and the refinement `ImplementsPhases` hold |
| `player_progress` | 2 loads, 1 stop; mpv refuses commands, drops aborted ones, may hang | `StoppingEnds`, `DeferredIsSent` hold |
| `player_stale_url` | 3 loads, 1 stop, mpv works | `StreamUrlIsPlayed` fails |
| `player_props` | three properties of two values; two settings and a change, or one setting, a change and two reports of the page | `TypeOK`, `PausedSettles`, `CacheSettles`, `TracksWaitForFile`, `DeferredIsKept` hold |
| `intro_skip` | two episodes, one with a chapter, one known to Kitsu; 2 changes of the route, 1 reload | `TypeOK`, `OneRoutePerFile`, `SkippedOnce`, `SkipsAreOfRoute`, `OneSourcePerKind`, `GateOpens`, `SegmentsAreSkipped` hold |
| `intro_previous` | as `intro_skip` | `NotToPreviousFile` fails |
| `playback_sync` | two films and a page that cannot be opened; a guest that joins, and one deed of the host's user or one of the guest's over a network that overtakes, both over one that is prompt and loses once | `TypeOK`, `MovedOnce`, `FollowsHost` hold |
| `desktop` | two places, two volumes and one beyond, three releases; seven budgets | `TypeOK`, `PrefsSurvive`, `StoredWindow`, `PageGetsItsMode`, `AnnouncedIsWhole`, `VolumeIsSaved`, `QuitIsHandled` hold |

`player_safety` has `Drops = FALSE`: if mpv dropped an aborted load and went on
playing the file before it, a stop that came before StartFile would leave that file
playing in a controller that calls itself Idle, and `SettledAgrees` would fail. That
mpv takes every load it has queued is an assumption about mpv: this run makes it, and of
the theorems `AllToldAgrees` alone, which is about that property; `player_progress` and
the other theorems do not.
`AdmittedStayOrLeave` needs sessions that hold (see `party_break`) and guests that
join once: Steam's notice of the first departure may reach the host after the
second hello, and the host then drops the guest that is back.

**Bounds.** Budgets say how often each peer may do what; they are in `MCWatchParty`. Two
peers suffice for everything about one session, the third is needed for limits, for
lists that several guests keep, and for a second host. A limit of 2 is the smallest the
configuration allows, so the party is full with one guest and refusals happen; with 3
both guests are in. Two streams, one of them local, are all that URLs are compared for;
two loads and a stop let a load be superseded, deferred, or both, and a third lets a
newer load overtake a deferred one, and its retry take the deferred one's place. Two
failures let a reload fail or end early again. Two routes are all that the thread can
confuse, and two or three changes let it leave a route and come back; a file of three
positions is long enough for a segment, its end and what follows; the databases' answers
hold an empty recap, an open outro, an outro in the first half, and one intro with two
different ends. A host that changes its page, pauses or jumps once, before or after the
guest has joined, or a guest that pauses, jumps or leaves after it has joined, is what
`FollowsHost` has to settle after where datagrams overtake each other; where they arrive
but for one, the users of both act. Two datagrams under way can overtake each other and
what is reliable. `player_props` and `desktop` have a set of budgets: a behaviour has
one of them, so that each question (two settings against a change of mpv, the page's own
reports; files and crashes, volumes, modes, the exit, a runtime that ends, an updater
that checks again) is asked with enough of its own kind and little of the others.
`MaxQueue` lets another file load when at most one command of the last is left. The
limits 60 and 3 of the code are 1, since the counters are only compared with them.
`CHECK_DEADLOCK FALSE` is in the configurations of the first two modules because budgets
run out: then nothing is left to do. The theorems need none of these bounds, but for
`MovedAtMostOnce`, which asks that `MaxFlight` be at least 2: a prompt network may hold
two states, and a smaller bound of the model would drop the second without its counting
as a loss.

**Fairness.** In `WatchParty`: every turn of the runtime's loop drains all its queues,
so its handlers are weakly fair; a thread that has its answer goes on; Steam answers its
calls. Users, failed sessions, crashes and timeouts are not fair. In `PlayerController`:
the thread's loop looks at the clocks and takes an event in every turn
(`FlushStaleStop`, `HandleEvent`). mpv owes nothing: it may hang. What `DeferredIsSent`
asks of it is its own premise, `MpvWorks`: mpv takes the commands it was given, and it
did not refuse the stop. The property is checked without failing files: a StartFile that
was queued before the stop turns Stopping into Loading, and if that very file then fails
in silence nothing sends the deferred load. In `IntroSkip`: the loop goes on after every
turn, and the requests inside a lookup have timeouts. In `PlaybackSync`: the loops of
both runtimes go on, Steam delivers what is reliable and the oldest datagram that it has
not lost, time passes, the guest's application opens its page and its player reports. In
`Desktop`: the UI thread runs, mpv reports what it was set to, as it does for a page
that observes the volume, the saving thread wakes up, whoever reads the log of a crash
closes it, and a runtime that was launched announces its endpoint or ends; a runtime
that does neither blocks the UI thread for good (`server.rs:180`), so `QuitIsHandled`
rests on it. Users, kills and failures are not fair. In `IntroSkip`, page, player and
user owe nothing: `GateOpens` and `SegmentsAreSkipped` say what the thread does as long
as the file plays. `SegmentsAreSkipped` leaves out segments whose end the file does not
have (see the observation in section 3).

## 5. What does not hold

| Property | What happens | Against |
|---|---|---|
| `StreamUrlIsPlayed` | Load A, stop, load B (deferred), a late StartFile or FileLoaded of A, load C: C goes out at once and B after it when A ends. mpv plays B, `CURRENT_STREAM_URL` says C. | `player.rs:76` |
| `GuestsKeepFollowing` | A failed session removes the guest at the host, and nothing at the guest: it shows the party and is sent nothing. | `wiki/watch-party.md:41` |
| `NotToPreviousFile` | A file that was never accepted (paused, reported late, loaded again, or during a lookup) has an epoch above the last accepted one, and the next route waits for no more than that: it skips in the previous route's file. A lookup that ends after the route has changed skips in whatever plays then. | `player.rs:58` |

More that the model shows are not listed, since no comment, doc or test promises the
contrary. A lobby leaks when two calls of one shell are under way with Steam: nothing
cancels the first, its result overwrites the mode of the second, and the shell stays in a
Steam lobby that no mode names (`steam_sync.rs:379`); `NoLobbyLeaks` says that this is
the only way. `IS_PAUSED` and the cache stay wrong after a value that came back unnoticed,
and a load that waits can be lost to the retry of a newer one (both in section 3). A
member list of the party that was left, still in the queue, is shown for
the new one (`drain_incoming_messages` does not look at the sender), and a guest that
was kicked and joins again is told *Joined, playback will sync* and refused
afterwards without notice.

## 6. The proofs

Assumed are the modules' own assumptions, and in some theorems a premise that the text
below names. Of the constants: finitely many peers, a lobby size in 2..16 (the clamp of
the configuration loader), natural numbers for budgets, limits and bounds, local streams
among the streams; for `IntroSkip` constants of the right type (a route has a video, a
video a media or none, a file its chapters) and that a database names its answers as its
own (`SourcesAssumption`: each of the two functions that fetch segments gives all it
returns its name); for `PlayerProps` what the lists of properties in `player.rs` say of each
other (`PropsAssumption`: a choice of a track that is cached is among those asked for when
a file has loaded, and nothing that mpv renders with is cached).

`WatchPartyProofs`

* `Typing`: `Spec => []TypeOK`. Inductive as it stands; one lemma per helper
  (`SendType`, `ShowMembersType`, ...) and one per handler.
* `RosterLimit`: `Spec => []RosterWithinLimit`. `EveryRosterStep` says of each step that a
  host's list is what it was, empty, smaller, or larger by one peer that was not
  refused; the rest is about cardinalities. The code counts `len() + 1`, the property
  the list with the host.
* `Invitation`: `Spec => []OnlyInvited`. Not inductive: the secret a hello carries was
  fixed when it was sent. The invariant says of every command, call, event,
  message and mode that names a party which its sender has used, that the sender
  has, and that a host's own list is of its own party; it is kept by crashes and
  failed sessions because these only drop items.
* `EachPartyOnce`: `Spec => []MadeOnce`. A new party has a place (`Placed`): its number is
  not used, or it is in one command, one call, one answer, or hosted, and it is published
  only then.
* `KicksAreFinal`: `Spec => KickIsFinal`. A host forgets whom it kicked when its mode is
  made anew; `EachPartyOnce` says that this is another party, since no second answer
  about the same one can still arrive.

`PatientPartyProofs`, under the premise `Patient` and `~Timeouts`, as in the run, but for
`NoLobbyLeaks`. With timeouts, TLC finds `ShownMatchesRuntime` violated even by patient
users; without timeouts, `ShownMatchesRuntime` and `RosterInSync` are violated by users who
join or move before they have left. `NoLeakedLobby` is violated by impatient users in both
cases: with timeouts by one who tries again, without by one who starts and joins at the
same time.

* `PhasesAlways`: `Spec => []InPhases`. A shell rests, or one operation is under way and
  it is in one place: with the runtime, with Steam, among the runtime's events behind
  whatever sessions have failed, or with the thread that waits. What the globals show and
  the Steam lobby the shell sits in are given for each place. It rests on `EachPartyOnce`,
  `InvitedAlways` and `SecretsArePublished` (a secret is used only after it was
  published, so nobody joins a party that is still in the making).
* `ShownIsTrue`: `ShownMatchesRuntime` is what `InPhases` says of a settled shell.
* `NoLobbyLeaks`: `Spec /\ []OneCallEach => []NoLeakedLobby`, with neither premise:
  users may be impatient, waits may run out, shells may end. `OneCallEach` says that a
  shell has no second call under way with Steam before the runtime has taken the result
  of the first, which is what the code would have to see to. The invariant
  (`AllInLobbies`): a shell sits in the lobby of its mode and in those whose result is
  under way, and a result that is still to come finds the runtime without a party.
  `PatientLeakNothing` draws the conclusion for patient users, since `InPhases` implies
  `OneCallEach` (`OneByOne`).
* `RosterSynced`: `Spec => []RosterInSync`, for one peer who starts parties (`OneHost`,
  as in the run; with two, TLC finds the list of the party that was left shown for the new
  one, see section 5). The invariant (`ListsInStep`) follows each guest: what the host
  has sent it last, or what it has asked for, is still under way, or else it shows the
  host's list.

`PlayerControllerProofs`

* `Typing`, `GlobalsFollow`, `OnlyLoadingIsFollowed`, `ReloadBound`: `Spec => []` of
  `TypeOK`, `FlagsFollowState`, `ActiveIsLoading`, `ReloadsAreBounded`, from one
  invariant, `Good(ctl)` and the types of mpv's side. Each handler is an operator,
  so each has a lemma of its own about the controller it returns, and the actions
  only cite them.
* `AllToldAgrees`: `Spec => []SettledAgrees`, if mpv neither drops nor refuses commands
  (`~Drops`, `~Rejects`, as in the run). The property speaks of empty queues only. The
  invariant says of any queue that the last event about a file in it tells whether mpv
  plays one (`Tells`), and, when there is none, that the controller has heard it unless it
  has asked for something else since (`HeardOf`); a handler leaves Loaded only with a
  command for mpv (`Follows`).
* The bound on reloads is not inductive, because `on_file_loaded` gives all retries
  back. The invariant adds up an account: reloads so far, a retry that is due, the
  attempts a load that is under way may still use (`Hope`), and a full set of
  attempts each for the one reload after a premature end and for a deferred load
  (`Owed`) stay within recoveries, premature ends and three times the limit. A
  retry moves one from `Hope` to what is due; a loaded file resets the attempts but
  leaves no load under way; only a premature end and the deferred load start one
  without the user, and they take what is owed for them.

`PlayerPhasesProofs`

* `RefinesPhases`: `Spec => ImplementsPhases`. One lemma per handler says what it does
  to the state and to the load that waits; the steps then pick the action of
  `LoadPhases` that allows it, and the way in which a load that waits has left its
  place. It needs the invariant of `PlayerControllerProofs` for one thing: a watchdog of
  a loadfile acts while Loading only (`ActiveIsLoading`), else giving one up would not
  be a step of `LoadPhases`.

`IntroSkipProofs`

* `Typing`: `Spec => []TypeOK`, with `Linked`: inside a lookup the thread has a route
  and an accepted file, and a loaded file is one of a route.
* `OnceInASession`: `Spec => []SkippedOnce`, since whatever was sent is remembered and
  what is remembered is not sent.
* `OneRoute`: `Spec => []OneRoutePerFile`. Not inductive: that the next route never
  takes a file already counted for this one depends on every route before. Skips that
  end an outlasted lookup are excepted, the others speak of the page and the player as they
  are when the skip is sent. The
  invariant orders the epochs: the last accepted one is not above the player's, no
  skip was sent for a later one, a new route requires more than the last accepted, and
  whatever was sent for the accepted file while the thread's route may still use it
  was sent for that route.
* `SkipsOfTheRoute`, `OneSourceForAKind`: `Spec => []` of `SkipsAreOfRoute` and
  `OneSourcePerKind`, from one invariant (`Sourced`): the cache of a media holds what was
  named for it, what the thread keeps is of the media of its present route, also after a
  lookup during which the page went elsewhere, a skip is sent for the route that the page
  shows unless a lookup has been outlasted, and an episode's segments of one kind are
  of one database.

`PlaybackSyncProofs`

* `TypeCorrect`: `Spec => []TypeOK`.
* `MovedAtMostOnce`: `MaxFlight >= 2` implies `Spec => []MovedOnce`. The property counts
  moves; why there is no second one takes all that is under way. With every second that
  passes without a deed or a loss the guest knows more of its host: after the first the
  newest state is under way or handled (`FirstSecond`); after the second all that is under
  way is late by a second at most and no reliable message is needed (`SecondSecond`);
  after the third what a guest may sleep over is at most two seconds old (`Caught`), and a
  guest that was moved then stays within two seconds (`Behindhand`), which no state finds
  to be more than the threshold.

`PlayerPropsProofs`

* `TypeCorrect`: `Spec => []TypeOK`, with the uniqueness of the settings that wait.
* `TracksWait`, `NoneIsLost`: `Spec => TracksWaitForFile` and `Spec => DeferredIsKept`.
  `SentBy` says of each step what it sends and what goes on waiting: nothing, the page's
  setting, what needs no file, or everything. What the loop over the list keeps (`Only`)
  is proved by induction on the list's length, which is here the least counterexample of a
  set of numbers, since the library's theorem takes an operator.
* `CacheIsRight`, `PausedIsRight`: `Spec => []` of `CacheSettles` and `PausedSettles`: when
  all is quiet what the shell believes is mpv's value, unless the property is `missed`, so
  the order of section 3 is shown to be the only one that leaves them wrong. Both
  speak of empty queues. The invariant (`Agreement`) measures by mpv's last notice: while
  mpv has the value it told last, a reply brings that value; if moreover all that is yet
  to be set is that value, then what is cached is it, or the tracks were forgotten
  for a new file and have been asked for anew, and `IS_PAUSED` is it, or was written by
  the page's own report. `StepBelieved` says of each action what it may do to this.

`DesktopProofs`

* `Typing`, `SavedSurvives`, `WindowComesBack`, `ModeIsAnswered`, `AnnouncedInstaller`:
  `Spec => []` of `TypeOK`, `PrefsSurvive`, `StoredWindow`, `PageGetsItsMode` and
  `AnnouncedIsWhole`, from one invariant with a part for each concern. Every step of
  `ShellState`, `WindowModes`, `StreamingServer` and `Updater` is a lemma, which
  `Desktop`'s actions cite. Assumed are what the constants are (places that are not the
  screen, volumes with a default and a loudest one, a file that does not parse unlike any
  that does) and the types of the releases and the budgets.
* None of the four is inductive. `PrefsSurvive` speaks of a process that runs, so `Stored`
  says, of one that is off too, that the next start would read what was saved last unless
  a write was torn, whatever has been removed of the older files. `StoredWindow` needs
  that a window that is not full screen is never saved while it has the screen's
  rectangle: `Placed` says when it can have it (`win.full`, or in the middle of the
  change, when the style is borrowed), and that the rectangle to return to is another.
  `PageGetsItsMode` speaks of the idle thread, so `Answered` follows the request through
  the change: at most one notice is for the page, until it is handled and the slot taken
  the slot has what the page asked for, then the target of the change is that, then the
  window has it. `AnnouncedIsWhole` needs that who downloads the announced release
  again has been noted (`Updated`).

Only model-checked: what needs fairness, that is everything with `~>` and `FollowsHost`,
`VolumeIsSaved` and `QuitIsHandled`, since liveness and `ENABLED` are out of the prover's
reach; and the three properties of section 5, which do not hold.

## 7. Not modelled

* Discord: `discord.rs` is not compiled, since no module names it; what `app.rs` does
  for it is formatting.
* The race of two instances for the pipe, and a command handed over to an instance that
  is about to end: the rules of named pipes are not in this repository.
* The start of the runtime thread (`ensure_runtime`): `WatchParty` begins when it is up.
* The web view's queues: the page at their other end is not in this repository.
* Drawing, dragging and controls of the PiP window, splash and tray, the settings of the
  GPU, mpv's own window: calls of Win32 with no state that a property speaks of.
* Decoding of segment databases, encodings of messages and secrets (nothing depends on
  more than that they are inverse to each other, which the repository's unit tests check),
  the stubs of the build without Steam, the build and setup scripts.
