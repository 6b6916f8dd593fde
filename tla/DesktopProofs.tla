---------------------------- MODULE DesktopProofs ----------------------------
(***************************************************************************)
(* Proofs about Desktop, for all places, volumes, releases, ports and      *)
(* budgets: the types, what survives on disk, the rectangle that a window  *)
(* comes back with, the mode that a page asked for, and the installer that *)
(* is announced.                                                           *)
(*                                                                         *)
(* The invariant has one part for the state on disk, one for the window,   *)
(* one that ties them, one for the page's requests and one for the         *)
(* updater.  Each step of a module is a lemma; Desktop's actions cite them.*)
(***************************************************************************)
EXTENDS Desktop, TLAPS

USE PlacesAssumption, VolumesAssumption, FileAssumption, InheritedAssumption,
    CentreAssumption

\* The state on disk is the one that was saved last, unless a write was torn, and the
\* rectangle in it is never that of a full screen.
Stored ==
    /\ StoreTypeOK
    /\ ~kept.torn => kept.prefs = Loaded
    /\ process = "migrating" => file \in Prefs
    /\ PrefsSurvive
    /\ mem.window # Screen
    /\ file \in Prefs => file.window # Screen

\* Only a window that is full screen, or is about to be, has the screen's rectangle.
Placed ==
    /\ WindowTypeOK
    /\ win.normal # Screen
    /\ win.place = Screen => IF ui = "resizing" THEN ~win.full ELSE win.full

\* The window is built when the state has been read, and from then on its mode is the
\* one in memory, also in the middle of a change.
Built ==
    /\ process \in {"off", "starting", "loading", "migrating"} => ui = "building"
    /\ process = "running" /\ ui # "building" => mem.full = win.full

\* One notice at most is for the page's request; until it has been handled the slot has
\* what the page asked for, and then the window has.
Single == \A i, j \in DOMAIN notices : notices[i] = "full" /\ notices[j] = "full" => i = j

Awaited == Queued("full") \/ ui \in {"leaving", "taking"}

Answered ==
    /\ Single
    /\ ui \in {"leaving", "taking", "resizing"} => ~Queued("full")
    /\ ui = "building" => page.asked = {}
    /\ page.asked # {} =>
           /\ page.ready
           /\ Awaited => request.full = page.asked
           /\ ui = "resizing" => page.asked = {~win.full}
           /\ ~Awaited /\ ui # "resizing" => page.asked = {win.full} /\ page.told = win.full

\* What is being downloaded is not whole, and counts as not announced.
Updated ==
    /\ UpdaterTypeOK
    /\ checker.does = "download" =>
           /\ checker.release \in Releases
           /\ checker.release = setup => again
    /\ AnnouncedIsWhole

Shell == Stored /\ Placed /\ Built /\ Answered /\ ServerTypeOK
Inv == Shell /\ Updated /\ left \in [Bounded -> Nat]

-----------------------------------------------------------------------------
\* Facts about what is read and written.

LEMMA SanitisedType == \A v : Sanitised(v) \in Volumes
  BY DEF Sanitised

LEMMA Files == NoFile \notin Prefs /\ Torn \notin Prefs
  BY DEF Prefs

LEMMA LegacyType == FromLegacy \in Prefs /\ FromLegacy.window # Screen
  <1>1. FromLegacy.volume \in Volumes
    BY SanitisedType DEF FromLegacy
  <1>2. FromLegacy.window \in Places \cup {NoPlace} /\ FromLegacy.pip \in Places \cup {NoPlace}
    BY DEF FromLegacy
  <1> QED BY <1>1, <1>2 DEF FromLegacy, Prefs, AnyPlace

LEMMA LoadedType ==
    ASSUME Stored
    PROVE  Loaded \in Prefs /\ Loaded.window # Screen
  BY LegacyType DEF Stored, Loaded

LEMMA StoreStays ==
    ASSUME Stored, UNCHANGED store
    PROVE  Stored'
  BY DEF Stored, store, StoreTypeOK, PrefsSurvive, Loaded, FromLegacy

\* What is saved is what a restart will read.
LEMMA Saving ==
    ASSUME Stored, NEW m \in Prefs, m.window # Screen, Save(m),
           process \in {"running", "ending"}, process' \in {"running", "ending"},
           legacy' = legacy,
           volume' \in [current : Volumes \cup Beyond, unheard : Volumes \cup {NoVolume},
                        waits : Volumes \cup {NoVolume}, saved : Volumes \cup {NoVolume}]
    PROVE  Stored'
  <1>1. mem' = m /\ file' = m /\ kept' = [kept EXCEPT !.prefs = m]
    BY DEF Save
  <1>2. kept \in [prefs : Prefs, torn : BOOLEAN]
    BY DEF Stored, StoreTypeOK
  <1>3. kept' \in [prefs : Prefs, torn : BOOLEAN] /\ kept'.prefs = m /\ kept'.torn = kept.torn
    BY <1>1, <1>2
  <1>4. Loaded' = m
    BY <1>1 DEF Loaded
  <1>5. StoreTypeOK'
    BY <1>1, <1>3 DEF Stored, StoreTypeOK, Process
  <1> QED BY <1>1, <1>3, <1>4, <1>5 DEF Stored, PrefsSurvive

LEMMA WindowSaved ==
    ASSUME NEW m \in Prefs, m.window # Screen, NEW w, w.place \in AnyPlace, NEW full \in BOOLEAN,
           full \/ w.iconic \/ w.place # Screen
    PROVE  LET s == WithWindow(m, w, full) IN
           s \in Prefs /\ s.window # Screen /\ s.full = full
  BY DEF WithWindow, Prefs

LEMMA Posting ==
    ASSUME notices \in Seq(Notice), NEW n \in Notice, Post(n)
    PROVE  /\ notices' \in Seq(Notice)
           /\ Queued("full")' <=> Queued("full") \/ n = "full"
           /\ Single /\ (n = "full" => ~Queued("full")) => Single'
  <1>1. /\ notices' = Append(notices, n) /\ notices' \in Seq(Notice)
        /\ Len(notices) \in Nat /\ Len(notices') = Len(notices) + 1
        /\ DOMAIN notices = 1..Len(notices) /\ DOMAIN notices' = 1..Len(notices')
        /\ \A i \in 1..Len(notices) : notices'[i] = notices[i]
        /\ notices'[Len(notices) + 1] = n
    BY DEF Post
  <1>2. Queued("full")' <=> Queued("full") \/ n = "full"
    BY <1>1 DEF Queued
  <1>3. Single /\ (n = "full" => ~Queued("full")) => Single'
    BY <1>1 DEF Queued, Single
  <1> QED BY <1>1, <1>2, <1>3

LEMMA Taking ==
    ASSUME notices \in Seq(Notice), notices # <<>>, notices' = Tail(notices), Single
    PROVE  /\ notices' \in Seq(Notice)
           /\ Single'
           /\ Queued("full")' <=> Queued("full") /\ Head(notices) # "full"
  <1>1. /\ notices' \in Seq(Notice) /\ Len(notices) \in Nat \ {0}
        /\ Len(notices') = Len(notices) - 1
        /\ DOMAIN notices = 1..Len(notices) /\ DOMAIN notices' = 1..Len(notices')
        /\ \A i \in 1..Len(notices') : notices'[i] = notices[i + 1]
        /\ Head(notices) = notices[1]
    OBVIOUS
  <1>2. Single'
    BY <1>1 DEF Single
  <1>3. ASSUME Queued("full"), Head(notices) # "full" PROVE Queued("full")'
    <2>1. PICK i \in 1..Len(notices) : notices[i] = "full"
      BY <1>1, <1>3 DEF Queued
    <2>2. i # 1 /\ i - 1 \in 1..Len(notices') /\ notices'[i - 1] = notices[i]
      BY <1>1, <1>3, <2>1
    <2> QED BY <1>1, <2>1, <2>2 DEF Queued
  <1>4. ASSUME Queued("full")' PROVE Queued("full") /\ Head(notices) # "full"
    <2>1. PICK i \in 1..Len(notices') : notices'[i] = "full"
      BY <1>1, <1>4 DEF Queued
    <2>2. i + 1 \in 1..Len(notices) /\ notices[i + 1] = "full" /\ 1 \in 1..Len(notices) /\ i + 1 # 1
      BY <1>1, <2>1
    <2> QED BY <1>1, <2>2 DEF Queued, Single
  <1> QED BY <1>1, <1>2, <1>3, <1>4

-----------------------------------------------------------------------------
\* The steps of ShellState.

LEMMA Loading == ASSUME Stored, LoadState PROVE Stored'
  <1> DEFINE m == Loaded
  <1>0. m \in Prefs /\ m.window # Screen
    BY LoadedType
  <1>1. /\ process = "loading" /\ mem' = m /\ legacy' = legacy
        /\ kept' = [prefs |-> IF kept.torn THEN m ELSE kept.prefs, torn |-> FALSE]
        /\ volume' = NewVolume(m.volume)
        /\ IF file \in Prefs \/ legacy = {}
           THEN process' = "running" /\ UNCHANGED file
           ELSE process' = "migrating" /\ file' = m
    BY DEF LoadState, Migrated
  <1>2. kept.prefs \in Prefs /\ (~kept.torn => kept.prefs = m)
    BY DEF Stored, StoreTypeOK
  <1>3. kept' \in [prefs : Prefs, torn : BOOLEAN] /\ kept'.prefs = m
    BY <1>0, <1>1, <1>2
  <1>4. m.volume \in Volumes
    BY <1>0 DEF Prefs
  <1>5. volume' \in [current : Volumes \cup Beyond, unheard : Volumes \cup {NoVolume},
                     waits : Volumes \cup {NoVolume}, saved : Volumes \cup {NoVolume}]
    BY <1>1, <1>4 DEF NewVolume
  <1>6. StoreTypeOK'
    BY <1>0, <1>1, <1>3, <1>5 DEF Stored, StoreTypeOK, Process
  <1>7. Loaded' = m
    <2>1. CASE file' = file
      BY <1>1, <2>1 DEF Loaded, FromLegacy
    <2>2. CASE file' = m
      BY <1>0, <2>2 DEF Loaded
    <2> QED BY <1>1, <2>1, <2>2
  <1>8. process' = "migrating" => file' \in Prefs
    BY <1>0, <1>1
  <1>9. file' \in Prefs => file'.window # Screen
    BY <1>0, <1>1 DEF Stored
  <1> HIDE DEF m
  <1> QED BY <1>0, <1>1, <1>3, <1>6, <1>7, <1>8, <1>9 DEF Stored, PrefsSurvive

LEMMA Removing == ASSUME Stored, RemoveLegacy PROVE Stored'
  <1>1. /\ process = "migrating" /\ legacy' \subseteq legacy
        /\ process' \in {"migrating", "running"}
        /\ UNCHANGED <<mem, file, volume, kept>>
    BY DEF RemoveLegacy
  <1>2. StoreTypeOK'
    BY <1>1 DEF Stored, StoreTypeOK, Process
  <1>3. file \in Prefs /\ Loaded' = file /\ Loaded = file
    BY <1>1 DEF Stored, Loaded
  <1> QED BY <1>1, <1>2, <1>3 DEF Stored, PrefsSurvive

LEMMA Crashing == ASSUME Stored, StoreCrash PROVE Stored' /\ process' = "off"
  <1>1. process' = "off" /\ UNCHANGED <<mem, legacy, volume>>
    BY DEF StoreCrash
  <1>2. CASE UNCHANGED <<file, kept>>
    BY <1>1, <1>2 DEF Stored, StoreTypeOK, Process, PrefsSurvive, Loaded, FromLegacy
  <1>3. CASE /\ MayBeWriting
             /\ file' = Torn
             /\ kept' = [kept EXCEPT !.torn = @ \/ process # "loading"]
    <2>1. kept \in [prefs : Prefs, torn : BOOLEAN]
      BY DEF Stored, StoreTypeOK
    <2>2. /\ kept' \in [prefs : Prefs, torn : BOOLEAN]
          /\ kept'.prefs = kept.prefs
          /\ ~kept'.torn => ~kept.torn /\ process = "loading"
      BY <1>3, <2>1
    <2>3. StoreTypeOK'
      BY <1>1, <1>3, <2>2 DEF Stored, StoreTypeOK, Process
    <2>4. ASSUME ~kept'.torn PROVE kept'.prefs = Loaded'
      <3>1. file \notin Prefs /\ Loaded = FromLegacy
        BY <1>3, <2>2, <2>4 DEF MayBeWriting, Loaded
      <3>2. Loaded' = FromLegacy
        BY <1>1, <1>3, Files DEF Loaded, FromLegacy, Prefs
      <3> QED BY <2>2, <2>4, <3>1, <3>2 DEF Stored
    <2>5. file' \notin Prefs
      BY <1>3, Files
    <2> QED BY <1>1, <2>3, <2>4, <2>5 DEF Stored, PrefsSurvive, Prefs
  <1> QED BY <1>1, <1>2, <1>3 DEF StoreCrash

LEMMA Ending == ASSUME Stored, ProcessEnds PROVE Stored' /\ process' = "off"
  BY DEF ProcessEnds, Stored, StoreTypeOK, Process, PrefsSurvive, Loaded, FromLegacy

\* The process's own course keeps what is on disk.
LEMMA Launching ==
    ASSUME Stored, UNCHANGED <<mem, file, legacy, volume, kept>>,
           \/ process = "off" /\ process' = "starting"
           \/ process = "starting" /\ process' = "loading"
    PROVE  Stored'
  BY DEF Stored, StoreTypeOK, Process, PrefsSurvive, Loaded, FromLegacy

LEMMA Sounding ==
    ASSUME Stored,
           (\E v \in Volumes \cup Beyond : SetVolume(v)) \/ ReportVolume \/ SaveVolume
    PROVE  Stored' /\ process' = process /\ mem'.full = mem.full
  <1> DEFINE Sound == [current : Volumes \cup Beyond, unheard : Volumes \cup {NoVolume},
                       waits : Volumes \cup {NoVolume}, saved : Volumes \cup {NoVolume}]
  <1>0. volume \in Sound /\ mem \in Prefs /\ mem.window # Screen
    BY DEF Stored, StoreTypeOK
  <1>1. CASE \E v \in Volumes \cup Beyond : SetVolume(v)
    <2>1. PICK v \in Volumes \cup Beyond : SetVolume(v)
      BY <1>1
    <2>2. volume' \in Sound
      BY <1>0, <2>1 DEF SetVolume
    <2>3. UNCHANGED <<process, mem, file, legacy, kept>>
      BY <2>1 DEF SetVolume
    <2>4. Stored'
      BY <2>2, <2>3 DEF Stored, StoreTypeOK, PrefsSurvive, Loaded, FromLegacy
    <2> QED BY <2>3, <2>4
  <1>2. CASE ReportVolume
    <2>1. mem.volume \in Volumes
      BY <1>0 DEF Prefs
    <2>2. volume' \in Sound
      BY <1>0, <1>2, <2>1 DEF ReportVolume, LatestVolume
    <2>3. UNCHANGED <<process, mem, file, legacy, kept>>
      BY <1>2 DEF ReportVolume
    <2>4. Stored'
      BY <2>2, <2>3 DEF Stored, StoreTypeOK, PrefsSurvive, Loaded, FromLegacy
    <2> QED BY <2>3, <2>4
  <1>3. CASE SaveVolume
    <2>1. /\ process \in {"running", "ending"} /\ volume.waits \in Volumes
          /\ volume' \in Sound /\ UNCHANGED <<process, legacy>>
      BY <1>0, <1>3 DEF SaveVolume
    <2>2. CASE UNCHANGED <<mem, file, kept>>
      <3>1. Stored'
        BY <2>1, <2>2 DEF Stored, StoreTypeOK, PrefsSurvive, Loaded, FromLegacy
      <3> QED BY <2>1, <2>2, <3>1
    <2>3. CASE Save([mem EXCEPT !.volume = volume.waits])
      <3> DEFINE m == [mem EXCEPT !.volume = volume.waits]
      <3>1. m \in Prefs /\ m.window # Screen /\ m.full = mem.full
        BY <1>0, <2>1 DEF Prefs
      <3>2. mem' = m
        BY <2>3 DEF Save
      <3> HIDE DEF m
      <3>3. Stored'
        BY <2>1, <2>3, <3>1, Saving DEF m
      <3> QED BY <2>1, <3>1, <3>2, <3>3
    <2> QED BY <1>3, <2>2, <2>3 DEF SaveVolume
  <1> QED BY <1>1, <1>2, <1>3

-----------------------------------------------------------------------------
\* The steps of WindowModes.

Window == Placed /\ Built /\ Answered

WinType == [full : BOOLEAN, place : AnyPlace, normal : AnyPlace, pip : BOOLEAN,
            shown : BOOLEAN, iconic : BOOLEAN, top : BOOLEAN]
RequestType == [full : Option, pip : Option]
PageType == [ready : BOOLEAN, asked : Option, told : BOOLEAN]

LEMMA WindowTypes ==
    WindowTypeOK <=> /\ win \in WinType /\ request \in RequestType /\ page \in PageType
                     /\ notices \in Seq(Notice) /\ ui \in Ui
  BY DEF WindowTypeOK, WinType, RequestType, PageType

Calm == {"idle", "closing", "blocked"}

\* What does not change the mode, the request for one or the notice of it keeps
\* everything about the window.
LEMMA Steady ==
    ASSUME Window,
           notices' \in Seq(Notice), Single', Queued("full")' <=> Queued("full"),
           win' \in WinType, win'.full = win.full, win'.normal = win.normal,
           win'.place = win.place \/ win'.place # Screen,
           ui' = ui \/ (ui \in Calm /\ ui' \in Calm),
           request' \in RequestType, request'.full = request.full,
           page' \in PageType, page'.asked = page.asked, page'.ready = page.ready,
           page'.told = page.told \/ page'.told = win.full,
           \/ process' = process
           \/ process' = "ending"
           \/ process = "starting" /\ process' = "loading",
           mem'.full = mem.full
    PROVE  Window'
  <1>1. WindowTypeOK' /\ ui' \in Ui
    BY WindowTypes DEF Window, Placed, WinType, RequestType, PageType, WindowTypeOK, Ui, Calm
  <1>2. Placed'
    BY <1>1 DEF Window, Placed, Calm
  <1>3. Built'
    BY DEF Window, Built, Calm
  <1>4. Answered'
    BY DEF Window, Answered, Awaited, Calm
  <1> QED BY <1>2, <1>3, <1>4 DEF Window

\* Any notice but the one for the page's request is posted.
LEMMA Noticing ==
    ASSUME Window, NEW n \in Notice \ {"full"}, Post(n),
           UNCHANGED <<process, win, ui, page>>, mem'.full = mem.full,
           request' \in RequestType, request'.full = request.full
    PROVE  Window'
  <1>1. notices \in Seq(Notice) /\ win \in WinType /\ page \in PageType /\ Single
    BY WindowTypes DEF Window, Placed, Answered
  <1>2. notices' \in Seq(Notice) /\ Single' /\ (Queued("full")' <=> Queued("full"))
    BY <1>1, Posting
  <1> QED BY <1>1, <1>2, Steady

LEMMA Asking ==
    ASSUME Window, UNCHANGED store,
           \/ \E option \in Option : AskPip(option)
           \/ TrayTogglesPip \/ PipCloses \/ AskFocus \/ AskQuit
    PROVE  Window'
  <1>1. request \in RequestType /\ {} \in Option
    BY WindowTypes DEF Window, Placed, Option
  <1>2. \A option \in Option :
            /\ [request EXCEPT !.pip = option] \in RequestType
            /\ [request EXCEPT !.pip = option].full = request.full
    BY <1>1 DEF RequestType
  <1>3. CASE \E option \in Option : AskPip(option)
    <2>1. PICK option \in Option : AskPip(option)
      BY <1>3
    <2> QED BY <1>2, <2>1, Noticing DEF AskPip, Notice, store
  <1>4. CASE TrayTogglesPip
    BY <1>1, <1>2, <1>4, Noticing DEF TrayTogglesPip, Notice, store
  <1>5. CASE PipCloses
    BY <1>1, <1>5, Noticing DEF PipCloses, Notice, store
  <1>6. CASE AskFocus
    BY <1>1, <1>6, Noticing DEF AskFocus, Notice, store
  <1>7. CASE AskQuit
    BY <1>1, <1>7, Noticing DEF AskQuit, Notice, store
  <1> QED BY <1>3, <1>4, <1>5, <1>6, <1>7

LEMMA Initialising == ASSUME Stored, Window, OnInit PROVE Window'
  <1> DEFINE place == IF mem.window = NoPlace THEN Centre ELSE mem.window
  <1>1. mem \in Prefs /\ mem.window # Screen /\ mem.full \in BOOLEAN
    BY DEF Stored, StoreTypeOK, Prefs
  <1>2. place \in AnyPlace /\ place # Screen
    BY <1>1 DEF Prefs, AnyPlace
  <1>3. PICK hidden \in BOOLEAN :
            win' = [win EXCEPT !.full = mem.full, !.normal = place,
                               !.place = IF mem.full THEN Screen ELSE place,
                               !.shown = ~hidden]
    BY DEF OnInit
  <1>4. /\ process = "running" /\ ui = "building" /\ ui' = "idle"
        /\ UNCHANGED <<process, mem, request, notices, page>>
    BY DEF OnInit, store
  <1>5. win \in WinType /\ WindowTypeOK
    BY WindowTypes DEF Window, Placed
  <1> HIDE DEF place
  <1>6. /\ win' \in WinType /\ win'.full = mem.full /\ win'.normal = place
        /\ win'.place = IF mem.full THEN Screen ELSE place
    BY <1>1, <1>2, <1>3, <1>5 DEF WinType, AnyPlace
  <1>7. WindowTypeOK'
    BY <1>4, <1>5, <1>6 DEF WindowTypeOK, WinType, Ui
  <1>8. Placed'
    BY <1>2, <1>4, <1>6, <1>7 DEF Placed
  <1>9. Built'
    BY <1>4, <1>6 DEF Built
  <1>10. Answered'
    BY <1>4 DEF Window, Answered, Awaited, Single, Queued
  <1> QED BY <1>8, <1>9, <1>10 DEF Window

LEMMA GettingReady == ASSUME Window, AppReady PROVE Window'
  <1>1. /\ ui # "building" /\ ~page.ready
        /\ page' = [page EXCEPT !.ready = TRUE, !.told = FALSE]
        /\ UNCHANGED <<process, mem, win, request, notices, ui>>
    BY DEF AppReady, store
  <1>2. page \in PageType /\ page.asked = {}
    BY <1>1, WindowTypes DEF Window, Placed, Answered
  <1>3. page' \in PageType /\ page'.asked = {}
    BY <1>1, <1>2 DEF PageType
  <1>4. Placed' /\ Built'
    BY <1>1, <1>3 DEF Window, Placed, Built, WindowTypeOK, PageType
  <1>5. Answered'
    BY <1>1, <1>3 DEF Window, Answered, Single, Queued
  <1> QED BY <1>4, <1>5 DEF Window

LEMMA AskingFull == ASSUME Window, NEW b \in BOOLEAN, AskFullScreen(b) PROVE Window'
  <1>1. /\ page.ready /\ ~Queued("full") /\ ui \in {"idle", "blocked"}
        /\ request' = [request EXCEPT !.full = {b}]
        /\ page' = [page EXCEPT !.asked = {b}]
        /\ Post("full")
        /\ UNCHANGED <<process, mem, win, ui>>
    BY DEF AskFullScreen, store
  <1>2. /\ WindowTypeOK /\ page \in PageType /\ request \in RequestType
        /\ notices \in Seq(Notice) /\ Single
    BY WindowTypes DEF Window, Placed, Answered
  <1>3. {b} \in Option
    BY DEF Option
  <1>4. /\ page' \in PageType /\ page'.asked = {b} /\ page'.ready
        /\ request' \in RequestType /\ request'.full = {b}
    BY <1>1, <1>2, <1>3 DEF PageType, RequestType
  <1>5. notices' \in Seq(Notice) /\ Queued("full")' /\ Single'
    BY <1>1, <1>2, Posting DEF Notice
  <1>6. WindowTypeOK'
    BY <1>1, <1>2, <1>4, <1>5 DEF WindowTypeOK, PageType, RequestType
  <1>7. Placed' /\ Built'
    BY <1>1, <1>6 DEF Window, Placed, Built
  <1>8. Answered'
    BY <1>1, <1>4, <1>5 DEF Answered, Awaited
  <1> QED BY <1>7, <1>8 DEF Window

\* The end of picture in picture, wherever it is asked for, keeps everything but itself.
LEMMA TogglingPip ==
    ASSUME Stored, request \in RequestType, win \in WinType, TogglePip,
           process = "running", UNCHANGED <<process, legacy, volume>>
    PROVE  /\ Stored' /\ mem'.full = mem.full
           /\ request' \in RequestType /\ request'.full = request.full
           /\ win' \in WinType /\ win'.full = win.full /\ win'.normal = win.normal
           /\ win'.place = win.place
  <1>1. /\ request' = [request EXCEPT !.pip = {}]
        /\ win' = [win EXCEPT !.pip = (@ \/ EntersPip) /\ ~LeavesPip]
    BY DEF TogglePip
  <1>2. {} \in Option
    BY DEF Option
  <1>3. /\ request' \in RequestType /\ request'.full = request.full
        /\ win' \in WinType /\ win'.full = win.full /\ win'.normal = win.normal
        /\ win'.place = win.place
    BY <1>1, <1>2 DEF RequestType, WinType
  <1>4. CASE LeavesPip
    <2>1. PICK p \in Places : Save([mem EXCEPT !.pip = p])
      BY <1>4 DEF TogglePip
    <2> DEFINE m == [mem EXCEPT !.pip = p]
    <2>2. m \in Prefs /\ m.window # Screen /\ m.full = mem.full
      BY DEF Stored, StoreTypeOK, Prefs, AnyPlace
    <2>3. mem' = m
      BY <2>1 DEF Save
    <2> HIDE DEF m
    <2>4. Stored'
      BY <2>1, <2>2, Saving DEF m, Stored, StoreTypeOK
    <2> QED BY <1>3, <2>2, <2>3, <2>4
  <1>5. CASE ~LeavesPip
    <2>1. UNCHANGED <<mem, file, kept>>
      BY <1>5 DEF TogglePip
    <2>2. Stored'
      BY <2>1, StoreStays DEF store
    <2> QED BY <1>3, <2>1, <2>2
  <1> QED BY <1>4, <1>5

\* A notice is handled.
LEMMA Handling ==
    ASSUME Window, NEW n \in Notice, Handles(n)
    PROVE  /\ process = "running" /\ ui = "idle"
           /\ notices' \in Seq(Notice) /\ Single'
           /\ Queued("full")' <=> Queued("full") /\ n # "full"
           /\ n = "full" => Queued("full")
  <1>1. /\ notices \in Seq(Notice) /\ Single /\ notices # <<>> /\ Head(notices) = n
        /\ notices' = Tail(notices) /\ process = "running" /\ ui = "idle"
    BY WindowTypes DEF Window, Placed, Answered, Handles, Idle
  <1>2. 1 \in DOMAIN notices /\ notices[1] = n
    BY <1>1
  <1> QED BY <1>1, <1>2, Taking DEF Queued

LEMMA HandlingPip == ASSUME Stored, Window, OnPipNotice PROVE Stored' /\ Window'
  <1>1. /\ Handles("pip") /\ TogglePip /\ "pip" \in Notice
        /\ UNCHANGED <<process, legacy, volume, ui, page>>
    BY DEF OnPipNotice, Notice
  <1>2. win \in WinType /\ request \in RequestType /\ page \in PageType
    BY WindowTypes DEF Window, Placed
  <1>3. /\ process = "running" /\ notices' \in Seq(Notice) /\ Single'
        /\ Queued("full")' <=> Queued("full")
    BY <1>1, Handling
  <1>4. /\ Stored' /\ mem'.full = mem.full
        /\ request' \in RequestType /\ request'.full = request.full
        /\ win' \in WinType /\ win'.full = win.full /\ win'.normal = win.normal
        /\ win'.place = win.place
    BY <1>1, <1>2, <1>3, TogglingPip
  <1> QED BY <1>1, <1>2, <1>3, <1>4, Steady

LEMMA HandlingFocus == ASSUME Window, OnFocusNotice PROVE Window'
  <1>1. /\ Handles("focus") /\ "focus" \in Notice /\ win' = [win EXCEPT !.shown = TRUE]
        /\ UNCHANGED <<process, mem, request, ui, page>>
    BY DEF OnFocusNotice, Notice, store
  <1>2. win \in WinType /\ request \in RequestType /\ page \in PageType
    BY WindowTypes DEF Window, Placed
  <1>3. notices' \in Seq(Notice) /\ Single' /\ (Queued("full")' <=> Queued("full"))
    BY <1>1, Handling
  <1>4. /\ win' \in WinType /\ win'.full = win.full /\ win'.normal = win.normal
        /\ win'.place = win.place
    BY <1>1, <1>2 DEF WinType
  <1> QED BY <1>1, <1>2, <1>3, <1>4, Steady

LEMMA HandlingQuit == ASSUME Window, OnQuitNotice \/ TrayExit PROVE Window'
  <1>1. Exit /\ ui = "idle" /\ notices' \in Seq(Notice) /\ Single'
        /\ (Queued("full")' <=> Queued("full"))
    <2>1. CASE OnQuitNotice
      BY <2>1, Handling DEF OnQuitNotice, Notice
    <2>2. CASE TrayExit
      BY <2>2, WindowTypes DEF TrayExit, Idle, Window, Placed, Answered, Single, Queued
    <2> QED BY <2>1, <2>2
  <1>2. win \in WinType /\ request \in RequestType /\ page \in PageType
    BY WindowTypes DEF Window, Placed
  <1>3. {FALSE} \in Option
    BY DEF Option
  <1>4. request' \in RequestType /\ request'.full = request.full
    BY <1>1, <1>2, <1>3 DEF Exit, RequestType
  <1>5. ui' = "closing" /\ UNCHANGED <<process, mem, win, page>>
    BY <1>1 DEF Exit, store
  <1> QED BY <1>1, <1>2, <1>4, <1>5, Steady DEF Calm

\* The user at the window.
LEMMA Handled == ASSUME Stored, Window,
                        Minimise \/ ToggleTopmost \/ OnShowHide \/ OnQuit \/ OnWindowStateChanged
                 PROVE  Stored' /\ Window'
  <1>1. /\ win \in WinType /\ request \in RequestType /\ page \in PageType
        /\ notices \in Seq(Notice) /\ mem \in Prefs /\ mem.window # Screen
    BY WindowTypes DEF Window, Placed, Stored, StoreTypeOK
  <1>2. /\ UNCHANGED <<request, notices, ui, process, legacy, volume>>
        /\ page' = page \/ Tell(win.full)
    BY DEF Minimise, ToggleTopmost, OnShowHide, OnQuit, OnWindowStateChanged, store
  <1>3. /\ page' \in PageType /\ page'.asked = page.asked /\ page'.ready = page.ready
        /\ page'.told = page.told \/ page'.told = win.full
    BY <1>1, <1>2 DEF Tell, PageType, WinType
  <1>4. Single' /\ (Queued("full")' <=> Queued("full"))
    BY <1>2 DEF Window, Answered, Single, Queued
  <1>5. ASSUME win' \in WinType, win'.full = win.full, win'.normal = win.normal,
               win'.place = win.place \/ win'.place # Screen, mem'.full = mem.full
        PROVE  Window'
    BY <1>1, <1>2, <1>3, <1>4, <1>5, Steady
  <1>6. CASE Minimise \/ ToggleTopmost \/ OnShowHide
    <2>1. /\ win' \in WinType /\ win'.full = win.full /\ win'.normal = win.normal
          /\ win'.place = win.place
      BY <1>1, <1>6 DEF Minimise, ToggleTopmost, OnShowHide, WinType
    <2>2. UNCHANGED store
      BY <1>6 DEF Minimise, ToggleTopmost, OnShowHide
    <2> QED BY <1>5, <2>1, <2>2, StoreStays DEF store
  <1>7. CASE OnQuit
    <2>1. /\ process = "running" /\ ui = "idle" /\ Save(WithWindow(mem, win, win.full))
          /\ win' = [win EXCEPT !.shown = FALSE]
      BY <1>7 DEF OnQuit, Idle
    <2>2. win.full \/ win.place # Screen
      BY <2>1 DEF Window, Placed
    <2> DEFINE m == WithWindow(mem, win, win.full)
    <2>3. m \in Prefs /\ m.window # Screen /\ m.full = win.full
      BY <1>1, <2>2, WindowSaved DEF WinType
    <2>4. mem' = m /\ mem.full = win.full
      BY <2>1 DEF Save, Window, Built
    <2> HIDE DEF m
    <2>5. Stored'
      BY <1>2, <2>1, <2>3, Saving DEF m, Stored, StoreTypeOK
    <2>6. /\ win' \in WinType /\ win'.full = win.full /\ win'.normal = win.normal
          /\ win'.place = win.place
      BY <1>1, <2>1 DEF WinType
    <2> QED BY <1>5, <2>3, <2>4, <2>5, <2>6
  <1>8. CASE OnWindowStateChanged
    <2>1. /\ process = "running" /\ ui \in {"idle", "resizing"} /\ ~win.iconic
      BY <1>8 DEF OnWindowStateChanged
    <2>2. PICK p \in IF win.full \/ ui = "resizing" THEN {win.place} ELSE Places :
              win' = [win EXCEPT !.place = p]
      BY <1>8 DEF OnWindowStateChanged
    <2>3. p \in AnyPlace /\ (p = win.place \/ p # Screen)
      BY <1>1, <2>2 DEF AnyPlace, WinType
    <2>4. /\ win' \in WinType /\ win'.full = win.full /\ win'.normal = win.normal
          /\ win'.place = p /\ win'.iconic = win.iconic
      BY <1>1, <2>2, <2>3 DEF WinType
    <2>5. CASE Borrowed
      <3>1. UNCHANGED <<mem, file, kept>>
        BY <1>8, <2>5 DEF OnWindowStateChanged
      <3> QED BY <1>2, <1>5, <2>3, <2>4, <3>1, StoreStays DEF store
    <2>6. CASE ~Borrowed
      <3>1. ui = "idle" /\ Save(WithWindow(mem, win', win.full))
        BY <1>8, <2>1, <2>6 DEF OnWindowStateChanged, Borrowed
      <3>2. win.full \/ win'.place # Screen
        BY <2>2, <2>4, <3>1
      <3> DEFINE m == WithWindow(mem, win', win.full)
      <3>3. m \in Prefs /\ m.window # Screen /\ m.full = win.full
        BY <1>1, <2>4, <3>2, WindowSaved DEF WinType
      <3>4. mem' = m /\ mem.full = win.full
        BY <2>1, <3>1 DEF Save, Window, Built
      <3> HIDE DEF m
      <3>5. Stored'
        BY <1>2, <2>1, <3>1, <3>3, Saving DEF m, Stored, StoreTypeOK
      <3> QED BY <1>5, <2>3, <2>4, <3>3, <3>4, <3>5
    <2> QED BY <2>5, <2>6
  <1> QED BY <1>6, <1>7, <1>8

\* The change of a mode, from its notice to what is saved and told of it.
LEMMA TurningToFull == ASSUME Stored, Window, OnFullNotice PROVE Stored' /\ Window'
  <1>1. /\ Handles("full") /\ "full" \in Notice /\ UNCHANGED store /\ UNCHANGED <<win, page>>
        /\ ui' \in {"leaving", "taking"}
        /\ request' = IF win.pip THEN [request EXCEPT !.pip = {FALSE}] ELSE request
    BY DEF OnFullNotice, Notice
  <1>2. /\ win \in WinType /\ request \in RequestType /\ page \in PageType /\ WindowTypeOK
    BY WindowTypes DEF Window, Placed
  <1>3. /\ process = "running" /\ ui = "idle" /\ notices' \in Seq(Notice) /\ Single'
        /\ ~Queued("full")' /\ Queued("full")
    BY <1>1, Handling
  <1>4. {FALSE} \in Option
    BY DEF Option
  <1>5. request' \in RequestType /\ request'.full = request.full
    BY <1>1, <1>2, <1>4 DEF RequestType
  <1>6. WindowTypeOK'
    BY <1>1, <1>2, <1>3, <1>5 DEF WindowTypeOK, RequestType, Ui
  <1>7. Placed'
    BY <1>1, <1>3, <1>6 DEF Window, Placed
  <1>8. Built'
    BY <1>1, <1>3 DEF Window, Built, store
  <1>9. Answered'
    BY <1>1, <1>3, <1>5 DEF Window, Answered, Awaited
  <1> QED BY <1>1, <1>7, <1>8, <1>9, StoreStays DEF Window

LEMMA LeavingPip == ASSUME Stored, Window, LeavePip PROVE Stored' /\ Window'
  <1>1. /\ process = "running" /\ ui = "leaving" /\ ui' = "taking" /\ TogglePip
        /\ UNCHANGED <<process, legacy, volume, notices, page>>
    BY DEF LeavePip
  <1>2. /\ win \in WinType /\ request \in RequestType /\ page \in PageType /\ WindowTypeOK
    BY WindowTypes DEF Window, Placed
  <1>3. /\ Stored' /\ mem'.full = mem.full
        /\ request' \in RequestType /\ request'.full = request.full
        /\ win' \in WinType /\ win'.full = win.full /\ win'.normal = win.normal
        /\ win'.place = win.place
    BY <1>1, <1>2, TogglingPip
  <1>4. WindowTypeOK'
    BY <1>1, <1>2, <1>3 DEF WindowTypeOK, RequestType, WinType, Ui
  <1>5. Placed'
    BY <1>1, <1>3, <1>4 DEF Window, Placed
  <1>6. Built'
    BY <1>1, <1>3 DEF Window, Built
  <1>7. Answered'
    BY <1>1, <1>3 DEF Window, Answered, Awaited, Single, Queued
  <1> QED BY <1>3, <1>5, <1>6, <1>7 DEF Window

LEMMA TakingFull == ASSUME Stored, Window, TakeFull PROVE Stored' /\ Window'
  <1>1. /\ process = "running" /\ ui = "taking"
        /\ request' = [request EXCEPT !.full = {}]
        /\ UNCHANGED <<process, legacy, volume, notices>>
    BY DEF TakeFull
  <1>2. /\ win \in WinType /\ request \in RequestType /\ page \in PageType /\ WindowTypeOK
        /\ mem \in Prefs /\ mem.window # Screen /\ mem.full = win.full
    BY <1>1, WindowTypes DEF Window, Placed, Built, Stored, StoreTypeOK
  <1>3. request' \in RequestType
    <2>1. {} \in Option
      BY DEF Option
    <2> QED BY <1>1, <1>2, <2>1 DEF RequestType
  <1>4. win.full \/ win.place # Screen
    BY <1>1 DEF Window, Placed
  <1>5. FullTarget \in BOOLEAN /\ (page.asked # {} => page.asked = {FullTarget})
    <2>1. request.full \in Option
      BY <1>2 DEF RequestType
    <2>2. CASE request.full = {}
      <3>1. FullTarget = ~win.full
        BY <2>2 DEF FullTarget, Given
      <3>2. page.asked = {}
        BY <1>1, <2>2 DEF Window, Answered, Awaited
      <3> QED BY <1>2, <3>1, <3>2 DEF WinType
    <2>3. CASE request.full # {}
      <3>1. PICK b \in BOOLEAN : request.full = {b}
        BY <2>1, <2>3 DEF Option
      <3>2. FullTarget = b
        BY <3>1 DEF FullTarget, Given
      <3> QED BY <1>1, <3>1, <3>2 DEF Window, Answered, Awaited
    <2> QED BY <2>2, <2>3
  <1> DEFINE m == WithWindow(mem, win, win.full)
  <1>6. m \in Prefs /\ m.window # Screen /\ m.full = win.full
    BY <1>2, <1>4, WindowSaved DEF WinType
  <1>7. Save(m) => Stored' /\ mem'.full = win.full
    <2> HIDE DEF m
    <2> SUFFICES ASSUME Save(m) PROVE Stored' /\ mem'.full = win.full
      OBVIOUS
    <2>1. mem' = m
      BY DEF Save
    <2>2. Stored'
      BY <1>1, <1>6, Saving DEF Stored, StoreTypeOK
    <2> QED BY <1>6, <2>1, <2>2
  <1>8. Single' /\ (Queued("full")' <=> Queued("full")) /\ ~Queued("full")
    BY <1>1 DEF Window, Answered, Single, Queued
  <1>9. CASE FullTarget = win.full
    <2>1. Save(m) /\ Tell(win.full) /\ ui' = "idle" /\ win' = win
      BY <1>9 DEF TakeFull
    <2>2. /\ page' \in PageType /\ page'.asked = page.asked /\ page'.ready = page.ready
          /\ page'.told = win.full
      BY <1>2, <2>1 DEF Tell, PageType, WinType
    <2>3. WindowTypeOK'
      BY <1>1, <1>2, <1>3, <2>1, <2>2 DEF WindowTypeOK, RequestType, PageType, Ui
    <2>4. Placed'
      BY <1>1, <2>1, <2>3 DEF Window, Placed
    <2>5. Built'
      BY <1>1, <1>7, <2>1 DEF Built
    <2>6. Answered'
      BY <1>5, <1>8, <1>9, <2>1, <2>2 DEF Window, Answered, Awaited
    <2> QED BY <1>7, <2>1, <2>4, <2>5, <2>6 DEF Window
  <1>10. CASE FullTarget # win.full
    <2>1. /\ ui' = "resizing" /\ page' = page
          /\ win' = IF FullTarget THEN [win EXCEPT !.normal = win.place, !.place = Screen]
                    ELSE [win EXCEPT !.place = win.normal]
          /\ IF FullTarget THEN Save(WithWindow(mem, win, FALSE))
             ELSE UNCHANGED <<mem, file, kept>>
      BY <1>10 DEF TakeFull
    <2>2. win.full \in BOOLEAN /\ (win.full <=> ~FullTarget)
      BY <1>2, <1>5, <1>10 DEF WinType
    <2>3. Stored' /\ mem'.full = win.full
      <3>1. CASE FullTarget
        <4>1. win.full = FALSE
          BY <2>2, <3>1
        <4> QED BY <1>7, <2>1, <3>1, <4>1
      <3>2. CASE ~FullTarget
        BY <1>1, <1>2, <2>1, <3>2, StoreStays DEF store
      <3> QED BY <3>1, <3>2
    <2>4. win.normal # Screen /\ Screen \in AnyPlace
      BY DEF Window, Placed, AnyPlace
    <2>5. /\ win' \in WinType /\ win'.full = win.full /\ win'.normal # Screen
          /\ win'.place = Screen => ~win.full
      BY <1>2, <1>4, <2>1, <2>2, <2>4 DEF WinType
    <2>6. WindowTypeOK'
      BY <1>1, <1>2, <1>3, <2>1, <2>5 DEF WindowTypeOK, RequestType, WinType, Ui
    <2>7. Placed'
      BY <2>1, <2>5, <2>6 DEF Placed
    <2>8. Built'
      BY <1>1, <2>3, <2>5 DEF Built
    <2>9. page.asked # {} => page.asked = {~win.full}
      BY <1>5, <2>2
    <2>10. Answered'
      BY <1>8, <2>1, <2>5, <2>9 DEF Window, Answered, Awaited
    <2> QED BY <2>3, <2>7, <2>8, <2>10 DEF Window
  <1> QED BY <1>9, <1>10

LEMMA FinishingResize == ASSUME Stored, Window, FinishResize PROVE Stored' /\ Window'
  <1>1. /\ process = "running" /\ ui = "resizing" /\ ui' = "idle"
        /\ win' = [win EXCEPT !.full = ~@]
        /\ Save(WithWindow(mem, win', win'.full)) /\ Tell(win'.full)
        /\ UNCHANGED <<process, legacy, volume, request, notices>>
    BY DEF FinishResize
  <1>2. /\ win \in WinType /\ page \in PageType /\ WindowTypeOK
        /\ mem \in Prefs /\ mem.window # Screen
    BY WindowTypes DEF Window, Placed, Stored, StoreTypeOK
  <1>3. /\ win' \in WinType /\ win'.full = ~win.full /\ win'.place = win.place
        /\ win'.normal = win.normal
    BY <1>1, <1>2 DEF WinType
  <1>4. win'.place = Screen => win'.full
    BY <1>1, <1>3 DEF Window, Placed
  <1> DEFINE m == WithWindow(mem, win', win'.full)
  <1>5. m \in Prefs /\ m.window # Screen /\ m.full = win'.full
    BY <1>2, <1>3, <1>4, WindowSaved DEF WinType
  <1>6. mem' = m
    BY <1>1 DEF Save
  <1> HIDE DEF m
  <1>7. Stored'
    BY <1>1, <1>5, Saving DEF m, Stored, StoreTypeOK
  <1>8. /\ page' \in PageType /\ page'.asked = page.asked /\ page'.ready = page.ready
        /\ page'.told = win'.full
    BY <1>1, <1>2, <1>3 DEF Tell, PageType, WinType
  <1>9. WindowTypeOK'
    BY <1>1, <1>2, <1>3, <1>8 DEF WindowTypeOK, WinType, PageType, Ui
  <1>10. Placed'
    BY <1>1, <1>3, <1>4, <1>9 DEF Window, Placed
  <1>11. Built'
    BY <1>1, <1>5, <1>6 DEF Built
  <1>12. Answered'
    BY <1>1, <1>3, <1>8 DEF Window, Answered, Awaited, Single, Queued
  <1> QED BY <1>7, <1>10, <1>11, <1>12 DEF Window

LEMMA Closing == ASSUME Stored, Window, CloseAll PROVE Stored' /\ Window'
  <1>1. PICK p \in Places :
            LET pip == IF win.pip => LeavesPip THEN p ELSE mem.pip
                m == WithWindow([mem EXCEPT !.pip = pip], win, win.full)
            IN Save([m EXCEPT !.volume = Sanitised(volume.current)])
    BY DEF CloseAll
  <1>2. /\ process = "running" /\ ui = "closing" /\ process' = "ending" /\ ui' = "idle"
        /\ request' = IF win.pip THEN [request EXCEPT !.pip = {}] ELSE request
        /\ win' = [win EXCEPT !.pip = @ /\ ~LeavesPip]
        /\ UNCHANGED <<legacy, volume, notices, page>>
    BY DEF CloseAll
  <1>3. /\ win \in WinType /\ request \in RequestType /\ page \in PageType
        /\ notices \in Seq(Notice)
        /\ mem \in Prefs /\ mem.window # Screen /\ mem.full = win.full
    BY <1>2, WindowTypes DEF Window, Placed, Built, Stored, StoreTypeOK
  <1> DEFINE pip == IF win.pip => LeavesPip THEN p ELSE mem.pip
             k == [mem EXCEPT !.pip = pip]
             m == WithWindow(k, win, win.full)
             n == [m EXCEPT !.volume = Sanitised(volume.current)]
  <1>4. k \in Prefs /\ k.window # Screen
    BY <1>3 DEF Prefs, AnyPlace
  <1>5. win.full \/ win.place # Screen
    BY <1>2 DEF Window, Placed
  <1> HIDE DEF k
  <1>6. m \in Prefs /\ m.window # Screen /\ m.full = win.full
    BY <1>3, <1>4, <1>5, WindowSaved DEF WinType
  <1> HIDE DEF m
  <1>7. n \in Prefs /\ n.window # Screen /\ n.full = win.full
    BY <1>6, SanitisedType DEF Prefs
  <1>8. Save(n)
    BY <1>1 DEF k, m
  <1> HIDE DEF n
  <1>9. mem' = n
    BY <1>8 DEF Save
  <1>10. Stored'
    BY <1>2, <1>7, <1>8, Saving DEF Stored, StoreTypeOK
  <1>11. {} \in Option
    BY DEF Option
  <1>12. /\ request' \in RequestType /\ request'.full = request.full
         /\ win' \in WinType /\ win'.full = win.full /\ win'.normal = win.normal
         /\ win'.place = win.place
    BY <1>2, <1>3, <1>11 DEF RequestType, WinType
  <1>13. Single' /\ (Queued("full")' <=> Queued("full"))
    BY <1>2 DEF Window, Answered, Single, Queued
  <1>14. Window'
    BY <1>2, <1>3, <1>7, <1>9, <1>12, <1>13, Steady DEF Calm
  <1> QED BY <1>10, <1>14

-----------------------------------------------------------------------------
\* The steps of StreamingServer.

\* Before the window is built, the process's course does not touch it.
LEMMA Early == ASSUME Window, UNCHANGED window, ui = "building" PROVE Window'
  <1>1. UNCHANGED <<win, request, notices, ui, page>>
    BY DEF window
  <1>2. Placed'
    BY <1>1 DEF Window, Placed, WindowTypeOK
  <1>3. Built'
    BY <1>1 DEF Built
  <1>4. Answered'
    BY <1>1 DEF Window, Answered, Awaited, Single, Queued
  <1> QED BY <1>2, <1>3, <1>4 DEF Window

LEMMA WindowStays == ASSUME Window, UNCHANGED <<store, window>> PROVE Window'
  <1>1. UNCHANGED <<process, mem, win, request, notices, ui, page>>
    BY DEF store, window
  <1>2. Placed'
    BY <1>1 DEF Window, Placed, WindowTypeOK
  <1>3. Built'
    BY <1>1 DEF Window, Built
  <1>4. Answered'
    BY <1>1 DEF Window, Answered, Awaited, Single, Queued
  <1> QED BY <1>2, <1>3, <1>4 DEF Window

LEMMA LaunchedType == ServerTypeOK /\ server' = Launched => ServerTypeOK'
  BY DEF ServerTypeOK, Launched

LEMMA Starting == ASSUME Shell, ProcessStarts PROVE Shell'
  <1>1. /\ process = "off" /\ process' = "starting" /\ server' = Launched
        /\ UNCHANGED <<mem, file, legacy, volume, kept>> /\ UNCHANGED window
    BY DEF ProcessStarts
  <1>2. Window /\ ui = "building"
    BY <1>1 DEF Shell, Window, Built
  <1>3. Stored'
    BY <1>1, Launching DEF Shell
  <1>4. Window'
    BY <1>1, <1>2, Early
  <1>5. ServerTypeOK'
    BY <1>1, LaunchedType DEF Shell
  <1> QED BY <1>3, <1>4, <1>5 DEF Shell, Window

LEMMA Hearing == ASSUME Shell, NEW port \in Ports, Announce(port) PROVE Shell'
  <1>1. ServerTypeOK'
    BY DEF Announce, Shell, ServerTypeOK
  <1>2. Stored'
    BY StoreStays DEF Announce, Shell
  <1>3. Window'
    BY WindowStays DEF Announce, Shell, Window
  <1> QED BY <1>1, <1>2, <1>3 DEF Shell, Window

LEMMA RunningOut == ASSUME Shell, RuntimeEnds PROVE Shell'
  <1>1. /\ server' = [server EXCEPT !.runtime = "gone"] /\ Post("crash")
        /\ UNCHANGED <<store, win, request, ui, page>>
    BY DEF RuntimeEnds
  <1>2. request \in RequestType /\ Window
    BY WindowTypes DEF Shell, Window, Placed
  <1>3. Window'
    BY <1>1, <1>2, Noticing DEF Notice, store
  <1>4. ServerTypeOK'
    BY <1>1 DEF Shell, ServerTypeOK
  <1>5. Stored'
    BY <1>1, StoreStays DEF Shell
  <1> QED BY <1>3, <1>4, <1>5 DEF Shell, Window

LEMMA Returning == ASSUME Shell, StartReturns PROVE Shell'
  <1>1. /\ process = "starting" \/ ui = "blocked"
        /\ server' = IF server.channel = {} THEN server
                     ELSE [server EXCEPT !.channel = {},
                                         !.url = CHOOSE port \in server.channel : TRUE]
        /\ UNCHANGED <<mem, file, legacy, volume, kept, win, request, notices, page>>
    BY DEF StartReturns
  <1>2. ServerTypeOK'
    <2>1. server.channel \subseteq Ports
      BY DEF Shell, ServerTypeOK
    <2>2. server.channel # {} => (CHOOSE port \in server.channel : TRUE) \in Ports
      BY <2>1
    <2> HIDE <2>1
    <2> DEFINE first == CHOOSE port \in server.channel : TRUE
    <2>3. server.channel # {} => first \in Ports
      BY <2>2
    <2>4. server' = IF server.channel = {} THEN server
                    ELSE [server EXCEPT !.channel = {}, !.url = first]
      BY <1>1
    <2> HIDE DEF first
    <2> QED BY <2>3, <2>4 DEF Shell, ServerTypeOK
  <1>3. CASE process = "starting"
    <2>1. process' = "loading" /\ UNCHANGED window
      BY <1>1, <1>3 DEF StartReturns, window
    <2>2. Window /\ ui = "building"
      BY <1>3 DEF Shell, Window, Built
    <2>3. Stored'
      BY <1>1, <1>3, <2>1, Launching DEF Shell
    <2>4. Window'
      BY <2>1, <2>2, Early
    <2> QED BY <1>2, <2>3, <2>4 DEF Shell, Window
  <1>4. CASE process # "starting"
    <2>1. ui = "blocked" /\ ui' = "idle" /\ UNCHANGED store
      BY <1>1, <1>4 DEF StartReturns, store
    <2>2. /\ Window /\ win \in WinType /\ request \in RequestType /\ page \in PageType
          /\ notices \in Seq(Notice) /\ Single
      BY WindowTypes DEF Shell, Window, Placed, Answered
    <2>3. notices' \in Seq(Notice) /\ Single' /\ (Queued("full")' <=> Queued("full"))
      BY <1>1, <2>2 DEF Single, Queued
    <2>4. Window'
      BY <1>1, <2>1, <2>2, <2>3, Steady DEF Calm, store
    <2>5. Stored'
      BY <2>1, StoreStays DEF Shell
    <2> QED BY <1>2, <2>4, <2>5 DEF Shell, Window
  <1> QED BY <1>3, <1>4

LEMMA HandlingCrash == ASSUME Shell, OnCrashNotice PROVE Shell'
  <1>1. /\ Handles("crash") /\ "crash" \in Notice /\ server' = [server EXCEPT !.dialog = TRUE]
        /\ UNCHANGED <<store, win, request, ui, page>>
    BY DEF OnCrashNotice, Notice
  <1>2. Window /\ win \in WinType /\ request \in RequestType /\ page \in PageType
    BY WindowTypes DEF Shell, Window, Placed
  <1>3. notices' \in Seq(Notice) /\ Single' /\ (Queued("full")' <=> Queued("full"))
    BY <1>1, <1>2, Handling
  <1>4. Window'
    BY <1>1, <1>2, <1>3, Steady DEF store
  <1>5. ServerTypeOK'
    BY <1>1 DEF Shell, ServerTypeOK
  <1>6. Stored'
    BY <1>1, StoreStays DEF Shell
  <1> QED BY <1>4, <1>5, <1>6 DEF Shell, Window

LEMMA ClosingDialog == ASSUME Shell, DialogCloses PROVE Shell'
  <1>1. /\ ui = "idle" /\ ui' = "blocked" /\ server' = Launched
        /\ UNCHANGED <<store, win, request, notices, page>>
    BY DEF DialogCloses
  <1>2. /\ Window /\ win \in WinType /\ request \in RequestType /\ page \in PageType
        /\ notices \in Seq(Notice) /\ Single
    BY WindowTypes DEF Shell, Window, Placed, Answered
  <1>3. notices' \in Seq(Notice) /\ Single' /\ (Queued("full")' <=> Queued("full"))
    BY <1>1, <1>2 DEF Single, Queued
  <1>4. Window'
    BY <1>1, <1>2, <1>3, Steady DEF Calm, store
  <1>5. ServerTypeOK'
    BY <1>1, LaunchedType DEF Shell
  <1>6. Stored'
    BY <1>1, StoreStays DEF Shell
  <1> QED BY <1>4, <1>5, <1>6 DEF Shell, Window

-----------------------------------------------------------------------------
\* The steps of Updater.

LEMMA Checking ==
    ASSUME Updated, CheckForUpdate \/ NothingToDownload \/ DownloadFails \/ CheckAgain
    PROVE  Updated'
  <1>1. /\ UNCHANGED <<temp, setup, again>>
        /\ checker' \in {[does |-> d, release |-> NoRelease] : d \in {"check", "sleep"}}
    BY DEF CheckForUpdate, NothingToDownload, DownloadFails, CheckAgain, Doing
  <1>2. checker'.does \in {"check", "sleep"} /\ UpdaterTypeOK'
    BY <1>1 DEF Updated, UpdaterTypeOK
  <1> QED BY <1>1, <1>2 DEF Updated, AnnouncedIsWhole

LEMMA Downloading == ASSUME Updated, DownloadBegins PROVE Updated'
  <1>1. PICK listed \in SUBSET Releases : \E r \in Fetched(listed) :
            /\ checker' = [does |-> "download", release |-> r]
            /\ temp' = [temp EXCEPT ![r] = "part"]
            /\ again' = (again \/ r = setup)
    BY DEF DownloadBegins
  <1>2. PICK r \in Releases : /\ checker' = [does |-> "download", release |-> r]
                              /\ temp' = [temp EXCEPT ![r] = "part"]
                              /\ again' = (again \/ r = setup)
    BY <1>1 DEF Fetched
  <1>3. UNCHANGED setup /\ again \in BOOLEAN /\ temp \in [Releases -> {"none", "part", "whole"}]
        /\ setup \in Releases \cup {NoRelease}
    BY DEF DownloadBegins, Updated, UpdaterTypeOK
  <1>4. again' \in BOOLEAN /\ (r = setup => again') /\ (again => again')
    BY <1>2, <1>3
  <1>5. UpdaterTypeOK'
    BY <1>2, <1>3, <1>4 DEF UpdaterTypeOK
  <1>6. AnnouncedIsWhole'
    <2> SUFFICES ASSUME setup # NoRelease, ~again' PROVE temp'[setup] = "whole"
      BY <1>3 DEF AnnouncedIsWhole
    <2>1. setup # r /\ setup \in Releases /\ ~again
      BY <1>3, <1>4
    <2>2. temp[setup] = "whole"
      BY <2>1 DEF Updated, AnnouncedIsWhole
    <2> QED BY <1>2, <1>3, <2>1, <2>2
  <1> QED BY <1>2, <1>3, <1>4, <1>5, <1>6 DEF Updated

LEMMA Downloaded == ASSUME Updated, NEW whole \in BOOLEAN, DownloadEnds(whole) PROVE Updated'
  <1> DEFINE r == checker.release
  <1>1. /\ r \in Releases /\ (r = setup => again)
        /\ again \in BOOLEAN /\ temp \in [Releases -> {"none", "part", "whole"}]
        /\ setup \in Releases \cup {NoRelease}
    BY DEF DownloadEnds, Updated, UpdaterTypeOK
  <1>2. checker' = [does |-> "sleep", release |-> NoRelease]
    BY DEF DownloadEnds, Doing
  <1>3. CASE whole
    <2>1. temp' = [temp EXCEPT ![r] = "whole"] /\ setup' = r
          /\ again' = (again /\ setup = r /\ ~whole)
      BY <1>3 DEF DownloadEnds, LengthAgrees
    <2>2. again' \in BOOLEAN
      BY <2>1
    <2>3. UpdaterTypeOK'
      BY <1>1, <1>2, <2>1, <2>2 DEF UpdaterTypeOK
    <2>4. AnnouncedIsWhole'
      BY <1>1, <2>1 DEF AnnouncedIsWhole
    <2> QED BY <1>2, <2>3, <2>4 DEF Updated
  <1>4. CASE ~whole
    <2>1. temp' = [temp EXCEPT ![r] = "none"] /\ UNCHANGED <<setup, again>>
      BY <1>4 DEF DownloadEnds, LengthAgrees
    <2>2. UpdaterTypeOK'
      BY <1>1, <1>2, <2>1 DEF UpdaterTypeOK
    <2>3. AnnouncedIsWhole'
      BY <1>1, <2>1 DEF Updated, AnnouncedIsWhole
    <2> QED BY <1>2, <2>2, <2>3 DEF Updated
  <1> QED BY <1>3, <1>4

LEMMA UpdaterStays == ASSUME Updated, UNCHANGED updater PROVE Updated'
  BY DEF Updated, updater, UpdaterTypeOK, AnnouncedIsWhole

-----------------------------------------------------------------------------
\* The composition.

LEMMA Spending ==
    ASSUME left \in [Bounded -> Nat], NEW kind \in Bounded, Spend(kind)
    PROVE  left' \in [Bounded -> Nat]
  BY DEF Spend

\* Nothing of the process is left but the files.
LEMMA Leaving ==
    ASSUME Inv, Over, Stored', process' = "off", left' \in [Bounded -> Nat]
    PROVE  Inv'
  <1>1. /\ win' = NewWin /\ request' = NewRequest /\ page' = NewPage
        /\ notices' = <<>> /\ ui' = "building" /\ server' = NewServer
        /\ checker' = NewChecker /\ setup' = NoRelease /\ again' = FALSE /\ temp' = temp
    BY DEF Over
  <1>2. WindowTypeOK'
    BY <1>1 DEF NewWin, NewRequest, NewPage, WindowTypeOK, AnyPlace, Option, Ui
  <1>3. Placed'
    BY <1>1, <1>2 DEF Placed, NewWin
  <1>4. Built'
    BY <1>1 DEF Built
  <1>5. Answered'
    BY <1>1 DEF Answered, NewPage, Single, Queued
  <1>6. ServerTypeOK'
    BY <1>1 DEF NewServer, ServerTypeOK
  <1>7. Updated'
    BY <1>1 DEF Inv, Updated, UpdaterTypeOK, NewChecker, AnnouncedIsWhole
  <1> QED BY <1>3, <1>4, <1>5, <1>6, <1>7 DEF Inv, Shell

LEMMA Beginning == Init => Inv
  <1> SUFFICES ASSUME Init PROVE Inv
    OBVIOUS
  <1>1. /\ process = "off" /\ file = NoFile /\ legacy \subseteq {"window", "pip", "player"}
        /\ mem = FromLegacy /\ volume = NewVolume(DefaultVolume)
        /\ kept = [prefs |-> FromLegacy, torn |-> FALSE]
    BY DEF Init, StoreInit
  <1>2. /\ win = NewWin /\ request = NewRequest /\ page = NewPage
        /\ notices = <<>> /\ ui = "building"
    BY DEF Init, WindowInit
  <1>3. volume \in [current : Volumes \cup Beyond, unheard : Volumes \cup {NoVolume},
                    waits : Volumes \cup {NoVolume}, saved : Volumes \cup {NoVolume}]
    BY <1>1 DEF NewVolume
  <1>4. StoreTypeOK
    BY <1>1, <1>3, LegacyType DEF StoreTypeOK, Process
  <1>5. file \notin Prefs /\ Loaded = FromLegacy
    BY <1>1, Files DEF Loaded
  <1>6. Stored
    BY <1>1, <1>4, <1>5, LegacyType DEF Stored, PrefsSurvive
  <1>7. Placed
    BY <1>2 DEF Placed, NewWin, NewRequest, NewPage, WindowTypeOK, AnyPlace, Option, Ui
  <1>8. Built
    BY <1>2 DEF Built
  <1>9. Answered
    BY <1>2 DEF Answered, NewPage, Single, Queued
  <1>10. ServerTypeOK
    BY DEF Init, ServerInit, NewServer, ServerTypeOK
  <1>11. Updated
    BY DEF Init, UpdaterInit, NewChecker, Updated, UpdaterTypeOK, AnnouncedIsWhole
  <1>12. left \in [Bounded -> Nat]
    BY BudgetsAssumption DEF Init
  <1> QED BY <1>6, <1>7, <1>8, <1>9, <1>10, <1>11, <1>12 DEF Inv, Shell

LEMMA ServerStays == ASSUME ServerTypeOK, UNCHANGED server PROVE ServerTypeOK'
  BY DEF ServerTypeOK

\* A step that leaves the server alone needs Stored and Window only.
LEMMA Aside ==
    ASSUME Shell, UNCHANGED server, Stored', Window'
    PROVE  Shell'
  BY ServerStays DEF Shell, Window

LEMMA ByTheUi == ASSUME Inv, UiStep PROVE Inv'
  <1>1. Updated' /\ left' \in [Bounded -> Nat]
    BY UpdaterStays DEF Inv, UiStep
  <1>2. Shell /\ Stored /\ Window
    BY DEF Inv, Shell, Window
  <1>3. Shell'
    <2>1. CASE OnCrashNotice \/ StartReturns
      BY <1>2, <2>1, HandlingCrash, Returning
    <2>2. CASE UNCHANGED server /\ (\/ OnInit \/ OnFocusNotice \/ OnQuitNotice)
      <3>1. UNCHANGED store
        BY <2>2 DEF OnInit, OnFocusNotice, OnQuitNotice, Exit
      <3> QED BY <1>2, <2>2, <3>1, StoreStays, Initialising, HandlingFocus, HandlingQuit, Aside
    <2>3. CASE UNCHANGED server /\ (\/ OnPipNotice \/ OnFullNotice \/ LeavePip \/ TakeFull
                                    \/ FinishResize \/ CloseAll)
      BY <1>2, <2>3, HandlingPip, TurningToFull, LeavingPip, TakingFull, FinishingResize,
         Closing, Aside
    <2> QED BY <2>1, <2>2, <2>3 DEF UiStep
  <1> QED BY <1>1, <1>3 DEF Inv

\* What the user does, at the window, at the tray and in the page.
LEMMA ByTheUser ==
    ASSUME Inv, UserActs \/ ModeIsAsked \/ QuitIsAsked \/ TrayExits
    PROVE  Inv'
  <1>1. Shell /\ Stored /\ Window
    BY DEF Inv, Shell, Window
  <1>2. /\ UNCHANGED server /\ UNCHANGED updater
        /\ Spend("user") \/ Spend("mode") \/ Spend("quit")
    BY DEF UserActs, ModeIsAsked, QuitIsAsked, UpdateIsClicked, TrayExits
  <1>3. Updated' /\ left' \in [Bounded -> Nat]
    BY <1>2, UpdaterStays, Spending DEF Inv, Bounded
  <1> SUFFICES Stored' /\ Window'
    BY <1>1, <1>2, <1>3, Aside DEF Inv
  <1>4. CASE OnWindowStateChanged \/ Minimise \/ ToggleTopmost \/ OnQuit \/ OnShowHide
    BY <1>1, <1>4, Handled
  <1>5. CASE \/ \E option \in Option : AskPip(option)
             \/ TrayTogglesPip \/ PipCloses \/ AskFocus \/ AskQuit
    <2>1. UNCHANGED store
      BY <1>5 DEF AskPip, TrayTogglesPip, PipCloses, AskFocus, AskQuit
    <2> QED BY <1>1, <1>5, <2>1, Asking, StoreStays
  <1>6. CASE \E b \in BOOLEAN : AskFullScreen(b)
    <2>1. UNCHANGED store
      BY <1>6 DEF AskFullScreen
    <2> QED BY <1>1, <1>6, <2>1, AskingFull, StoreStays
  <1>7. CASE TrayExit
    <2>1. UNCHANGED store
      BY <1>7 DEF TrayExit, Exit
    <2> QED BY <1>1, <1>7, <2>1, HandlingQuit, StoreStays
  <1> QED BY <1>4, <1>5, <1>6, <1>7 DEF UserActs, ModeIsAsked, QuitIsAsked, UpdateIsClicked, TrayExits

LEMMA Invariance == Inv /\ [Next]_vars => Inv'
  <1> SUFFICES ASSUME Inv, [Next]_vars PROVE Inv'
    OBVIOUS
  <1>0. Shell /\ Stored /\ Window /\ Updated /\ left \in [Bounded -> Nat]
    BY DEF Inv, Shell, Window
  <1>1. CASE Starts
    <2>1. Shell' /\ Updated'
      BY <1>0, <1>1, Starting, UpdaterStays DEF Starts
    <2> QED BY <1>0, <1>1, <2>1, Spending DEF Starts, Inv, Bounded
  <1>2. CASE Dies
    BY <1>0, <1>2, Crashing, Leaving, Spending DEF Dies, Bounded
  <1>3. CASE Ends
    BY <1>0, <1>3, Ending, Leaving DEF Ends
  <1>4. CASE LoadsState
    <2>1. Stored' /\ ui = "building" /\ UNCHANGED window /\ UNCHANGED <<server, updater, left>>
      BY <1>0, <1>4, Loading, Removing DEF LoadsState, LoadState, RemoveLegacy, Window, Built
    <2>2. Window'
      BY <1>0, <2>1, Early
    <2> QED BY <1>0, <2>1, <2>2, Aside, UpdaterStays DEF Inv
  <1>5. CASE (\E v \in Volumes \cup Beyond : VolumeIsSet(v))
             \/ VolumeIsReported \/ VolumeIsWritten
    <2>1. /\ Stored' /\ process' = process /\ mem'.full = mem.full
          /\ UNCHANGED window /\ UNCHANGED <<server, updater>>
      BY <1>0, <1>5, Sounding DEF VolumeIsSet, VolumeIsReported, VolumeIsWritten
    <2>2. Spend("volume") \/ left' = left
      BY <1>5 DEF VolumeIsSet, VolumeIsReported, VolumeIsWritten
    <2>3. left' \in [Bounded -> Nat]
      BY <1>0, <2>2, Spending DEF Bounded
    <2>4. /\ win \in WinType /\ request \in RequestType /\ page \in PageType
          /\ notices \in Seq(Notice) /\ Single
      BY <1>0, WindowTypes DEF Window, Placed, Answered
    <2>5. UNCHANGED <<win, request, notices, ui, page>>
      BY <2>1 DEF window
    <2>6. notices' \in Seq(Notice) /\ Single' /\ (Queued("full")' <=> Queued("full"))
      BY <2>4, <2>5 DEF Single, Queued
    <2>7. Window'
      BY <1>0, <2>1, <2>4, <2>5, <2>6, Steady
    <2> QED BY <1>0, <2>1, <2>3, <2>7, Aside, UpdaterStays DEF Inv
  <1>6. CASE UserActs \/ ModeIsAsked \/ QuitIsAsked \/ TrayExits
    BY <1>6, ByTheUser
  <1>7. CASE PageIsReady
    <2>1. AppReady /\ CheckForUpdate /\ UNCHANGED <<store, server, left>>
      BY <1>7 DEF PageIsReady, AppReady
    <2> QED BY <1>0, <2>1, GettingReady, Checking, StoreStays, Aside DEF Inv
  <1>8. CASE UiStep
    BY <1>8, ByTheUi
  <1>9. CASE RuntimeIsHeard
    <2>1. Shell' /\ Updated'
      BY <1>0, <1>9, Hearing, UpdaterStays DEF RuntimeIsHeard
    <2> QED BY <1>0, <1>9, <2>1 DEF RuntimeIsHeard, Inv
  <1>10. CASE RuntimeIsOver
    <2>1. Shell' /\ Updated'
      BY <1>0, <1>10, RunningOut, UpdaterStays DEF RuntimeIsOver
    <2> QED BY <1>0, <1>10, <2>1, Spending DEF RuntimeIsOver, Inv, Bounded
  <1>11. CASE LogIsRead
    <2>1. Shell' /\ Updated'
      BY <1>0, <1>11, ClosingDialog, UpdaterStays DEF LogIsRead
    <2> QED BY <1>0, <1>11, <2>1 DEF LogIsRead, Inv
  <1>12. CASE UpdaterStep
    <2>1. Updated'
      BY <1>0, <1>12, Checking, Downloading, Downloaded DEF UpdaterStep
    <2>2. Shell'
      BY <1>0, <1>12, StoreStays, WindowStays, Aside DEF UpdaterStep
    <2> QED BY <1>0, <1>12, <2>1, <2>2, Spending DEF UpdaterStep, Inv, Bounded
  <1>13. CASE UNCHANGED vars
    BY <1>0, <1>13, StoreStays, WindowStays, Aside, UpdaterStays DEF vars, Inv
  <1> QED BY <1>1, <1>2, <1>3, <1>4, <1>5, <1>6, <1>7, <1>8, <1>9, <1>10, <1>11, <1>12, <1>13
          DEF Next

LEMMA Always == Spec => []Inv
  BY Beginning, Invariance, PTL DEF Spec

-----------------------------------------------------------------------------
\* Every variable of the shell keeps its type, whatever becomes of the process.
THEOREM Typing == Spec => []TypeOK
  <1>1. Inv => TypeOK
    BY DEF Inv, Shell, Stored, Placed, Updated, TypeOK
  <1> QED BY <1>1, Always, PTL

\* What shell_state.rs saved last, or found of an older version, is what the next start
\* reads, at whatever point of a migration or of a save the process died; only the very
\* write that is torn is lost.
THEOREM SavedSurvives == Spec => []PrefsSurvive
  <1>1. Inv => PrefsSurvive
    BY DEF Inv, Shell, Stored
  <1> QED BY <1>1, Always, PTL

\* What on_init will bring back is a window the user had: not the rectangle of a full
\* screen, which callbacks of Windows could save while app.rs changes the mode.
THEOREM WindowComesBack == Spec => []StoredWindow
  <1>1. Inv => StoredWindow
    BY DEF Inv, Shell, Stored, Built, StoredWindow, Idle
  <1> QED BY <1>1, Always, PTL

\* A page that waits for the answer to "win-set-visibility" gets the mode it asked for and
\* hears of it, however requests for picture in picture come in between.
THEOREM ModeIsAnswered == Spec => []PageGetsItsMode
  <1>1. Inv => PageGetsItsMode
    BY DEF Inv, Shell, Answered, Awaited, PageGetsItsMode, Idle
  <1> QED BY <1>1, Always, PTL

\* The installer that updater.rs has announced is whole for as long as the next check has
\* not begun to download it again.
THEOREM AnnouncedInstaller == Spec => []AnnouncedIsWhole
  <1>1. Inv => AnnouncedIsWhole
    BY DEF Inv, Updated
  <1> QED BY <1>1, Always, PTL

=============================================================================
