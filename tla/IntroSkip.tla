----------------------------- MODULE IntroSkip -----------------------------
(***************************************************************************)
(* The thread of Stremio Shell that skips intros, recaps and outros        *)
(* (intro_skip.rs): every 250 ms it looks at the page's route and at the   *)
(* player's globals, and seeks by the titles of the file's chapters or by  *)
(* segments it has looked up in two databases.                             *)
(*                                                                         *)
(* A route says which video the page wants, the player's globals say what  *)
(* the file does that mpv has loaded, and nothing says that the file is    *)
(* the route's.  The thread concludes it from FILE_LOAD_EPOCH, which       *)
(* counts loaded files.  The lookup blocks the thread for up to minutes.   *)
(*                                                                         *)
(* The page and the player are the environment.  PlayerController shows    *)
(* that files of earlier loads may still be reported as loaded, and that   *)
(* files are loaded again without the page's doing; so it is here.         *)
(***************************************************************************)
EXTENDS Integers, Sequences, FiniteSets

CONSTANTS
    Routes,         \* URLs of the page's player, one for each stream
    NoRoute,        \* any other page
    Videos,         \* video ids
    VideoOf,        \* the video id in a route
    Media,          \* keys of the databases
    NoMedia,
    MediaOf,        \* what parse_video_id or Kitsu makes of a video id
    Kitsu,          \* the video ids for which Kitsu must be asked
    Episodes,       \* the media that have a season and an episode
    Answers,        \* what each database may say of each media
    Chapters,       \* the chapters' titles in a route's file, by kind
    Wanted,         \* the kinds that are to be skipped: IntroSkipConfig
    Length,         \* the length of a file, in steps of the clock
    MaxVisits,      \* bounds: changes of the route, reloads
    MaxReloads

Kinds == {"Intro", "Recap", "Outro"}
Apis == {"IntroDbApp", "TheIntroDb"}
Time == 0..Length
NoEnd == -1
Segment == [api : Apis, kind : Kinds, start : Time, end : Nat \cup {NoEnd}]

ASSUME RoutesAssumption ==
    /\ NoRoute \notin Routes
    /\ VideoOf \in [Routes -> Videos]
    /\ Chapters \in [Routes -> Seq(Kinds \cup {"Plain"})]
ASSUME MediaAssumption ==
    /\ NoMedia \notin Media
    /\ MediaOf \in [Videos -> Media \cup {NoMedia}]
    /\ Kitsu \subseteq Videos
    /\ Episodes \subseteq Media
    /\ Answers \in [Apis -> [Media -> SUBSET SUBSET Segment]]
ASSUME SourcesAssumption ==
    \A api \in Apis, m \in Media : \A a \in Answers[api][m] : \A s \in a : s.api = api
ASSUME BoundsAssumption ==
    /\ Wanted \subseteq Kinds
    /\ Length \in Nat \ {0}
    /\ MaxVisits \in Nat
    /\ MaxReloads \in Nat

VARIABLES
    page,       \* CURRENT_URL, and what the page has yet to tell the player
    role,       \* LOBBY_ROLE
    player,     \* the player's globals, its file and the loads under way
    loop,       \* the thread's variables about the route
    turn,       \* where the thread is, and the position it has read
    skipped,    \* skip_history
    cached,     \* segments_cache
    sent,       \* history: the skips that were sent
    left        \* how often the user and failures may still act

vars == <<page, role, player, loop, turn, skipped, cached, sent, left>>
world == <<page, role, player, left>>

-----------------------------------------------------------------------------
AnyRoute == Routes \cup {NoRoute}
NoEpoch == -1
Epoch == Nat \cup {NoEpoch}

\* CURRENT_TIME, TOTAL_DURATION, IS_PAUSED, IS_FILE_LOADED, FILE_LOAD_EPOCH,
\* CURRENT_CHAPTER and CURRENT_CHAPTER_TITLE, with the route whose file mpv has
\* and the routes whose files it was told to load.
Player ==
    [time : Time, duration : {0, Length}, paused : BOOLEAN, loaded : BOOLEAN,
     epoch : Nat, chapter : Int, title : Kinds \cup {"Plain"},
     file : AnyRoute, coming : Seq(Routes)]

NewPlayer ==
    [time |-> 0, duration |-> 0, paused |-> FALSE, loaded |-> FALSE,
     epoch |-> 0, chapter |-> -1, title |-> "Plain",
     file |-> NoRoute, coming |-> <<>>]

\* last_player_route, bound_file_epoch, required_file_epoch, current_segments
\* (empty for None) and whether next_resolve_at has passed.
NewLoop ==
    [route |-> NoRoute, bound |-> NoEpoch, required |-> NoEpoch, segs |-> {},
     due |-> TRUE]

\* SegmentKey, and a chapter's index in the same form.
SegmentKey(s) == [kind |-> s.kind, start |-> s.start, end |-> s.end]
ChapterKey(i) == [kind |-> "Chapter", start |-> i, end |-> i]
Key == [kind : Kinds \cup {"Chapter"}, start : Nat, end : Nat \cup {NoEnd}]

Init ==
    /\ page = [url |-> NoRoute, owes |-> "nothing"]
    /\ role = "None"
    /\ player = NewPlayer
    /\ loop = NewLoop
    /\ turn = [at |-> "sleep", time |-> 0]
    /\ skipped = {}
    /\ cached = [m \in Media |-> [known |-> FALSE, segs |-> {}]]
    /\ sent = <<>>
    /\ left = [visits |-> MaxVisits, reloads |-> MaxReloads]

-----------------------------------------------------------------------------
(* The databases.                                                          *)

\* Bug: segments are kept as the database has them.
UsableAny(s) == TRUE

\* normalize_introdb_segment, parse_theintrodb_ranges: only outros may be open.
Usable(s) ==
    /\ s.kind \in Wanted
    /\ IF s.end = NoEnd THEN s.kind = "Outro" ELSE s.end > s.start

\* An answer of a database: an error, or the segments it names, which are none after
\* a 404.
Failure == [ok |-> FALSE, segs |-> {}]
AnswersOf(api, m) == {Failure} \cup {[ok |-> TRUE, segs |-> a] : a \in Answers[api][m]}

\* Bug: kinds that introdb.app has supplied are taken again.
MissingAll(m, first) == Wanted

\* The kinds that TheIntroDb is asked for after introdb.app has answered.
Missing(m, first) ==
    IF m \in Episodes THEN Wanted \ {s.kind : s \in first} ELSE Wanted

\* fetch_skip_segments with the answers a and b of the two databases.
Fetched(m, a, b) ==
    LET first == IF m \in Episodes THEN {s \in a.segs : Usable(s)} ELSE {}
        asked == m \notin Episodes \/ Missing(m, first) # {}
        second == IF asked
                  THEN {s \in b.segs : Usable(s) /\ s.kind \in Missing(m, first)}
                  ELSE {}
        failed == \/ asked /\ ~b.ok /\ first = {}
                  \/ m \in Episodes /\ ~a.ok /\ second = {}
    IN [ok |-> ~failed, segs |-> first \cup second]

-----------------------------------------------------------------------------
(* What to skip.                                                           *)

\* is_plausible_outro.
Plausible(s, duration) ==
    s.kind = "Outro" /\ s.api = "TheIntroDb" =>
        duration > 0 /\ 2 * s.start >= duration

\* The segments the position is in, with an epsilon of 1 s before them.
Around(segs, v, time, duration) ==
    {s \in segs : /\ <<v, SegmentKey(s)>> \notin skipped
                  /\ Plausible(s, duration)
                  /\ time + 1 >= s.start
                  /\ s.end = NoEnd \/ time < s.end}

\* The first of them, since they are sorted by their starts.
Earliest(segs) == {s \in segs : \A t \in segs : s.start <= t.start}

\* Bug: what has no end in the file is not skipped.
SkipActionClosed(s, duration) ==
    IF s.end = NoEnd \/ (duration > 0 /\ s.end > duration) THEN "none" ELSE "seek"

\* effective_skip_action_for_duration.
SkipAction(s, duration) ==
    CASE s.end = NoEnd -> IF s.kind = "Outro" THEN "next" ELSE "none"
      [] s.end # NoEnd /\ duration > 0 /\ s.end > duration ->
            IF s.kind = "Outro" THEN "next" ELSE "none"
      [] s.end # NoEnd /\ duration > 0 /\ s.end = duration ->
            IF s.kind = "Outro" THEN "next" ELSE "seek"
      [] OTHER -> "seek"

\* A lookup has gone on while the page changed its route or another file was loaded.
Outlasted == turn.at = "lookup" /\ (page.url # loop'.route \/ player.epoch # loop'.bound)

\* What the history tells of a skip: for which route the thread sends it, and which
\* route the page shows and which file mpv has at that moment, whatever the thread
\* has made of them.
SkipOf(v, key, do) ==
    [video |-> v, key |-> key, do |-> do, route |-> loop'.route,
     page |-> page.url, epoch |-> player.epoch, file |-> player.file,
     outlasted |-> Outlasted]

\* Bug: a key sent to the page is not remembered.
SendKeyForgotten(v, key, do) ==
    /\ sent' = Append(sent, SkipOf(v, key, do))
    /\ skipped' = IF do = "next" THEN skipped ELSE skipped \cup {<<v, key>>}

\* A command to the player or a key to the page, which is remembered.
Send(v, key, do) ==
    /\ sent' = Append(sent, SkipOf(v, key, do))
    /\ skipped' = skipped \cup {<<v, key>>}

\* The end of a turn: skip the segment that the position read before is in.  Within
\* the last 0.05 s of a segment it counts as skipped, and nothing is sent.
SkipSegment(v, time) ==
    LET around == Around(loop'.segs, v, time, player.duration) IN
    IF around = {} THEN UNCHANGED <<skipped, sent>>
    ELSE \E s \in Earliest(around) :
           LET do == SkipAction(s, player.duration) IN
           \/ do = "none" /\ UNCHANGED <<skipped, sent>>
           \/ do # "none" /\ Send(v, SegmentKey(s), do)
           \/ /\ do = "seek" /\ time = s.end - 1
              /\ skipped' = skipped \cup {<<v, SegmentKey(s)>>}
              /\ UNCHANGED sent

-----------------------------------------------------------------------------
(* A turn of the thread.                                                   *)

\* Bug: the last file that was accepted will do for the new route.
RequiredBound(l) ==
    IF l.bound # NoEpoch THEN l.bound
    ELSE IF player.loaded THEN player.epoch ELSE player.epoch + 1

\* Bug: the new route's file is always yet to come.
RequiredNext(l) == player.epoch + 1

\* The first epoch whose file can be the new route's.
Required(l) ==
    IF l.bound # NoEpoch THEN l.bound + 1
    ELSE IF player.loaded THEN player.epoch ELSE player.epoch + 1

\* Bug: the segments of the last route are kept.
RoutedKeepingSegs(l) ==
    IF page.url = l.route THEN l
    ELSE [l EXCEPT !.route = page.url, !.due = TRUE,
                   !.required = IF page.url = NoRoute THEN NoEpoch ELSE Required(l)]

\* The thread's variables after it has looked at the route.
Routed(l) ==
    IF page.url = l.route THEN l
    ELSE [l EXCEPT !.route = page.url, !.segs = {}, !.due = TRUE,
                   !.required = IF page.url = NoRoute THEN NoEpoch ELSE Required(l)]

GateOpen(l) ==
    /\ l.route # NoRoute
    /\ ~player.paused
    /\ player.loaded
    /\ player.epoch >= l.required

Bind(l) == [l EXCEPT !.bound = player.epoch]

\* A turn starts, unless this shell is a guest.
Awake == turn.at = "sleep" /\ role # "Guest"

ChapterToSkip(v) ==
    /\ player.chapter >= 0
    /\ <<v, ChapterKey(player.chapter)>> \notin skipped
    /\ player.title \in Wanted

LookElsewhere ==
    /\ Awake
    /\ ~GateOpen(Routed(loop))
    /\ loop' = Routed(loop)
    /\ UNCHANGED <<world, turn, skipped, cached, sent>>

\* Chapters come before segments.  The last one's outro ends the file, if the number
\* of chapters has been reported.
SkipChapter ==
    /\ Awake
    /\ GateOpen(Routed(loop))
    /\ loop' = Bind(Routed(loop))
    /\ LET v == VideoOf[loop'.route]
           final == /\ player.title = "Outro"
                    /\ player.chapter = Len(Chapters[player.file]) - 1
       IN /\ ChapterToSkip(v)
          /\ \E do \in {"chapter"} \cup (IF final THEN {"next"} ELSE {}) :
               Send(v, ChapterKey(player.chapter), do)
    /\ UNCHANGED <<world, turn, cached>>

\* resolve_media_and_segments starts, and blocks the thread.
StartLookup ==
    /\ Awake
    /\ GateOpen(Routed(loop))
    /\ loop' = Bind(Routed(loop))
    /\ ~ChapterToSkip(VideoOf[loop'.route])
    /\ loop'.segs = {}
    /\ loop'.due
    /\ turn' = [at |-> "lookup", time |-> player.time]
    /\ UNCHANGED <<world, skipped, cached, sent>>

\* No lookup is needed, or none is due.
LookForSegment ==
    /\ Awake
    /\ GateOpen(Routed(loop))
    /\ loop' = Bind(Routed(loop))
    /\ ~ChapterToSkip(VideoOf[loop'.route])
    /\ loop'.segs # {} \/ ~loop'.due
    /\ SkipSegment(VideoOf[loop'.route], player.time)
    /\ UNCHANGED <<world, turn, cached>>

\* What resolve_media_and_segments returns: for a video of no media nothing, else
\* what is cached, or what the databases say.
Resolved(v, a, b) ==
    LET m == MediaOf[v] IN
    CASE m = NoMedia -> [ok |-> TRUE, segs |-> {}]
      [] m # NoMedia /\ cached[m].known -> [ok |-> TRUE, segs |-> cached[m].segs]
      [] OTHER -> Fetched(m, a, b)

\* Kitsu fails.  Its cache saves requests and is left out.  next_resolve_at is 15 s
\* ahead.
KitsuFails ==
    /\ turn.at = "lookup"
    /\ VideoOf[loop.route] \in Kitsu
    /\ turn' = [turn EXCEPT !.at = "sleep"]
    /\ loop' = [loop EXCEPT !.due = FALSE]
    /\ UNCHANGED <<world, skipped, cached, sent>>

\* Kitsu, if asked, and the databases have answered.  next_resolve_at is 15 s ahead
\* after an error, an hour otherwise.
LookupEnds ==
    /\ turn.at = "lookup"
    /\ LET v == VideoOf[loop.route]
           m == MediaOf[v]
       IN /\ \E a \in IF m = NoMedia THEN {Failure} ELSE AnswersOf("IntroDbApp", m),
                b \in IF m = NoMedia THEN {Failure} ELSE AnswersOf("TheIntroDb", m) :
               LET found == Resolved(v, a, b) IN
               /\ loop' = [loop EXCEPT !.segs = found.segs, !.due = FALSE]
               /\ cached' = IF m # NoMedia /\ found.ok
                            THEN [cached EXCEPT ![m] = [known |-> TRUE, segs |-> found.segs]]
                            ELSE cached
          /\ SkipSegment(v, turn.time)
    /\ turn' = [turn EXCEPT !.at = "sleep"]
    /\ UNCHANGED world

\* next_resolve_at has come.
ResolveIsDue ==
    /\ ~loop.due
    /\ loop' = [loop EXCEPT !.due = TRUE]
    /\ UNCHANGED <<world, turn, skipped, cached, sent>>

Turn == LookElsewhere \/ SkipChapter \/ StartLookup \/ LookForSegment
EndLookup == KitsuFails \/ LookupEnds

-----------------------------------------------------------------------------
(* The page and the player.                                                *)

thread == <<loop, turn, skipped, cached, sent>>

\* The route changes.  The page then loads the new route's stream, or stops.
Navigate(r) ==
    /\ r # page.url
    /\ left.visits > 0
    /\ left' = [left EXCEPT !.visits = @ - 1]
    /\ page' = [url |-> r, owes |-> IF r = NoRoute THEN "stop" ELSE "load"]
    /\ UNCHANGED <<role, player, thread>>

\* capture_loadfile_url and send_loadfile_now.
PageLoads ==
    /\ page.owes = "load"
    /\ page' = [page EXCEPT !.owes = "nothing"]
    /\ player' = [player EXCEPT !.coming = Append(@, page.url), !.loaded = FALSE,
                                !.time = 0, !.duration = 0]
    /\ UNCHANGED <<role, left, thread>>

\* handle_stop, or the file ends.
FileStops ==
    /\ page.owes = "stop" \/ player.loaded
    /\ page' = IF page.owes = "stop" THEN [page EXCEPT !.owes = "nothing"] ELSE page
    /\ player' = [player EXCEPT !.file = NoRoute, !.loaded = FALSE]
    /\ UNCHANGED <<role, left, thread>>

\* The player reloads a local stream that ended early or hangs.
Reload ==
    /\ left.reloads > 0
    /\ player.loaded
    /\ left' = [left EXCEPT !.reloads = @ - 1]
    /\ player' = [player EXCEPT !.coming = Append(@, player.file), !.loaded = FALSE]
    /\ UNCHANGED <<page, role, thread>>

\* on_start_file and on_file_loaded, of the oldest load that was not dropped.
FileLoads ==
    /\ player.coming # <<>>
    /\ player' = [player EXCEPT !.file = Head(player.coming), !.coming = Tail(@),
                                !.loaded = TRUE, !.epoch = @ + 1,
                                !.time = 0, !.duration = 0,
                                !.chapter = -1, !.title = "Plain"]
    /\ UNCHANGED <<page, role, left, thread>>

\* A load is aborted, or it fails.
FileFails ==
    /\ player.coming # <<>>
    /\ player' = [player EXCEPT !.coming = Tail(@)]
    /\ UNCHANGED <<page, role, left, thread>>

\* update_current_property: mpv reports position and duration, the chapter, and
\* after it the chapter's title.
MpvReportsTime(t) ==
    /\ player.loaded
    /\ player' = [player EXCEPT !.time = t, !.duration = Length]
    /\ UNCHANGED <<page, role, left, thread>>

MpvReportsChapter(i) ==
    /\ player.loaded
    /\ i < Len(Chapters[player.file])
    /\ player' = [player EXCEPT !.chapter = i]
    /\ UNCHANGED <<page, role, left, thread>>

MpvReportsTitle ==
    /\ player.loaded
    /\ player.chapter >= 0
    /\ player' = [player EXCEPT !.title = Chapters[player.file][player.chapter + 1]]
    /\ UNCHANGED <<page, role, left, thread>>

TogglePause ==
    /\ player' = [player EXCEPT !.paused = ~@]
    /\ UNCHANGED <<page, role, left, thread>>

\* The user joins somebody's party, or leaves it.
ChangeRole ==
    /\ role' = IF role = "Guest" THEN "None" ELSE "Guest"
    /\ UNCHANGED <<page, player, left, thread>>

World ==
    \/ \E r \in AnyRoute : Navigate(r)
    \/ PageLoads \/ FileStops \/ Reload \/ FileLoads \/ FileFails
    \/ \E t \in Time : MpvReportsTime(t)
    \/ \E i \in 0..Length : MpvReportsChapter(i)
    \/ MpvReportsTitle \/ TogglePause \/ ChangeRole

Next == Turn \/ EndLookup \/ ResolveIsDue \/ World

Spec == Init /\ [][Next]_vars

\* The loop goes on whatever happens, and requests have a timeout.
FairSpec == Spec /\ WF_vars(Turn) /\ WF_vars(EndLookup)

-----------------------------------------------------------------------------
(* Properties.                                                             *)

Skip == [video : Videos, key : Key, do : {"seek", "next", "chapter"},
         route : Routes, page : AnyRoute, epoch : Nat, file : AnyRoute,
         outlasted : BOOLEAN]

\* Segments with a length, or open outros.
Span == {s \in Segment : IF s.end = NoEnd THEN s.kind = "Outro" ELSE s.end > s.start}

\* Every variable has its type, and only segments that may be skipped are kept
\* (normalize_introdb_segment, parse_theintrodb_ranges, retain).
TypeOK ==
    /\ page \in [url : AnyRoute, owes : {"nothing", "load", "stop"}]
    /\ role \in {"None", "Guest"}
    /\ player \in Player
    /\ player.chapter >= -1
    /\ loop \in [route : AnyRoute, bound : Epoch, required : Epoch,
                 segs : SUBSET Span, due : BOOLEAN]
    /\ turn \in [at : {"sleep", "lookup"}, time : Time]
    /\ skipped \subseteq Videos \X Key
    /\ cached \in [Media -> [known : BOOLEAN, segs : SUBSET Span]]
    /\ sent \in Seq(Skip)
    /\ left \in [{"visits", "reloads"} -> Nat]

\* However routes and files follow each other, what is skipped while one file is
\* loaded is skipped while the page shows one route: what required_file_epoch and
\* bound_file_epoch are for.  The code does not look at either again after a lookup:
\* a skip at the end of one that has outlasted a change of route or of file is
\* excepted, and no other.
OneRoutePerFile ==
    \A i, j \in DOMAIN sent :
        /\ sent[i].epoch = sent[j].epoch
        /\ ~sent[i].outlasted /\ ~sent[j].outlasted
        => sent[i].page = sent[j].page

\* Nothing is skipped twice in a session, though a user may go back to it, change
\* the stream, or look it up again (SkipHistory; the test
\* skip_history_keeps_manual_rewinds_opted_in_for_the_session).
SkippedOnce ==
    \A i, j \in DOMAIN sent :
        sent[i].video = sent[j].video /\ sent[i].key = sent[j].key => i = j

\* The route that a skip must be for: the page's, but for the exception.
SkipRoute(k) == IF k.outlasted THEN k.route ELSE k.page

\* Whichever way lookups, the cache and changes of the route interleave, segments are
\* skipped only if they were named for the video of the route that the page shows at
\* that moment (current_segments).  The exception is what the code does at the end of
\* a lookup that has outlasted a change: it then skips what was named for the route
\* that it looked up, in whatever plays.
SkipsAreOfRoute ==
    \A i \in DOMAIN sent : sent[i].key.kind # "Chapter" =>
        /\ SkipRoute(sent[i]) \in Routes
        /\ \E api \in Apis :
              \E a \in Answers[api][MediaOf[VideoOf[SkipRoute(sent[i])]]] :
                 \E s \in a : SegmentKey(s) = sent[i].key

\* The two databases never both supply one kind for an episode, which would skip it
\* by both their ends (fetch_skip_segments).
OneSourcePerKind ==
    \A m \in Episodes : \A s, t \in cached[m].segs : s.kind = t.kind => s.api = t.api

\* The page shows a route's player, which plays the route's file.
Watching ==
    /\ page.url \in Routes /\ page.owes = "nothing"
    /\ player.file = page.url
    /\ player.coming = <<>>
    /\ player.loaded
    /\ ~player.paused
    /\ role # "Guest"

\* The thread takes that file for the route's.
Accepted ==
    /\ loop.route = page.url
    /\ loop.bound = player.epoch
    /\ player.epoch >= loop.required

\* The thread's epochs never lock it out of a file that plays for its own route,
\* whatever was visited, reloaded or dropped before (required_file_epoch).
GateOpens == Watching /\ ~Accepted ~> ~Watching \/ Accepted

\* The file plays within segments that were looked up for it, none of which names an
\* end that the file does not have.
InSegments ==
    /\ Watching /\ Accepted
    /\ Around(loop.segs, VideoOf[page.url], player.time, player.duration) # {}
    /\ \A s \in loop.segs : s.kind # "Outro" => s.end <= Length

\* Playback does not stay in a segment that has been looked up: each is skipped,
\* whatever chapters and lookups come first (run_intro_skip_loop).
SegmentsAreSkipped == InSegments ~> ~InSegments

-----------------------------------------------------------------------------
(* What a comment says and the code does not keep.                         *)

\* FILE_LOAD_EPOCH: "Consumers use this to avoid applying route-scoped actions to
\* the previous file."
NotToPreviousFile ==
    \A i \in DOMAIN sent : sent[i].file \in {sent[i].route, NoRoute}

=============================================================================
