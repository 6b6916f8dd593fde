-------------------------- MODULE IntroSkipProofs --------------------------
(***************************************************************************)
(* Proofs about IntroSkip for any routes, videos, databases and bounds:    *)
(* types, that nothing is skipped twice, that a loaded file is treated as  *)
(* the file of one route only, and where the segments come from.           *)
(***************************************************************************)
EXTENDS IntroSkip, TLAPS

Loop == [route : AnyRoute, bound : Epoch, required : Epoch, segs : SUBSET Span,
         due : BOOLEAN]

\* What the environment and the thread keep beside their types.
Linked ==
    /\ page.owes = "load" => page.url \in Routes
    /\ player.loaded => player.file \in Routes
                        /\ player.chapter < Len(Chapters[player.file])
    /\ turn.at = "lookup" => /\ loop.route \in Routes
                             /\ loop.bound \in Nat
                             /\ loop.bound >= loop.required

Typed == TypeOK /\ Linked

-----------------------------------------------------------------------------
(* Types of the operators.                                                 *)

\* What the databases say and is kept has a length, or is an open outro.
LEMMA FetchedType ==
    ASSUME NEW m \in Media,
           NEW a \in AnswersOf("IntroDbApp", m),
           NEW b \in AnswersOf("TheIntroDb", m)
    PROVE  Fetched(m, a, b).segs \subseteq Span
<1>1. a.segs \subseteq Segment /\ b.segs \subseteq Segment
  BY MediaAssumption DEF AnswersOf, Failure, Apis
<1>2. \A s \in Segment : Usable(s) => s \in Span
  BY DEF Usable, Span
<1> DEFINE first == IF m \in Episodes THEN {s \in a.segs : Usable(s)} ELSE {}
           asked == m \notin Episodes \/ Missing(m, first) # {}
           second == IF asked
                     THEN {s \in b.segs : Usable(s) /\ s.kind \in Missing(m, first)}
                     ELSE {}
<1>3. first \subseteq Span /\ second \subseteq Span
  <2> HIDE DEF asked
  <2> QED BY <1>1, <1>2
<1>4. Fetched(m, a, b).segs = first \cup second
  BY DEF Fetched
<1> QED BY <1>3, <1>4

\* A lookup returns segments that may be kept.
LEMMA ResolvedType ==
    ASSUME TypeOK, NEW v \in Videos,
           NEW a, NEW b,
           MediaOf[v] # NoMedia => /\ a \in AnswersOf("IntroDbApp", MediaOf[v])
                                   /\ b \in AnswersOf("TheIntroDb", MediaOf[v])
    PROVE  Resolved(v, a, b).segs \subseteq Span
<1>1. CASE MediaOf[v] = NoMedia
  BY <1>1 DEF Resolved
<1>2. CASE MediaOf[v] # NoMedia
  <2>1. MediaOf[v] \in Media
    BY <1>2, MediaAssumption
  <2>2. CASE cached[MediaOf[v]].known
    BY <1>2, <2>1, <2>2 DEF Resolved, TypeOK
  <2>3. CASE ~cached[MediaOf[v]].known
    <3>1. Resolved(v, a, b) = Fetched(MediaOf[v], a, b)
      BY <1>2, <2>3 DEF Resolved
    <3> QED BY <3>1, <1>2, <2>1, FetchedType
  <2> QED BY <2>2, <2>3
<1> QED BY <1>1, <1>2

LEMMA SkipActionType ==
    ASSUME NEW s, NEW d
    PROVE  SkipAction(s, d) \in {"seek", "next", "none"}
BY DEF SkipAction

\* The thread's variables after a look at the route.
LEMMA RoutedType ==
    ASSUME TypeOK
    PROVE  /\ Routed(loop) \in Loop
           /\ Routed(loop).route = page.url
           /\ Routed(loop).bound = loop.bound
<1>1. loop \in Loop /\ page.url \in AnyRoute /\ player.epoch \in Nat
  BY DEF TypeOK, Loop, Player
<1>2. Required(loop) \in Epoch
  BY <1>1 DEF Required, Loop, Epoch, NoEpoch
<1>3. CASE page.url = loop.route
  BY <1>1, <1>3 DEF Routed
<1>4. CASE page.url # loop.route
  <2>1. Routed(loop) = [loop EXCEPT !.route = page.url, !.segs = {}, !.due = TRUE,
                   !.required = IF page.url = NoRoute THEN NoEpoch ELSE Required(loop)]
    BY <1>4 DEF Routed
  <2> QED BY <1>1, <1>2, <2>1 DEF Loop, Epoch
<1> QED BY <1>3, <1>4

\* An accepted file binds the thread to its epoch.
LEMMA BindType ==
    ASSUME TypeOK, GateOpen(Routed(loop))
    PROVE  /\ Bind(Routed(loop)) \in Loop
           /\ Bind(Routed(loop)).route = page.url
           /\ Bind(Routed(loop)).route \in Routes
           /\ Bind(Routed(loop)).bound = player.epoch
           /\ Bind(Routed(loop)).bound \in Nat
           /\ Bind(Routed(loop)).required = Routed(loop).required
           /\ Bind(Routed(loop)).segs = Routed(loop).segs
           /\ player.epoch >= Routed(loop).required
<1>1. page.url \in AnyRoute /\ player.epoch \in Nat
  BY DEF TypeOK, Player
<1> QED BY <1>1, RoutedType DEF Bind, GateOpen, Loop, Epoch, AnyRoute

-----------------------------------------------------------------------------
(* What a step does to the skips.                                          *)

\* At most one skip is sent, of a chapter or of a segment that the thread keeps, which
\* was not skipped before, for the video of the thread's route, which the page shows
\* unless a lookup has outlasted it; nothing that was skipped is forgotten.
SendsAtMostOne ==
    \/ sent' = sent /\ skipped \subseteq skipped' /\ skipped' \subseteq Videos \X Key
    \/ /\ loop'.route \in Routes /\ loop'.bound \in Nat
       /\ Outlasted \/ (page.url = loop'.route /\ player.epoch = loop'.bound)
       /\ \E key \in Key, do \in {"seek", "next", "chapter"} :
             /\ key.kind = "Chapter" \/ \E s \in loop'.segs : key = SegmentKey(s)
             /\ <<VideoOf[loop'.route], key>> \notin skipped
             /\ Send(VideoOf[loop'.route], key, do)

\* Segments are skipped only around the position.
LEMMA SegmentSent ==
    ASSUME TypeOK, NEW time \in Time, loop'.route \in Routes, loop'.bound \in Nat,
           loop'.segs \subseteq Span,
           Outlasted \/ (page.url = loop'.route /\ player.epoch = loop'.bound),
           SkipSegment(VideoOf[loop'.route], time)
    PROVE  SendsAtMostOne
<1> DEFINE v == VideoOf[loop'.route]
           around == Around(loop'.segs, v, time, player.duration)
<1>1. v \in Videos
  BY RoutesAssumption
<1>2. skipped \subseteq Videos \X Key
  BY DEF TypeOK
<1>3. CASE around = {}
  BY <1>2, <1>3 DEF SkipSegment, SendsAtMostOne
<1>4. CASE around # {}
  <2>1. PICK s \in Earliest(around) :
           LET do == SkipAction(s, player.duration) IN
           \/ do = "none" /\ UNCHANGED <<skipped, sent>>
           \/ do # "none" /\ Send(v, SegmentKey(s), do)
           \/ /\ do = "seek" /\ time = s.end - 1
              /\ skipped' = skipped \cup {<<v, SegmentKey(s)>>}
              /\ UNCHANGED sent
    BY <1>4 DEF SkipSegment
  <2>2. s \in loop'.segs /\ <<v, SegmentKey(s)>> \notin skipped
    BY DEF Earliest, Around
  <2>3. SegmentKey(s) \in Key
    <3>1. s \in Segment
      BY <2>2 DEF Span
    <3> QED BY <3>1 DEF Segment, SegmentKey, Key, Time
  <2>4. SkipAction(s, player.duration) \in {"seek", "next", "none"}
    BY SkipActionType
  <2>5. CASE UNCHANGED <<skipped, sent>>
    BY <1>2, <2>5 DEF SendsAtMostOne
  <2>6. CASE /\ SkipAction(s, player.duration) # "none"
             /\ Send(v, SegmentKey(s), SkipAction(s, player.duration))
    BY <2>2, <2>3, <2>4, <2>6 DEF SendsAtMostOne
  <2>7. CASE skipped' = skipped \cup {<<v, SegmentKey(s)>>} /\ UNCHANGED sent
    BY <1>1, <1>2, <2>3, <2>7 DEF SendsAtMostOne
  <2> QED BY <2>1, <2>5, <2>6, <2>7
<1> QED BY <1>3, <1>4

\* One step of the thread sends at most one skip.
LEMMA ThreadSends ==
    ASSUME Typed, Turn \/ EndLookup \/ ResolveIsDue
    PROVE  SendsAtMostOne
<1> USE DEF Typed
<1>1. skipped \subseteq Videos \X Key
  BY DEF TypeOK
<1>2. CASE LookElsewhere \/ StartLookup \/ KitsuFails \/ ResolveIsDue
  <2>1. UNCHANGED <<skipped, sent>>
    BY <1>2 DEF LookElsewhere, StartLookup, KitsuFails, ResolveIsDue
  <2> QED BY <1>1, <2>1 DEF SendsAtMostOne
<1>3. CASE SkipChapter
  <2>1. loop' = Bind(Routed(loop)) /\ GateOpen(Routed(loop))
    BY <1>3 DEF SkipChapter
  <2>2. /\ loop'.route \in Routes /\ loop'.bound \in Nat
        /\ page.url = loop'.route /\ player.epoch = loop'.bound
    BY <2>1, BindType
  <2>3. player.chapter \in Int
    BY DEF TypeOK, Player
  <2>4. /\ ChapterToSkip(VideoOf[loop'.route])
        /\ \E do \in {"chapter", "next"} :
             Send(VideoOf[loop'.route], ChapterKey(player.chapter), do)
    BY <1>3, Zenon DEF SkipChapter
  <2>5. ChapterKey(player.chapter) \in Key /\ ChapterKey(player.chapter).kind = "Chapter"
    BY <2>3, <2>4 DEF ChapterToSkip, ChapterKey, Key
  <2> QED BY <2>2, <2>4, <2>5 DEF SendsAtMostOne, ChapterToSkip
<1>4. CASE LookForSegment
  <2>1. loop' = Bind(Routed(loop)) /\ GateOpen(Routed(loop))
    BY <1>4 DEF LookForSegment
  <2>2. /\ loop'.route \in Routes /\ loop'.bound \in Nat /\ loop'.segs \subseteq Span
        /\ page.url = loop'.route /\ player.epoch = loop'.bound
    BY <2>1, BindType DEF Loop
  <2>3. player.time \in Time
    BY DEF TypeOK, Player
  <2>4. SkipSegment(VideoOf[loop'.route], player.time)
    BY <1>4 DEF LookForSegment
  <2> QED BY <2>2, <2>3, <2>4, SegmentSent
<1>5. CASE LookupEnds
  <2>1. loop.route \in Routes /\ loop.bound \in Nat /\ loop \in Loop /\ turn.time \in Time
    BY <1>5 DEF LookupEnds, Linked, TypeOK, Loop
  <2> DEFINE v == VideoOf[loop.route]
             m == MediaOf[v]
  <2>2. v \in Videos
    BY <2>1, RoutesAssumption
  <2>3. PICK a, b :
           /\ m # NoMedia => a \in AnswersOf("IntroDbApp", m) /\ b \in AnswersOf("TheIntroDb", m)
           /\ loop' = [loop EXCEPT !.segs = Resolved(v, a, b).segs, !.due = FALSE]
    BY <1>5 DEF LookupEnds
  <2>4. Resolved(v, a, b).segs \subseteq Span
    BY <2>2, <2>3, ResolvedType
  <2>5. loop'.route = loop.route /\ loop'.bound = loop.bound /\ loop'.segs \subseteq Span
    BY <2>1, <2>3, <2>4 DEF Loop
  <2>6. SkipSegment(v, turn.time)
    BY <1>5 DEF LookupEnds
  <2>7. Outlasted \/ (page.url = loop'.route /\ player.epoch = loop'.bound)
    BY <1>5 DEF LookupEnds, Outlasted
  <2> QED BY <2>1, <2>5, <2>6, <2>7, SegmentSent
<1> QED BY <1>2, <1>3, <1>4, <1>5 DEF Turn, EndLookup

\* Nothing but the thread sends.
LEMMA StepSends ==
    ASSUME Typed, [Next]_vars
    PROVE  SendsAtMostOne \/ UNCHANGED thread
<1>1. World => UNCHANGED thread
  BY DEF World, Navigate, PageLoads, FileStops, Reload, FileLoads, FileFails,
         MpvReportsTime, MpvReportsChapter, MpvReportsTitle, TogglePause, ChangeRole
<1>2. UNCHANGED vars => UNCHANGED thread
  BY DEF vars, thread
<1> QED BY <1>1, <1>2, ThreadSends DEF Next

-----------------------------------------------------------------------------
(* Types.                                                                  *)

\* How the thread's variables about the route change: not at all but for what was
\* looked up, by a look at the route, or by accepting the file that is loaded.
LoopKept == /\ loop'.route = loop.route
            /\ loop'.bound = loop.bound
            /\ loop'.required = loop.required
            /\ turn.at = "lookup" \/ sent' = sent
LoopLooked == loop' = Routed(loop) /\ sent' = sent /\ turn' = turn /\ turn.at = "sleep"
LoopBound == loop' = Bind(Routed(loop)) /\ GateOpen(Routed(loop))

LEMMA LoopStep ==
    ASSUME Typed, Turn \/ EndLookup \/ ResolveIsDue
    PROVE  loop' \in Loop /\ (LoopKept \/ LoopLooked \/ LoopBound)
<1> USE DEF Typed
<1>1. loop \in Loop
  BY DEF TypeOK, Loop
<1>2. CASE LookElsewhere
  BY <1>2, RoutedType DEF LookElsewhere, LoopLooked, Awake
<1>3. CASE SkipChapter \/ StartLookup \/ LookForSegment
  <2>1. LoopBound
    BY <1>3 DEF SkipChapter, StartLookup, LookForSegment, LoopBound
  <2> QED BY <2>1, BindType DEF LoopBound
<1>4. CASE KitsuFails
  BY <1>1, <1>4 DEF KitsuFails, Loop, LoopKept
<1>5. CASE ResolveIsDue
  BY <1>1, <1>5 DEF ResolveIsDue, Loop, LoopKept
<1>6. CASE LookupEnds
  <2>1. loop.route \in Routes /\ turn.at = "lookup"
    BY <1>6 DEF LookupEnds, Linked
  <2> DEFINE v == VideoOf[loop.route]
             m == MediaOf[v]
  <2>2. v \in Videos
    BY <2>1, RoutesAssumption
  <2>3. PICK a, b :
           /\ m # NoMedia => a \in AnswersOf("IntroDbApp", m) /\ b \in AnswersOf("TheIntroDb", m)
           /\ loop' = [loop EXCEPT !.segs = Resolved(v, a, b).segs, !.due = FALSE]
    BY <1>6 DEF LookupEnds
  <2>4. Resolved(v, a, b).segs \subseteq Span
    BY <2>2, <2>3, ResolvedType
  <2> QED BY <1>1, <2>1, <2>3, <2>4 DEF Loop, LoopKept
<1> QED BY <1>2, <1>3, <1>4, <1>5, <1>6 DEF Turn, EndLookup

\* The cache keeps its type.
LEMMA CacheStep ==
    ASSUME Typed, Turn \/ EndLookup \/ ResolveIsDue
    PROVE  cached' \in [Media -> [known : BOOLEAN, segs : SUBSET Span]]
<1> USE DEF Typed
<1>1. cached \in [Media -> [known : BOOLEAN, segs : SUBSET Span]]
  BY DEF TypeOK
<1>2. CASE LookupEnds
  <2>1. loop.route \in Routes
    BY <1>2 DEF LookupEnds, Linked
  <2> DEFINE v == VideoOf[loop.route]
             m == MediaOf[v]
  <2>2. v \in Videos
    BY <2>1, RoutesAssumption
  <2>3. PICK a, b :
           /\ m # NoMedia => a \in AnswersOf("IntroDbApp", m) /\ b \in AnswersOf("TheIntroDb", m)
           /\ cached' = IF m # NoMedia /\ Resolved(v, a, b).ok
                        THEN [cached EXCEPT ![m] = [known |-> TRUE,
                                                    segs |-> Resolved(v, a, b).segs]]
                        ELSE cached
    BY <1>2 DEF LookupEnds
  <2>4. Resolved(v, a, b).segs \subseteq Span
    BY <2>2, <2>3, ResolvedType
  <2>5. [known |-> TRUE, segs |-> Resolved(v, a, b).segs] \in [known : BOOLEAN, segs : SUBSET Span]
    BY <2>4
  <2> HIDE DEF m, v
  <2> QED BY <1>1, <2>3, <2>5
<1>3. CASE ~LookupEnds
  <2>1. cached' = cached
    BY <1>3 DEF Turn, EndLookup, LookElsewhere, SkipChapter, StartLookup, LookForSegment,
                KitsuFails, ResolveIsDue
  <2> QED BY <1>1, <2>1
<1> QED BY <1>2, <1>3

\* What was sent keeps its type.
LEMMA SentStep ==
    ASSUME Typed, SendsAtMostOne
    PROVE  sent' \in Seq(Skip) /\ skipped' \subseteq Videos \X Key
<1> USE DEF Typed
<1>1. /\ sent \in Seq(Skip) /\ skipped \subseteq Videos \X Key
      /\ player.file \in AnyRoute /\ player.epoch \in Nat /\ page.url \in AnyRoute
  BY DEF TypeOK, Player
<1>2. CASE sent' = sent /\ skipped' \subseteq Videos \X Key
  BY <1>1, <1>2
<1>3. ASSUME loop'.route \in Routes, loop'.bound \in Nat,
             NEW key \in Key, NEW do \in {"seek", "next", "chapter"},
             Send(VideoOf[loop'.route], key, do)
      PROVE  sent' \in Seq(Skip) /\ skipped' \subseteq Videos \X Key
  <2>1. VideoOf[loop'.route] \in Videos
    BY <1>3, RoutesAssumption
  <2> DEFINE v == VideoOf[loop'.route]
             new == SkipOf(v, key, do)
  <2>2. new \in Skip
    <3>1. Outlasted \in BOOLEAN
      BY DEF Outlasted
    <3> QED BY <1>1, <1>3, <2>1, <3>1 DEF Skip, SkipOf
  <2>3. sent' = Append(sent, new) /\ skipped' = skipped \cup {<<v, key>>}
    BY <1>3 DEF Send
  <2> HIDE DEF new
  <2>4. sent' \in Seq(Skip)
    BY <1>1, <2>2, <2>3
  <2>5. skipped' \subseteq Videos \X Key
    BY <1>1, <2>1, <2>3
  <2> QED BY <2>4, <2>5
<1> QED BY <1>2, <1>3 DEF SendsAtMostOne

\* A step of the thread.
LEMMA ThreadTyped ==
    ASSUME Typed, Turn \/ EndLookup \/ ResolveIsDue
    PROVE  Typed'
<1>1. /\ loop' \in Loop /\ (LoopKept \/ LoopLooked \/ LoopBound)
      /\ cached' \in [Media -> [known : BOOLEAN, segs : SUBSET Span]]
      /\ sent' \in Seq(Skip) /\ skipped' \subseteq Videos \X Key
  BY LoopStep, CacheStep, ThreadSends, SentStep
<1>2. UNCHANGED world
  BY DEF Turn, EndLookup, LookElsewhere, SkipChapter, StartLookup, LookForSegment,
         KitsuFails, LookupEnds, ResolveIsDue
<1>3. turn \in [at : {"sleep", "lookup"}, time : Time] /\ player.time \in Time
  BY DEF Typed, TypeOK, Player
<1>4. turn' \in [at : {"sleep", "lookup"}, time : Time]
  <2>1. CASE StartLookup
    BY <1>3, <2>1 DEF StartLookup
  <2>2. CASE KitsuFails \/ LookupEnds
    BY <1>3, <2>2 DEF KitsuFails, LookupEnds
  <2>3. CASE LookElsewhere \/ SkipChapter \/ LookForSegment \/ ResolveIsDue
    BY <1>3, <2>3 DEF LookElsewhere, SkipChapter, LookForSegment, ResolveIsDue
  <2> QED BY <2>1, <2>2, <2>3 DEF Turn, EndLookup
<1>5. TypeOK'
  BY <1>1, <1>2, <1>4 DEF Typed, TypeOK, Loop, world
<1>6. turn'.at = "lookup" => /\ loop'.route \in Routes
                             /\ loop'.bound \in Nat
                             /\ loop'.bound >= loop'.required
  <2>1. CASE StartLookup
    <3>1. loop' = Bind(Routed(loop)) /\ GateOpen(Routed(loop))
      BY <2>1 DEF StartLookup
    <3> QED BY <3>1, BindType DEF Typed
  <2>2. CASE ResolveIsDue
    BY <2>2 DEF ResolveIsDue, Typed, TypeOK, Linked
  <2>3. CASE LookElsewhere \/ SkipChapter \/ LookForSegment
    BY <2>3 DEF LookElsewhere, SkipChapter, LookForSegment, Awake
  <2>4. CASE KitsuFails \/ LookupEnds
    <3>1. turn' = [turn EXCEPT !.at = "sleep"]
      BY <2>4 DEF KitsuFails, LookupEnds
    <3> QED BY <3>1, <1>3
  <2> QED BY <2>1, <2>2, <2>3, <2>4 DEF Turn, EndLookup
<1>7. Linked'
  BY <1>2, <1>6 DEF Typed, Linked, world
<1> QED BY <1>5, <1>7 DEF Typed

\* A step of the page or the player.
LEMMA WorldTyped ==
    ASSUME Typed, World
    PROVE  Typed' /\ UNCHANGED thread /\ player'.epoch \in Nat /\ player'.epoch >= player.epoch
<1>0. /\ TypeOK /\ Linked /\ player \in Player /\ Length \in Nat /\ 0 \in Time
      /\ page \in [url : AnyRoute, owes : {"nothing", "load", "stop"}]
      /\ left \in [{"visits", "reloads"} -> Nat]
      /\ player.chapter >= -1 /\ role \in {"None", "Guest"}
  BY BoundsAssumption DEF Typed, TypeOK, Time
<1>a. ASSUME /\ page' \in [url : AnyRoute, owes : {"nothing", "load", "stop"}]
             /\ role' \in {"None", "Guest"}
             /\ player' \in Player /\ player'.chapter >= -1
             /\ left' \in [{"visits", "reloads"} -> Nat]
             /\ UNCHANGED thread
             /\ page'.owes = "load" => page'.url \in Routes
             /\ player'.loaded => player'.file \in Routes
                                  /\ player'.chapter < Len(Chapters[player'.file])
      PROVE  Typed'
  <2>1. TypeOK'
    BY <1>0, <1>a DEF TypeOK, thread
  <2>2. Linked'
    BY <1>0, <1>a DEF Linked, thread
  <2> QED BY <2>1, <2>2 DEF Typed
<1>1. ASSUME NEW r \in AnyRoute, Navigate(r)
      PROVE  Typed' /\ UNCHANGED thread /\ player'.epoch = player.epoch
  <2>1. /\ page' = [url |-> r, owes |-> IF r = NoRoute THEN "stop" ELSE "load"]
        /\ left' = [left EXCEPT !.visits = @ - 1] /\ left.visits > 0
        /\ UNCHANGED <<role, player, thread>>
    BY <1>1 DEF Navigate
  <2>2. left' \in [{"visits", "reloads"} -> Nat]
    BY <1>0, <2>1
  <2> QED BY <1>0, <1>a, <2>1, <2>2 DEF Linked, AnyRoute
<1>2. CASE PageLoads
  <2>1. /\ page' = [page EXCEPT !.owes = "nothing"] /\ page.owes = "load"
        /\ player' = [player EXCEPT !.coming = Append(@, page.url), !.loaded = FALSE,
                                    !.time = 0, !.duration = 0]
        /\ UNCHANGED <<role, left, thread>>
    BY <1>2 DEF PageLoads
  <2>2. Append(player.coming, page.url) \in Seq(Routes)
    BY <1>0, <2>1 DEF Linked, Player
  <2>3. player' \in Player /\ player'.chapter = player.chapter /\ ~player'.loaded
        /\ player'.epoch = player.epoch
    BY <1>0, <2>1, <2>2 DEF Player
  <2> QED BY <1>0, <1>a, <2>1, <2>3 DEF Player
<1>3. CASE FileStops
  <2>1. /\ page' = IF page.owes = "stop" THEN [page EXCEPT !.owes = "nothing"] ELSE page
        /\ player' = [player EXCEPT !.file = NoRoute, !.loaded = FALSE]
        /\ UNCHANGED <<role, left, thread>>
    BY <1>3 DEF FileStops
  <2>2. player' \in Player /\ player'.chapter = player.chapter /\ ~player'.loaded
        /\ player'.epoch = player.epoch
    BY <1>0, <2>1 DEF Player, AnyRoute
  <2>3. /\ page' \in [url : AnyRoute, owes : {"nothing", "load", "stop"}]
        /\ page'.owes = "load" => page'.url \in Routes
    BY <1>0, <2>1 DEF Linked
  <2> QED BY <1>0, <1>a, <2>1, <2>2, <2>3 DEF Player
<1>4. CASE Reload
  <2>1. /\ player' = [player EXCEPT !.coming = Append(@, player.file), !.loaded = FALSE]
        /\ left' = [left EXCEPT !.reloads = @ - 1] /\ left.reloads > 0
        /\ player.loaded
        /\ UNCHANGED <<page, role, thread>>
    BY <1>4 DEF Reload
  <2>2. Append(player.coming, player.file) \in Seq(Routes)
    BY <1>0, <2>1 DEF Linked, Player
  <2>3. player' \in Player /\ player'.chapter = player.chapter /\ ~player'.loaded
        /\ player'.epoch = player.epoch
    BY <1>0, <2>1, <2>2 DEF Player
  <2>4. left' \in [{"visits", "reloads"} -> Nat]
    BY <1>0, <2>1
  <2> QED BY <1>0, <1>a, <2>1, <2>3, <2>4 DEF Linked, Player
<1>5. CASE FileLoads
  <2>1. /\ player.coming # <<>>
        /\ player' = [player EXCEPT !.file = Head(player.coming), !.coming = Tail(@),
                                    !.loaded = TRUE, !.epoch = @ + 1,
                                    !.time = 0, !.duration = 0,
                                    !.chapter = -1, !.title = "Plain"]
        /\ UNCHANGED <<page, role, left, thread>>
    BY <1>5 DEF FileLoads
  <2>2. Head(player.coming) \in Routes /\ Tail(player.coming) \in Seq(Routes)
    BY <1>0, <2>1 DEF Player
  <2>3. /\ player' \in Player /\ player'.chapter = -1
        /\ player'.epoch = player.epoch + 1
        /\ player'.file = Head(player.coming)
    <3>1. player' = [time |-> 0, duration |-> 0, paused |-> player.paused, loaded |-> TRUE,
                     epoch |-> player.epoch + 1, chapter |-> -1, title |-> "Plain",
                     file |-> Head(player.coming), coming |-> Tail(player.coming)]
      BY <1>0, <2>1 DEF Player
    <3> QED BY <1>0, <3>1, <2>2 DEF Player, AnyRoute
  <2>4. Len(Chapters[player'.file]) \in Nat
    BY <2>2, <2>3, RoutesAssumption
  <2> QED BY <1>0, <1>a, <2>1, <2>2, <2>3, <2>4 DEF Linked, Player
<1>6. CASE FileFails
  <2>1. /\ player.coming # <<>>
        /\ player' = [player EXCEPT !.coming = Tail(@)]
        /\ UNCHANGED <<page, role, left, thread>>
    BY <1>6 DEF FileFails
  <2>2. Tail(player.coming) \in Seq(Routes)
    BY <1>0, <2>1 DEF Player
  <2>3. /\ player' \in Player /\ player'.chapter = player.chapter
        /\ player'.loaded = player.loaded /\ player'.file = player.file
        /\ player'.epoch = player.epoch
    BY <1>0, <2>1, <2>2 DEF Player
  <2> QED BY <1>0, <1>a, <2>1, <2>3 DEF Linked, Player
<1>7. ASSUME NEW t \in Time, MpvReportsTime(t)
      PROVE  Typed' /\ UNCHANGED thread /\ player'.epoch = player.epoch
  <2>1. /\ player' = [player EXCEPT !.time = t, !.duration = Length]
        /\ UNCHANGED <<page, role, left, thread>>
    BY <1>7 DEF MpvReportsTime
  <2>2. /\ player' \in Player /\ player'.chapter = player.chapter
        /\ player'.loaded = player.loaded /\ player'.file = player.file
        /\ player'.epoch = player.epoch
    BY <1>0, <2>1 DEF Player
  <2> QED BY <1>0, <1>a, <2>1, <2>2 DEF Linked, Player
<1>8. ASSUME NEW i \in 0..Length, MpvReportsChapter(i)
      PROVE  Typed' /\ UNCHANGED thread /\ player'.epoch = player.epoch
  <2>1. /\ player' = [player EXCEPT !.chapter = i]
        /\ i < Len(Chapters[player.file])
        /\ UNCHANGED <<page, role, left, thread>>
    BY <1>8 DEF MpvReportsChapter
  <2>2. /\ player' \in Player /\ player'.chapter = i
        /\ player'.loaded = player.loaded /\ player'.file = player.file
        /\ player'.epoch = player.epoch
    BY <1>0, <2>1 DEF Player
  <2> QED BY <1>0, <1>a, <2>1, <2>2 DEF Linked, Player
<1>9. CASE MpvReportsTitle
  <2>1. /\ player.loaded /\ player.chapter >= 0
        /\ player' = [player EXCEPT !.title = Chapters[player.file][player.chapter + 1]]
        /\ UNCHANGED <<page, role, left, thread>>
    BY <1>9 DEF MpvReportsTitle
  <2>2. /\ Chapters[player.file] \in Seq(Kinds \cup {"Plain"})
        /\ player.chapter + 1 \in 1..Len(Chapters[player.file])
    BY <1>0, <2>1, RoutesAssumption DEF Linked, Player
  <2>3. Chapters[player.file][player.chapter + 1] \in Kinds \cup {"Plain"}
    BY <2>2
  <2>4. /\ player' \in Player /\ player'.chapter = player.chapter
        /\ player'.loaded = player.loaded /\ player'.file = player.file
        /\ player'.epoch = player.epoch
    BY <1>0, <2>1, <2>3 DEF Player
  <2> QED BY <1>0, <1>a, <2>1, <2>4 DEF Linked, Player
<1>10. CASE TogglePause
  <2>1. /\ player' = [player EXCEPT !.paused = ~@]
        /\ UNCHANGED <<page, role, left, thread>>
    BY <1>10 DEF TogglePause
  <2>2. /\ player' \in Player /\ player'.chapter = player.chapter
        /\ player'.loaded = player.loaded /\ player'.file = player.file
        /\ player'.epoch = player.epoch
    BY <1>0, <2>1 DEF Player
  <2> QED BY <1>0, <1>a, <2>1, <2>2 DEF Linked, Player
<1>11. CASE ChangeRole
  BY <1>0, <1>a, <1>11 DEF ChangeRole, Linked, Player
<1>12. player.epoch \in Nat
  BY <1>0 DEF Player
<1>13. CASE PageLoads \/ FileStops \/ Reload \/ FileLoads \/ FileFails \/ MpvReportsTitle
            \/ TogglePause \/ ChangeRole
  BY <1>0, <1>2, <1>3, <1>4, <1>5, <1>6, <1>9, <1>10, <1>11, <1>12, <1>13
     DEF PageLoads, FileStops, Reload, FileLoads, FileFails, MpvReportsTitle, TogglePause,
         ChangeRole, Player
<1> QED BY <1>1, <1>7, <1>8, <1>12, <1>13 DEF World

LEMMA InitTyped == Init => Typed
<1> SUFFICES ASSUME Init PROVE Typed
  OBVIOUS
<1>1. 0 \in Time /\ Length \in Nat
  BY BoundsAssumption DEF Time
<1>2. player \in Player
  BY <1>1 DEF Init, NewPlayer, Player, AnyRoute
<1>3. loop \in Loop
  BY DEF Init, NewLoop, Loop, AnyRoute, Epoch
<1>4. cached \in [Media -> [known : BOOLEAN, segs : SUBSET Span]]
  BY DEF Init
<1>5. TypeOK
  BY <1>1, <1>2, <1>3, <1>4, BoundsAssumption DEF Init, TypeOK, NewPlayer, AnyRoute, Loop
<1>6. Linked
  BY DEF Init, Linked, NewPlayer
<1> QED BY <1>5, <1>6 DEF Typed

LEMMA StepTyped ==
    ASSUME Typed, [Next]_vars
    PROVE  Typed' /\ player'.epoch >= player.epoch
<1>0. player.epoch \in Nat
  BY DEF Typed, TypeOK, Player
<1>1. CASE World
  BY <1>1, WorldTyped
<1>2. CASE Turn \/ EndLookup \/ ResolveIsDue
  <2>1. UNCHANGED player
    BY <1>2 DEF Turn, EndLookup, LookElsewhere, SkipChapter, StartLookup, LookForSegment,
                KitsuFails, LookupEnds, ResolveIsDue, world
  <2> QED BY <1>0, <1>2, <2>1, ThreadTyped
<1>3. CASE UNCHANGED vars
  BY <1>0, <1>3 DEF vars, Typed, TypeOK, Linked
<1> QED BY <1>1, <1>2, <1>3 DEF Next

\* Types, and inside a lookup the thread has a route and an accepted file.
THEOREM TypedAlways == Spec => []Typed
BY InitTyped, StepTyped, PTL DEF Spec

\* For any routes, databases and bounds every variable keeps its type, and only
\* segments with a length, or open outros, are kept (normalize_introdb_segment,
\* parse_theintrodb_ranges).
THEOREM Typing == Spec => []TypeOK
BY TypedAlways, PTL DEF Typed

-----------------------------------------------------------------------------
(* Nothing is skipped twice.                                               *)

\* What was sent is in the history, which is asked before anything is sent.
Remembered == \A i \in DOMAIN sent : <<sent[i].video, sent[i].key>> \in skipped
OnceOnly == Remembered /\ SkippedOnce

LEMMA OnceStep ==
    ASSUME Typed, OnceOnly, SendsAtMostOne
    PROVE  OnceOnly'
<1>1. CASE sent' = sent /\ skipped \subseteq skipped'
  BY <1>1 DEF OnceOnly, Remembered, SkippedOnce
<1>2. ASSUME NEW key, NEW do, <<VideoOf[loop'.route], key>> \notin skipped,
             Send(VideoOf[loop'.route], key, do)
      PROVE  OnceOnly'
  <2> DEFINE v == VideoOf[loop'.route]
             new == SkipOf(v, key, do)
             n == Len(sent)
  <2>1. sent' = Append(sent, new) /\ skipped' = skipped \cup {<<v, key>>}
    BY <1>2 DEF Send
  <2>2. sent \in Seq(Skip)
    BY DEF Typed, TypeOK
  <2>3. new.video = v /\ new.key = key
    BY DEF SkipOf
  <2> HIDE DEF new
  <2>4. /\ n \in Nat /\ DOMAIN sent = 1..n
        /\ DOMAIN sent' = 1..(n + 1) /\ sent'[n + 1] = new
        /\ \A i \in 1..n : sent'[i] = sent[i]
    BY <2>1, <2>2
  <2>5. \A i \in 1..n : <<sent[i].video, sent[i].key>> \in skipped
    BY <2>4 DEF OnceOnly, Remembered
  <2>6. \A i \in 1..n : ~(sent[i].video = v /\ sent[i].key = key)
    BY <1>2, <2>5
  <2>7. Remembered'
    BY <2>1, <2>3, <2>4, <2>5 DEF Remembered
  <2>8. SkippedOnce'
    BY <2>3, <2>4, <2>6 DEF SkippedOnce, OnceOnly
  <2> QED BY <2>7, <2>8 DEF OnceOnly
<1> QED BY <1>1, <1>2 DEF SendsAtMostOne

\* No chapter and no segment of a video is skipped twice in a session, for any
\* routes, streams of one video, lookups and answers (SkipHistory).
THEOREM OnceInASession == Spec => []SkippedOnce
<1>1. Init => OnceOnly
  BY DEF Init, OnceOnly, Remembered, SkippedOnce
<1>2. Typed /\ OnceOnly /\ [Next]_vars => OnceOnly'
  <2> SUFFICES ASSUME Typed, OnceOnly, [Next]_vars PROVE OnceOnly'
    OBVIOUS
  <2>1. CASE SendsAtMostOne
    BY <2>1, OnceStep
  <2>2. CASE UNCHANGED thread
    BY <2>2 DEF thread, OnceOnly, Remembered, SkippedOnce
  <2> QED BY <2>1, <2>2, StepSends
<1>3. OnceOnly => SkippedOnce
  BY DEF OnceOnly
<1> QED BY <1>1, <1>2, <1>3, TypedAlways, PTL DEF Spec

-----------------------------------------------------------------------------
(* One route for each file.                                                *)

\* The skips that do not end a lookup which has outlasted a change.
Timely == {i \in DOMAIN sent : ~sent[i].outlasted}

\* The last file that was accepted has the highest epoch of all that anything was
\* skipped in; and what was skipped in a file that may be the present route's was
\* skipped while the page showed that route.
Ordered ==
    /\ loop.bound <= player.epoch
    /\ \A i \in Timely :
          /\ sent[i].epoch <= loop.bound
          /\ loop.route # NoRoute /\ sent[i].epoch >= loop.required =>
                sent[i].page = loop.route
    /\ OneRoutePerFile

\* A look at the route keeps that: a new route waits for a later file.
LEMMA LookedOrdered ==
    ASSUME Typed, Ordered
    PROVE  \A i \in Timely :
               page.url # NoRoute /\ sent[i].epoch >= Routed(loop).required =>
                   sent[i].page = page.url
<1>1. /\ sent \in Seq(Skip) /\ loop \in Loop /\ player.epoch \in Nat
  BY DEF Typed, TypeOK, Loop, Player
<1>2. CASE page.url = loop.route
  BY <1>2 DEF Routed, Ordered
<1>3. CASE page.url # loop.route
  <2> SUFFICES ASSUME NEW i \in Timely, page.url # NoRoute
               PROVE  ~(sent[i].epoch >= Routed(loop).required)
    OBVIOUS
  <2>1. Routed(loop).required = Required(loop)
    BY <1>1, <1>3 DEF Routed, Loop
  <2>2. sent[i].epoch \in Nat /\ sent[i].epoch <= loop.bound
    <3>1. sent[i] \in Skip
      BY <1>1 DEF Timely
    <3> QED BY <3>1 DEF Ordered, Skip
  <2>3. loop.bound \in Nat
    BY <1>1, <2>2 DEF Loop, Epoch, NoEpoch
  <2>4. Required(loop) = loop.bound + 1
    BY <2>3 DEF Required, NoEpoch
  <2> QED BY <2>1, <2>2, <2>3, <2>4
<1> QED BY <1>2, <1>3

\* Where a skip is sent, the thread's variables say that the file may be the route's
\* and that earlier skips in it were for that route.
SameRoute ==
    /\ loop'.required <= loop'.bound
    /\ \A i \in Timely :
          /\ sent[i].epoch <= loop'.bound
          /\ loop'.route # NoRoute /\ sent[i].epoch >= loop'.required =>
                sent[i].page = loop'.route

LEMMA OrderedStep ==
    ASSUME Typed, Typed', Ordered, SameRoute, SendsAtMostOne,
           loop'.bound <= player'.epoch
    PROVE  Ordered'
<1>0. sent \in Seq(Skip) /\ \A i \in DOMAIN sent : sent[i].epoch \in Nat
  <2>1. sent \in Seq(Skip)
    BY DEF Typed, TypeOK
  <2>2. \A i \in DOMAIN sent : sent[i] \in Skip
    BY <2>1
  <2> QED BY <2>1, <2>2 DEF Skip
<1>1. CASE sent' = sent
  BY <1>1 DEF Ordered, SameRoute, OneRoutePerFile, Timely
<1>2. ASSUME loop'.route \in Routes, loop'.bound \in Nat, NEW key, NEW do,
             Outlasted \/ (page.url = loop'.route /\ player.epoch = loop'.bound),
             Send(VideoOf[loop'.route], key, do)
      PROVE  Ordered'
  <2> DEFINE new == SkipOf(VideoOf[loop'.route], key, do)
             n == Len(sent)
  <2>1. sent' = Append(sent, new)
    BY <1>2 DEF Send
  <2>2. /\ new.outlasted = Outlasted
        /\ new.page = page.url /\ new.epoch = player.epoch
    BY DEF SkipOf
  <2> HIDE DEF new
  <2>3. /\ n \in Nat /\ DOMAIN sent = 1..n
        /\ DOMAIN sent' = 1..(n + 1) /\ sent'[n + 1] = new
        /\ \A i \in 1..n : sent'[i] = sent[i]
    BY <1>0, <2>1
  <2>4. loop'.required \in Int /\ loop'.route # NoRoute
    BY <1>2, RoutesAssumption DEF Typed, TypeOK, Epoch, NoEpoch
  <2>5. ~new.outlasted => new.page = loop'.route /\ new.epoch = loop'.bound
    BY <1>2, <2>2
  <2>6. Timely' = {i \in 1..(n + 1) : ~sent'[i].outlasted}
    BY <2>3 DEF Timely
  <2>7. Timely = {i \in 1..n : ~sent[i].outlasted}
    BY <2>3 DEF Timely
  <2>8. \A i \in Timely' : (i = n + 1 /\ ~new.outlasted) \/ i \in Timely
    <3> SUFFICES ASSUME NEW i \in Timely', i # n + 1 PROVE i \in Timely
      BY <2>3, <2>6
    <3>1. i \in 1..n
      BY <2>3, <2>6
    <3> QED BY <2>3, <2>6, <2>7, <3>1
  <2>9. \A i \in Timely' :
           /\ sent'[i].epoch <= loop'.bound
           /\ sent'[i].epoch >= loop'.required => sent'[i].page = loop'.route
    <3> TAKE i \in Timely'
    <3>1. CASE i = n + 1
      BY <1>2, <2>3, <2>5, <2>8, <2>7, <3>1
    <3>2. CASE i \in Timely
      BY <2>3, <2>4, <2>7, <3>2 DEF SameRoute
    <3> QED BY <2>8, <3>1, <3>2
  <2>10. ~new.outlasted =>
            \A i \in Timely : sent[i].epoch = new.epoch => sent[i].page = new.page
    BY <1>0, <1>2, <2>3, <2>4, <2>5, <2>7 DEF SameRoute
  <2>11. OneRoutePerFile'
    <3> SUFFICES ASSUME NEW i \in Timely', NEW j \in Timely',
                        sent'[i].epoch = sent'[j].epoch
                 PROVE  sent'[i].page = sent'[j].page
      BY DEF OneRoutePerFile, Timely
    <3>1. CASE i \in Timely /\ j \in Timely
      BY <2>3, <2>7, <3>1 DEF Ordered, OneRoutePerFile
    <3>2. CASE i = n + 1 /\ ~new.outlasted /\ j \in Timely
      BY <2>3, <2>7, <2>10, <3>2
    <3>3. CASE j = n + 1 /\ ~new.outlasted /\ i \in Timely
      BY <2>3, <2>7, <2>10, <3>3
    <3> QED BY <2>8, <3>1, <3>2, <3>3
  <2> QED BY <2>9, <2>11 DEF Ordered
<1> QED BY <1>1, <1>2 DEF SendsAtMostOne

\* However routes change and files are loaded, reloaded, dropped or late: of the skips
\* sent while one file is loaded all are sent while the page shows one route, but for
\* those that end a lookup which has outlasted a change of route or of file
\* (required_file_epoch, bound_file_epoch).
THEOREM OneRoute == Spec => []OneRoutePerFile
<1>1. Init => Ordered
  BY DEF Init, NewLoop, NewPlayer, NoEpoch, Ordered, OneRoutePerFile, Timely
<1>2. Typed /\ Ordered /\ [Next]_vars => Ordered'
  <2> SUFFICES ASSUME Typed, Ordered, [Next]_vars PROVE Ordered'
    OBVIOUS
  <2>1. Typed' /\ player'.epoch >= player.epoch
    BY StepTyped
  <2>2. /\ loop \in Loop /\ loop.bound \in Int
        /\ player.epoch \in Nat /\ player'.epoch \in Nat
    BY <2>1 DEF Typed, TypeOK, Loop, Epoch, NoEpoch, Player
  <2>3. CASE UNCHANGED thread
    BY <2>1, <2>2, <2>3 DEF thread, Ordered, OneRoutePerFile, Timely
  <2>4. CASE Turn \/ EndLookup \/ ResolveIsDue
    <3>1. LoopKept \/ LoopLooked \/ LoopBound
      BY <2>4, LoopStep
    <3>2. SendsAtMostOne
      BY <2>4, ThreadSends
    <3>3. CASE LoopLooked
      <4>1. loop'.route = page.url /\ loop'.bound = loop.bound
        BY <3>3, RoutedType DEF LoopLooked, Typed
      <4> QED BY <2>1, <2>2, <3>3, <4>1, LookedOrdered
              DEF LoopLooked, Ordered, OneRoutePerFile, Timely
    <3>4. CASE LoopBound
      <4>1. /\ loop'.route = page.url /\ loop'.bound = player.epoch
            /\ loop'.required = Routed(loop).required
            /\ player.epoch >= Routed(loop).required
        BY <3>4, BindType DEF LoopBound, Typed
      <4>2. \A i \in Timely : sent[i].epoch \in Nat /\ sent[i].epoch <= loop.bound
        <5>1. \A i \in DOMAIN sent : sent[i] \in Skip
          BY DEF Typed, TypeOK
        <5> QED BY <5>1 DEF Ordered, Skip, Timely
      <4>3. \A i \in Timely : sent[i].epoch <= player.epoch
        BY <2>2, <4>2 DEF Ordered
      <4>4. Routed(loop).required \in Int
        BY RoutedType DEF Typed, Loop, Epoch, NoEpoch
      <4>5. SameRoute
        BY <2>2, <4>1, <4>3, <4>4, LookedOrdered DEF SameRoute
      <4> QED BY <2>1, <2>2, <3>2, <4>1, <4>5, OrderedStep
    <3>5. CASE LoopKept /\ sent' = sent
      BY <2>1, <2>2, <3>5 DEF LoopKept, Ordered, OneRoutePerFile, Timely
    <3>6. CASE LoopKept /\ sent' # sent
      <4>1. turn.at = "lookup"
        BY <3>6 DEF LoopKept
      <4>2. SameRoute
        BY <2>2, <3>6, <4>1 DEF LoopKept, SameRoute, Typed, Linked, Ordered, Loop, Epoch, NoEpoch
      <4> QED BY <2>1, <2>2, <3>2, <3>6, <4>2, OrderedStep DEF LoopKept, Ordered
    <3> QED BY <3>1, <3>3, <3>4, <3>5, <3>6
  <2> QED BY <2>3, <2>4, WorldTyped DEF Next, vars, thread
<1>3. Ordered => OneRoutePerFile
  BY DEF Ordered
<1> QED BY <1>1, <1>2, <1>3, TypedAlways, PTL DEF Spec

-----------------------------------------------------------------------------
(* Where the segments come from.                                           *)

\* Segments that the databases name for a media.
NamedFor(m, segs) == \A s \in segs : \E api \in Apis : \E a \in Answers[api][m] : s \in a

\* What a lookup of a media brings is named for it.
LEMMA FetchedNamed ==
    ASSUME NEW m \in Media,
           NEW a \in AnswersOf("IntroDbApp", m),
           NEW b \in AnswersOf("TheIntroDb", m)
    PROVE  NamedFor(m, Fetched(m, a, b).segs)
<1>1. /\ a.segs = {} \/ a.segs \in Answers["IntroDbApp"][m]
      /\ b.segs = {} \/ b.segs \in Answers["TheIntroDb"][m]
  BY DEF AnswersOf, Failure
<1>2. Fetched(m, a, b).segs \subseteq a.segs \cup b.segs
  <2> DEFINE first == IF m \in Episodes THEN {s \in a.segs : Usable(s)} ELSE {}
             asked == m \notin Episodes \/ Missing(m, first) # {}
             second == IF asked
                       THEN {s \in b.segs : Usable(s) /\ s.kind \in Missing(m, first)}
                       ELSE {}
  <2>1. first \subseteq a.segs /\ second \subseteq b.segs
    <3> HIDE DEF asked
    <3> QED OBVIOUS
  <2>2. Fetched(m, a, b).segs = first \cup second
    BY DEF Fetched
  <2> QED BY <2>1, <2>2
<1> QED BY <1>1, <1>2 DEF NamedFor, Apis

\* An episode's segments of one kind are all of one database.
OneSource(segs) == \A s, t \in segs : s.kind = t.kind => s.api = t.api

LEMMA FetchedOneSource ==
    ASSUME NEW m \in Episodes,
           NEW a \in AnswersOf("IntroDbApp", m),
           NEW b \in AnswersOf("TheIntroDb", m)
    PROVE  OneSource(Fetched(m, a, b).segs)
<1>0. m \in Media
  BY MediaAssumption
<1>1. /\ \A s \in a.segs : s.api = "IntroDbApp"
      /\ \A s \in b.segs : s.api = "TheIntroDb"
  BY <1>0, SourcesAssumption DEF AnswersOf, Failure, Apis
<1> DEFINE first == IF m \in Episodes THEN {s \in a.segs : Usable(s)} ELSE {}
           asked == m \notin Episodes \/ Missing(m, first) # {}
           second == IF asked
                     THEN {s \in b.segs : Usable(s) /\ s.kind \in Missing(m, first)}
                     ELSE {}
<1>2. Fetched(m, a, b).segs = first \cup second
  BY DEF Fetched
<1>3. first \subseteq a.segs /\ second \subseteq b.segs
  <2> HIDE DEF asked
  <2> QED OBVIOUS
<1>4. \A s \in first, t \in second : s.kind # t.kind
  <2>1. \A t \in second : t.kind \in Missing(m, first)
    <3> HIDE DEF asked, first
    <3> QED OBVIOUS
  <2>2. Missing(m, first) = Wanted \ {s.kind : s \in first}
    BY DEF Missing
  <2> HIDE DEF first, second
  <2> QED BY <2>1, <2>2
<1> HIDE DEF first, second
<1> QED BY <1>1, <1>2, <1>3, <1>4 DEF OneSource

\* The cache and the thread keep only what was named for the media, and what an
\* episode has of one kind is of one database.
Sourced ==
    /\ \A m \in Media : NamedFor(m, cached[m].segs)
    /\ loop.segs # {} =>
          /\ loop.route \in Routes
          /\ MediaOf[VideoOf[loop.route]] \in Media
          /\ NamedFor(MediaOf[VideoOf[loop.route]], loop.segs)
    /\ OneSourcePerKind
    /\ SkipsAreOfRoute

\* What a lookup changes.
LEMMA LookupSourced ==
    ASSUME Typed, Sourced, LookupEnds
    PROVE  /\ \A m \in Media : NamedFor(m, cached'[m].segs)
           /\ loop'.segs # {} =>
                 /\ loop'.route \in Routes
                 /\ MediaOf[VideoOf[loop'.route]] \in Media
                 /\ NamedFor(MediaOf[VideoOf[loop'.route]], loop'.segs)
           /\ OneSourcePerKind'
<1>1. /\ loop.route \in Routes /\ loop \in Loop
      /\ cached \in [Media -> [known : BOOLEAN, segs : SUBSET Span]]
  BY DEF LookupEnds, Typed, Linked, TypeOK, Loop
<1> DEFINE v == VideoOf[loop.route]
           m == MediaOf[v]
<1>2. v \in Videos /\ m \in Media \cup {NoMedia} /\ Episodes \subseteq Media
  BY <1>1, RoutesAssumption, MediaAssumption
<1>3. PICK a, b :
         /\ m # NoMedia => a \in AnswersOf("IntroDbApp", m) /\ b \in AnswersOf("TheIntroDb", m)
         /\ loop' = [loop EXCEPT !.segs = Resolved(v, a, b).segs, !.due = FALSE]
         /\ cached' = IF m # NoMedia /\ Resolved(v, a, b).ok
                      THEN [cached EXCEPT ![m] = [known |-> TRUE,
                                                  segs |-> Resolved(v, a, b).segs]]
                      ELSE cached
  BY DEF LookupEnds
<1> DEFINE found == Resolved(v, a, b)
<1>4. m = NoMedia => found.segs = {}
  BY DEF Resolved
<1>5. ASSUME m # NoMedia
      PROVE  NamedFor(m, found.segs) /\ (m \in Episodes => OneSource(found.segs))
  <2>1. m \in Media
    BY <1>2, <1>5
  <2>2. CASE cached[m].known
    <3>1. found.segs = cached[m].segs
      BY <1>5, <2>2 DEF Resolved
    <3> QED BY <2>1, <3>1 DEF Sourced, OneSourcePerKind, OneSource
  <2>3. CASE ~cached[m].known
    <3>1. found = Fetched(m, a, b)
      BY <1>5, <2>3 DEF Resolved
    <3> QED BY <1>3, <1>5, <2>1, <3>1, FetchedNamed, FetchedOneSource
  <2> QED BY <2>2, <2>3
<1>6. loop'.route = loop.route /\ loop'.segs = found.segs
  BY <1>1, <1>3 DEF Loop
<1> HIDE DEF found, m
<1>7. \A n \in Media : \/ cached'[n].segs = cached[n].segs
                       \/ n = m /\ m # NoMedia /\ cached'[n].segs = found.segs
  BY <1>1, <1>3 DEF found
<1>8. \A n \in Media : NamedFor(n, cached'[n].segs)
  BY <1>5, <1>7 DEF Sourced
<1>9. OneSourcePerKind'
  <2>1. \A n \in Episodes : OneSource(cached[n].segs)
    BY DEF Sourced, OneSourcePerKind, OneSource
  <2>2. \A n \in Episodes : OneSource(cached'[n].segs)
    BY <1>2, <1>5, <1>7, <2>1
  <2> QED BY <2>2 DEF OneSourcePerKind, OneSource
<1>10. loop'.segs # {} => m \in Media /\ NamedFor(m, loop'.segs)
  BY <1>2, <1>4, <1>5, <1>6
<1> QED BY <1>1, <1>6, <1>8, <1>9, <1>10 DEF m

\* A look at the route drops the segments of another route.
LEMMA RoutedSegs ==
    ASSUME TypeOK
    PROVE  \/ Routed(loop).segs = {}
           \/ Routed(loop).segs = loop.segs /\ page.url = loop.route
<1>1. loop \in Loop
  BY DEF TypeOK, Loop
<1>2. CASE page.url = loop.route
  BY <1>2 DEF Routed
<1>3. CASE page.url # loop.route
  BY <1>1, <1>3 DEF Routed, Loop
<1> QED BY <1>2, <1>3

LEMMA SourcedStep ==
    ASSUME Typed, Sourced, Turn \/ EndLookup \/ ResolveIsDue
    PROVE  Sourced'
<1>1. /\ \A m \in Media : NamedFor(m, cached'[m].segs)
      /\ loop'.segs # {} =>
            /\ loop'.route \in Routes
            /\ MediaOf[VideoOf[loop'.route]] \in Media
            /\ NamedFor(MediaOf[VideoOf[loop'.route]], loop'.segs)
      /\ OneSourcePerKind'
  <2>1. CASE LookupEnds
    BY <2>1, LookupSourced
  <2>2. CASE ~LookupEnds
    <3>1. cached' = cached
      BY <2>2 DEF Turn, EndLookup, LookElsewhere, SkipChapter, StartLookup, LookForSegment,
                  KitsuFails, ResolveIsDue
    <3>2. loop'.segs = {} \/ (loop'.segs = loop.segs /\ loop'.route = loop.route)
      <4>1. CASE KitsuFails \/ ResolveIsDue
        BY <4>1 DEF KitsuFails, ResolveIsDue, Typed, TypeOK
      <4>2. CASE LookElsewhere
        BY <4>2, RoutedType, RoutedSegs DEF LookElsewhere, Typed
      <4>3. CASE SkipChapter \/ StartLookup \/ LookForSegment
        <5>1. loop' = Bind(Routed(loop)) /\ GateOpen(Routed(loop))
          BY <4>3 DEF SkipChapter, StartLookup, LookForSegment
        <5> QED BY <5>1, BindType, RoutedSegs DEF Typed
      <4> QED BY <2>2, <4>1, <4>2, <4>3 DEF Turn, EndLookup
    <3> QED BY <3>1, <3>2 DEF Sourced, OneSourcePerKind
  <2> QED BY <2>1, <2>2
<1>2. SkipsAreOfRoute'
  <2>1. sent \in Seq(Skip)
    BY DEF Typed, TypeOK
  <2>2. CASE sent' = sent
    BY <2>2 DEF Sourced, SkipsAreOfRoute
  <2>3. ASSUME NEW key \in Key, NEW do,
               key.kind = "Chapter" \/ \E s \in loop'.segs : key = SegmentKey(s),
               Outlasted \/ (page.url = loop'.route /\ player.epoch = loop'.bound),
               loop'.route \in Routes,
               Send(VideoOf[loop'.route], key, do)
        PROVE  SkipsAreOfRoute'
    <3> DEFINE new == SkipOf(VideoOf[loop'.route], key, do)
               n == Len(sent)
    <3>1. sent' = Append(sent, new)
      BY <2>3 DEF Send
    <3>2. new.key = key /\ SkipRoute(new) = loop'.route
      BY <2>3 DEF SkipOf, SkipRoute
    <3> HIDE DEF new
    <3>3. /\ n \in Nat /\ DOMAIN sent = 1..n
          /\ DOMAIN sent' = 1..(n + 1) /\ sent'[n + 1] = new
          /\ \A i \in 1..n : sent'[i] = sent[i]
      BY <2>1, <3>1
    <3>4. key.kind # "Chapter" =>
             \E api \in Apis : \E a \in Answers[api][MediaOf[VideoOf[loop'.route]]] :
                 \E s \in a : SegmentKey(s) = key
      BY <1>1, <2>3 DEF NamedFor
    <3>5. \A i \in 1..n : sent'[i].key.kind # "Chapter" =>
             /\ SkipRoute(sent'[i]) \in Routes
             /\ \E api \in Apis :
                   \E a \in Answers[api][MediaOf[VideoOf[SkipRoute(sent'[i])]]] :
                      \E s \in a : SegmentKey(s) = sent'[i].key
      BY <3>3 DEF Sourced, SkipsAreOfRoute
    <3>6. sent'[n + 1].key.kind # "Chapter" =>
             /\ SkipRoute(sent'[n + 1]) \in Routes
             /\ \E api \in Apis :
                   \E a \in Answers[api][MediaOf[VideoOf[SkipRoute(sent'[n + 1])]]] :
                      \E s \in a : SegmentKey(s) = sent'[n + 1].key
      BY <2>3, <3>2, <3>3, <3>4
    <3>7. \A i \in DOMAIN sent' : i \in 1..n \/ i = n + 1
      BY <3>3
    <3> QED BY <3>5, <3>6, <3>7 DEF SkipsAreOfRoute
  <2> QED BY <2>2, <2>3, ThreadSends DEF SendsAtMostOne
<1> QED BY <1>1, <1>2 DEF Sourced

\* What is cached for a media, and what the thread keeps for its route, was named for it by
\* a database (resolve_media_and_segments, fetch_skip_segments).
THEOREM SourcedAlways == Spec => []Sourced
<1>1. Init => Sourced
  <2> SUFFICES ASSUME Init PROVE Sourced
    OBVIOUS
  <2>1. \A m \in Media : cached[m].segs = {}
    BY DEF Init
  <2>2. loop.segs = {} /\ sent = <<>> /\ Episodes \subseteq Media
    BY MediaAssumption DEF Init, NewLoop
  <2> QED BY <2>1, <2>2 DEF Sourced, NamedFor, OneSourcePerKind, SkipsAreOfRoute
<1>2. Typed /\ Sourced /\ [Next]_vars => Sourced'
  <2> SUFFICES ASSUME Typed, Sourced, [Next]_vars PROVE Sourced'
    OBVIOUS
  <2>1. CASE UNCHANGED thread
    BY <2>1 DEF thread, Sourced, OneSourcePerKind, SkipsAreOfRoute
  <2>2. CASE Turn \/ EndLookup \/ ResolveIsDue
    BY <2>2, SourcedStep
  <2> QED BY <2>1, <2>2, WorldTyped DEF Next, vars, thread
<1> QED BY <1>1, <1>2, TypedAlways, PTL DEF Spec

\* Whatever is skipped by a segment was named for the video of the route that the page
\* shows when the skip is sent, for any routes, databases and answers, whichever way
\* lookups, the cache and changes of the route interleave; but for a skip that ends a
\* lookup which has outlasted a change, which was named for the route that was looked
\* up (current_segments, segments_cache).
THEOREM SkipsOfTheRoute == Spec => []SkipsAreOfRoute
BY SourcedAlways, PTL DEF Sourced

\* Whatever the databases answer, fail to answer, and in whichever order episodes are
\* looked up, no kind of an episode's segments is supplied by both (fetch_skip_segments).
THEOREM OneSourceForAKind == Spec => []OneSourcePerKind
BY SourcedAlways, PTL DEF Sourced
=============================================================================
