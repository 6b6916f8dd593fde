----------------------------- MODULE PlayerProps -----------------------------
(***************************************************************************)
(* The properties of mpv that the web page sets and watches                *)
(* (stremio_player/player.rs: set_or_queue_prop and what applies, caches   *)
(* and reports properties).                                                *)
(*                                                                         *)
(* The page's settings wait while a stop is under way, and its choice of a *)
(* track waits for a file.  The thread never waits for mpv: it queues sets *)
(* and gets, believes at once in what it has set, and is corrected by mpv's*)
(* replies and by its notices of changes, which mpv gives only when it has *)
(* nothing else to report and only for the latest value.                   *)
(*                                                                         *)
(* The phases of a file are those of LoadPhases, which PlayerController    *)
(* implements.  mpv takes every set and get into its queue.                *)
(***************************************************************************)
EXTENDS LoadPhases, Naturals, Sequences

CONSTANTS
    Props,          \* what the page sets,
    Watched,        \*   and what it observes
    Startup,        \* those of is_startup_property,
    FileScoped,     \*   is_file_scoped_property,
    Render,         \*   is_persistent_render_property,
    Immediate,      \*   is_cached_immediate_property,
    Snapshot,       \*   and request_loaded_property_snapshot
    Pause,          \* "pause", which the globals know too
    Values,
    NoValue,
    Default,        \* what mpv starts with and cached_property_value falls back to
    Budgets,        \* bounds: settings of the page, changes that mpv makes itself, and
                    \*   reports of the page;
    MaxQueue        \*   what waits when another file loads

ASSUME PropsAssumption ==
    /\ Startup \cup Render \cup Immediate \cup Watched \subseteq Props
    /\ FileScoped \subseteq Startup
    /\ Snapshot \in Seq(Immediate)
    /\ \A n \in FileScoped \cap Immediate : \E i \in DOMAIN Snapshot : Snapshot[i] = n
    /\ Render \cap Immediate = {}
    /\ Pause \in Immediate \ FileScoped
ASSUME ValuesAssumption == NoValue \notin Values /\ Default \in [Props -> Values]
Budget == [sets : Nat, changes : Nat, reports : Nat]

ASSUME BoundsAssumption == Budgets \subseteq Budget /\ MaxQueue \in Nat

VARIABLES
    pending,    \* pending_startup_props
    render,     \* persistent_render_properties
    paused,     \* IS_PAUSED
    cache,      \* CACHED_PLAYER_PROPS
    observed,   \* observed_properties
    core,       \* sets and gets that mpv has not run
    replies,    \* GetPropertyReply events that wait for the thread
    mpv,        \* mpv's own values
    told,       \* what mpv last gave notice of
    media,      \* "media.status" of the page: on its way, and sent last
    missed,     \* history: properties for which a notice would have set the shell right, and
                \*   mpv had none to give
    left        \* how often the page and mpv may still act

belief == <<paused, cache>>
vars == <<phase, deferred, pending, render, belief, observed, core, replies, mpv, told,
          media, missed, left>>

-----------------------------------------------------------------------------
Setting == [name : Props, value : Values]
Set(p) == [op |-> "set", name |-> p.name, value |-> p.value]
Get(n) == [op |-> "get", name |-> n, value |-> NoValue]
AnyValue == Values \cup {NoValue}

TypeOK ==
    /\ PhaseTypeOK
    /\ pending \in Seq(Setting)
    /\ \A i, j \in DOMAIN pending : pending[i].name = pending[j].name => i = j
    /\ render \in [Render -> AnyValue]
    /\ paused \in Values
    /\ cache \in [Immediate -> AnyValue]
    /\ observed \subseteq Props
    /\ core \in Seq({Set(s) : s \in Setting} \cup {Get(n) : n \in Props})
    /\ replies \in Seq(Setting)
    /\ mpv \in [Props -> Values]
    /\ told \in [Props -> AnyValue]
    /\ media \in [sent : AnyValue, last : AnyValue]
    /\ missed \subseteq Props
    /\ left \in Budget

Init ==
    /\ PhaseInit
    /\ pending = <<>>
    /\ render = [n \in Render |-> NoValue]
    /\ paused = Default[Pause]
    /\ cache = [n \in Immediate |-> NoValue]
    /\ observed = {Pause}
    /\ core = <<>>
    /\ replies = <<>>
    /\ mpv = Default
    /\ told = [n \in Props |-> NoValue]
    /\ media = [sent |-> NoValue, last |-> NoValue]
    /\ missed = {}
    /\ left \in Budgets

-----------------------------------------------------------------------------
(* What the shell believes.  What it writes into the cache it tells the     *)
(* page too, but for settings that the page was told of when they began to *)
(* wait.                                                                   *)

\* cache_property_value keeps the values that a page may ask for at once.
Cached(n, v) == cache' = IF n \in Immediate THEN [cache EXCEPT ![n] = v] ELSE cache

\* cached_property_value
Known(n) ==
    IF cache[n] # NoValue THEN cache[n] ELSE IF n = Pause THEN paused ELSE Default[n]

\* apply_property_set_side_effect, and what a notice of "pause" does.
Believe(n, v) == Cached(n, v) /\ paused' = IF n = Pause THEN v ELSE paused

\* Bug: IS_PAUSED follows what is set and not what mpv reports.
BelieveTold(n, v) == Cached(n, v) /\ UNCHANGED paused

\* A notice from mpv: update_cached_property.
BelieveNotice(n, v) == Believe(n, v)

\* clear_file_scoped_cached_props
ForgetTracks == cache' = [n \in Immediate |-> IF n \in FileScoped THEN NoValue ELSE cache[n]]

-----------------------------------------------------------------------------
(* The page sets a property: set_or_queue_prop.                            *)

\* should_defer_property
ShouldDefer(n) ==
    IF n \in FileScoped THEN phase # "Loaded" ELSE phase = "Stopping" /\ n \in Startup

Unchanged(n, v) == n \in Render /\ render[n] = v

Rendered(r, n, v) == IF n \in Render THEN [r EXCEPT ![n] = v] ELSE r

\* Bug: a setting that waits already waits twice.
QueueTwice(n, v) == Append(pending, [name |-> n, value |-> v])

\* queue_startup_property: one setting of each name.
Queue(n, v) ==
    IF \E i \in DOMAIN pending : pending[i].name = n
    THEN [i \in DOMAIN pending |->
             IF pending[i].name = n THEN [name |-> n, value |-> v] ELSE pending[i]]
    ELSE Append(pending, [name |-> n, value |-> v])

PageSets(n, v) ==
    /\ left.sets > 0
    /\ left' = [left EXCEPT !.sets = @ - 1]
    /\ Believe(n, v)
    /\ \/ /\ Unchanged(n, v)
          /\ UNCHANGED <<pending, core, render>>
       \/ /\ ~Unchanged(n, v)
          /\ ShouldDefer(n)
          /\ pending' = Queue(n, v)
          /\ UNCHANGED <<core, render>>
       \/ /\ ~Unchanged(n, v)
          /\ ~ShouldDefer(n)
          /\ core' = Append(core, Set([name |-> n, value |-> v]))
          /\ render' = Rendered(render, n, v)
          /\ UNCHANGED pending
    /\ UNCHANGED <<phase, deferred, observed, replies, mpv, told, media, missed>>

\* observe_and_emit_current_property: whenever the page observes a property, which it does
\* once more in a new document, it is told at once what is Known of it.
PageObserves(n) ==
    /\ n \in Watched
    /\ observed' = observed \cup {n}
    /\ UNCHANGED <<phase, deferred, pending, render, belief, core, replies, mpv, told,
                   media, missed, left>>

\* The web application says what it has been told, from its own thread: handle_media_status
\* of app.rs, beside the player's.
PageReports ==
    /\ left.reports > 0
    /\ left' = [left EXCEPT !.reports = @ - 1]
    /\ media.sent = NoValue
    /\ cache[Pause] \notin {NoValue, media.last}
    /\ media' = [sent |-> cache[Pause], last |-> cache[Pause]]
    /\ UNCHANGED <<phase, deferred, pending, render, belief, observed, core, replies, mpv, told,
                   missed>>

OnMediaStatus ==
    /\ media.sent # NoValue
    /\ paused' = media.sent
    /\ media' = [media EXCEPT !.sent = NoValue]
    /\ UNCHANGED <<phase, deferred, pending, render, cache, observed, core, replies, mpv, told,
                   missed, left>>

-----------------------------------------------------------------------------
(* The phases of a file, with what each does to the properties.            *)

\* Bug: choices of tracks are sent ahead of the file.
PreloadAll(p) == p

\* Bug: taking the list of settings empties it.
ForFileNone(p) == <<>>

\* Bug: a file that loads again is taken to have the tracks of the last.
GetsNone(names) == <<>>

Sets(p) == [i \in DOMAIN p |-> Set(p[i])]
Gets(names) == [i \in DOMAIN names |-> Get(names[i])]

\* The settings of a list that are for some names, one after the other.
Only(p, names) ==
    LET upTo[i \in 0..Len(p)] ==
            IF i = 0 THEN <<>>
            ELSE IF p[i].name \in names THEN Append(upTo[i - 1], p[i]) ELSE upTo[i - 1]
    IN  upTo[Len(p)]

Preload(p) == Only(p, Props \ FileScoped)
ForFile(p) == Only(p, FileScoped)

\* The value that a list of settings has for a name, or the one before.
Chosen(p, n, old) ==
    LET of == {i \in DOMAIN p : p[i].name = n}
    IN  IF of = {} THEN old ELSE p[CHOOSE i \in of : TRUE].value

\* What set_prop_val does beside the set, without a word to the page.
BelieveAll(p) ==
    /\ paused' = Chosen(p, Pause, paused)
    /\ cache' = [n \in Immediate |-> Chosen(p, n, cache[n])]

\* apply_pending_preload_properties: a release, and every load that is sent.
ApplyPreload ==
    /\ core' = core \o Sets(Preload(pending))
    /\ pending' = ForFile(pending)
    /\ render' = [n \in Render |-> Chosen(Preload(pending), n, render[n])]
    /\ BelieveAll(Preload(pending))

Kept == UNCHANGED <<observed, mpv, told, media, missed, left>>
NoWord == UNCHANGED <<pending, render, paused, core>>

\* The page's load: capture_loadfile_url, and what send_loadfile_now applies.
Loads ==
    /\ Load
    /\ IF phase = "Stopping" THEN ForgetTracks /\ NoWord
       ELSE /\ core' = core \o Sets(Preload(pending))
            /\ pending' = ForFile(pending)
            /\ render' = [n \in Render |-> Chosen(Preload(pending), n, render[n])]
            /\ paused' = Chosen(Preload(pending), Pause, paused)
            /\ cache' = [n \in Immediate |-> IF n \in FileScoped THEN NoValue
                                             ELSE Chosen(Preload(pending), n, cache[n])]
    /\ UNCHANGED replies /\ Kept

Stops ==
    /\ Stop
    /\ IF phase = "Stopping" THEN UNCHANGED cache ELSE ForgetTracks
    /\ NoWord /\ UNCHANGED replies /\ Kept

\* Loads of the controller's own, and the end of a stop.
Sending == Reload \/ Recover \/ Release \/ (SendDeferred /\ FileEnds)

AppliesPreload ==
    /\ Sending
    /\ ApplyPreload
    /\ UNCHANGED replies /\ Kept

Fails ==
    /\ GiveUp \/ (FileEnds /\ ~deferred)
    /\ UNCHANGED <<belief, replies>> /\ NoWord /\ Kept

OnStartFile ==
    /\ FileStarts
    /\ ForgetTracks
    /\ NoWord /\ UNCHANGED replies /\ Kept

\* on_file_loaded, with apply_pending_file_properties, which keeps no note of what it
\* renders with; then request_loaded_property_snapshot.
OnFileLoaded ==
    /\ Len(core) + Len(replies) <= MaxQueue
    /\ FileLoads
    /\ core' = core \o Sets(pending) \o Gets(Snapshot)
    /\ pending' = <<>>
    /\ BelieveAll(pending)
    /\ UNCHANGED <<render, replies>> /\ Kept

-----------------------------------------------------------------------------
(* mpv.                                                                    *)

\* What the shell believes of a property, or is about to be told of it, is not v.
Misled(n, v) ==
    \/ n \in Immediate /\ cache[n] \notin {v, NoValue}
    \/ n = Pause /\ paused # v
    \/ \E i \in DOMAIN replies : replies[i].name = n /\ replies[i].value # v

\* A value that is back at what was last told gets no notice, whatever the shell believed
\* in between.
Becomes(n, v) ==
    /\ mpv' = [mpv EXCEPT ![n] = v]
    /\ missed' = IF mpv[n] # v /\ v = told[n] /\ Misled(n, v) THEN missed \cup {n} ELSE missed

MpvRuns ==
    /\ core # <<>>
    /\ core' = Tail(core)
    /\ LET c == Head(core) IN
       \/ c.op = "set" /\ Becomes(c.name, c.value) /\ UNCHANGED replies
       \/ /\ c.op = "get"
          /\ replies' = Append(replies, [name |-> c.name, value |-> mpv[c.name]])
          /\ UNCHANGED <<mpv, missed>>
    /\ UNCHANGED <<phase, deferred, pending, render, belief, observed, told, media, left>>

\* A key that mpv is bound to, or mpv's own choice of a track.
MpvChanges(n, v) ==
    /\ left.changes > 0
    /\ left' = [left EXCEPT !.changes = @ - 1]
    /\ Becomes(n, v)
    /\ UNCHANGED <<phase, deferred, pending, render, belief, observed, core, replies, told,
                   media>>

\* emit_async_property_reply
OnReply ==
    /\ replies # <<>>
    /\ replies' = Tail(replies)
    /\ Cached(Head(replies).name, Head(replies).value)
    /\ UNCHANGED <<phase, deferred, pending, render, paused, observed, core, mpv, told,
                   media, missed, left>>

\* PropertyChange
OnChange(n) ==
    /\ replies = <<>>
    /\ n \in observed
    /\ told[n] # mpv[n]
    /\ told' = [told EXCEPT ![n] = mpv[n]]
    /\ missed' = missed \ {n}
    /\ BelieveNotice(n, mpv[n])
    /\ UNCHANGED <<phase, deferred, pending, render, observed, core, replies, mpv, media,
                   left>>

Next ==
    \/ \E n \in Props, v \in Values : PageSets(n, v) \/ MpvChanges(n, v)
    \/ \E n \in Props : PageObserves(n) \/ OnChange(n)
    \/ Loads \/ Stops \/ AppliesPreload \/ Fails \/ OnStartFile \/ OnFileLoaded
    \/ PageReports \/ OnMediaStatus \/ MpvRuns \/ OnReply

Spec == Init /\ [][Next]_vars

-----------------------------------------------------------------------------
(* Properties.                                                             *)

\* Nothing is under way about a property, and mpv has nothing to tell of it.
Settled(n) ==
    /\ \A i \in DOMAIN core : core[i].name # n
    /\ \A i \in DOMAIN replies : replies[i].name # n
    /\ \A i \in DOMAIN pending : pending[i].name # n
    /\ told[n] = mpv[n]

\* The web application, if it reports at all, has said what it was told last.
Reported == media.sent = NoValue /\ media.last \in {NoValue, cache[Pause]}

\* IS_PAUSED, by which the party's host reports and the skipping thread acts, is written
\* when a pause is asked for and again when it is sent, when mpv reports one, and by
\* another thread when the page does. All quiet does not make it right: it stays wrong, until
\* mpv tells of another pause, where mpv's value came back to the one it had told last
\* while the shell believed another (the page pauses, a key resumes before mpv has told of
\* it). That is the only way: in every other quiet state it says whether mpv pauses.
PausedSettles ==
    Settled(Pause) /\ Reported => paused = mpv[Pause] \/ Pause \in missed

\* The snapshot's replies are as old as the queue they waited in, and the cache is written
\* ahead of mpv: once all is quiet a page that asks for a property it observes is told
\* mpv's value; of a track, while its file is loaded. Except, as with IS_PAUSED, where mpv
\* came back unnoticed from what the shell believed or had been answered.
CacheSettles ==
    \A n \in observed \cap Immediate :
        Settled(n) /\ (n \in FileScoped => phase = "Loaded") =>
            Known(n) = mpv[n] \/ n \in missed

NewSets == {core'[i] : i \in {j \in (Len(core) + 1)..Len(core') : core'[j].op = "set"}}

\* "track_selection_waits_for_file_loaded": on none of the ways by which settings leave
\* the list is a track chosen before the controller has a loaded file to choose it in.
TracksWaitForFile ==
    [][\A c \in NewSets : c.name \in FileScoped => phase' = "Loaded"]_vars

\* A setting that waits is given up for nothing but its being sent or the page's setting
\* the same property again, whatever becomes of the file meanwhile.
DeferredIsKept ==
    [][\A i \in DOMAIN pending :
          \/ Set(pending[i]) \in NewSets
          \/ \E j \in DOMAIN pending' :
                /\ pending'[j].name = pending[i].name
                /\ pending'[j] = pending[i] \/ left'.sets < left.sets]_vars

=============================================================================
