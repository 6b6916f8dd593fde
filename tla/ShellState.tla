----------------------------- MODULE ShellState -----------------------------
(***************************************************************************)
(* What the shell keeps on disk (shell_state.rs): one file, written whole  *)
(* under the lock of the state in memory, with the three files of older    *)
(* versions that it replaces, and the thread that saves the volume once it *)
(* has stayed for 300 ms.                                                  *)
(*                                                                         *)
(* fs::write is not atomic: a process that dies in it leaves a file that   *)
(* does not parse.  Writes fail in no other way.                           *)
(***************************************************************************)
EXTENDS Naturals, Sequences

CONSTANTS
    Places,         \* rectangles of a window that is not full screen
    NoPlace,        \* none is known
    Screen,         \* the rectangle of a full-screen window
    Volumes,        \* from 0 to MAX_VOLUME, as far as mpv goes too
    Beyond,         \* louder ones, which a page may ask for and a file may say
    Loudest,        \* MAX_VOLUME
    DefaultVolume,
    NoVolume,
    Inherited,      \* what the files of an older version say, all three of them
    NoFile, Torn    \* a shell-state.json that is not there, or does not parse

AnyPlace == Places \cup {NoPlace, Screen}

ASSUME PlacesAssumption == {NoPlace, Screen} \cap Places = {} /\ NoPlace # Screen
ASSUME VolumesAssumption ==
    /\ {DefaultVolume, Loudest} \subseteq Volumes
    /\ NoVolume \notin Volumes \cup Beyond
ASSUME FileAssumption ==
    NoFile # Torn /\ {NoFile, Torn} \cap
        [window : AnyPlace, full : BOOLEAN, pip : AnyPlace, volume : Volumes] = {}
ASSUME InheritedAssumption ==
    Inherited \in [window : Places, pip : Places, player : Volumes \cup Beyond]

VARIABLES
    process,    \* how far the shell's process has got
    mem,        \* SHELL_STATE
    file,       \* shell-state.json
    legacy,     \* files of older versions that are still there
    volume,     \* CURRENT_VOLUME and the thread "shell-state"
    kept        \* history: what the last complete save wrote, and whether one was torn

store == <<process, mem, file, legacy, volume, kept>>

-----------------------------------------------------------------------------
Prefs == [window : AnyPlace, full : BOOLEAN, pip : AnyPlace, volume : Volumes]
LegacyFiles == <<"window", "pip", "player">>

Process == {"off", "starting", "loading", "migrating", "running", "ending"}

StoreTypeOK ==
    /\ process \in Process
    /\ mem \in Prefs
    /\ file \in Prefs \cup {NoFile, Torn}
    /\ legacy \subseteq {"window", "pip", "player"}
    /\ volume \in [current : Volumes \cup Beyond,       \* CURRENT_VOLUME
                   unheard : Volumes \cup {NoVolume},   \* mpv has yet to report it
                   waits : Volumes \cup {NoVolume},     \* what the thread will save
                   saved : Volumes \cup {NoVolume}]     \* last_saved, once it runs
    /\ kept \in [prefs : Prefs, torn : BOOLEAN]

\* Bug: a file of the older version is taken at its word.
Trusted(v) == v

\* sanitize_volume
Sanitised(v) == IF v \in Volumes THEN v ELSE Loudest

\* load_or_migrate_state, where the present file cannot be read.
FromLegacy ==
    [window |-> IF "window" \in legacy THEN Inherited.window ELSE NoPlace,
     full |-> FALSE,
     pip |-> IF "pip" \in legacy THEN Inherited.pip ELSE NoPlace,
     volume |-> IF "player" \in legacy THEN Sanitised(Inherited.player) ELSE DefaultVolume]

Loaded == IF file \in Prefs THEN file ELSE FromLegacy

NewVolume(v) == [current |-> v, unheard |-> NoVolume, waits |-> NoVolume, saved |-> NoVolume]

StoreInit ==
    /\ process = "off"
    /\ file = NoFile
    /\ legacy \in {{}, {"window"}, {"window", "pip", "player"}}
    /\ mem = FromLegacy
    /\ volume = NewVolume(DefaultVolume)
    /\ kept = [prefs |-> FromLegacy, torn |-> FALSE]

-----------------------------------------------------------------------------
\* update_shell_state, save_state_to_path
Save(m) ==
    /\ mem' = m
    /\ file' = m
    /\ kept' = [kept EXCEPT !.prefs = m]

\* Bug: the files of the older version are removed, and the state is first written when
\* something in it changes.
MigratedLater(m) == file

\* What is on disk when the older files are removed.
Migrated(m) == m

\* The first use of SHELL_STATE; the volume is the player's first.
LoadState ==
    /\ process = "loading"
    /\ LET m == Loaded IN
       /\ mem' = m
       /\ kept' = [prefs |-> IF kept.torn THEN m ELSE kept.prefs, torn |-> FALSE]
       /\ volume' = NewVolume(m.volume)
       /\ IF file \in Prefs \/ legacy = {}
          THEN process' = "running" /\ UNCHANGED file
          ELSE process' = "migrating" /\ file' = Migrated(m)
    /\ UNCHANGED legacy

\* remove_if_file, three times
RemoveLegacy ==
    /\ process = "migrating"
    /\ LET found == SelectSeq(LegacyFiles, LAMBDA f : f \in legacy) IN
       /\ legacy' = legacy \ {Head(found)}
       /\ process' = IF Len(found) = 1 THEN "running" ELSE process
    /\ UNCHANGED <<mem, file, volume, kept>>

\* The process dies, perhaps in the middle of a write.
MayBeWriting ==
    \/ process = "loading" /\ file \notin Prefs /\ legacy # {}
    \/ process \in {"running", "ending"}

StoreCrash ==
    /\ process # "off"
    /\ process' = "off"
    /\ \/ UNCHANGED <<file, kept>>
       \/ /\ MayBeWriting
          /\ file' = Torn
          /\ kept' = [kept EXCEPT !.torn = @ \/ process # "loading"]
    /\ UNCHANGED <<mem, legacy, volume>>

\* main returns; threads that are not done are gone.
ProcessEnds ==
    /\ process = "ending"
    /\ process' = "off"
    /\ UNCHANGED <<mem, file, legacy, volume, kept>>

-----------------------------------------------------------------------------
(* The volume.                                                             *)

\* A page sets it: cache_property_value of player.rs.  mpv refuses what is beyond its range.
SetVolume(v) ==
    /\ process = "running"
    /\ v # volume.current
    /\ volume' = [volume EXCEPT !.current = v,
                                !.unheard = IF v \in Volumes THEN v ELSE @]
    /\ UNCHANGED <<process, mem, file, legacy, kept>>

\* Bug: the thread saves the first volume of a series.
FirstVolume(old, new) == IF old # NoVolume THEN old ELSE new

\* The inner loop of volume_save_loop.
LatestVolume(old, new) == new

\* mpv reports it, once the page observes the volume and if no stop defers the setting, which
\* are taken for given: update_cached_property of player.rs, save_volume_debounced.
ReportVolume ==
    /\ process = "running"
    /\ volume.unheard # NoVolume
    /\ volume' = [volume EXCEPT
                    !.current = volume.unheard,
                    !.unheard = NoVolume,
                    !.waits = LatestVolume(@, volume.unheard),
                    !.saved = IF @ = NoVolume THEN mem.volume ELSE @]
    /\ UNCHANGED <<process, mem, file, legacy, kept>>

\* volume_save_loop, 300 ms after the last report.
SaveVolume ==
    /\ process \in {"running", "ending"}
    /\ volume.waits # NoVolume
    /\ volume' = [volume EXCEPT !.waits = NoVolume, !.saved = volume.waits]
    /\ IF volume.waits = volume.saved THEN UNCHANGED <<mem, file, kept>>
       ELSE Save([mem EXCEPT !.volume = volume.waits])
    /\ UNCHANGED <<process, legacy>>

-----------------------------------------------------------------------------
(* Properties.                                                             *)

\* Whenever a process dies, be it between the steps of a migration, the next one starts
\* with what was saved last, or with what the older version left; only the write that the
\* process dies in is lost (fs::write), and with it the file.
PrefsSurvive ==
    process \in {"migrating", "running", "ending"} => mem = kept.prefs

\* A volume that mpv has reported and that stays is on disk in the end, however many came
\* before it in one breath.
VolumeIsSaved ==
    \A v \in Volumes :
        <>[](process = "running" /\ volume.current = v)
            => <>[](mem.volume = v /\ file \in {mem, NoFile, Torn})

=============================================================================
