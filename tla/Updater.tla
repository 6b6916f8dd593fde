------------------------------ MODULE Updater ------------------------------
(***************************************************************************)
(* The updater (updater.rs and its thread in app.rs): from the page's      *)
(* "app-ready" on it looks for a release every UPDATE_INTERVAL, downloads  *)
(* the installer to the temporary directory and announces it.  The page    *)
(* asks to run it when the user clicks on the notification.                *)
(*                                                                         *)
(* The site and the network are external: a download may end early in a    *)
(* clean way, or in an error.  The site says how long the installer is.    *)
(***************************************************************************)
EXTENDS Integers

CONSTANTS
    Releases,       \* what the site may list: [version, prerelease, installer]
    NoRelease,
    Installed,      \* the version that runs
    ForceUpdate,    \* --force-update
    Candidates      \* --release-candidate

ASSUME ReleasesAssumption ==
    /\ Installed \in Int /\ ForceUpdate \in BOOLEAN /\ Candidates \in BOOLEAN
    /\ \A r \in Releases :
           r \in [version : Int, prerelease : BOOLEAN, installer : BOOLEAN]
    /\ NoRelease \notin Releases

VARIABLES
    checker,    \* the thread: what it does, and with which release
    temp,       \* the installers in the temporary directory
    setup,      \* autoupdater_setup_file
    again       \* history: the announced installer is being downloaded again, or was

updater == <<checker, temp, setup, again>>

UpdaterTypeOK ==
    /\ checker \in [does : {"wait", "check", "download", "sleep"},
                    release : Releases \cup {NoRelease}]
    /\ temp \in [Releases -> {"none", "part", "whole"}]
    /\ setup \in Releases \cup {NoRelease}
    /\ again \in BOOLEAN

Doing(what) == checker' = [does |-> what, release |-> NoRelease]

NewChecker == [does |-> "wait", release |-> NoRelease]

UpdaterInit ==
    /\ checker = NewChecker /\ setup = NoRelease /\ again = FALSE
    /\ temp = [r \in Releases |-> "none"]

-----------------------------------------------------------------------------
\* fetch_release: the newest of all for who wants candidates; else the endpoint's choice.
Fetched(listed) ==
    IF Candidates
    THEN {r \in listed : \A other \in listed : other.version <= r.version}
    ELSE listed

\* autoupdate, up to the download
Wanted(r) ==
    /\ r.prerelease => Candidates
    /\ ForceUpdate \/ r.version > Installed
    /\ r.installer

CheckForUpdate ==
    /\ checker.does = "wait"
    /\ Doing("check")
    /\ UNCHANGED <<temp, setup, again>>

\* File::create empties an installer that is already there.
DownloadBegins ==
    /\ checker.does = "check"
    /\ \E listed \in SUBSET Releases : \E r \in Fetched(listed) :
           /\ Wanted(r)
           /\ checker' = [does |-> "download", release |-> r]
           /\ temp' = [temp EXCEPT ![r] = "part"]
           /\ again' = (again \/ r = setup)
    /\ UNCHANGED setup

\* Nothing to update to, or an error of a request.
NothingToDownload ==
    /\ checker.does = "check"
    /\ Doing("sleep")
    /\ UNCHANGED <<temp, setup, again>>

\* An error of read or write_all leaves what is there.
DownloadFails ==
    /\ checker.does = "download"
    /\ Doing("sleep")
    /\ UNCHANGED <<temp, setup, again>>

\* Bug: the length of what came is not compared.
AnyLength(whole) == TRUE

\* downloaded == size; nothing at all is refused too.
LengthAgrees(whole) == whole

\* The body ends, all of it or not.
DownloadEnds(whole) ==
    /\ checker.does = "download"
    /\ Doing("sleep")
    /\ LET r == checker.release IN
       IF LengthAgrees(whole)
       THEN /\ temp' = [temp EXCEPT ![r] = IF whole THEN "whole" ELSE "part"]
            /\ setup' = r
            /\ again' = (again /\ setup = r /\ ~whole)
       ELSE /\ temp' = [temp EXCEPT ![r] = "none"]
            /\ UNCHANGED <<setup, again>>

CheckAgain ==
    /\ checker.does = "sleep"
    /\ Doing("check")
    /\ UNCHANGED <<temp, setup, again>>

-----------------------------------------------------------------------------
\* The installer that the page has announced to the user is there and complete, unless the
\* next check has begun to download that very release again, which empties it first.
AnnouncedIsWhole == setup # NoRelease /\ ~again => temp[setup] = "whole"

=============================================================================
