----------------------------- MODULE MCDesktop -----------------------------
(***************************************************************************)
(* Small instance of Desktop.  A behaviour has the budget of one question: *)
(* what is on disk, the modes of the window, or its services.              *)
(***************************************************************************)
EXTENDS Desktop

CONSTANTS here, there, loud, mute, louder

MCPlaces == {here, there}
MCVolumes == {loud, mute}
MCInherited == [window |-> there, pip |-> there, player |-> louder]

MCReleases == {[version |-> 1, prerelease |-> FALSE, installer |-> TRUE],
               [version |-> 2, prerelease |-> FALSE, installer |-> TRUE],
               [version |-> 3, prerelease |-> TRUE, installer |-> TRUE]}

Nothing == [kind \in Bounded |-> 0]
MCBudgets ==
    {[Nothing EXCEPT !.start = 3, !.kill = 2, !.volume = 1, !.user = 1],
     [Nothing EXCEPT !.start = 1, !.volume = 4],
     [Nothing EXCEPT !.start = 2, !.volume = 2, !.quit = 1],
     [Nothing EXCEPT !.start = 1, !.mode = 3, !.user = 1],
     [Nothing EXCEPT !.start = 2, !.mode = 1, !.user = 1, !.quit = 1],
     [Nothing EXCEPT !.start = 1, !.mode = 2, !.quit = 1, !.runtime = 2],
     [Nothing EXCEPT !.start = 2, !.quit = 1, !.check = 2]}
=============================================================================
