---------------------------- MODULE MCPlaybackSync --------------------------
(* Instances of PlaybackSync for TLC.                                         *)
EXTENDS PlaybackSync

CONSTANTS movie, series, board, none

Films == {movie, series}
FilmsAndBoard == Films \cup {board}

\* A network that overtakes, where the host's user acts once, or the guest's after it has
\* joined, and one that delivers but for one datagram, where each acts once.
Losing == [page |-> movie, length |-> 4, prompt |-> FALSE, losses |-> 0]
Delivering == [page |-> movie, length |-> 6, prompt |-> TRUE, losses |-> 1]
With(w, deeds, joins) ==
    [page |-> w.page, length |-> w.length, prompt |-> w.prompt, losses |-> w.losses,
     host |-> deeds, guest |-> joins]
MCWorlds == {With(Losing, 1, 1), With(Losing, 0, 2), With(Delivering, 1, 2)}
=============================================================================
