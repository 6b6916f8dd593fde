------------------------ MODULE MCPlayerController ------------------------
(* Instances of PlayerController for TLC: one local and one remote stream.  *)
EXTENDS PlayerPhases, TLC

CONSTANTS torrent, remote

TwoStreams == {torrent, remote}
OneStream == {torrent}

Budget(loads, stops, faults) == [load |-> loads, stop |-> stops, fault |-> faults]

\* Two loads and failures, or three loads: the third can overtake one that waits.
SafetyBudgets == {Budget(2, 1, 2), Budget(3, 1, 0)}
TwoLoads == {Budget(2, 1, 0)}
ThreeLoads == {Budget(3, 1, 0)}

=============================================================================
