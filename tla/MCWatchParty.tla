---------------------------- MODULE MCWatchParty ----------------------------
(* Instances of WatchParty for TLC: a host and one or two guests, or two     *)
(* peers that both may host.  A budget says how often each may do what.      *)
EXTENDS WatchParty, TLC

CONSTANTS host, guest, other

TwoPeers == {host, guest}
ThreePeers == {host, guest, other}

Can(start, join, leave, kick, break, crash) ==
    [o \in Ops |-> CASE o = "start" -> start [] o = "join" -> join
                     [] o = "leave" -> leave [] o = "kick" -> kick
                     [] o = "break" -> break [] o = "crash" -> crash]

\* A host that starts again if its wait runs out, a guest that comes and goes and
\* comes again, a third peer for the limit; a kick and a failed session.
SafetyBudget == host :> Can(2, 0, 0, 1, 1, 0) @@ guest :> Can(0, 2, 1, 0, 0, 0)
                  @@ other :> Can(0, 1, 0, 0, 0, 0)

\* One host that starts twice, two guests, all of them patient.
PatientBudget == host :> Can(2, 0, 1, 0, 1, 0) @@ guest :> Can(0, 1, 1, 0, 0, 1)
                   @@ other :> Can(0, 1, 0, 0, 0, 0)

\* No session fails and nobody joins a party twice.
ProgressBudget == host :> Can(1, 0, 1, 1, 0, 0) @@ guest :> Can(0, 1, 1, 0, 0, 0)
                    @@ other :> Can(0, 1, 0, 0, 0, 0)

\* Two hosts, one guest that moves from one party to the other.
MoveBudget == host :> Can(1, 0, 0, 0, 0, 0) @@ other :> Can(1, 0, 0, 0, 0, 0)
                @@ guest :> Can(0, 2, 1, 0, 0, 0)

\* One guest, whose session with the host fails once.
BreakBudget == host :> Can(1, 0, 0, 0, 1, 0) @@ guest :> Can(0, 1, 0, 0, 0, 0)

=============================================================================
