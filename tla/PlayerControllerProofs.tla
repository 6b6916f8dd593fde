----------------------- MODULE PlayerControllerProofs -----------------------
(***************************************************************************)
(* Proofs about PlayerController, for all streams, limits and bounds, and  *)
(* for an mpv that drops and refuses commands: the types, the globals that *)
(* follow the state machine, the loadfile that is followed up only while   *)
(* Loading, and the bound on automatic reloads.  For an mpv that neither   *)
(* drops nor refuses, also that IS_FILE_LOADED is right once all is told.  *)
(*                                                                         *)
(* Every handler maps a good controller to a good one.  Good(c) is what    *)
(* the first four properties say of c, with the bound on reloads made      *)
(* inductive: a controller has used up what it reloaded, and may still use *)
(* what its counters leave it, once more for a premature end of file and   *)
(* once more for a load that is deferred.                                  *)
(***************************************************************************)
EXTENDS PlayerController, TLAPS

Typed(c) == /\ c \in Controller
            /\ c.attempts <= RetryLimit
            /\ c.recoveries <= RecoveryLimit
            /\ c.eofs <= 1

Flags(c) == /\ c.fileLoaded <=> c.state = "Loaded"
            /\ c.stopInFlight <=> c.state = "Stopping"
            /\ c.state = "Stopping" => c.stopClock

Followed(c) == c.active # NoActive => c.state = "Loading"

Alive(c) == c.active # NoActive \/ c.retry # NoUrl

\* Retries that a live load may still cost, and those a dead one may come to.
Hope(c) == IF Alive(c) THEN RetryLimit - c.attempts ELSE 0
Owed(c) == (IF c.eofs = 0 THEN RetryLimit ELSE 0)
             + (IF c.deferred # NoUrl THEN RetryLimit ELSE 0)
Due(c) == IF c.retry # NoUrl THEN 1 ELSE 0

Covered(c, hope) ==
    c.auto + Due(c) + hope + Owed(c) <= c.recoveries + c.eofs + 3 * RetryLimit

Good(c) == Typed(c) /\ Flags(c) /\ Followed(c) /\ Covered(c, Hope(c))

USE LimitsAssumption, StreamsAssumption

-----------------------------------------------------------------------------
LEMMA UrlFacts ==
    /\ NoUrl \in AnyUrl
    /\ NoUrl \notin Url
    /\ Url \subseteq AnyUrl
    /\ \A u \in AnyUrl : u # NoUrl => u \in Url
    /\ \A u \in Url : CacheBusted(u) \in Url
    /\ \A u \in AnyUrl : IsLocal(u) => u \in Url
  BY DEF NoUrl, Url, AnyUrl, CacheBusted, IsLocal

\* The amounts are numbers, and a live or dead load costs at most what is left.
LEMMA Amounts ==
    ASSUME NEW c, Typed(c)
    PROVE  /\ c.auto \in Nat /\ c.attempts \in Nat /\ c.recoveries \in Nat /\ c.eofs \in Nat
           /\ RetryLimit - c.attempts \in Nat
           /\ Due(c) \in Nat /\ Owed(c) \in Nat /\ Hope(c) \in Nat
           /\ Hope(c) <= RetryLimit - c.attempts
  <1>1. /\ c.auto \in Nat /\ c.attempts \in Nat /\ c.recoveries \in Nat /\ c.eofs \in Nat
        /\ c.attempts <= RetryLimit
    BY DEF Typed, Controller
  <1>2. RetryLimit - c.attempts \in Nat
    BY <1>1
  <1>3. Due(c) \in Nat /\ Owed(c) \in Nat
    BY DEF Due, Owed
  <1>4. Hope(c) \in Nat /\ Hope(c) <= RetryLimit - c.attempts
    BY <1>2 DEF Hope
  <1> QED BY <1>1, <1>2, <1>3, <1>4

\* A change that keeps the counters, the retry and the deferred load keeps the
\* accounts of a load that costs no more than before.
LEMMA Accounts ==
    ASSUME NEW c, NEW s, Typed(c), Typed(s),
           s.auto = c.auto, s.retry = c.retry, s.eofs = c.eofs,
           s.deferred = c.deferred, s.recoveries = c.recoveries,
           NEW h \in Nat, NEW g \in Nat, g <= h, Covered(c, h)
    PROVE  Covered(s, g)
  <1>1. Due(s) = Due(c) /\ Owed(s) = Owed(c)
    BY DEF Due, Owed
  <1>2. /\ c.auto \in Nat /\ c.recoveries \in Nat /\ c.eofs \in Nat
        /\ Due(c) \in Nat /\ Owed(c) \in Nat
    BY Amounts
  <1>3. c.auto + Due(c) + h + Owed(c) <= c.recoveries + c.eofs + 3 * RetryLimit
    BY DEF Covered
  <1>4. c.auto + Due(c) + g + Owed(c) <= c.recoveries + c.eofs + 3 * RetryLimit
    BY <1>2, <1>3
  <1> QED BY <1>1, <1>4 DEF Covered

\* abort_active_loadfile changes the active loadfile and nothing else that the
\* properties speak of.
LEMMA Aborting ==
    ASSUME NEW c, Typed(c)
    PROVE  LET d == AbortActive(c) IN
           /\ Typed(d)
           /\ d = [c EXCEPT !.active = NoActive, !.aborted = d.aborted]
  <1> DEFINE d == AbortActive(c)
  <1>1. c.active \in Active /\ c.active.id \in Nat /\ NoActive \in Active
    BY DEF Typed, Controller, Active, NoActive
  <1>2. AbortIf(c, c.active.id) \in SUBSET Nat
    BY <1>1 DEF AbortIf, Typed, Controller
  <1>3. CASE c.active = NoActive
    BY <1>3, <1>1 DEF AbortActive, Typed, Controller
  <1>4. CASE c.active # NoActive
    BY <1>4, <1>1, <1>2 DEF AbortActive, Typed, Controller
  <1> QED BY <1>3, <1>4

\* send_loadfile_now revives the load; k is what the caller still has to pay.
LEMMA Sending ==
    ASSUME NEW c, Typed(c), NEW u \in Url, NEW ok \in BOOLEAN, NEW k \in {0, 1},
           Covered(c, RetryLimit - c.attempts + k)
    PROVE  LET s == SendLoadfileNow(c, u, ok) IN
           Good(s) /\ Covered(s, Hope(s) + k)
  <1> DEFINE d == AbortActive(c)
             s == SendLoadfileNow(c, u, ok)
  <1>1. Typed(d) /\ d = [c EXCEPT !.active = NoActive, !.aborted = d.aborted]
    BY Aborting
  <1>2. /\ d.auto = c.auto /\ d.retry = c.retry /\ d.eofs = c.eofs
        /\ d.deferred = c.deferred /\ d.recoveries = c.recoveries
        /\ d.attempts = c.attempts /\ d.active = NoActive
    BY <1>1 DEF Typed, Controller
  <1>h. k \in Nat /\ RetryLimit - c.attempts \in Nat /\ RetryLimit - c.attempts + k \in Nat
    <2>1. RetryLimit - c.attempts \in Nat
      BY Amounts
    <2> QED BY <2>1
  <1> HIDE DEF d
  <1>3. CASE ok
    <2> DEFINE q == [op |-> "loadfile", url |-> u, id |-> d.ids]
               a == [url |-> u, id |-> d.ids, replied |-> FALSE, started |-> FALSE]
    <2>1. q \in Queued /\ a \in Active
      BY <1>1, UrlFacts DEF Typed, Controller, Queued, Active
    <2>2. Append(d.core, q) \in Seq(Queued)
      BY <1>1, <2>1 DEF Typed, Controller
    <2>3. s = [d EXCEPT !.state = "Loading", !.stopClock = FALSE, !.fileLoaded = FALSE,
                        !.stopInFlight = FALSE, !.ids = d.ids + 1,
                        !.core = Append(d.core, q), !.active = a]
      BY <1>3 DEF SendLoadfileNow, d
    <2> HIDE DEF q, a, s
    <2>d. d \in Controller
      BY <1>1 DEF Typed
    <2>a. d.ids + 1 \in Nat
      BY <2>d DEF Controller
    <2>b. s \in Controller
      BY <2>1, <2>2, <2>3, <2>a, <2>d DEF Controller, LoadState
    <2>c. s.attempts = d.attempts /\ s.recoveries = d.recoveries /\ s.eofs = d.eofs
      BY <2>3, <2>d DEF Controller
    <2>4. Typed(s)
      BY <1>1, <2>b, <2>c DEF Typed
    <2>5. /\ s.state = "Loading" /\ ~s.stopInFlight /\ ~s.fileLoaded
          /\ s.auto = c.auto /\ s.retry = c.retry /\ s.eofs = c.eofs
          /\ s.deferred = c.deferred /\ s.recoveries = c.recoveries
          /\ s.attempts = c.attempts
      BY <1>2, <2>3, <2>d DEF Controller
    <2>h. /\ Hope(s) \in Nat /\ Hope(s) + k \in Nat
          /\ Hope(s) <= RetryLimit - c.attempts + k
          /\ Hope(s) + k <= RetryLimit - c.attempts + k
      <3>1. Hope(s) \in Nat /\ Hope(s) <= RetryLimit - c.attempts
        BY <2>4, <2>5, Amounts
      <3> QED BY <3>1, <1>h
    <2>6. Covered(s, Hope(s)) /\ Covered(s, Hope(s) + k)
      BY <1>h, <2>4, <2>5, <2>h, Accounts
    <2>7. Good(s) /\ Covered(s, Hope(s) + k)
      BY <2>4, <2>5, <2>6 DEF Good, Flags, Followed
    <2> QED BY <2>7 DEF s
  <1>4. CASE ~ok
    <2>3. s = [d EXCEPT !.state = "Idle", !.stopClock = FALSE, !.fileLoaded = FALSE,
                        !.stopInFlight = FALSE]
      BY <1>4 DEF SendLoadfileNow, d
    <2> HIDE DEF s
    <2>4. Typed(s)
      BY <1>1, <2>3 DEF Typed, Controller, LoadState
    <2>5. /\ s.state = "Idle" /\ ~s.stopInFlight /\ ~s.fileLoaded /\ s.active = NoActive
          /\ s.auto = c.auto /\ s.retry = c.retry /\ s.eofs = c.eofs
          /\ s.deferred = c.deferred /\ s.recoveries = c.recoveries
          /\ s.attempts = c.attempts
      BY <1>1, <1>2, <2>3 DEF Typed, Controller
    <2>h. /\ Hope(s) \in Nat /\ Hope(s) + k \in Nat
          /\ Hope(s) <= RetryLimit - c.attempts + k
          /\ Hope(s) + k <= RetryLimit - c.attempts + k
      <3>1. Hope(s) \in Nat /\ Hope(s) <= RetryLimit - c.attempts
        BY <2>4, <2>5, Amounts
      <3> QED BY <3>1, <1>h
    <2>6. Covered(s, Hope(s)) /\ Covered(s, Hope(s) + k)
      BY <1>h, <2>4, <2>5, <2>h, Accounts
    <2>7. Good(s) /\ Covered(s, Hope(s) + k)
      BY <2>4, <2>5, <2>6 DEF Good, Flags, Followed
    <2> QED BY <2>7 DEF s
  <1> QED BY <1>3, <1>4

LEMMA Reloading ==
    ASSUME NEW c, Typed(c), NEW u \in Url, NEW ok \in BOOLEAN,
           Covered(c, RetryLimit - c.attempts + 1)
    PROVE  Good(Reload(c, u, ok))
  <1> DEFINE s == SendLoadfileNow(c, u, ok)
             r == Reload(c, u, ok)
  <1>1. Good(s) /\ Covered(s, Hope(s) + 1)
    BY Sending
  <1>2. r = [s EXCEPT !.auto = c.auto + 1] /\ s.auto = c.auto
    <2>1. AbortActive(c).auto = c.auto /\ AbortActive(c) \in Controller
      BY Aborting DEF Typed, Controller
    <2> QED BY <2>1 DEF Reload, SendLoadfileNow, Controller
  <1> HIDE DEF s, r
  <1>3. s \in Controller /\ c.auto \in Nat
    BY <1>1 DEF Good, Typed, Controller
  <1>4. r \in Controller /\ r.auto = s.auto + 1
    BY <1>2, <1>3 DEF Controller
  <1>5. /\ r.state = s.state /\ r.fileLoaded = s.fileLoaded
        /\ r.stopInFlight = s.stopInFlight /\ r.stopClock = s.stopClock
        /\ r.active = s.active /\ r.retry = s.retry /\ r.eofs = s.eofs
        /\ r.deferred = s.deferred /\ r.recoveries = s.recoveries
        /\ r.attempts = s.attempts
    BY <1>2, <1>3 DEF Controller
  <1>6. Typed(r) /\ Flags(r) /\ Followed(r)
    BY <1>1, <1>4, <1>5 DEF Good, Typed, Flags, Followed
  <1>7. Due(r) = Due(s) /\ Owed(r) = Owed(s) /\ Hope(r) = Hope(s)
    BY <1>5 DEF Due, Owed, Hope, Alive
  <1>8. /\ s.auto \in Nat /\ s.recoveries \in Nat /\ s.eofs \in Nat
        /\ Due(s) \in Nat /\ Owed(s) \in Nat /\ Hope(s) \in Nat
    BY <1>1, Amounts DEF Good
  <1>9. s.auto + Due(s) + (Hope(s) + 1) + Owed(s) <= s.recoveries + s.eofs + 3 * RetryLimit
    BY <1>1 DEF Covered
  <1>10. (s.auto + 1) + Due(s) + Hope(s) + Owed(s) <= s.recoveries + s.eofs + 3 * RetryLimit
    BY <1>8, <1>9
  <1>11. Covered(r, Hope(r))
    BY <1>4, <1>5, <1>7, <1>10 DEF Covered
  <1> QED BY <1>6, <1>11 DEF Good, r

LEMMA SendingPending ==
    ASSUME NEW c, Good(c), NEW ok \in BOOLEAN
    PROVE  Good(SendPendingLoadfile(c, ok))
  <1> DEFINE d == [c EXCEPT !.deferred = NoUrl]
  <1>1. CASE c.deferred = NoUrl
    BY <1>1 DEF SendPendingLoadfile
  <1>2. CASE c.deferred # NoUrl
    <2>1. c \in Controller /\ c.deferred \in Url
      BY <1>2, UrlFacts DEF Good, Typed, Controller
    <2>2. /\ d \in Controller /\ d.deferred = NoUrl
          /\ d.auto = c.auto /\ d.retry = c.retry /\ d.eofs = c.eofs
          /\ d.recoveries = c.recoveries /\ d.attempts = c.attempts
      BY <2>1, UrlFacts DEF Controller
    <2> HIDE DEF d
    <2>3. Typed(d)
      BY <2>2 DEF Good, Typed
    <2>4. Covered(d, RetryLimit - d.attempts + 0)
      <3>1. /\ c.auto \in Nat /\ c.recoveries \in Nat /\ c.eofs \in Nat
            /\ Due(c) \in Nat /\ Owed(c) \in Nat /\ Hope(c) \in Nat
            /\ c.attempts \in Nat /\ RetryLimit - c.attempts \in Nat
        BY Amounts DEF Good
      <3>2. Due(d) = Due(c) /\ Owed(d) \in Nat /\ Owed(c) = Owed(d) + RetryLimit
        BY <1>2, <2>2 DEF Due, Owed
      <3>3. c.auto + Due(c) + Hope(c) + Owed(c) <= c.recoveries + c.eofs + 3 * RetryLimit
        BY DEF Good, Covered
      <3>4. c.auto + Due(c) + (RetryLimit - c.attempts + 0) + Owed(d)
              <= c.recoveries + c.eofs + 3 * RetryLimit
        BY <3>1, <3>2, <3>3
      <3> QED BY <2>2, <3>2, <3>4 DEF Covered
    <2>5. Good(SendLoadfileNow(d, c.deferred, ok))
      BY <2>1, <2>3, <2>4, Sending
    <2> QED BY <1>2, <2>5 DEF SendPendingLoadfile, d
  <1> QED BY <1>1, <1>2

\* A stop has ended, and no loadfile is followed up meanwhile.
LEMMA Releasing ==
    ASSUME NEW c, Typed(c), c.active = NoActive, Covered(c, Hope(c)), NEW ok \in BOOLEAN
    PROVE  Good(Release(c, ok))
  <1> DEFINE d == [c EXCEPT !.state = "Idle", !.stopClock = FALSE, !.stopId = 0,
                            !.fileLoaded = FALSE, !.stopInFlight = FALSE]
  <1>1. c \in Controller
    BY DEF Typed
  <1>2. /\ d \in Controller /\ d.state = "Idle" /\ ~d.fileLoaded /\ ~d.stopInFlight
        /\ d.auto = c.auto /\ d.retry = c.retry /\ d.eofs = c.eofs
        /\ d.recoveries = c.recoveries /\ d.attempts = c.attempts
        /\ d.active = c.active /\ d.deferred = c.deferred
    BY <1>1 DEF Controller, LoadState
  <1> HIDE DEF d
  <1>3. Good(d)
    BY <1>2 DEF Good, Typed, Flags, Followed, Covered, Hope, Alive, Due, Owed
  <1>4. Good(SendPendingLoadfile(d, ok))
    BY <1>3, SendingPending
  <1> QED BY <1>4 DEF Release, d

\* A change that keeps every counter and revives nothing keeps the accounts.
LEMMA Keeping ==
    ASSUME NEW c, NEW s, Typed(c), Typed(s), Covered(c, Hope(c)),
           s.auto = c.auto, s.retry = c.retry, s.eofs = c.eofs,
           s.deferred = c.deferred, s.recoveries = c.recoveries,
           s.attempts = c.attempts, s.active = NoActive \/ s.active = c.active
                                      \/ c.active # NoActive
    PROVE  Covered(s, Hope(s))
  <1>1. Hope(c) \in Nat /\ Hope(s) \in Nat /\ RetryLimit - c.attempts \in Nat
    BY Amounts
  <1>2. Alive(s) => Alive(c)
    BY DEF Alive
  <1>3. Hope(s) <= Hope(c)
    BY <1>1, <1>2 DEF Hope
  <1> QED BY <1>1, <1>3, Accounts

-----------------------------------------------------------------------------
\* The handlers of the web page's commands.

LEMMA AbortingGood ==
    ASSUME NEW c, Good(c)
    PROVE  Good(AbortActive(c))
  <1> DEFINE d == AbortActive(c)
  <1>1. Typed(d) /\ d = [c EXCEPT !.active = NoActive, !.aborted = d.aborted]
    BY Aborting DEF Good
  <1> HIDE DEF d
  <1>2. c \in Controller
    BY DEF Good, Typed
  <1>3. /\ d.auto = c.auto /\ d.retry = c.retry /\ d.eofs = c.eofs
        /\ d.deferred = c.deferred /\ d.recoveries = c.recoveries
        /\ d.attempts = c.attempts /\ d.active = NoActive /\ d.state = c.state
        /\ d.fileLoaded = c.fileLoaded /\ d.stopInFlight = c.stopInFlight
        /\ d.stopClock = c.stopClock
    BY <1>1, <1>2 DEF Controller
  <1>4. Covered(d, Hope(d))
    BY <1>1, <1>3, Keeping DEF Good
  <1>5. Good(d)
    BY <1>1, <1>3, <1>4 DEF Good, Flags, Followed
  <1> QED BY <1>5 DEF d

LEMMA SendingStop ==
    ASSUME NEW c, Typed(c), NEW ok \in BOOLEAN
    PROVE  LET d == SendStop(c, ok) IN
           Typed(d) /\ d = [c EXCEPT !.ids = d.ids, !.core = d.core]
  <1> DEFINE q == [op |-> "stop", url |-> NoUrl, id |-> c.ids]
  <1>1. c \in Controller /\ c.ids + 1 \in Nat
    BY DEF Typed, Controller
  <1>2. q \in Queued
    BY <1>1, UrlFacts DEF Queued, Controller
  <1>3. Append(c.core, q) \in Seq(Queued)
    BY <1>1, <1>2 DEF Controller
  <1> HIDE DEF q
  <1> DEFINE d == [c EXCEPT !.ids = c.ids + 1, !.core = Append(c.core, q)]
  <1>4. CASE ok
    <2>1. SendStop(c, ok) = d
      BY <1>4 DEF SendStop, q
    <2>2. /\ d \in Controller /\ d.attempts = c.attempts
          /\ d.recoveries = c.recoveries /\ d.eofs = c.eofs
          /\ d.ids = c.ids + 1 /\ d.core = Append(c.core, q)
      BY <1>1, <1>3 DEF Controller
    <2>3. d = [c EXCEPT !.ids = d.ids, !.core = d.core]
      BY <2>2
    <2> HIDE DEF d
    <2>4. Typed(d)
      BY <2>2 DEF Typed
    <2> QED BY <2>1, <2>3, <2>4
  <1>5. CASE ~ok
    <2>1. c = [c EXCEPT !.ids = c.ids, !.core = c.core]
      BY <1>1 DEF Controller
    <2> QED BY <1>5, <2>1 DEF SendStop
  <1> QED BY <1>4, <1>5

\* A stop is sent only when no loadfile is followed up.
LEMMA Stopping ==
    ASSUME NEW c, Typed(c), c.active = NoActive, Covered(c, Hope(c)), NEW ok \in BOOLEAN
    PROVE  Good(EnterStopping(c, ok))
  <1> DEFINE d == SendStop(c, ok)
             id == IF ok THEN c.ids ELSE 0
             s == [d EXCEPT !.state = "Stopping", !.stopClock = TRUE, !.fileLoaded = FALSE,
                            !.stopInFlight = TRUE, !.stopId = id]
  <1>1. Typed(d) /\ d = [c EXCEPT !.ids = d.ids, !.core = d.core]
    BY SendingStop
  <1>2. EnterStopping(c, ok) = s
    BY DEF EnterStopping
  <1>3. c \in Controller /\ id \in Nat
    BY DEF Typed, Controller
  <1> HIDE DEF d, id
  <1>4. d \in Controller
    BY <1>1 DEF Typed
  <1>5. /\ d.auto = c.auto /\ d.retry = c.retry /\ d.eofs = c.eofs
        /\ d.deferred = c.deferred /\ d.recoveries = c.recoveries
        /\ d.attempts = c.attempts /\ d.active = c.active
    BY <1>1, <1>3 DEF Controller
  <1>6. /\ s \in Controller /\ s.state = "Stopping" /\ s.stopClock
        /\ ~s.fileLoaded /\ s.stopInFlight
        /\ s.auto = d.auto /\ s.retry = d.retry /\ s.eofs = d.eofs
        /\ s.deferred = d.deferred /\ s.recoveries = d.recoveries
        /\ s.attempts = d.attempts /\ s.active = d.active
    BY <1>3, <1>4 DEF Controller, LoadState
  <1> HIDE DEF s
  <1>7. Typed(s)
    BY <1>1, <1>6 DEF Typed
  <1>8. Covered(s, Hope(s))
    BY <1>5, <1>6, <1>7, Keeping
  <1> QED BY <1>2, <1>5, <1>6, <1>7, <1>8 DEF Good, Flags, Followed

LEMMA HandlingStop ==
    ASSUME NEW c, Good(c), NEW ok \in BOOLEAN
    PROVE  Good(HandleStop(c, ok))
  <1> DEFINE d == AbortActive(c)
             s == [d EXCEPT !.state = "Idle", !.stopClock = FALSE, !.stopId = 0,
                            !.fileLoaded = FALSE, !.stopInFlight = FALSE]
  <1>1. c \in Controller /\ c.state \in LoadState
    BY DEF Good, Typed, Controller
  <1>2. Good(d) /\ d.active = NoActive
    <2>1. d = [c EXCEPT !.active = NoActive, !.aborted = d.aborted]
      BY Aborting DEF Good
    <2> HIDE DEF d
    <2>2. d.active = NoActive
      BY <2>1, <1>1 DEF Controller
    <2> QED BY <2>2, AbortingGood DEF d
  <1>3. CASE c.state = "Stopping"
    BY <1>3 DEF HandleStop
  <1>4. CASE c.state = "Idle"
    BY <1>2, <1>4 DEF HandleStop
  <1>5. CASE c.state = "Loading" /\ c.active # NoActive /\ ~c.active.started
    <2>1. HandleStop(c, ok) = s
      BY <1>5 DEF HandleStop
    <2> HIDE DEF d
    <2>2. d \in Controller
      BY <1>2 DEF Good, Typed
    <2>3. /\ s \in Controller /\ s.state = "Idle" /\ ~s.fileLoaded /\ ~s.stopInFlight
          /\ s.auto = d.auto /\ s.retry = d.retry /\ s.eofs = d.eofs
          /\ s.deferred = d.deferred /\ s.recoveries = d.recoveries
          /\ s.attempts = d.attempts /\ s.active = d.active
      BY <2>2 DEF Controller, LoadState
    <2> HIDE DEF s
    <2>4. Typed(s)
      BY <1>2, <2>3 DEF Good, Typed
    <2>5. Covered(s, Hope(s))
      BY <1>2, <2>3, <2>4, Keeping DEF Good
    <2> QED BY <1>2, <2>1, <2>3, <2>4, <2>5 DEF Good, Flags, Followed
  <1>6. CASE c.state = "Loading" /\ (c.active # NoActive => c.active.started)
    <2>1. HandleStop(c, ok) = EnterStopping(d, ok)
      BY <1>6 DEF HandleStop
    <2> HIDE DEF d
    <2> QED BY <1>2, <2>1, Stopping DEF Good
  <1>7. CASE c.state = "Loaded"
    <2>1. HandleStop(c, ok) = EnterStopping(c, ok)
      BY <1>7 DEF HandleStop
    <2>2. c.active = NoActive
      BY <1>7 DEF Good, Followed
    <2> QED BY <2>1, <2>2, Stopping DEF Good
  <1> QED BY <1>1, <1>3, <1>4, <1>5, <1>6, <1>7 DEF LoadState

\* A load of the user opens new accounts.
LEMMA HandlingLoadfile ==
    ASSUME NEW c, Good(c), NEW u \in Url, NEW ok \in BOOLEAN
    PROVE  Good(HandleLoadfile(c, u, ok))
  <1> DEFINE d == CaptureUrl(c, u)
             s == [d EXCEPT !.deferred = u]
  <1>1. c \in Controller /\ u \in AnyUrl /\ u # NoUrl
    BY UrlFacts DEF Good, Typed
  <1>2. /\ d \in Controller /\ d.auto = 0 /\ d.attempts = 0 /\ d.recoveries = 0
        /\ d.eofs = 0 /\ d.retry = NoUrl /\ d.state = c.state /\ d.active = c.active
        /\ d.fileLoaded = c.fileLoaded /\ d.stopInFlight = c.stopInFlight
        /\ d.stopClock = c.stopClock
    BY <1>1, UrlFacts DEF CaptureUrl, Controller
  <1> HIDE DEF d
  <1>3. Typed(d)
    BY <1>2 DEF Typed
  <1>4. CASE d.state # "Stopping"
    <2>1. Due(d) = 0 /\ Owed(d) \in Nat /\ Owed(d) <= 2 * RetryLimit
      BY <1>2 DEF Due, Owed
    <2>2. 0 + 0 + (RetryLimit - 0 + 0) + Owed(d) <= 0 + 0 + 3 * RetryLimit
      BY <2>1
    <2>3. Covered(d, RetryLimit - d.attempts + 0)
      BY <1>2, <2>1, <2>2 DEF Covered
    <2>4. Good(SendLoadfileNow(d, u, ok))
      BY <1>3, <2>3, Sending
    <2> QED BY <1>4, <2>4 DEF HandleLoadfile, d
  <1>5. CASE d.state = "Stopping"
    <2>1. /\ s \in Controller /\ s.auto = 0 /\ s.attempts = 0 /\ s.recoveries = 0
          /\ s.eofs = 0 /\ s.retry = NoUrl /\ s.state = c.state /\ s.active = c.active
          /\ s.fileLoaded = c.fileLoaded /\ s.stopInFlight = c.stopInFlight
          /\ s.stopClock = c.stopClock /\ s.deferred = u
      BY <1>1, <1>2 DEF Controller
    <2> HIDE DEF s
    <2>2. s.active = NoActive
      BY <1>2, <1>5, <2>1 DEF Good, Followed
    <2>3. Due(s) = 0 /\ Hope(s) = 0 /\ Owed(s) = RetryLimit + RetryLimit
      BY <1>1, <2>1, <2>2 DEF Due, Hope, Alive, Owed
    <2>4. 0 + 0 + 0 + (RetryLimit + RetryLimit) <= 0 + 0 + 3 * RetryLimit
      OBVIOUS
    <2>5. Covered(s, Hope(s))
      BY <2>1, <2>3, <2>4 DEF Covered
    <2>6. Good(s)
      BY <2>1, <2>5 DEF Good, Typed, Flags, Followed
    <2> QED BY <1>5, <2>6 DEF HandleLoadfile, d, s
  <1> QED BY <1>4, <1>5

-----------------------------------------------------------------------------
\* Automatic retries.

\* A retry costs an attempt; the counters are those of a load that may be live.
LEMMA Scheduling ==
    ASSUME NEW c, Typed(c), Flags(c), Followed(c), NEW u \in AnyUrl,
           Covered(c, RetryLimit - c.attempts)
    PROVE  Good(ScheduleRetry(c, u))
  <1> DEFINE s == [c EXCEPT !.attempts = c.attempts + 1, !.retry = u]
  <1>1. /\ c.auto \in Nat /\ c.attempts \in Nat /\ c.recoveries \in Nat /\ c.eofs \in Nat
        /\ RetryLimit - c.attempts \in Nat
        /\ Due(c) \in Nat /\ Owed(c) \in Nat /\ Hope(c) \in Nat
        /\ Hope(c) <= RetryLimit - c.attempts
    BY Amounts
  <1>2. CASE c.state # "Stopping" /\ IsLocal(u) /\ c.attempts < RetryLimit
    <2>1. ScheduleRetry(c, u) = s
      BY <1>2 DEF ScheduleRetry
    <2>2. c \in Controller /\ c.attempts + 1 \in Nat /\ c.attempts + 1 <= RetryLimit
      BY <1>1, <1>2 DEF Typed
    <2>3. /\ s \in Controller /\ s.attempts = c.attempts + 1 /\ s.retry = u
          /\ s.auto = c.auto /\ s.eofs = c.eofs /\ s.deferred = c.deferred
          /\ s.recoveries = c.recoveries /\ s.active = c.active /\ s.state = c.state
          /\ s.fileLoaded = c.fileLoaded /\ s.stopInFlight = c.stopInFlight
          /\ s.stopClock = c.stopClock
      BY <2>2 DEF Controller
    <2> HIDE DEF s
    <2>4. Typed(s) /\ Flags(s) /\ Followed(s)
      BY <2>2, <2>3 DEF Typed, Flags, Followed
    <2>5. Due(s) <= 1 /\ Owed(s) = Owed(c) /\ Due(s) \in Nat
      BY <2>3 DEF Due, Owed
    <2>6. Hope(s) \in Nat /\ Hope(s) <= RetryLimit - (c.attempts + 1)
      BY <2>3, <2>4, Amounts
    <2>7. c.auto + Due(c) + (RetryLimit - c.attempts) + Owed(c)
            <= c.recoveries + c.eofs + 3 * RetryLimit
      BY DEF Covered
    <2>8. c.auto + Due(s) + Hope(s) + Owed(c) <= c.recoveries + c.eofs + 3 * RetryLimit
      BY <1>1, <2>5, <2>6, <2>7
    <2>9. Covered(s, Hope(s))
      BY <2>3, <2>5, <2>8 DEF Covered
    <2> QED BY <2>1, <2>4, <2>9 DEF Good
  <1>3. CASE ~(c.state # "Stopping" /\ IsLocal(u) /\ c.attempts < RetryLimit)
    <2>1. ScheduleRetry(c, u) = c
      BY <1>3 DEF ScheduleRetry
    <2>2. Covered(c, Hope(c))
      BY <1>1, Accounts
    <2> QED BY <2>1, <2>2 DEF Good
  <1> QED BY <1>2, <1>3

LEMMA RetryingStartup ==
    ASSUME NEW c, Good(c)
    PROVE  Good(RetryStartupFailure(c))
  <1>1. CASE c.state = "Loading" /\ IsLocal(c.url) /\ c.active # NoActive /\ c.active.started
    <2>1. c.url \in AnyUrl
      BY DEF Good, Typed, Controller
    <2>2. Covered(c, RetryLimit - c.attempts)
      BY <1>1 DEF Good, Hope, Alive
    <2>3. Good(ScheduleRetry(c, c.url))
      BY <2>1, <2>2, Scheduling DEF Good
    <2> QED BY <1>1, <2>3 DEF RetryStartupFailure
  <1>2. CASE ~(c.state = "Loading" /\ IsLocal(c.url) /\ c.active # NoActive
                 /\ c.active.started)
    BY <1>2 DEF RetryStartupFailure
  <1> QED BY <1>1, <1>2

LEMMA RunningRetry ==
    ASSUME NEW c, Good(c), c.retry # NoUrl, NEW ok \in BOOLEAN
    PROVE  Good(RunRetry(c, ok))
  <1> DEFINE u == CacheBusted(c.retry)
             d == [c EXCEPT !.retry = NoUrl]
             e == [d EXCEPT !.url = u]
  <1>1. c \in Controller /\ c.retry \in AnyUrl
    BY DEF Good, Typed, Controller
  <1>2. u \in Url /\ u \in AnyUrl
    BY <1>1, UrlFacts
  <1>3. /\ c.auto \in Nat /\ c.attempts \in Nat /\ c.recoveries \in Nat /\ c.eofs \in Nat
        /\ RetryLimit - c.attempts \in Nat
        /\ Due(c) = 1 /\ Owed(c) \in Nat /\ Hope(c) = RetryLimit - c.attempts
    BY Amounts DEF Good, Due, Hope, Alive
  <1>4. c.auto + 1 + (RetryLimit - c.attempts) + Owed(c)
          <= c.recoveries + c.eofs + 3 * RetryLimit
    BY <1>3 DEF Good, Covered
  <1> HIDE DEF u
  <1>5. /\ d \in Controller /\ d.retry = NoUrl /\ d.attempts = c.attempts
        /\ d.auto = c.auto /\ d.eofs = c.eofs /\ d.deferred = c.deferred
        /\ d.recoveries = c.recoveries /\ d.active = c.active /\ d.state = c.state
        /\ d.fileLoaded = c.fileLoaded /\ d.stopInFlight = c.stopInFlight
        /\ d.stopClock = c.stopClock
    BY <1>1, UrlFacts DEF Controller
  <1> HIDE DEF d
  <1>6. Typed(d) /\ Flags(d) /\ Followed(d)
    BY <1>5 DEF Good, Typed, Flags, Followed
  <1>7. Due(d) = 0 /\ Owed(d) = Owed(c) /\ Hope(d) \in Nat
        /\ Hope(d) <= RetryLimit - c.attempts
    BY <1>5, <1>6, Amounts DEF Due, Owed
  <1>8. CASE c.state = "Stopping" \/ c.url # c.retry
    <2>1. c.auto + 0 + Hope(d) + Owed(c) <= c.recoveries + c.eofs + 3 * RetryLimit
      BY <1>3, <1>4, <1>7
    <2>2. Covered(d, Hope(d))
      BY <1>5, <1>7, <2>1 DEF Covered
    <2> QED BY <1>6, <1>8, <2>2 DEF Good, RunRetry, d
  <1>9. CASE ~(c.state = "Stopping" \/ c.url # c.retry)
    <2>1. /\ e \in Controller /\ e.retry = NoUrl /\ e.attempts = c.attempts
          /\ e.auto = c.auto /\ e.eofs = c.eofs /\ e.deferred = c.deferred
          /\ e.recoveries = c.recoveries
      BY <1>2, <1>5 DEF Controller
    <2>2. RunRetry(c, ok) = Reload(e, u, ok)
      BY <1>9 DEF RunRetry, d, u
    <2> HIDE DEF e
    <2>3. Typed(e)
      BY <1>6, <2>1, <1>5 DEF Typed
    <2>4. Due(e) = 0 /\ Owed(e) = Owed(c)
      BY <2>1 DEF Due, Owed
    <2>5. c.auto + 0 + (RetryLimit - c.attempts + 1) + Owed(c)
            <= c.recoveries + c.eofs + 3 * RetryLimit
      BY <1>3, <1>4
    <2>6. Covered(e, RetryLimit - e.attempts + 1)
      BY <2>1, <2>4, <2>5 DEF Covered
    <2> QED BY <1>2, <2>2, <2>3, <2>6, Reloading
  <1> QED BY <1>8, <1>9

\* A recovery is a deferred load that the end of no stop has to release: it goes
\* out at once and is paid for by the count of recoveries.
LEMMA Recovering ==
    ASSUME NEW c, Good(c), c.active # NoActive,
           c.recoveries < RecoveryLimit, NEW ok \in BOOLEAN
    PROVE  Good(RecoverLoadfile(c, ok))
  <1> DEFINE u == CacheBusted(c.active.url)
             a == AbortActive(c)
             d == [a EXCEPT !.deferred = u, !.url = u,
                            !.recoveries = c.recoveries + 1, !.auto = c.auto + 1]
             r == [d EXCEPT !.state = "Idle", !.stopClock = FALSE, !.stopId = 0,
                            !.fileLoaded = FALSE, !.stopInFlight = FALSE]
             e == [r EXCEPT !.deferred = NoUrl]
  <1>1. c \in Controller /\ c.active \in Active /\ c.active.url \in Url
    BY DEF Good, Typed, Controller, Active
  <1>2. u \in Url /\ u \in AnyUrl /\ u # NoUrl
    BY <1>1, UrlFacts
  <1>3. /\ c.auto \in Nat /\ c.attempts \in Nat /\ c.recoveries \in Nat /\ c.eofs \in Nat
        /\ RetryLimit - c.attempts \in Nat
        /\ Due(c) \in Nat /\ Owed(c) \in Nat /\ Hope(c) = RetryLimit - c.attempts
    BY Amounts DEF Good, Hope, Alive
  <1>4. c.auto + Due(c) + (RetryLimit - c.attempts) + Owed(c)
          <= c.recoveries + c.eofs + 3 * RetryLimit
    BY <1>3 DEF Good, Covered
  <1>5. Typed(a) /\ a = [c EXCEPT !.active = NoActive, !.aborted = a.aborted]
    BY Aborting DEF Good
  <1> HIDE DEF u, a
  <1>6. /\ a \in Controller /\ a.attempts = c.attempts /\ a.retry = c.retry
        /\ a.eofs = c.eofs
    BY <1>1, <1>5 DEF Controller, Typed
  <1>7. /\ c.auto + 1 \in Nat /\ c.recoveries + 1 \in Nat
        /\ c.recoveries + 1 <= RecoveryLimit
    BY <1>3
  <1>8. /\ d \in Controller /\ d.attempts = c.attempts /\ d.retry = c.retry
        /\ d.eofs = c.eofs /\ d.deferred = u /\ d.recoveries = c.recoveries + 1
        /\ d.auto = c.auto + 1
    BY <1>2, <1>6, <1>7 DEF Controller
  <1>9. RecoverLoadfile(c, ok) = Release(d, ok)
    BY DEF RecoverLoadfile, u, a
  <1> HIDE DEF d
  <1>10. /\ r \in Controller /\ r.attempts = c.attempts /\ r.retry = c.retry
         /\ r.eofs = c.eofs /\ r.deferred = u /\ r.recoveries = c.recoveries + 1
         /\ r.auto = c.auto + 1
    BY <1>8 DEF Controller, LoadState
  <1>11. Release(d, ok) = SendPendingLoadfile(r, ok)
    BY DEF Release
  <1> HIDE DEF r
  <1>12. /\ e \in Controller /\ e.attempts = c.attempts /\ e.retry = c.retry
         /\ e.eofs = c.eofs /\ e.deferred = NoUrl /\ e.recoveries = c.recoveries + 1
         /\ e.auto = c.auto + 1
    BY <1>10, UrlFacts DEF Controller
  <1>13. SendPendingLoadfile(r, ok) = SendLoadfileNow(e, u, ok)
    BY <1>2, <1>10 DEF SendPendingLoadfile
  <1> HIDE DEF e
  <1>14. Typed(e)
    BY <1>7, <1>12 DEF Good, Typed
  <1>15. Due(e) = Due(c) /\ Owed(e) \in Nat /\ Owed(e) <= Owed(c)
    BY <1>12 DEF Due, Owed
  <1>16. (c.auto + 1) + Due(c) + (RetryLimit - c.attempts + 0) + Owed(e)
           <= (c.recoveries + 1) + c.eofs + 3 * RetryLimit
    BY <1>3, <1>4, <1>15
  <1>17. Covered(e, RetryLimit - e.attempts + 0)
    BY <1>12, <1>15, <1>16 DEF Covered
  <1>18. Good(SendLoadfileNow(e, u, ok))
    BY <1>2, <1>14, <1>17, Sending
  <1> QED BY <1>9, <1>11, <1>13, <1>18

LEMMA Cancelling ==
    ASSUME NEW c, Good(c), c.active # NoActive, NEW ok \in BOOLEAN
    PROVE  Good(CancelLoadfile(c, ok))
  <1> DEFINE u == c.active.url
             a == AbortActive(c)
             b == SendStop(a, ok)
             d == [b EXCEPT !.state = "Idle"]
  <1>1. c \in Controller /\ u \in AnyUrl /\ c.state = "Loading"
    BY UrlFacts DEF Good, Typed, Controller, Active, Followed
  <1>2. Typed(a) /\ a = [c EXCEPT !.active = NoActive, !.aborted = a.aborted]
    BY Aborting DEF Good
  <1>3. Typed(b) /\ b = [a EXCEPT !.ids = b.ids, !.core = b.core]
    BY <1>2, SendingStop
  <1>4. CancelLoadfile(c, ok) = IF c.url # u THEN d ELSE ScheduleRetry(d, u)
    BY DEF CancelLoadfile
  <1> HIDE DEF u, a, b
  <1>5. /\ a \in Controller /\ a.attempts = c.attempts /\ a.retry = c.retry
        /\ a.eofs = c.eofs /\ a.deferred = c.deferred /\ a.recoveries = c.recoveries
        /\ a.auto = c.auto /\ a.active = NoActive /\ a.fileLoaded = c.fileLoaded
        /\ a.stopInFlight = c.stopInFlight
    BY <1>1, <1>2 DEF Controller, Typed
  <1>6. /\ b \in Controller /\ b.attempts = c.attempts /\ b.retry = c.retry
        /\ b.eofs = c.eofs /\ b.deferred = c.deferred /\ b.recoveries = c.recoveries
        /\ b.auto = c.auto /\ b.active = NoActive /\ b.fileLoaded = c.fileLoaded
        /\ b.stopInFlight = c.stopInFlight
    BY <1>3, <1>5 DEF Controller, Typed
  <1>7. /\ d \in Controller /\ d.attempts = c.attempts /\ d.retry = c.retry
        /\ d.eofs = c.eofs /\ d.deferred = c.deferred /\ d.recoveries = c.recoveries
        /\ d.auto = c.auto /\ d.active = NoActive /\ d.fileLoaded = c.fileLoaded
        /\ d.stopInFlight = c.stopInFlight /\ d.state = "Idle"
    BY <1>6 DEF Controller, LoadState
  <1> HIDE DEF d
  <1>8. Typed(d) /\ Flags(d) /\ Followed(d)
    BY <1>1, <1>7 DEF Good, Typed, Flags, Followed
  <1>9. Covered(c, RetryLimit - c.attempts) /\ RetryLimit - c.attempts \in Nat
    BY Amounts DEF Good, Hope, Alive
  <1>10. Covered(d, RetryLimit - d.attempts)
    BY <1>7, <1>8, <1>9, Accounts DEF Good
  <1>11. Covered(d, Hope(d))
    BY <1>7, <1>8, Keeping DEF Good
  <1> QED BY <1>1, <1>4, <1>8, <1>10, <1>11, Scheduling DEF Good

LEMMA ReleasingStaleStop ==
    ASSUME NEW c, Good(c), c.state = "Stopping", NEW ok \in BOOLEAN
    PROVE  Good(ReleaseStaleStop(c, ok))
  <1> DEFINE x == IF c.stopId = 0 THEN c.aborted ELSE AbortIf(c, c.stopId)
             d == [c EXCEPT !.aborted = x]
  <1>1. c \in Controller /\ x \in SUBSET Nat
    BY DEF Good, Typed, Controller, AbortIf
  <1>2. ReleaseStaleStop(c, ok) = Release(d, ok)
    BY <1>1 DEF ReleaseStaleStop, Controller
  <1> HIDE DEF x
  <1>3. /\ d \in Controller /\ d.attempts = c.attempts /\ d.retry = c.retry
        /\ d.eofs = c.eofs /\ d.deferred = c.deferred /\ d.recoveries = c.recoveries
        /\ d.auto = c.auto /\ d.active = c.active
    BY <1>1 DEF Controller
  <1> HIDE DEF d
  <1>4. Typed(d) /\ d.active = NoActive
    BY <1>3 DEF Good, Typed, Followed
  <1>5. Covered(d, Hope(d))
    BY <1>3, <1>4, Keeping DEF Good
  <1> QED BY <1>2, <1>4, <1>5, Releasing

-----------------------------------------------------------------------------
\* The handlers of mpv's events.

LEMMA StartingFile ==
    ASSUME NEW c, Good(c)
    PROVE  Good(OnStartFile(c))
  <1> DEFINE a == IF c.active = NoActive THEN c.active
                  ELSE [c.active EXCEPT !.started = TRUE]
             s == [c EXCEPT !.state = "Loading", !.stopClock = FALSE, !.fileLoaded = FALSE,
                            !.stopInFlight = FALSE, !.midway = FALSE, !.active = a]
  <1>1. c \in Controller /\ c.active \in Active
    BY DEF Good, Typed, Controller
  <1>2. a \in Active /\ (c.active = NoActive => a = NoActive)
    BY <1>1 DEF Active
  <1>3. OnStartFile(c) = s
    BY <1>1 DEF OnStartFile, Controller
  <1> HIDE DEF a
  <1>4. /\ s \in Controller /\ s.attempts = c.attempts /\ s.retry = c.retry
        /\ s.eofs = c.eofs /\ s.deferred = c.deferred /\ s.recoveries = c.recoveries
        /\ s.auto = c.auto /\ s.active = a /\ s.state = "Loading"
        /\ ~s.fileLoaded /\ ~s.stopInFlight
    BY <1>1, <1>2 DEF Controller, LoadState
  <1> HIDE DEF s
  <1>5. Typed(s) /\ Flags(s) /\ Followed(s)
    BY <1>4 DEF Good, Typed, Flags, Followed
  <1>6. Covered(s, Hope(s))
    BY <1>2, <1>4, <1>5, Keeping DEF Good
  <1> QED BY <1>3, <1>5, <1>6 DEF Good

\* A loaded file gets its attempts back, but nothing is left that would use them.
LEMMA LoadingFile ==
    ASSUME NEW c, Good(c)
    PROVE  Good(OnFileLoaded(c))
  <1> DEFINE s == OnFileLoaded(c)
  <1>1. c \in Controller
    BY DEF Good, Typed
  <1>2. /\ s \in Controller /\ s.attempts = 0 /\ s.retry = NoUrl
        /\ s.eofs = c.eofs /\ s.deferred = c.deferred /\ s.recoveries = c.recoveries
        /\ s.auto = c.auto /\ s.active = NoActive /\ s.state = "Loaded"
        /\ s.fileLoaded /\ ~s.stopInFlight
    BY <1>1, UrlFacts DEF OnFileLoaded, Controller, LoadState, Active
  <1> HIDE DEF s
  <1>3. Typed(s) /\ Flags(s) /\ Followed(s)
    BY <1>2 DEF Good, Typed, Flags, Followed
  <1>4. Due(s) = 0 /\ Hope(s) = 0 /\ Owed(s) = Owed(c)
    BY <1>2 DEF Due, Hope, Alive, Owed
  <1>5. /\ c.auto \in Nat /\ c.recoveries \in Nat /\ c.eofs \in Nat
        /\ Due(c) \in Nat /\ Owed(c) \in Nat /\ Hope(c) \in Nat
    BY Amounts DEF Good
  <1>6. c.auto + Due(c) + Hope(c) + Owed(c) <= c.recoveries + c.eofs + 3 * RetryLimit
    BY DEF Good, Covered
  <1>7. c.auto + 0 + 0 + Owed(c) <= c.recoveries + c.eofs + 3 * RetryLimit
    BY <1>5, <1>6
  <1>8. Covered(s, Hope(s))
    BY <1>2, <1>4, <1>7 DEF Covered
  <1> QED BY <1>3, <1>8 DEF Good, s

LEMMA EndingFile ==
    ASSUME NEW c, Good(c)
    PROVE  /\ Good(OnEndFile(c)) /\ OnEndFile(c).eofs = c.eofs
           /\ OnEndFile(c).url = c.url
  <1> DEFINE x == IF c.active = NoActive THEN "Idle" ELSE "Loading"
             s == [c EXCEPT !.state = x, !.stopClock = FALSE, !.stopId = 0,
                            !.fileLoaded = FALSE, !.stopInFlight = FALSE]
  <1>1. c \in Controller /\ x \in LoadState
    BY DEF Good, Typed, LoadState
  <1>2. x # "Loaded" /\ x # "Stopping" /\ (c.active # NoActive => x = "Loading")
    OBVIOUS
  <1>3. OnEndFile(c) = s
    BY DEF OnEndFile
  <1> HIDE DEF x
  <1>4. /\ s \in Controller /\ s.attempts = c.attempts /\ s.retry = c.retry
        /\ s.eofs = c.eofs /\ s.deferred = c.deferred /\ s.recoveries = c.recoveries
        /\ s.auto = c.auto /\ s.active = c.active /\ s.state = x /\ s.url = c.url
        /\ ~s.fileLoaded /\ ~s.stopInFlight
    BY <1>1 DEF Controller
  <1> HIDE DEF s
  <1>5. Typed(s) /\ Flags(s) /\ Followed(s)
    BY <1>2, <1>4 DEF Good, Typed, Flags, Followed
  <1>6. Covered(s, Hope(s))
    BY <1>4, <1>5, Keeping DEF Good
  <1> QED BY <1>3, <1>4, <1>5, <1>6 DEF Good

\* The one reload after a premature end pays for a whole round of retries.
LEMMA ReloadingAfterEof ==
    ASSUME NEW c, Good(c), c.eofs < 1, IsLocal(c.url), NEW ok \in BOOLEAN
    PROVE  Good(ReloadAfterEof(c, ok))
  <1> DEFINE u == CacheBusted(c.url)
             e == [c EXCEPT !.eofs = c.eofs + 1, !.url = u]
  <1>1. c \in Controller /\ c.url \in Url /\ c.eofs = 0 /\ c.eofs + 1 = 1 /\ 1 \in Nat
    BY UrlFacts DEF Good, Typed, Controller
  <1>2. u \in Url /\ u \in AnyUrl
    BY <1>1, UrlFacts
  <1>3. ReloadAfterEof(c, ok) = Reload(e, u, ok)
    BY DEF ReloadAfterEof
  <1> HIDE DEF u
  <1>4. /\ e \in Controller /\ e.attempts = c.attempts /\ e.retry = c.retry
        /\ e.eofs = 1 /\ e.deferred = c.deferred /\ e.recoveries = c.recoveries
        /\ e.auto = c.auto
    BY <1>1, <1>2 DEF Controller
  <1> HIDE DEF e
  <1>5. Typed(e)
    BY <1>4 DEF Good, Typed
  <1>6. /\ c.auto \in Nat /\ c.attempts \in Nat /\ c.recoveries \in Nat
        /\ RetryLimit - c.attempts \in Nat
        /\ Due(c) \in Nat /\ Owed(c) \in Nat /\ Hope(c) \in Nat
    BY Amounts DEF Good
  <1>7. Due(e) = Due(c) /\ Owed(e) \in Nat /\ Owed(c) = RetryLimit + Owed(e)
    BY <1>1, <1>4 DEF Due, Owed
  <1>8. c.auto + Due(c) + Hope(c) + (RetryLimit + Owed(e))
          <= c.recoveries + 0 + 3 * RetryLimit
    BY <1>1, <1>7 DEF Good, Covered
  <1>9. c.auto + Due(c) + (RetryLimit - c.attempts + 1) + Owed(e)
          <= c.recoveries + 1 + 3 * RetryLimit
    BY <1>6, <1>7, <1>8
  <1>10. Covered(e, RetryLimit - e.attempts + 1)
    BY <1>4, <1>7, <1>9 DEF Covered
  <1> QED BY <1>2, <1>3, <1>5, <1>10, Reloading

LEMMA HandlingEndFile ==
    ASSUME NEW c, Good(c), NEW type, NEW ok \in BOOLEAN
    PROVE  Good(HandleEndFile(c, type, ok))
  <1> DEFINE b == IF type = "EndError" THEN RetryStartupFailure(c) ELSE c
             d == OnEndFile(b)
  <1>1. Good(b)
    BY RetryingStartup
  <1>2. Good(d) /\ d.eofs = b.eofs /\ d.url = b.url
    BY <1>1, EndingFile
  <1>3. CASE d.deferred # NoUrl
    <2>1. HandleEndFile(c, type, ok) = SendPendingLoadfile(d, ok)
      BY <1>3 DEF HandleEndFile
    <2> HIDE DEF d
    <2> QED BY <1>2, <2>1, SendingPending
  <1>4. CASE d.deferred = NoUrl /\ type = "EndEof" /\ Premature(c)
    <2>1. HandleEndFile(c, type, ok) = ReloadAfterEof(d, ok)
      BY <1>4 DEF HandleEndFile
    <2>2. d.eofs < 1 /\ IsLocal(d.url)
      <3>1. b = c /\ c.eofs < 1 /\ IsLocal(c.url)
        BY <1>4 DEF Premature
      <3> QED BY <1>2, <3>1
    <2> HIDE DEF d
    <2> QED BY <1>2, <2>1, <2>2, ReloadingAfterEof
  <1>5. CASE d.deferred = NoUrl /\ ~(type = "EndEof" /\ Premature(c))
    <2>1. HandleEndFile(c, type, ok) = d
      BY <1>5 DEF HandleEndFile
    <2> QED BY <1>2, <2>1
  <1> HIDE DEF d
  <1> QED BY <1>3, <1>4, <1>5

LEMMA HandlingReply ==
    ASSUME NEW c, Good(c), NEW n, NEW ok \in BOOLEAN
    PROVE  Good(OnCommandReply(c, n, ok))
  <1> DEFINE stop == c.stopId # 0 /\ n = c.stopId
             load == c.active # NoActive /\ n = c.active.id
             a == [c.active EXCEPT !.replied = TRUE]
             s == [c EXCEPT !.stopId = 0]
             r == [c EXCEPT !.active = a]
  <1>1. c \in Controller /\ c.active \in Active
    BY DEF Good, Typed, Controller
  <1>2. CASE stop /\ c.state = "Stopping"
    <2>1. OnCommandReply(c, n, ok) = Release(c, ok)
      BY <1>2 DEF OnCommandReply
    <2>2. c.active = NoActive
      BY <1>2 DEF Good, Followed
    <2> QED BY <2>1, <2>2, Releasing DEF Good
  <1>3. CASE stop /\ c.state # "Stopping"
    <2>1. OnCommandReply(c, n, ok) = s
      BY <1>3 DEF OnCommandReply
    <2>2. /\ s \in Controller /\ s.attempts = c.attempts /\ s.retry = c.retry
          /\ s.eofs = c.eofs /\ s.deferred = c.deferred /\ s.recoveries = c.recoveries
          /\ s.auto = c.auto /\ s.active = c.active /\ s.state = c.state
          /\ s.fileLoaded = c.fileLoaded /\ s.stopInFlight = c.stopInFlight
          /\ s.stopClock = c.stopClock
      BY <1>1 DEF Controller
    <2> HIDE DEF s
    <2>3. Typed(s) /\ Flags(s) /\ Followed(s)
      BY <2>2 DEF Good, Typed, Flags, Followed
    <2>4. Covered(s, Hope(s))
      BY <2>2, <2>3, Keeping DEF Good
    <2> QED BY <2>1, <2>3, <2>4 DEF Good
  <1>4. CASE ~stop /\ load
    <2>1. OnCommandReply(c, n, ok) = r
      BY <1>1, <1>4 DEF OnCommandReply, Controller
    <2>2. a \in Active
      BY <1>1, <1>4 DEF Active
    <2> HIDE DEF a
    <2>3. /\ r \in Controller /\ r.attempts = c.attempts /\ r.retry = c.retry
          /\ r.eofs = c.eofs /\ r.deferred = c.deferred /\ r.recoveries = c.recoveries
          /\ r.auto = c.auto /\ r.active = a /\ r.state = c.state
          /\ r.fileLoaded = c.fileLoaded /\ r.stopInFlight = c.stopInFlight
          /\ r.stopClock = c.stopClock
      BY <1>1, <2>2 DEF Controller
    <2> HIDE DEF r
    <2>4. Typed(r) /\ Flags(r) /\ Followed(r)
      BY <1>4, <2>3 DEF Good, Typed, Flags, Followed
    <2>5. Covered(r, Hope(r))
      BY <1>4, <2>3, <2>4, Keeping DEF Good
    <2> QED BY <2>1, <2>4, <2>5 DEF Good
  <1>5. CASE ~stop /\ ~load
    BY <1>5 DEF OnCommandReply
  <1> QED BY <1>2, <1>3, <1>4, <1>5

LEMMA HandlingEvent ==
    ASSUME NEW c, Good(c), NEW e \in Event, NEW ok \in BOOLEAN
    PROVE  Good(OnEvent(c, e, ok))
  <1> DEFINE s == [c EXCEPT !.midway = TRUE]
  <1>1. c \in Controller
    BY DEF Good, Typed
  <1>2. CASE e.type = "StartFile"
    BY <1>2, StartingFile DEF OnEvent
  <1>3. CASE e.type = "FileLoaded"
    BY <1>3, LoadingFile DEF OnEvent
  <1>4. CASE e.type = "Progress"
    <2>1. OnEvent(c, e, ok) = s
      BY <1>4 DEF OnEvent
    <2>2. /\ s \in Controller /\ s.attempts = c.attempts /\ s.retry = c.retry
          /\ s.eofs = c.eofs /\ s.deferred = c.deferred /\ s.recoveries = c.recoveries
          /\ s.auto = c.auto /\ s.active = c.active /\ s.state = c.state
          /\ s.fileLoaded = c.fileLoaded /\ s.stopInFlight = c.stopInFlight
          /\ s.stopClock = c.stopClock
      BY <1>1 DEF Controller
    <2> HIDE DEF s
    <2>3. Typed(s) /\ Flags(s) /\ Followed(s)
      BY <2>2 DEF Good, Typed, Flags, Followed
    <2>4. Covered(s, Hope(s))
      BY <2>2, <2>3, Keeping DEF Good
    <2> QED BY <2>1, <2>3, <2>4 DEF Good
  <1>5. CASE e.type \in {"EndStop", "EndEof", "EndError"}
    BY <1>5, HandlingEndFile DEF OnEvent
  <1>6. CASE e.type = "Reply"
    BY <1>6, HandlingReply DEF OnEvent
  <1>7. CASE e.type = "Err"
    BY <1>7, RetryingStartup DEF OnEvent
  <1> QED BY <1>2, <1>3, <1>4, <1>5, <1>6, <1>7 DEF Event

-----------------------------------------------------------------------------
\* The steps.

Waits == /\ mpv \in Mpv
         /\ events \in Seq(Event)
         /\ left \in [{"load", "stop", "fault"} -> Nat]

Inv == Good(ctl) /\ Waits

LEMMA Initially == Init => Inv
  <1> SUFFICES ASSUME Init PROVE Inv
    OBVIOUS
  <1> USE BoundsAssumption
  <1> DEFINE c == NewController
  <1>1. /\ c \in Controller /\ c.state = "Idle" /\ c.attempts = 0 /\ c.recoveries = 0
        /\ c.eofs = 0 /\ c.auto = 0 /\ c.active = NoActive /\ c.retry = NoUrl
        /\ c.deferred = NoUrl /\ ~c.fileLoaded /\ ~c.stopInFlight
    <2>1. /\ "Idle" \in LoadState /\ NoUrl \in AnyUrl /\ NoActive \in Active
          /\ <<>> \in Seq(Queued)
      BY UrlFacts DEF LoadState, Active
    <2> QED BY <2>1 DEF NewController, Controller
  <1> HIDE DEF c
  <1>2. Typed(c) /\ Flags(c) /\ Followed(c)
    BY <1>1 DEF Typed, Flags, Followed
  <1>3. Due(c) = 0 /\ Hope(c) = 0 /\ Owed(c) = RetryLimit
    BY <1>1 DEF Due, Hope, Alive, Owed
  <1>4. 0 + 0 + 0 + RetryLimit <= 0 + 0 + 3 * RetryLimit
    OBVIOUS
  <1>5. Covered(c, Hope(c))
    BY <1>1, <1>3, <1>4 DEF Covered
  <1>6. Good(ctl)
    BY <1>2, <1>5 DEF Good, Init, c
  <1>7. Waits
    BY UrlFacts DEF Init, Waits, NewMpv, Mpv, Phase
  <1> QED BY <1>6, <1>7 DEF Inv

\* mpv takes a command off the queue.
LEMMA Taking ==
    ASSUME NEW c, Good(c), c.core # <<>>
    PROVE  /\ Good([c EXCEPT !.core = Tail(@), !.aborted = @ \ {Head(c.core).id}])
           /\ Head(c.core) \in Queued
  <1> DEFINE x == c.aborted \ {Head(c.core).id}
             t == Tail(c.core)
             s == [c EXCEPT !.core = t, !.aborted = x]
  <1>1. c \in Controller /\ c.core \in Seq(Queued) /\ x \in SUBSET Nat
    BY DEF Good, Typed, Controller
  <1>2. t \in Seq(Queued) /\ Head(c.core) \in Queued
    BY <1>1
  <1>3. [c EXCEPT !.core = Tail(@), !.aborted = @ \ {Head(c.core).id}] = s
    BY <1>1 DEF Controller
  <1> HIDE DEF x, t
  <1>4. /\ s \in Controller /\ s.attempts = c.attempts /\ s.retry = c.retry
        /\ s.eofs = c.eofs /\ s.deferred = c.deferred /\ s.recoveries = c.recoveries
        /\ s.auto = c.auto /\ s.active = c.active /\ s.state = c.state
        /\ s.fileLoaded = c.fileLoaded /\ s.stopInFlight = c.stopInFlight
        /\ s.stopClock = c.stopClock
    BY <1>1, <1>2 DEF Controller
  <1> HIDE DEF s
  <1>5. Typed(s) /\ Flags(s) /\ Followed(s)
    BY <1>4 DEF Good, Typed, Flags, Followed
  <1>6. Covered(s, Hope(s))
    BY <1>4, <1>5, Keeping DEF Good
  <1> QED BY <1>2, <1>3, <1>5, <1>6 DEF Good

LEMMA Events ==
    /\ \A t \in {"StartFile", "FileLoaded", "Progress", "EndStop", "EndEof", "EndError"} :
           \A u \in AnyUrl : About(t, u) \in Event
    /\ \A n \in Nat : Reply(n) \in Event
    /\ Err \in Event
  BY UrlFacts DEF About, Reply, Err, Event

LEMMA Controlling ==
    ASSUME Inv, ControllerStep
    PROVE  Inv'
  <1> USE MpvAssumption
  <1>0. Good(ctl) /\ Waits
    BY DEF Inv
  <1>1. CASE FlushStaleStop
    <2>1. PICK ok \in BOOLEAN : ctl.state = "Stopping" /\ ctl' = ReleaseStaleStop(ctl, ok)
      BY <1>1 DEF FlushStaleStop, Accepted
    <2>2. Good(ReleaseStaleStop(ctl, ok))
      BY <1>0, <2>1, ReleasingStaleStop
    <2> QED BY <1>0, <1>1, <2>1, <2>2 DEF FlushStaleStop, Inv, Waits
  <1>2. CASE FlushUnansweredLoadfile
    <2>1. PICK ok \in BOOLEAN : /\ ctl.active # NoActive /\ ctl.recoveries < RecoveryLimit
                                /\ ctl' = RecoverLoadfile(ctl, ok)
      BY <1>2 DEF FlushUnansweredLoadfile, Accepted, Waiting
    <2>2. Good(RecoverLoadfile(ctl, ok))
      BY <1>0, <2>1, Recovering
    <2> QED BY <1>0, <1>2, <2>1, <2>2 DEF FlushUnansweredLoadfile, Inv, Waits
  <1>3. CASE FlushUnstartedLoadfile
    <2>1. PICK ok \in BOOLEAN : ctl.active # NoActive /\ ctl' = CancelLoadfile(ctl, ok)
      BY <1>3 DEF FlushUnstartedLoadfile, Accepted, Waiting
    <2>2. Good(CancelLoadfile(ctl, ok))
      BY <1>0, <2>1, Cancelling
    <2> QED BY <1>0, <1>3, <2>1, <2>2 DEF FlushUnstartedLoadfile, Inv, Waits
  <1>4. CASE FlushStartupRetry
    <2>1. PICK ok \in BOOLEAN : ctl.retry # NoUrl /\ ctl' = RunRetry(ctl, ok)
      BY <1>4 DEF FlushStartupRetry, Accepted
    <2>2. Good(RunRetry(ctl, ok))
      BY <1>0, <2>1, RunningRetry
    <2> QED BY <1>0, <1>4, <2>1, <2>2 DEF FlushStartupRetry, Inv, Waits
  <1>5. CASE HandleEvent
    <2>1. PICK ok \in BOOLEAN : ctl' = OnEvent(ctl, Head(events), ok)
      BY <1>5 DEF HandleEvent, Accepted
    <2>2. Head(events) \in Event /\ Tail(events) \in Seq(Event)
      BY <1>0, <1>5 DEF HandleEvent, Waits
    <2>3. Good(OnEvent(ctl, Head(events), ok))
      BY <1>0, <2>2, HandlingEvent
    <2> QED BY <1>0, <1>5, <2>1, <2>2, <2>3 DEF HandleEvent, Inv, Waits
  <1> QED BY <1>1, <1>2, <1>3, <1>4, <1>5 DEF ControllerStep

LEMMA Asking ==
    ASSUME Inv, UserLoads \/ UserStops
    PROVE  Inv'
  <1> USE MpvAssumption
  <1>0. Good(ctl) /\ Waits
    BY DEF Inv
  <1>1. ASSUME NEW op \in {"load", "stop", "fault"}, Spend(op)
        PROVE  left' \in [{"load", "stop", "fault"} -> Nat]
    BY <1>0, <1>1 DEF Spend, Waits
  <1>2. CASE UserLoads
    <2>1. PICK s \in Streams, ok \in BOOLEAN :
              ctl' = HandleLoadfile(ctl, [stream |-> s, reload |-> 0], ok)
      BY <1>2 DEF UserLoads, Accepted
    <2>2. [stream |-> s, reload |-> 0] \in Url
      BY DEF Url
    <2>3. Good(ctl')
      BY <1>0, <2>1, <2>2, HandlingLoadfile
    <2>4. Spend("load") /\ UNCHANGED <<mpv, events>>
      BY <1>2 DEF UserLoads
    <2> QED BY <1>0, <1>1, <2>3, <2>4 DEF Inv, Waits
  <1>3. CASE UserStops
    <2>1. PICK ok \in BOOLEAN : ctl' = HandleStop(ctl, ok)
      BY <1>3 DEF UserStops, Accepted
    <2>2. Good(ctl')
      BY <1>0, <2>1, HandlingStop
    <2>3. Spend("stop") /\ UNCHANGED <<mpv, events>>
      BY <1>3 DEF UserStops
    <2> QED BY <1>0, <1>1, <2>2, <2>3 DEF Inv, Waits
  <1> QED BY <1>2, <1>3

LEMMA PlayerSteps ==
    ASSUME Inv, MpvStep
    PROVE  Inv'
  <1>0. Good(ctl) /\ mpv \in Mpv /\ events \in Seq(Event)
        /\ left \in [{"load", "stop", "fault"} -> Nat]
    BY DEF Inv, Waits
  <1>1. NoUrl \in AnyUrl /\ Err \in Event
    BY UrlFacts, Events
  <1>2. Spend("fault") => left' \in [{"load", "stop", "fault"} -> Nat]
    BY <1>0 DEF Spend
  <1>3. \A e \in Event : Append(events, e) \in Seq(Event)
    BY <1>0
  <1>4. CASE MpvRunsCommand
    <2>1. Good(ctl') /\ Head(ctl.core) \in Queued
      BY <1>0, <1>4, Taking DEF MpvRunsCommand
    <2>2. /\ mpv' = [mpv EXCEPT !.switching = TRUE, !.next = Head(ctl.core).url]
          /\ events' = Append(events, Reply(Head(ctl.core).id))
          /\ left' = left
      BY <1>4 DEF MpvRunsCommand
    <2>3. mpv' \in Mpv
      BY <1>0, <2>1, <2>2 DEF Mpv, Queued
    <2>4. events' \in Seq(Event)
      BY <1>3, <2>1, <2>2, Events DEF Queued
    <2> QED BY <1>0, <2>1, <2>2, <2>3, <2>4 DEF Inv, Waits
  <1>5. CASE MpvDropsCommand
    <2>1. Good(ctl')
      BY <1>0, <1>5, Taking DEF MpvDropsCommand
    <2>2. left' \in [{"load", "stop", "fault"} -> Nat]
      BY <1>0, <1>2, <1>5 DEF MpvDropsCommand
    <2>3. events' = Append(events, Err) /\ mpv' = mpv
      BY <1>5 DEF MpvDropsCommand
    <2> QED BY <1>0, <1>1, <1>3, <2>1, <2>2, <2>3 DEF Inv, Waits
  <1>6. CASE MpvSwitches
    <2> DEFINE old == IF mpv.phase = "none" THEN <<>> ELSE <<About("EndStop", NoUrl)>>
               new == IF mpv.next = NoUrl THEN <<>> ELSE <<About("StartFile", NoUrl)>>
    <2>1. old \in Seq(Event) /\ new \in Seq(Event)
      <3>1. About("EndStop", NoUrl) \in Event /\ About("StartFile", NoUrl) \in Event
        BY <1>1, Events
      <3>2. \A e \in Event : <<e>> \in Seq(Event)
        OBVIOUS
      <3> QED BY <3>1, <3>2
    <2>2. events' = events \o old \o new /\ UNCHANGED <<ctl, left>>
      BY <1>6 DEF MpvSwitches
    <2> HIDE DEF old, new
    <2>3. events' \in Seq(Event)
      BY <1>0, <2>1, <2>2
    <2>4. mpv' \in Mpv
      BY <1>0, <1>1, <1>6 DEF MpvSwitches, Mpv, Phase
    <2> QED BY <1>0, <2>2, <2>3, <2>4 DEF Inv, Waits
  <1>7. CASE MpvLoads
    <2>1. About("FileLoaded", mpv.file) \in Event
      BY <1>0, Events DEF Mpv
    <2>2. mpv' \in Mpv
      BY <1>0, <1>7 DEF MpvLoads, Mpv, Phase
    <2> QED BY <1>0, <1>3, <1>7, <2>1, <2>2 DEF MpvLoads, Inv, Waits
  <1>8. CASE MpvFails
    <2>1. events' \in Seq(Event)
      BY <1>1, <1>3, <1>8, Events DEF MpvFails
    <2>2. mpv' \in Mpv
      BY <1>0, <1>1, <1>8 DEF MpvFails, Mpv, Phase
    <2> QED BY <1>0, <1>2, <1>8, <2>1, <2>2 DEF MpvFails, Inv, Waits
  <1>9. CASE MpvReachesEof
    <2>1. events' \in Seq(Event)
      <3>1. PICK told \in {<<>>, <<About("Progress", NoUrl)>>} :
                events' = events \o told \o <<About("EndEof", NoUrl)>>
        BY <1>9 DEF MpvReachesEof
      <3>2. About("Progress", NoUrl) \in Event /\ About("EndEof", NoUrl) \in Event
        BY <1>1, Events
      <3>3. <<>> \in Seq(Event) /\ \A e \in Event : <<e>> \in Seq(Event)
        OBVIOUS
      <3>4. <<About("Progress", NoUrl)>> \in Seq(Event)
        BY <3>2, <3>3
      <3>5. <<About("EndEof", NoUrl)>> \in Seq(Event)
        BY <3>2, <3>3
      <3>6. told \in Seq(Event)
        BY <3>1, <3>3, <3>4
      <3> QED BY <1>0, <3>1, <3>5, <3>6
    <2>2. mpv' \in Mpv
      BY <1>0, <1>1, <1>9 DEF MpvReachesEof, Mpv, Phase
    <2> QED BY <1>0, <1>2, <1>9, <2>1, <2>2 DEF MpvReachesEof, Inv, Waits
  <1> QED BY <1>4, <1>5, <1>6, <1>7, <1>8, <1>9 DEF MpvStep

LEMMA Invariance == Spec => []Inv
  <1>1. Inv /\ [Next]_vars => Inv'
    <2> SUFFICES ASSUME Inv, [Next]_vars PROVE Inv'
      OBVIOUS
    <2>1. CASE UNCHANGED vars
      BY <2>1 DEF vars, Inv, Waits
    <2> QED BY <2>1, Asking, Controlling, PlayerSteps DEF Next
  <1> QED BY <1>1, Initially, PTL DEF Spec

-----------------------------------------------------------------------------
\* The struct PlayerController and the queues keep their types, and the counters
\* of retries, recoveries and premature ends their limits.
THEOREM Typing == Spec => []TypeOK
  <1>1. Inv => TypeOK
    BY DEF Inv, Good, Typed, Waits, TypeOK
  <1> QED BY <1>1, Invariance, PTL

\* IS_FILE_LOADED and STOP_COMMAND_IN_FLIGHT follow the state machine, and a stop
\* that is waited for has its clock running, in every handler.
THEOREM GlobalsFollow == Spec => []FlagsFollowState
  <1>1. Inv => FlagsFollowState
    BY DEF Inv, Good, Flags, FlagsFollowState
  <1> QED BY <1>1, Invariance, PTL

\* Only while Loading is there a loadfile for the watchdogs to look at.
THEOREM OnlyLoadingIsFollowed == Spec => []ActiveIsLoading
  <1>1. Inv => ActiveIsLoading
    BY DEF Inv, Good, Followed, ActiveIsLoading
  <1> QED BY <1>1, Invariance, PTL

\* Whatever mpv does, the controller's own reloads are bounded by its limits.
THEOREM ReloadBound == Spec => []ReloadsAreBounded
  <1>1. Inv => ReloadsAreBounded
    <2> SUFFICES ASSUME Inv PROVE ReloadsAreBounded
      OBVIOUS
    <2>1. Typed(ctl) /\ Covered(ctl, Hope(ctl))
      BY DEF Inv, Good
    <2>2. /\ ctl.auto \in Nat /\ ctl.recoveries \in Nat /\ ctl.eofs \in Nat
          /\ Due(ctl) \in Nat /\ Owed(ctl) \in Nat /\ Hope(ctl) \in Nat
      BY <2>1, Amounts
    <2>3. ctl.recoveries <= RecoveryLimit /\ ctl.eofs <= 1
      BY <2>1 DEF Typed
    <2>4. ctl.auto + Due(ctl) + Hope(ctl) + Owed(ctl)
            <= ctl.recoveries + ctl.eofs + 3 * RetryLimit
      BY <2>1 DEF Covered
    <2>5. ctl.auto <= 3 * RetryLimit + RecoveryLimit + 1
      BY <2>2, <2>3, <2>4
    <2> QED BY <2>5 DEF ReloadsAreBounded
  <1> QED BY <1>1, Invariance, PTL

-----------------------------------------------------------------------------
(* What the controller knows of mpv's file, when mpv drops and refuses       *)
(* nothing.  While a file is told of, the last thing told is what mpv has;   *)
(* when nothing is told any more, the controller has heard it, unless it has *)
(* itself asked for something else since.                                    *)

AboutFile(e) == e.type \in {"StartFile", "FileLoaded", "EndStop", "EndEof", "EndError"}
NoFile(s) == \A i \in DOMAIN s : ~AboutFile(s[i])

\* The last event about a file tells whether it plays.
Tells(s, plays) ==
    \A i \in DOMAIN s :
        AboutFile(s[i]) /\ (\A j \in DOMAIN s : j > i => ~AboutFile(s[j]))
            => (s[i].type = "FileLoaded" <=> plays)

FilePlays == mpv.phase = "playing"

HeardOf ==
    NoFile(events) =>
        /\ ctl.state = "Loaded" => FilePlays
        /\ FilePlays => ctl.state = "Loaded" \/ ctl.core # <<>> \/ mpv.switching

\* A controller leaves Loaded only for a command to mpv, and enters it for no command.
Follows(c, d) ==
    /\ d.state = "Loaded" => c.state = "Loaded"
    /\ c.state = "Loaded" \/ c.core # <<>> => d.state = "Loaded" \/ d.core # <<>>

Asks(d) == d.state # "Loaded" /\ d.core # <<>>

LEMMA Asked == ASSUME NEW c, NEW d, Asks(d) PROVE Follows(c, d)
  BY DEF Asks, Follows

LEMMA AbortingCore ==
    ASSUME NEW c \in Controller
    PROVE  AbortActive(c).state = c.state /\ AbortActive(c).core = c.core
  BY DEF AbortActive, Controller

LEMMA QueuedCore ==
    ASSUME NEW s \in Seq(Queued), NEW q PROVE Append(s, q) # <<>>
  OBVIOUS

LEMMA SendingAsks ==
    ASSUME NEW c \in Controller, Typed(c), NEW u PROVE Asks(SendLoadfileNow(c, u, TRUE))
  <1> DEFINE d == AbortActive(c)
             q == [op |-> "loadfile", url |-> u, id |-> d.ids]
             s == SendLoadfileNow(c, u, TRUE)
  <1>1. d \in Controller
    BY Aborting DEF Typed
  <1> HIDE DEF d
  <1>2. s.state = "Loading" /\ s.core = Append(d.core, q)
    BY <1>1 DEF SendLoadfileNow, Controller, d
  <1>3. d.core \in Seq(Queued)
    BY <1>1 DEF Controller
  <1> QED BY <1>2, <1>3, QueuedCore DEF Asks

LEMMA ReloadAsks ==
    ASSUME NEW c \in Controller, Typed(c), NEW u PROVE Asks(Reload(c, u, TRUE))
  <1> DEFINE s == SendLoadfileNow(c, u, TRUE)
  <1>1. Reload(c, u, TRUE).state = s.state /\ Reload(c, u, TRUE).core = s.core
    BY DEF Reload
  <1> QED BY <1>1, SendingAsks DEF Asks

LEMMA PendingAsks ==
    ASSUME NEW c \in Controller, Typed(c)
    PROVE  LET d == SendPendingLoadfile(c, TRUE) IN
           /\ c.state # "Loaded" => d.state # "Loaded"
           /\ c.core # <<>> => d.core # <<>>
           /\ c.deferred # NoUrl => Asks(d)
  <1> DEFINE d == [c EXCEPT !.deferred = NoUrl]
  <1>1. d \in Controller /\ Typed(d)
    BY UrlFacts DEF Typed, Controller
  <1>2. Asks(SendLoadfileNow(d, c.deferred, TRUE))
    BY <1>1, SendingAsks
  <1> QED BY <1>2 DEF SendPendingLoadfile, Asks

LEMMA ReleaseFollows ==
    ASSUME NEW c \in Controller, Typed(c), c.state # "Loaded"
    PROVE  /\ Follows(c, Release(c, TRUE))
           /\ c.deferred # NoUrl => Asks(Release(c, TRUE))
  <1> DEFINE d == [c EXCEPT !.state = "Idle", !.stopClock = FALSE, !.stopId = 0,
                            !.fileLoaded = FALSE, !.stopInFlight = FALSE]
  <1>1. /\ d \in Controller /\ Typed(d)
        /\ d.state = "Idle" /\ d.core = c.core /\ d.deferred = c.deferred
    BY DEF Typed, Controller, LoadState
  <1> HIDE DEF d
  <1>2. Release(c, TRUE) = SendPendingLoadfile(d, TRUE)
    BY DEF Release, d
  <1> QED BY <1>1, <1>2, PendingAsks DEF Follows

LEMMA StoppingAsks ==
    ASSUME NEW c \in Controller PROVE Asks(EnterStopping(c, TRUE))
  <1> DEFINE q == [op |-> "stop", url |-> NoUrl, id |-> c.ids]
             s == EnterStopping(c, TRUE)
  <1>1. s.state = "Stopping" /\ s.core = Append(c.core, q)
    BY DEF EnterStopping, SendStop, Controller
  <1>2. c.core \in Seq(Queued)
    BY DEF Controller
  <1> QED BY <1>1, <1>2, QueuedCore DEF Asks

LEMMA StopFollows ==
    ASSUME NEW c \in Controller, Typed(c) PROVE Follows(c, HandleStop(c, TRUE))
  <1> DEFINE d == AbortActive(c)
             s == [d EXCEPT !.state = "Idle", !.stopClock = FALSE, !.stopId = 0,
                            !.fileLoaded = FALSE, !.stopInFlight = FALSE]
  <1>1. d.state = c.state /\ d.core = c.core /\ d \in Controller /\ c.state \in LoadState
    BY Aborting, AbortingCore DEF Typed, Controller
  <1>2. CASE c.state \in {"Stopping", "Idle"}
    BY <1>1, <1>2 DEF HandleStop, Follows
  <1>3. CASE c.state = "Loading" /\ c.active # NoActive /\ ~c.active.started
    <2>1. HandleStop(c, TRUE) = s
      BY <1>3 DEF HandleStop
    <2> HIDE DEF d
    <2>2. s.state = "Idle" /\ s.core = d.core
      BY <1>1 DEF Controller
    <2> QED BY <1>1, <1>3, <2>1, <2>2 DEF Follows
  <1>4. CASE c.state = "Loading" /\ (c.active # NoActive => c.active.started)
    <2>1. HandleStop(c, TRUE) = EnterStopping(d, TRUE)
      BY <1>4 DEF HandleStop
    <2> QED BY <1>1, <2>1, StoppingAsks, Asked
  <1>5. CASE c.state = "Loaded"
    <2>1. HandleStop(c, TRUE) = EnterStopping(c, TRUE)
      BY <1>5 DEF HandleStop
    <2> QED BY <2>1, StoppingAsks, Asked
  <1> QED BY <1>1, <1>2, <1>3, <1>4, <1>5 DEF LoadState

LEMMA LoadfileFollows ==
    ASSUME NEW c \in Controller, Typed(c), NEW u \in Url
    PROVE  Follows(c, HandleLoadfile(c, u, TRUE))
  <1> DEFINE d == CaptureUrl(c, u)
             s == [d EXCEPT !.deferred = u]
  <1>1. /\ d \in Controller /\ d.state = c.state /\ d.core = c.core
        /\ d.attempts = 0 /\ d.recoveries = 0 /\ d.eofs = 0
    BY UrlFacts DEF CaptureUrl, Controller
  <1> HIDE DEF d
  <1>2. Typed(d)
    BY <1>1 DEF Typed
  <1>3. CASE d.state # "Stopping"
    <2>1. HandleLoadfile(c, u, TRUE) = SendLoadfileNow(d, u, TRUE)
      BY <1>3 DEF HandleLoadfile, d
    <2> QED BY <1>1, <1>2, <2>1, SendingAsks, Asked
  <1>4. CASE d.state = "Stopping"
    <2>1. HandleLoadfile(c, u, TRUE) = s
      BY <1>4 DEF HandleLoadfile, d
    <2>2. s.state = d.state /\ s.core = d.core
      BY <1>1 DEF Controller
    <2> QED BY <1>1, <2>1, <2>2 DEF Follows
  <1> QED BY <1>3, <1>4

LEMMA RetryFollows ==
    ASSUME NEW c \in Controller
    PROVE  /\ \A u : /\ ScheduleRetry(c, u).state = c.state
                     /\ ScheduleRetry(c, u).core = c.core
           /\ RetryStartupFailure(c).state = c.state /\ RetryStartupFailure(c).core = c.core
  BY DEF ScheduleRetry, RetryStartupFailure, Controller

LEMMA RunRetryFollows ==
    ASSUME NEW c \in Controller, Typed(c), c.retry # NoUrl PROVE Follows(c, RunRetry(c, TRUE))
  <1> DEFINE u == CacheBusted(c.retry)
             d == [c EXCEPT !.retry = NoUrl]
             e == [d EXCEPT !.url = u]
  <1>1. u \in AnyUrl
    BY UrlFacts DEF Controller
  <1>2. d \in Controller /\ d.state = c.state /\ d.core = c.core
    BY UrlFacts DEF Controller
  <1>3. e \in Controller /\ Typed(e)
    BY <1>1, UrlFacts DEF Controller, Typed
  <1>4. RunRetry(c, TRUE) = d \/ RunRetry(c, TRUE) = Reload(e, u, TRUE)
    BY DEF RunRetry
  <1> HIDE DEF d, e
  <1> QED BY <1>2, <1>3, <1>4, ReloadAsks, Asked DEF Follows

LEMMA RecoveryAsks ==
    ASSUME NEW c \in Controller, Typed(c), c.active # NoActive, c.recoveries < RecoveryLimit,
           c.state = "Loading"
    PROVE  Asks(RecoverLoadfile(c, TRUE))
  <1> DEFINE u == CacheBusted(c.active.url)
             a == AbortActive(c)
             d == [a EXCEPT !.deferred = u, !.url = u,
                            !.recoveries = c.recoveries + 1, !.auto = c.auto + 1]
  <1>1. u \in Url /\ u \in AnyUrl /\ u # NoUrl
    BY UrlFacts DEF Controller, Active
  <1>2. a \in Controller /\ Typed(a) /\ a.state = "Loading"
    BY Aborting, AbortingCore DEF Typed
  <1>3. c.recoveries + 1 \in Nat /\ c.auto + 1 \in Nat /\ c.recoveries + 1 <= RecoveryLimit
    BY DEF Controller
  <1> HIDE DEF a, u
  <1>4. d \in Controller /\ Typed(d) /\ d.state = "Loading" /\ d.deferred = u
    BY <1>1, <1>2, <1>3 DEF Controller, Typed
  <1>5. RecoverLoadfile(c, TRUE) = Release(d, TRUE)
    BY DEF RecoverLoadfile, a, u
  <1> HIDE DEF d
  <1> QED BY <1>1, <1>4, <1>5, ReleaseFollows

LEMMA CancelAsks ==
    ASSUME NEW c \in Controller, Typed(c) PROVE Asks(CancelLoadfile(c, TRUE))
  <1> DEFINE a == AbortActive(c)
             q == [op |-> "stop", url |-> NoUrl, id |-> a.ids]
             d == [SendStop(a, TRUE) EXCEPT !.state = "Idle"]
  <1>1. a \in Controller /\ Typed(a) /\ a.core \in Seq(Queued)
    BY Aborting DEF Typed, Controller
  <1>2. SendStop(a, TRUE) \in Controller
    BY <1>1, SendingStop DEF Typed
  <1> HIDE DEF a
  <1>3. d \in Controller /\ d.state = "Idle" /\ d.core = Append(a.core, q)
    BY <1>1, <1>2 DEF SendStop, Controller, LoadState
  <1>4. \/ CancelLoadfile(c, TRUE) = d
        \/ CancelLoadfile(c, TRUE) = ScheduleRetry(d, c.active.url)
    BY DEF CancelLoadfile, a
  <1>5. Append(a.core, q) # <<>>
    BY <1>1, QueuedCore
  <1> HIDE DEF d, q
  <1>6. Asks(d) /\ \A v : Asks(ScheduleRetry(d, v))
    BY <1>3, <1>5, RetryFollows DEF Asks
  <1> QED BY <1>4, <1>6

LEMMA StaleStopFollows ==
    ASSUME NEW c \in Controller, Typed(c), c.state = "Stopping"
    PROVE  Follows(c, ReleaseStaleStop(c, TRUE))
  <1> DEFINE x == IF c.stopId = 0 THEN c.aborted ELSE AbortIf(c, c.stopId)
             d == [c EXCEPT !.aborted = x]
  <1>1. x \in SUBSET Nat
    BY DEF AbortIf, Controller
  <1> HIDE DEF x
  <1>2. d \in Controller /\ Typed(d) /\ d.state = c.state /\ d.core = c.core
    BY <1>1 DEF Controller, Typed
  <1>3. ReleaseStaleStop(c, TRUE) = Release(d, TRUE)
    BY DEF ReleaseStaleStop, x, Controller
  <1> HIDE DEF d
  <1> QED BY <1>2, <1>3, ReleaseFollows DEF Follows

LEMMA ReplyFollows ==
    ASSUME NEW c \in Controller, Typed(c), NEW n PROVE Follows(c, OnCommandReply(c, n, TRUE))
  <1> DEFINE a == [c.active EXCEPT !.replied = TRUE]
             s == [c EXCEPT !.stopId = 0]
             r == [c EXCEPT !.active = a]
  <1>1. \/ c.state = "Stopping" /\ OnCommandReply(c, n, TRUE) = Release(c, TRUE)
        \/ OnCommandReply(c, n, TRUE) \in {s, r, c}
    BY DEF OnCommandReply, Controller
  <1>2. s.state = c.state /\ s.core = c.core /\ r.state = c.state /\ r.core = c.core
    BY DEF Controller
  <1> HIDE DEF s, r
  <1> QED BY <1>1, <1>2, ReleaseFollows DEF Follows

\* The end of a file leaves none loaded.
LEMMA EndLoadsNothing ==
    ASSUME NEW c, Good(c), NEW type PROVE HandleEndFile(c, type, TRUE).state # "Loaded"
  <1> DEFINE b == IF type = "EndError" THEN RetryStartupFailure(c) ELSE c
             d == OnEndFile(b)
             u == CacheBusted(d.url)
             e == [d EXCEPT !.eofs = d.eofs + 1, !.url = u]
  <1>1. Good(b) /\ b.eofs = c.eofs /\ b.url = c.url
    BY RetryingStartup DEF RetryStartupFailure, ScheduleRetry, Good, Typed, Controller
  <1> HIDE DEF b
  <1>2. Good(d) /\ d.eofs = c.eofs /\ d.url = c.url
    BY <1>1, EndingFile
  <1>3. d.state # "Loaded"
    BY <1>1 DEF OnEndFile, Good, Typed, Controller
  <1> HIDE DEF d
  <1>4. d \in Controller /\ Typed(d)
    BY <1>2 DEF Good, Typed
  <1>5. \/ HandleEndFile(c, type, TRUE) = SendPendingLoadfile(d, TRUE)
        \/ Premature(c) /\ HandleEndFile(c, type, TRUE) = ReloadAfterEof(d, TRUE)
        \/ HandleEndFile(c, type, TRUE) = d
    BY DEF HandleEndFile, b, d
  <1>6. CASE Premature(c)
    <2>1. u \in AnyUrl /\ d.eofs = 0
      BY <1>2, <1>4, <1>6, UrlFacts DEF Premature, Typed, Controller
    <2> HIDE DEF u
    <2>2. e \in Controller /\ Typed(e)
      <3>1. d.eofs + 1 = 1
        BY <2>1
      <3>2. e = [d EXCEPT !.eofs = 1, !.url = u]
        BY <3>1
      <3>3. /\ e \in Controller /\ e.eofs = 1
            /\ e.attempts = d.attempts /\ e.recoveries = d.recoveries
        <4> HIDE DEF e
        <4> QED BY <1>4, <2>1, <3>2 DEF Controller
      <3> QED BY <1>4, <3>3 DEF Typed
    <2>3. ReloadAfterEof(d, TRUE) = Reload(e, u, TRUE)
      BY DEF ReloadAfterEof, u
    <2> HIDE DEF e
    <2>4. ReloadAfterEof(d, TRUE).state # "Loaded"
      BY <2>2, <2>3, ReloadAsks DEF Asks
    <2> QED BY <1>3, <1>4, <1>5, <2>4, PendingAsks
  <1>7. CASE ~Premature(c)
    BY <1>3, <1>4, <1>5, <1>7, PendingAsks
  <1> QED BY <1>6, <1>7

-----------------------------------------------------------------------------
(* The queue of events.                                                      *)

LEMMA QuietAppend ==
    ASSUME NEW s \in Seq(Event), NEW e \in Event, NEW b \in BOOLEAN, ~AboutFile(e)
    PROVE  /\ Tells(s, b) => Tells(Append(s, e), b)
           /\ NoFile(Append(s, e)) => NoFile(s)
  <1>1. /\ \A i \in DOMAIN Append(s, e) : i \in DOMAIN s \/ i = Len(s) + 1
        /\ \A i \in DOMAIN s : i \in DOMAIN Append(s, e) /\ Append(s, e)[i] = s[i]
        /\ Append(s, e)[Len(s) + 1] = e
    OBVIOUS
  <1> QED BY <1>1 DEF Tells, NoFile

LEMMA FileAppend ==
    ASSUME NEW s \in Seq(Event), NEW e \in Event, AboutFile(e)
    PROVE  /\ Tells(Append(s, e), e.type = "FileLoaded")
           /\ ~NoFile(Append(s, e))
  <1>1. /\ \A i \in DOMAIN Append(s, e) : i # Len(s) + 1 => Len(s) + 1 > i
        /\ Len(s) + 1 \in DOMAIN Append(s, e)
        /\ Append(s, e)[Len(s) + 1] = e
    OBVIOUS
  <1> QED BY <1>1 DEF Tells, NoFile

LEMMA TellsTail ==
    ASSUME NEW s \in Seq(Event), s # <<>>, NEW b \in BOOLEAN, Tells(s, b)
    PROVE  /\ Tells(Tail(s), b)
           /\ NoFile(Tail(s)) /\ AboutFile(Head(s)) => (Head(s).type = "FileLoaded" <=> b)
           /\ NoFile(Tail(s)) /\ ~AboutFile(Head(s)) => NoFile(s)
  <1>1. /\ Head(s) = s[1] /\ 1 \in DOMAIN s
        /\ \A i \in DOMAIN Tail(s) : i + 1 \in DOMAIN s /\ Tail(s)[i] = s[i + 1]
        /\ \A i \in DOMAIN s : i # 1 => i - 1 \in DOMAIN Tail(s) /\ Tail(s)[i - 1] = s[i]
    OBVIOUS
  <1>2. Tells(Tail(s), b)
    <2> SUFFICES ASSUME NEW i \in DOMAIN Tail(s), AboutFile(Tail(s)[i]),
                        \A j \in DOMAIN Tail(s) : j > i => ~AboutFile(Tail(s)[j])
                 PROVE  Tail(s)[i].type = "FileLoaded" <=> b
      BY DEF Tells
    <2>1. \A j \in DOMAIN s : j > i + 1 => j # 1 /\ j - 1 > i
      OBVIOUS
    <2>2. \A j \in DOMAIN s : j > i + 1 => ~AboutFile(s[j])
      BY <1>1, <2>1
    <2> QED BY <1>1, <2>2 DEF Tells
  <1>3. ASSUME NoFile(Tail(s)) PROVE \A j \in DOMAIN s : j # 1 => ~AboutFile(s[j])
    BY <1>1, <1>3 DEF NoFile
  <1>4. \A j \in DOMAIN s : j > 1 => j # 1
    OBVIOUS
  <1> QED BY <1>1, <1>2, <1>3, <1>4 DEF Tells, NoFile

\* The controller and mpv's events agree on mpv's file.
Agreed == Tells(events, FilePlays) /\ HeardOf

LEMMA ControllerAgrees ==
    ASSUME Inv, Agreed, ~Rejects, UserLoads \/ UserStops \/ ControllerStep
    PROVE  Agreed'
  <1>0. Good(ctl) /\ Typed(ctl) /\ ctl \in Controller /\ events \in Seq(Event) /\ FilePlays \in BOOLEAN
    BY DEF Inv, Good, Typed, Waits, FilePlays
  <1>1. ASSUME UNCHANGED <<mpv, events>>, Follows(ctl, ctl') PROVE Agreed'
    BY <1>1 DEF Agreed, Tells, HeardOf, Follows, FilePlays
  <1>2. CASE UserLoads
    <2>1. PICK s \in Streams : ctl' = HandleLoadfile(ctl, [stream |-> s, reload |-> 0], TRUE)
      BY <1>2 DEF UserLoads, Accepted
    <2>2. [stream |-> s, reload |-> 0] \in Url
      BY DEF Url
    <2>3. Follows(ctl, ctl')
      BY <1>0, <2>1, <2>2, LoadfileFollows
    <2> QED BY <1>1, <1>2, <2>3 DEF UserLoads
  <1>3. CASE UserStops
    <2>1. ctl' = HandleStop(ctl, TRUE)
      BY <1>3 DEF UserStops, Accepted
    <2>2. Follows(ctl, ctl')
      BY <1>0, <2>1, StopFollows
    <2> QED BY <1>1, <1>3, <2>2 DEF UserStops
  <1>4. CASE FlushStaleStop
    <2>1. ctl.state = "Stopping" /\ ctl' = ReleaseStaleStop(ctl, TRUE)
      BY <1>4 DEF FlushStaleStop, Accepted
    <2>2. Follows(ctl, ctl')
      BY <1>0, <2>1, StaleStopFollows
    <2> QED BY <1>1, <1>4, <2>2 DEF FlushStaleStop
  <1>5. CASE FlushUnansweredLoadfile
    <2>1. /\ ctl.active # NoActive /\ ctl.recoveries < RecoveryLimit
          /\ ctl' = RecoverLoadfile(ctl, TRUE)
      BY <1>5 DEF FlushUnansweredLoadfile, Accepted, Waiting
    <2>2. ctl.state = "Loading"
      BY <1>0, <2>1 DEF Good, Followed
    <2>3. Follows(ctl, ctl')
      BY <1>0, <2>1, <2>2, RecoveryAsks, Asked
    <2> QED BY <1>1, <1>5, <2>3 DEF FlushUnansweredLoadfile
  <1>6. CASE FlushUnstartedLoadfile
    <2>1. ctl' = CancelLoadfile(ctl, TRUE)
      BY <1>6 DEF FlushUnstartedLoadfile, Accepted
    <2>2. Follows(ctl, ctl')
      BY <1>0, <2>1, CancelAsks, Asked
    <2> QED BY <1>1, <1>6, <2>2 DEF FlushUnstartedLoadfile
  <1>7. CASE FlushStartupRetry
    <2>1. ctl.retry # NoUrl /\ ctl' = RunRetry(ctl, TRUE)
      BY <1>7 DEF FlushStartupRetry, Accepted
    <2>2. Follows(ctl, ctl')
      BY <1>0, <2>1, RunRetryFollows
    <2> QED BY <1>1, <1>7, <2>2 DEF FlushStartupRetry
  <1>8. CASE HandleEvent
    <2> DEFINE e == Head(events)
    <2>1. /\ events # <<>> /\ events' = Tail(events) /\ mpv' = mpv
          /\ ctl' = OnEvent(ctl, e, TRUE)
      BY <1>8 DEF HandleEvent, Accepted
    <2>2. e \in Event
      BY <1>0, <2>1
    <2>3. /\ Tells(events', FilePlays)
          /\ NoFile(events') /\ AboutFile(e) => (e.type = "FileLoaded" <=> FilePlays)
          /\ NoFile(events') /\ ~AboutFile(e) => NoFile(events)
      BY <1>0, <2>1, TellsTail DEF Agreed
    <2>4. CASE AboutFile(e)
      <3>1. ctl'.state = "Loaded" <=> e.type = "FileLoaded"
        <4>1. CASE e.type = "StartFile"
          BY <1>0, <2>1, <4>1 DEF OnEvent, OnStartFile, Controller
        <4>2. CASE e.type = "FileLoaded"
          BY <1>0, <2>1, <4>2 DEF OnEvent, OnFileLoaded, Controller
        <4>3. CASE e.type \in {"EndStop", "EndEof", "EndError"}
          BY <1>0, <2>1, <4>3, EndLoadsNothing DEF OnEvent
        <4> QED BY <2>4, <4>1, <4>2, <4>3 DEF AboutFile
      <3> QED BY <2>1, <2>3, <2>4, <3>1 DEF Agreed, HeardOf, FilePlays
    <2>5. CASE ~AboutFile(e)
      <3>1. Follows(ctl, ctl')
        <4>1. CASE e.type = "Progress"
          BY <1>0, <2>1, <4>1 DEF OnEvent, Controller, Follows
        <4>2. CASE e.type = "Reply"
          BY <1>0, <2>1, <4>2, ReplyFollows DEF OnEvent
        <4>3. CASE e.type = "Err"
          BY <1>0, <2>1, <4>3, RetryFollows DEF OnEvent, Follows
        <4> QED BY <2>2, <2>5, <4>1, <4>2, <4>3 DEF AboutFile, Event
      <3> QED BY <2>1, <2>3, <2>5, <3>1 DEF Agreed, HeardOf, FilePlays, Follows
    <2> QED BY <2>4, <2>5
  <1> QED BY <1>2, <1>3, <1>4, <1>5, <1>6, <1>7, <1>8 DEF ControllerStep

LEMMA MpvAgrees ==
    ASSUME Inv, Agreed, ~Drops, MpvStep
    PROVE  Agreed'
  <1>0. ctl \in Controller /\ events \in Seq(Event) /\ mpv \in Mpv /\ FilePlays \in BOOLEAN
    BY DEF Inv, Good, Typed, Waits, FilePlays
  <1>1. ASSUME NEW e \in Event, events' = Append(events, e), AboutFile(e),
               e.type = "FileLoaded" <=> mpv'.phase = "playing"
        PROVE  Agreed'
    <2>1. Tells(events', e.type = "FileLoaded") /\ ~NoFile(events')
      BY <1>0, <1>1, FileAppend
    <2>2. Tells(events', mpv'.phase = "playing")
      BY <1>1, <2>1 DEF Tells
    <2> QED BY <2>1, <2>2 DEF Agreed, HeardOf, FilePlays
  <1>2. CASE MpvRunsCommand
    <2> DEFINE q == Head(ctl.core)
    <2>1. /\ events' = Append(events, Reply(q.id)) /\ ctl.core # <<>>
          /\ ctl' = [ctl EXCEPT !.core = Tail(@), !.aborted = @ \ {q.id}]
          /\ mpv' = [mpv EXCEPT !.switching = TRUE, !.next = q.url]
      BY <1>2 DEF MpvRunsCommand
    <2>2. Reply(q.id) \in Event /\ ~AboutFile(Reply(q.id))
      <3>1. q \in Queued
        BY <1>0, <2>1 DEF Controller
      <3> QED BY <3>1, Events DEF Queued, AboutFile, Reply
    <2>3. ctl'.state = ctl.state /\ mpv'.switching /\ mpv'.phase = mpv.phase
      BY <1>0, <2>1 DEF Controller, Mpv
    <2>4. Tells(events', FilePlays) /\ (NoFile(events') => NoFile(events))
      BY <1>0, <2>1, <2>2, QuietAppend DEF Agreed
    <2> QED BY <2>3, <2>4 DEF Agreed, HeardOf, FilePlays
  <1>3. CASE MpvDropsCommand
    BY <1>3 DEF MpvDropsCommand
  <1>4. CASE MpvSwitches
    <2> DEFINE x == About("EndStop", NoUrl)
               y == About("StartFile", NoUrl)
    <2>1. /\ ctl' = ctl /\ mpv.switching
          /\ mpv' = [file |-> mpv.next, switching |-> FALSE, next |-> NoUrl,
                     phase |-> IF mpv.next = NoUrl THEN "none" ELSE "opening"]
          /\ events' = events \o (IF mpv.phase = "none" THEN <<>> ELSE <<x>>)
                              \o (IF mpv.next = NoUrl THEN <<>> ELSE <<y>>)
      BY <1>4 DEF MpvSwitches
    <2>2. mpv'.phase # "playing"
      BY <2>1
    <2>3. /\ x \in Event /\ AboutFile(x) /\ x.type # "FileLoaded"
          /\ y \in Event /\ AboutFile(y) /\ y.type # "FileLoaded"
      BY Events, UrlFacts DEF AboutFile, About
    <2>4. CASE mpv.next # NoUrl
      <3>1. \E s \in Seq(Event) : events' = Append(s, y)
        <4>1. PICK s : s = events \o (IF mpv.phase = "none" THEN <<>> ELSE <<x>>)
          OBVIOUS
        <4>2. s \in Seq(Event)
          BY <1>0, <2>3, <4>1
        <4>3. events' = s \o <<y>>
          BY <2>1, <2>4, <4>1
        <4> QED BY <2>3, <4>2, <4>3
      <3>2. Tells(events', FALSE) /\ ~NoFile(events')
        BY <2>3, <3>1, FileAppend
      <3> QED BY <2>2, <3>2 DEF Agreed, HeardOf, FilePlays
    <2>5. CASE mpv.next = NoUrl /\ mpv.phase # "none"
      <3>1. events' = Append(events, x)
        BY <1>0, <2>1, <2>3, <2>5
      <3> QED BY <1>1, <2>2, <2>3, <3>1
    <2>6. CASE mpv.next = NoUrl /\ mpv.phase = "none"
      <3>1. events' = events
        BY <1>0, <2>1, <2>6
      <3> QED BY <2>1, <2>2, <2>6, <3>1 DEF Agreed, HeardOf, FilePlays
    <2> QED BY <2>4, <2>5, <2>6
  <1>5. CASE MpvLoads
    <2>1. /\ About("FileLoaded", mpv.file) \in Event
          /\ AboutFile(About("FileLoaded", mpv.file))
          /\ About("FileLoaded", mpv.file).type = "FileLoaded"
      BY <1>0, Events DEF Mpv, AboutFile, About
    <2>2. events' = Append(events, About("FileLoaded", mpv.file)) /\ mpv'.phase = "playing"
      BY <1>0, <1>5 DEF MpvLoads, Mpv
    <2> QED BY <1>1, <2>1, <2>2
  <1>6. CASE MpvFails
    <2>1. /\ mpv'.phase = "none" /\ mpv.phase = "opening" /\ ctl' = ctl
          /\ \E e \in {About("EndError", NoUrl), Err} : events' = Append(events, e)
      BY <1>0, <1>6 DEF MpvFails, Mpv
    <2>2. /\ About("EndError", NoUrl) \in Event /\ AboutFile(About("EndError", NoUrl))
          /\ About("EndError", NoUrl).type # "FileLoaded"
          /\ Err \in Event /\ ~AboutFile(Err)
      BY Events, UrlFacts DEF AboutFile, About, Err
    <2>3. CASE events' = Append(events, About("EndError", NoUrl))
      BY <1>1, <2>1, <2>2, <2>3
    <2>4. CASE events' = Append(events, Err)
      <3>1. Tells(events', FilePlays) /\ (NoFile(events') => NoFile(events))
        BY <1>0, <2>2, <2>4, QuietAppend DEF Agreed
      <3> QED BY <2>1, <3>1 DEF Agreed, HeardOf, FilePlays
    <2> QED BY <2>1, <2>3, <2>4
  <1>7. CASE MpvReachesEof
    <2> DEFINE x == About("EndEof", NoUrl)
               g == About("Progress", NoUrl)
    <2>1. /\ mpv'.phase = "none"
          /\ \E told \in {<<>>, <<g>>} : events' = events \o told \o <<x>>
      BY <1>0, <1>7 DEF MpvReachesEof, Mpv
    <2>2. x \in Event /\ AboutFile(x) /\ x.type # "FileLoaded" /\ g \in Event
      BY Events, UrlFacts DEF AboutFile, About
    <2>3. \E s \in Seq(Event) : events' = Append(s, x)
      <3>1. PICK told \in {<<>>, <<g>>} : events' = events \o told \o <<x>>
        BY <2>1
      <3>2. PICK s : s = events \o told
        OBVIOUS
      <3>3. s \in Seq(Event)
        <4> HIDE DEF g
        <4>1. CASE told = <<>>
          BY <1>0, <3>2, <4>1
        <4>2. CASE told = <<g>>
          BY <1>0, <2>2, <3>2, <4>2
        <4> QED BY <4>1, <4>2
      <3>4. events' = Append(s, x)
        BY <2>2, <3>1, <3>2, <3>3
      <3> QED BY <3>3, <3>4
    <2>4. Tells(events', FALSE) /\ ~NoFile(events')
      BY <2>2, <2>3, FileAppend
    <2> QED BY <2>1, <2>4 DEF Agreed, HeardOf, FilePlays
  <1> QED BY <1>2, <1>3, <1>4, <1>5, <1>6, <1>7 DEF MpvStep

\* When all is told, the controller, and with it IS_FILE_LOADED, knows whether mpv has a file
\* loaded, whatever loads, stops, failures, retries and watchdogs there were, for an mpv that
\* queues and runs every command it is sent.
THEOREM AllToldAgrees == ASSUME ~Drops, ~Rejects PROVE Spec => []SettledAgrees
  <1>1. Init => Agreed
    BY DEF Init, Agreed, Tells, HeardOf, FilePlays, NewMpv, NewController
  <1>2. Inv /\ Agreed /\ [Next]_vars => Agreed'
    <2> SUFFICES ASSUME Inv, Agreed, [Next]_vars PROVE Agreed'
      OBVIOUS
    <2>1. CASE UNCHANGED vars
      BY <2>1 DEF vars, Agreed, Tells, HeardOf, FilePlays
    <2> QED BY <2>1, ControllerAgrees, MpvAgrees DEF Next
  <1>3. Inv /\ Agreed => SettledAgrees
    <2> SUFFICES ASSUME Inv, Agreed, Settled PROVE ctl.fileLoaded <=> FilePlays
      BY DEF SettledAgrees, FilePlays
    <2>1. ctl.fileLoaded <=> ctl.state = "Loaded"
      BY DEF Inv, Good, Flags
    <2>2. NoFile(events)
      BY DEF Settled, NoFile
    <2> QED BY <2>1, <2>2 DEF Agreed, HeardOf, Settled
  <1> QED BY <1>1, <1>2, <1>3, Invariance, PTL DEF Spec

=============================================================================
