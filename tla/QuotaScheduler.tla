--------------------------- MODULE QuotaScheduler ---------------------------
(***************************************************************************)
(* The scheduler that probes the providers' quotas                         *)
(* (src/data/delivery-system/providerQuotaScheduler.ts), its snapshot      *)
(* store, and the server process it lives in.                              *)
(*                                                                         *)
(* A provider is probed while a session of it is active or the operator    *)
(* holds a lease on it.  The scheduler is single-threaded: a timer's       *)
(* callback, the answer of a probe or a request is one step.  What can     *)
(* come in any order are those steps.                                      *)
(*                                                                         *)
(* The unit of time is RECONCILE_INTERVAL_MS.  Time is counted down: a     *)
(* timer, a lease or a cooldown is the number of ticks that are left of    *)
(* it, 0 when it is due.  A due timer's callback runs before the next      *)
(* tick.                                                                   *)
(***************************************************************************)
EXTENDS Naturals, FiniteSets

CONSTANTS
  Providers,
  Interval,    \* SUCCESS_INTERVAL_MS
  Backoff,     \* INITIAL_BACKOFF_MS
  MaxBackoff,  \* MAX_BACKOFF_MS
  Timeout,     \* pollTimeoutMs
  LeaseTtl,    \* PROBE_LEASE_TTL_MS
  Ttls,        \* what a caller asks a lease for, at most LeaseTtl
  Cooldown,    \* PROBE_LEASE_COOLDOWN_MS
  StaleAge,    \* STALE_MAX_AGE_MS
  MaxStreak,   \* bound: failures in a row that are told apart
  MaxFaults,   \* bound: writes of the store that throw
  MaxDeaths,   \* bound: process deaths from outside
  MaxStarts    \* bound: calls of start() in one process; the server makes one

ASSUME QuotaConstants ==
  /\ {Interval, Backoff, MaxBackoff, Timeout, LeaseTtl, Cooldown} \subseteq Nat \ {0}
  /\ {MaxFaults, MaxDeaths, MaxStarts, StaleAge} \subseteq Nat /\ MaxStreak \in Nat \ {0}
  /\ Backoff <= MaxBackoff /\ Ttls \subseteq 1 .. LeaseTtl

VARIABLES
  running,   \* the scheduler is started
  crashed,   \* the process ended on an unhandled rejection
  starts,    \* calls of start() in this process
  live,      \* live[p]: the session registry has an active, unexpired session of p
  lease,     \* lease[p]: what is left of the operator's lease, 0 without one
  cool,      \* cool[p]: what is left of the cooldown after a lease request
  reconcile, \* what is left of reconcileTimer, NoTimer without one
  timer,     \* timer[p]: what is left of the provider's next poll, NoTimer without one
  polls,     \* polls[p]: the polls of p that await their answer, by controller
  inFlight,  \* inFlight[p]: the controller in the map, 0 when there is none
  streak,    \* failures[p]
  told,      \* told[p]: failures reported since the last success
  stored,    \* stored[p]: the snapshot in the store
  faults, deaths,
  wait,      \* history: wait[p] ticks since p's last poll ended, capped
  owed       \* history: owed[p] the delay that poll asked for, 0 when p was idle since

vars == <<running, crashed, starts, live, lease, cool, reconcile, timer, polls, inFlight,
          streak, told, stored, faults, deaths, wait, owed>>

NoTimer == MaxBackoff + Interval + 1
Longest == IF MaxBackoff > Interval THEN MaxBackoff ELSE Interval

Controllers == 1 .. 2
NoPoll == [open |-> FALSE, aborted |-> FALSE, left |-> 0, age |-> 0]
NewPoll == [open |-> TRUE, aborted |-> FALSE, left |-> Timeout, age |-> 0]
Missing == [health |-> "none", age |-> 0]

Init ==
  /\ running = FALSE /\ crashed = FALSE /\ starts = 0
  /\ live \in [Providers -> BOOLEAN]
  /\ lease = [p \in Providers |-> 0] /\ cool = [p \in Providers |-> 0]
  /\ reconcile = NoTimer /\ timer = [p \in Providers |-> NoTimer]
  /\ polls = [p \in Providers |-> [c \in Controllers |-> NoPoll]]
  /\ inFlight = [p \in Providers |-> 0]
  /\ streak = [p \in Providers |-> 0] /\ told = [p \in Providers |-> 0]
  /\ stored = [p \in Providers |-> Missing]
  /\ faults = 0 /\ deaths = 0
  /\ wait = [p \in Providers |-> 0] /\ owed = [p \in Providers |-> 0]

-----------------------------------------------------------------------------
(* Helpers *)

\* activeProviders(): a session or a lease.
Active(p) == live[p] \/ lease[p] > 0

\* MIN(INITIAL_BACKOFF_MS * 2 ** (n - 1), MAX_BACKOFF_MS)
Delay(n) == LET d == Backoff * 2 ^ (n - 1) IN IF d \in 0 .. MaxBackoff THEN d ELSE MaxBackoff

FreeController(p) == CHOOSE c \in Controllers : ~polls[p][c].open

\* poll(): starts unless the provider has one in flight.
PollStarted(S) ==
  /\ \A p \in S : \E c \in Controllers : ~polls[p][c].open   \* bound
  /\ polls' = [p \in Providers |->
       IF p \in S THEN [polls[p] EXCEPT ![FreeController(p)] = NewPoll] ELSE polls[p]]
  /\ inFlight' = [p \in Providers |-> IF p \in S THEN FreeController(p) ELSE inFlight[p]]

-----------------------------------------------------------------------------
(* reconcile *)

\* Mutant: demand is compared with the timers alone.
ReconciledTimersOnly(demand) ==
  LET idle == {p \in Providers : ~demand[p]}
      new  == {p \in Providers \ idle : timer[p] = NoTimer}
  IN /\ \A p \in new : \E c \in Controllers : ~polls[p][c].open
     /\ polls' = [p \in Providers |->
          IF p \in new THEN [polls[p] EXCEPT ![FreeController(p)] = NewPoll] ELSE polls[p]]
     /\ inFlight' = [p \in Providers |-> IF p \in new THEN FreeController(p) ELSE inFlight[p]]
     /\ timer' = [p \in Providers |-> IF p \in idle THEN NoTimer ELSE timer[p]]
     /\ owed' = [p \in Providers |-> IF p \in idle THEN 0 ELSE owed[p]]

\* Mutant: a scheduled poll does not keep the provider from being polled.
ReconciledOverTimers(demand) ==
  LET idle == {p \in Providers : ~demand[p]}
      new  == {p \in Providers \ idle : inFlight[p] = 0}
  IN /\ \A p \in new : \E c \in Controllers : ~polls[p][c].open
     /\ polls' = [p \in Providers |->
          IF p \in new THEN [polls[p] EXCEPT ![FreeController(p)] = NewPoll] ELSE polls[p]]
     /\ inFlight' = [p \in Providers |-> IF p \in new THEN FreeController(p) ELSE inFlight[p]]
     /\ timer' = [p \in Providers |-> IF p \in idle \cup new THEN NoTimer ELSE timer[p]]
     /\ owed' = [p \in Providers |-> IF p \in idle THEN 0 ELSE owed[p]]

\* Polls without demand are aborted and their timers cleared; demand without either
\* is polled at once.
Reconciled(demand) ==
  LET idle == {p \in Providers : ~demand[p]}
      new  == {p \in Providers \ idle : timer[p] = NoTimer /\ inFlight[p] = 0}
  IN /\ \A p \in new : \E c \in Controllers : ~polls[p][c].open   \* bound
     /\ polls' = [p \in Providers |->
          IF p \in new THEN [polls[p] EXCEPT ![FreeController(p)] = NewPoll]
          ELSE [c \in Controllers |->
            [polls[p][c] EXCEPT !.aborted = @ \/ (p \in idle /\ c = inFlight[p])]]]
     /\ inFlight' = [p \in Providers |-> IF p \in new THEN FreeController(p) ELSE inFlight[p]]
     /\ timer' = [p \in Providers |-> IF p \in idle THEN NoTimer ELSE timer[p]]
     /\ owed' = [p \in Providers |-> IF p \in idle THEN 0 ELSE owed[p]]

Start ==
  /\ ~running /\ ~crashed /\ starts < MaxStarts
  /\ running' = TRUE /\ starts' = starts + 1
  /\ Reconciled([p \in Providers |-> Active(p)])
  /\ reconcile' = 1
  /\ UNCHANGED <<crashed, live, lease, cool, streak, told, stored, faults, deaths, wait>>

Stop ==
  /\ running /\ running' = FALSE
  /\ reconcile' = NoTimer /\ timer' = [p \in Providers |-> NoTimer]
  /\ polls' = [p \in Providers |-> [c \in Controllers |->
       [polls[p][c] EXCEPT !.aborted = @ \/ c = inFlight[p]]]]
  /\ inFlight' = [p \in Providers |-> 0]
  /\ lease' = [p \in Providers |-> 0] /\ cool' = [p \in Providers |-> 0]
  /\ owed' = [p \in Providers |-> 0]
  /\ UNCHANGED <<crashed, starts, live, streak, told, stored, faults, deaths, wait>>

ReconcileTimer ==
  /\ running /\ reconcile = 0 /\ reconcile' = 1
  /\ Reconciled([p \in Providers |-> Active(p)])
  /\ UNCHANGED <<running, crashed, starts, live, lease, cool, streak, told, stored, faults,
                 deaths, wait>>

-----------------------------------------------------------------------------
(* requestProbeLease *)

\* A request never shortens a lease.
LeaseExtended(S, ttl) ==
  [p \in Providers |-> IF p \in S /\ ttl > lease[p] THEN ttl ELSE lease[p]]

\* Providers in their cooldown are rejected; the others are reconciled at once.
RequestLease(S, ttl) ==
  LET accepted == {p \in S : cool[p] = 0}
      leases   == LeaseExtended(accepted, ttl)
  IN /\ running /\ accepted # {}
     /\ lease' = leases
     /\ cool' = [p \in Providers |-> IF p \in accepted THEN Cooldown ELSE cool[p]]
     /\ Reconciled([p \in Providers |-> live[p] \/ leases[p] > 0])
     /\ UNCHANGED <<running, crashed, starts, live, reconcile, streak, told, stored, faults,
                    deaths, wait>>

-----------------------------------------------------------------------------
(* poll, noteFailure, schedule, persist *)

\* The timer of p is due: poll() returns when the demand is gone.
PollTimer(p) ==
  /\ timer[p] = 0 /\ timer' = [timer EXCEPT ![p] = NoTimer]
  /\ IF running /\ Active(p) /\ inFlight[p] = 0
       THEN PollStarted({p}) /\ UNCHANGED owed
       ELSE UNCHANGED <<polls, inFlight>> /\ owed' = [owed EXCEPT ![p] = 0]
  /\ UNCHANGED <<running, crashed, starts, live, lease, cool, reconcile, streak, told, stored,
                 faults, deaths, wait>>

\* finally: the controller is taken out of the map, whichever is there.
PollEnds(p, c) ==
  /\ polls' = [polls EXCEPT ![p][c] = NoPoll]
  /\ inFlight' = [inFlight EXCEPT ![p] = 0]

\* The poll ends without an effect, and without a next one.
GivenUp(p, c) ==
  /\ PollEnds(p, c) /\ owed' = [owed EXCEPT ![p] = 0]
  /\ UNCHANGED <<running, crashed, starts, live, lease, cool, reconcile, timer, streak, told,
                 deaths, wait>>

Scheduled(p, delay) ==
  /\ timer' = [timer EXCEPT ![p] = delay]
  /\ wait' = [wait EXCEPT ![p] = 0] /\ owed' = [owed EXCEPT ![p] = delay]

\* noteFailure() and the backoff; the first failure of a streak is reported.
FailureNoted(p) ==
  LET n == IF streak[p] < MaxStreak THEN streak[p] + 1 ELSE MaxStreak IN
  /\ streak' = [streak EXCEPT ![p] = n]
  /\ told' = [told EXCEPT ![p] = IF streak[p] = 0 THEN @ + 1 ELSE @]
  /\ Scheduled(p, Delay(n))

Accepted(p) == running /\ Active(p)

\* An answer after the demand has gone is dropped.
AnswerDropped(p, c) ==
  /\ polls[p][c].open /\ ~Accepted(p) /\ GivenUp(p, c)
  /\ UNCHANGED <<stored, faults>>

Written(p, c, health) == [stored EXCEPT ![p] = [health |-> health, age |-> polls[p][c].age]]

\* A healthy answer that is stored, with its event.
AnswerHealthy(p, c) ==
  /\ polls[p][c].open /\ Accepted(p) /\ PollEnds(p, c)
  /\ stored' = Written(p, c, "healthy")
  /\ streak' = [streak EXCEPT ![p] = 0] /\ told' = [told EXCEPT ![p] = 0]
  /\ Scheduled(p, Interval)
  /\ UNCHANGED <<running, crashed, starts, live, lease, cool, reconcile, faults, deaths>>

\* A failed poll is stored with the time it was begun.
FailureStored(p, c) ==
  /\ PollEnds(p, c) /\ FailureNoted(p)
  /\ stored' = Written(p, c, "unavailable")
  /\ UNCHANGED <<running, crashed, starts, live, lease, cool, reconcile, deaths>>

\* The adapter answers that the provider is unavailable.
AnswerFailed(p, c) ==
  /\ polls[p][c].open /\ Accepted(p) /\ FailureStored(p, c) /\ UNCHANGED faults

\* The adapter throws: a failure, unless the poll was aborted for want of demand.
AdapterThrows(p, c) ==
  /\ polls[p][c].open
  /\ IF Accepted(p) /\ ~polls[p][c].aborted
       THEN FailureStored(p, c) ELSE GivenUp(p, c) /\ UNCHANGED stored
  /\ UNCHANGED faults

\* Mutant: a poll that was aborted is given up without a timeout's consequences.
TimesOutSilently(p, c) ==
  /\ polls[p][c].open /\ polls[p][c].left = 0
  /\ polls' = [polls EXCEPT ![p][c] = NoPoll]
  /\ UNCHANGED <<running, crashed, starts, live, lease, cool, reconcile, timer, inFlight,
                 streak, told, stored, faults, deaths, wait, owed>>

\* pollTimeoutMs is over; the adapter's answer no longer matters.
TimesOut(p, c) ==
  /\ polls[p][c].open /\ polls[p][c].left = 0
  /\ IF Accepted(p) THEN FailureStored(p, c) ELSE GivenUp(p, c) /\ UNCHANGED stored
  /\ UNCHANGED faults

\* The write of the snapshot, or of its event, throws (the lock timed out): the catch
\* stores the poll as a failure, over the snapshot that may be there already; a poll
\* that had been aborted is given up.
PersistFails(p, c) ==
  /\ polls[p][c].open /\ Accepted(p)
  /\ faults < MaxFaults /\ faults' = faults + 1
  /\ IF ~polls[p][c].aborted THEN FailureStored(p, c)
     ELSE /\ GivenUp(p, c)
          /\ stored' \in {stored, Written(p, c, "healthy"), Written(p, c, "unavailable")}

\* What a process keeps in memory is gone.
ProcessGone ==
  /\ running' = FALSE
  /\ reconcile' = NoTimer /\ timer' = [p \in Providers |-> NoTimer]
  /\ polls' = [p \in Providers |-> [c \in Controllers |-> NoPoll]]
  /\ inFlight' = [p \in Providers |-> 0]
  /\ lease' = [p \in Providers |-> 0] /\ cool' = [p \in Providers |-> 0]
  /\ streak' = [p \in Providers |-> 0] /\ told' = [p \in Providers |-> 0]
  /\ owed' = [p \in Providers |-> 0]

\* The write in the catch throws: nobody handles the rejection of
\* "void this.poll(provider)", and the process ends.
PersistFailsAgain(p, c) ==
  /\ polls[p][c].open /\ Accepted(p) /\ (~polls[p][c].aborted \/ polls[p][c].left = 0)
  /\ faults < MaxFaults /\ faults' = faults + 1
  /\ crashed' = TRUE /\ ProcessGone
  /\ stored' \in {stored, Written(p, c, "healthy"), Written(p, c, "unavailable")}
  /\ UNCHANGED <<starts, live, deaths, wait>>

-----------------------------------------------------------------------------
(* Sessions, process deaths, time *)

\* A session of p is opened or resumed, or the last one is closed or its owner expires.
SessionsChange(p) ==
  /\ live' = [live EXCEPT ![p] = ~@]
  /\ UNCHANGED <<running, crashed, starts, lease, cool, reconcile, timer, polls, inFlight,
                 streak, told, stored, faults, deaths, wait, owed>>

\* The service manager starts the server again after a crash, or after a death from
\* outside.
NewProcess ==
  /\ crashed \/ deaths < MaxDeaths
  /\ deaths' = IF crashed THEN deaths ELSE deaths + 1
  /\ crashed' = FALSE /\ starts' = 0 /\ ProcessGone
  /\ UNCHANGED <<live, stored, faults, wait>>

DownBy1(n) == IF n = 0 \/ n = NoTimer THEN n ELSE n - 1
UpBy1(n, bound) == IF n < bound THEN n + 1 ELSE n

NothingDue ==
  /\ reconcile # 0 /\ \A p \in Providers : timer[p] # 0
  /\ \A p \in Providers, c \in Controllers : polls[p][c].open => polls[p][c].left # 0

Tick ==
  /\ NothingDue
  /\ lease' = [p \in Providers |-> DownBy1(lease[p])]
  /\ cool' = [p \in Providers |-> DownBy1(cool[p])]
  /\ reconcile' = DownBy1(reconcile)
  /\ timer' = [p \in Providers |-> DownBy1(timer[p])]
  /\ polls' = [p \in Providers |-> [c \in Controllers |->
       IF polls[p][c].open
         THEN [polls[p][c] EXCEPT !.left = @ - 1, !.age = @ + 1] ELSE NoPoll]]
  /\ stored' = [p \in Providers |->
       IF stored[p].health = "none" THEN Missing
       ELSE [stored[p] EXCEPT !.age = UpBy1(@, StaleAge)]]
  /\ wait' = [p \in Providers |-> UpBy1(wait[p], Longest)]
  /\ UNCHANGED <<running, crashed, starts, live, inFlight, streak, told, faults, deaths, owed>>

-----------------------------------------------------------------------------
PollSettles(p, c) ==
  \/ AnswerDropped(p, c) \/ AnswerHealthy(p, c) \/ AnswerFailed(p, c)
  \/ AdapterThrows(p, c) \/ TimesOut(p, c)
  \/ PersistFails(p, c) \/ PersistFailsAgain(p, c)

Next ==
  \/ Start \/ Stop \/ ReconcileTimer
  \/ \E S \in SUBSET Providers, ttl \in Ttls : RequestLease(S, ttl)
  \/ \E p \in Providers : PollTimer(p) \/ SessionsChange(p)
  \/ \E p \in Providers, c \in Controllers : PollSettles(p, c)
  \/ NewProcess \/ Tick

Spec == Init /\ [][Next]_vars

\* Time passes, due timers run, and a crashed server is started again.
Fairness ==
  /\ WF_vars(Tick) /\ WF_vars(ReconcileTimer)
  /\ \A p \in Providers : WF_vars(PollTimer(p))
  /\ \A p \in Providers, c \in Controllers : WF_vars(TimesOut(p, c))
  /\ WF_vars(crashed /\ NewProcess) /\ WF_vars(~crashed /\ Start)

FairSpec == Spec /\ Fairness

-----------------------------------------------------------------------------
(* Properties *)

Ticks == 0 .. NoTimer

\* The variables keep their types (the maps of ProviderQuotaScheduler).
TypeOK ==
  /\ running \in BOOLEAN /\ crashed \in BOOLEAN
  /\ live \in [Providers -> BOOLEAN]
  /\ lease \in [Providers -> 0 .. LeaseTtl] /\ cool \in [Providers -> 0 .. Cooldown]
  /\ reconcile \in {0, 1, NoTimer} /\ timer \in [Providers -> 0 .. Longest \cup {NoTimer}]
  /\ polls \in [Providers -> [Controllers -> [open : BOOLEAN, aborted : BOOLEAN,
                                              left : 0 .. Timeout, age : 0 .. Timeout]]]
  /\ inFlight \in [Providers -> Controllers \cup {0}]
  /\ streak \in [Providers -> 0 .. MaxStreak]
  /\ \A p \in Providers : stored[p].health \in {"none", "healthy", "unavailable"}
                          /\ stored[p].age \in 0 .. StaleAge

Open(p) == {c \in Controllers : polls[p][c].open}

\* A provider has one poll in flight at most, and none while its next one is scheduled:
\* neither reconciliation, a lease request, a late answer nor a timeout starts a second
\* chain of polls (providerQuotaScheduler.ts:131, 239).
OnePoll == \A p \in Providers :
  /\ Cardinality(Open(p)) <= 1
  /\ timer[p] # NoTimer => Open(p) = {} /\ inFlight[p] = 0

\* Once the scheduler is stopped every poll that is left has been told to give up and
\* no timer is armed (stop, providerQuotaScheduler.ts:106).
StoppedIsQuiet == ~running =>
  /\ reconcile = NoTimer
  /\ \A p \in Providers : timer[p] = NoTimer /\ \A c \in Open(p) : polls[p][c].aborted

\* One incident per streak of failures, however the failures come about
\* (noteFailure, providerQuotaScheduler.ts:292).
OneReportPerStreak == \A p \in Providers : told[p] <= 1

\* A provider that is in demand without interruption and whose last probe succeeded is
\* never shown with a snapshot older than one interval and two polls, so that it does
\* not become "unavailable" (StaleAge) while it is healthy (freshnessForSnapshot,
\* providerQuota.ts:94).
FreshWhileProbed == \A p \in Providers :
  owed[p] # 0 /\ stored[p].health = "healthy"
    => stored[p].age <= Interval + 2 * Timeout /\ stored[p].age < StaleAge

\* A snapshot is stored only for a provider in demand, by a running scheduler
\* (providerQuotaScheduler.ts:256, 267).
StoredOnDemand ==
  [][\A p \in Providers : stored'[p].health # "none" /\ stored'[p].age < stored[p].age
       => running /\ Active(p)]_vars

\* While a provider stays in demand, sessions that come and go, lease requests and
\* reconciliations never poll it before the delay of its last poll is over
\* (schedule, providerQuotaScheduler.ts:305).
BackoffKept ==
  [][\A p \in Providers : Open(p) = {} /\ Open(p)' # {} => wait[p] >= owed[p]]_vars

\* A provider in demand is polled again and again, whatever its polls come to and
\* although the process may die.
PolledAgain == \A p \in Providers : ([]<>(Open(p) # {})) \/ []<>~(running /\ Active(p))

\* docs/superpowers/specs/2026-07-11-provider-quota-polling-design.md:76: "Poll failures
\* never block dispatch or approval operations."
PollFailureContained == ~crashed
=============================================================================
