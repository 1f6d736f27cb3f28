---------------------------- MODULE BudgetProofs ----------------------------
(***************************************************************************)
(* Proofs about the two guards in front of the providers.  The quota       *)
(* scheduler, for any providers, intervals, failing writes and process     *)
(* deaths, in a server that starts its scheduler once; the token gateway,  *)
(* for any handoffs, groups, keys, budgets, limits, failing writes and     *)
(* deaths.                                                                 *)
(***************************************************************************)
EXTENDS QuotaScheduler, TokenGateway, FiniteSetTheorems, WellFoundedInduction, TLAPS

-----------------------------------------------------------------------------
(* The quota scheduler *)

PollState == [open : BOOLEAN, aborted : BOOLEAN, left : Nat, age : Nat]

Types ==
  /\ running \in BOOLEAN /\ starts \in Nat /\ reconcile \in Nat
  /\ timer \in [Providers -> 0 .. NoTimer]
  /\ polls \in [Providers -> [Controllers -> PollState]]
  /\ inFlight \in [Providers -> Controllers \cup {0}]
  /\ streak \in [Providers -> Nat] /\ told \in [Providers -> Nat]
  /\ wait \in [Providers -> Nat] /\ owed \in [Providers -> 0 .. Longest]

\* One poll or one timer is what keeps a provider going, the map of controllers knows the poll
\* of a running scheduler, and a poll that outlives its scheduler was aborted.
OneChain(p) ==
  /\ \A c, d \in Controllers : polls[p][c].open /\ polls[p][d].open => c = d
  /\ timer[p] # NoTimer => running /\ \A c \in Controllers : ~polls[p][c].open
  /\ inFlight[p] # 0 => running /\ polls[p][inFlight[p]].open
  /\ \A c \in Controllers :
       polls[p][c].open => c = inFlight[p] \/ (~running /\ polls[p][c].aborted)

\* A streak was reported once, when it began.
ToldOnce(p) == told[p] <= 1 /\ (streak[p] = 0 => told[p] = 0)

\* The timer makes up for what the delay still lacks.
DelayKept(p) == owed[p] # 0 =>
  /\ running
  /\ (\A c \in Controllers : ~polls[p][c].open) =>
       timer[p] # NoTimer /\ timer[p] + wait[p] >= owed[p]

StartedOnce ==
  /\ ~running => reconcile = NoTimer
  /\ starts = 0 => ~running /\ \A p \in Providers, c \in Controllers : ~polls[p][c].open

IInv ==
  /\ Types /\ StartedOnce
  /\ \A p \in Providers : OneChain(p) /\ ToldOnce(p) /\ DelayKept(p)

\* A poll begins when the delay of the last one is over.
InTime == \A p \in Providers :
  (\A c \in Controllers : ~polls[p][c].open) /\ (\E c \in Controllers : polls'[p][c].open)
    => wait[p] >= owed[p]

-----------------------------------------------------------------------------
(* Numbers *)

LEMMA Numbers ==
  /\ NoTimer \in Nat /\ Longest \in Nat /\ Longest < NoTimer /\ NoTimer # 0 /\ NoTimer # 1
  /\ Interval \in 0 .. Longest /\ Timeout \in Nat /\ MaxStreak \in Nat \ {0}
  /\ \A n : Delay(n) \in 0 .. Longest
  /\ Controllers = {1, 2} /\ 0 \notin Controllers
BY QuotaConstants DEF NoTimer, Longest, Delay, Controllers

LEMMA PollShapes == NewPoll \in PollState /\ NoPoll \in PollState /\ NewPoll.open /\ ~NoPoll.open
BY Numbers DEF NewPoll, NoPoll, PollState

\* A controller that is free is found.
LEMMA FreeFound ==
  ASSUME NEW p \in Providers, \E c \in Controllers : ~polls[p][c].open
  PROVE  FreeController(p) \in Controllers /\ ~polls[p][FreeController(p)].open
BY DEF FreeController

-----------------------------------------------------------------------------
(* Polls begin *)

\* What becomes of a provider's poll and timer in reconcile.
LEMMA ReconciledOne ==
  ASSUME Types, NEW demand \in [Providers -> BOOLEAN], Reconciled(demand), NEW p \in Providers
  PROVE  /\ demand[p] /\ timer[p] = NoTimer /\ inFlight[p] = 0 =>
              /\ FreeController(p) \in Controllers /\ inFlight'[p] = FreeController(p)
              /\ polls'[p] = [polls[p] EXCEPT ![FreeController(p)] = NewPoll]
              /\ timer'[p] = timer[p] /\ owed'[p] = owed[p]
         /\ demand[p] /\ ~(timer[p] = NoTimer /\ inFlight[p] = 0) =>
              /\ inFlight'[p] = inFlight[p] /\ timer'[p] = timer[p] /\ owed'[p] = owed[p]
              /\ \A c \in Controllers : polls'[p][c] = [polls[p][c] EXCEPT !.aborted = @ \/ FALSE]
         /\ ~demand[p] =>
              /\ inFlight'[p] = inFlight[p] /\ timer'[p] = NoTimer /\ owed'[p] = 0
              /\ polls'[p] = [c \in Controllers |->
                   [polls[p][c] EXCEPT !.aborted = @ \/ c = inFlight[p]]]
BY FreeFound DEF Reconciled, Types

LEMMA ReconciledTypes ==
  ASSUME Types, NEW demand \in [Providers -> BOOLEAN], Reconciled(demand)
  PROVE  /\ timer' \in [Providers -> 0 .. NoTimer] /\ owed' \in [Providers -> 0 .. Longest]
         /\ polls' \in [Providers -> [Controllers -> PollState]]
         /\ inFlight' \in [Providers -> Controllers \cup {0}]
<1>1. \A p \in Providers, c \in Controllers, b \in BOOLEAN :
        [polls[p][c] EXCEPT !.aborted = @ \/ b] \in PollState
  <2>1. \A r \in PollState, b \in BOOLEAN : (r.aborted \/ b) \in BOOLEAN
    OBVIOUS
  <2>2. \A r \in PollState, e \in BOOLEAN : [r EXCEPT !.aborted = e] \in PollState
    BY DEF PollState
  <2>3. \A p \in Providers, c \in Controllers : polls[p][c] \in PollState
    BY DEF Types
  <2>4. QED
    BY <2>1, <2>2, <2>3
<1>2. \A p \in Providers : (\E c \in Controllers : ~polls[p][c].open) =>
        [polls[p] EXCEPT ![FreeController(p)] = NewPoll] \in [Controllers -> PollState]
  BY PollShapes DEF Types
<1>3. \A p \in Providers : (\E c \in Controllers : ~polls[p][c].open) =>
        FreeController(p) \in Controllers
  BY FreeFound
<1>4. polls' \in [Providers -> [Controllers -> PollState]]
  BY <1>1, <1>2 DEF Reconciled
<1>5. inFlight' \in [Providers -> Controllers \cup {0}]
  BY <1>3 DEF Reconciled, Types
<1>6. NoTimer \in 0 .. NoTimer /\ 0 \in 0 .. Longest
  BY Numbers
<1>7. QED
  BY <1>4, <1>5, <1>6 DEF Reconciled, Types

LEMMA ReconciledKeeps ==
  ASSUME IInv, NEW demand \in [Providers -> BOOLEAN], Reconciled(demand),
         running \/ starts = 0, running', running' \in BOOLEAN, starts' \in Nat \ {0},
         reconcile' \in Nat, UNCHANGED <<streak, told, wait>>
  PROVE  IInv' /\ InTime
<1>1. Types'
  BY ReconciledTypes DEF IInv, Types
<1>2. ASSUME NEW p \in Providers
      PROVE  /\ OneChain(p)' /\ ToldOnce(p)' /\ DelayKept(p)'
             /\ (\A c \in Controllers : ~polls[p][c].open)
                  /\ (\E c \in Controllers : polls'[p][c].open) => wait[p] >= owed[p]
  <2> USE Numbers
  <2>1. /\ OneChain(p) /\ ToldOnce(p) /\ DelayKept(p) /\ wait[p] \in Nat
        /\ owed[p] \in 0 .. Longest /\ polls[p] \in [Controllers -> PollState]
        /\ ~running => \A c \in Controllers : ~polls[p][c].open
    BY DEF IInv, Types, StartedOnce
  <2>2. ToldOnce(p)'
    BY <2>1 DEF ToldOnce
  <2>3. CASE demand[p] /\ timer[p] = NoTimer /\ inFlight[p] = 0
    <3>1. \A c \in Controllers : ~polls[p][c].open
      BY <2>1, <2>3 DEF OneChain
    <3>2. owed[p] = 0
      BY <2>1, <2>3, <3>1 DEF DelayKept
    <3>3. PICK c \in Controllers :
            /\ polls'[p] = [polls[p] EXCEPT ![c] = NewPoll] /\ inFlight'[p] = c
            /\ timer'[p] = timer[p] /\ owed'[p] = owed[p]
      <4>1. /\ FreeController(p) \in Controllers /\ inFlight'[p] = FreeController(p)
            /\ polls'[p] = [polls[p] EXCEPT ![FreeController(p)] = NewPoll]
            /\ timer'[p] = timer[p] /\ owed'[p] = owed[p]
        <5>1. Types
          BY DEF IInv
        <5>2. QED
          BY <2>3, <5>1, ReconciledOne, ZenonT(120)
      <4>2. QED
        BY <4>1, Zenon
    <3>4. polls'[p][c].open /\ \A d \in Controllers : polls'[p][d].open => d = c
      BY <2>1, <3>1, <3>3, PollShapes
    <3>5. OneChain(p)'
      BY <2>3, <3>3, <3>4 DEF OneChain
    <3>6. QED
      BY <2>1, <2>2, <3>2, <3>3, <3>5 DEF DelayKept
  <2>4. CASE demand[p] /\ ~(timer[p] = NoTimer /\ inFlight[p] = 0)
    <3>1. /\ inFlight'[p] = inFlight[p] /\ timer'[p] = timer[p] /\ owed'[p] = owed[p]
          /\ \A c \in Controllers : polls'[p][c] = [polls[p][c] EXCEPT !.aborted = @ \/ FALSE]
      BY <2>4, ReconciledOne DEF IInv
    <3>2. \A c \in Controllers : polls'[p][c].open = polls[p][c].open
      BY <2>1, <3>1 DEF PollState
    <3>3. QED
      BY <2>1, <2>2, <3>1, <3>2 DEF OneChain, DelayKept, IInv, Types
  <2>5. CASE ~demand[p]
    <3>1. /\ inFlight'[p] = inFlight[p] /\ timer'[p] = NoTimer /\ owed'[p] = 0
          /\ polls'[p] = [c \in Controllers |->
               [polls[p][c] EXCEPT !.aborted = @ \/ c = inFlight[p]]]
      BY <2>5, ReconciledOne, ZenonT(60) DEF IInv
    <3>2. \A c \in Controllers : polls'[p][c].open = polls[p][c].open
      BY <2>1, <3>1 DEF PollState
    <3>3. QED
      BY <2>1, <2>2, <3>1, <3>2 DEF OneChain, DelayKept, IInv, Types
  <2>6. QED
    BY <2>3, <2>4, <2>5
<1>3. StartedOnce'
  BY DEF StartedOnce
<1>4. QED
  BY <1>1, <1>2, <1>3 DEF IInv, InTime

\* A due timer begins a poll, or nothing when the demand is gone.
LEMMA PollTimerKeeps == ASSUME IInv, NEW p \in Providers, PollTimer(p) PROVE IInv' /\ InTime
<1> USE Numbers
<1>1. /\ OneChain(p) /\ DelayKept(p) /\ timer[p] = 0 /\ running
      /\ \A c \in Controllers : ~polls[p][c].open
  BY DEF IInv, OneChain, PollTimer
<1>2. owed[p] = 0 \/ wait[p] >= owed[p]
  BY <1>1 DEF DelayKept, IInv, Types
<1>3. timer' \in [Providers -> 0 .. NoTimer] /\ timer'[p] = NoTimer
  BY DEF PollTimer, IInv, Types
<1>4. \A q \in Providers : q # p => timer'[q] = timer[q]
  BY DEF PollTimer, IInv, Types
<1>5. CASE running /\ Active(p) /\ inFlight[p] = 0
  <2>1. PollStarted({p}) /\ UNCHANGED <<owed, running, starts, reconcile, streak, told, wait>>
    BY <1>5 DEF PollTimer
  <2>2. FreeController(p) \in Controllers
    BY <1>1, FreeFound
  <2>3. /\ polls'[p] = [polls[p] EXCEPT ![FreeController(p)] = NewPoll]
        /\ inFlight'[p] = FreeController(p)
        /\ \A q \in Providers : q # p => polls'[q] = polls[q] /\ inFlight'[q] = inFlight[q]
    BY <2>1 DEF PollStarted
  <2>4. /\ polls' \in [Providers -> [Controllers -> PollState]]
        /\ inFlight' \in [Providers -> Controllers \cup {0}]
    <3>1. [polls[p] EXCEPT ![FreeController(p)] = NewPoll] \in [Controllers -> PollState]
      BY PollShapes DEF IInv, Types
    <3>2. QED
      BY <2>1, <2>2, <3>1 DEF PollStarted, IInv, Types
  <2>5. Types'
    BY <1>3, <2>1, <2>4 DEF IInv, Types
  <2>6. /\ polls'[p][inFlight'[p]].open
        /\ \A d \in Controllers : polls'[p][d].open => d = inFlight'[p]
    BY <1>1, <2>2, <2>3, PollShapes DEF IInv, Types
  <2>7. OneChain(p)' /\ ToldOnce(p)' /\ DelayKept(p)'
    BY <1>1, <1>3, <2>1, <2>2, <2>3, <2>6 DEF OneChain, ToldOnce, DelayKept, IInv
  <2>8. \A q \in Providers : q # p => OneChain(q)' /\ ToldOnce(q)' /\ DelayKept(q)'
    BY <1>4, <2>1, <2>3 DEF OneChain, ToldOnce, DelayKept, IInv
  <2>9. StartedOnce'
    BY <1>1, <2>1 DEF StartedOnce, IInv
  <2>10. InTime
    <3>1. wait[p] >= owed[p]
      BY <1>2 DEF IInv, Types
    <3>2. QED
      BY <2>3, <3>1 DEF InTime
  <2>11. QED
    BY <2>5, <2>7, <2>8, <2>9, <2>10 DEF IInv
<1>6. CASE ~(running /\ Active(p) /\ inFlight[p] = 0)
  <2>1. /\ UNCHANGED <<polls, inFlight, running, starts, reconcile, streak, told, wait>>
        /\ owed' = [owed EXCEPT ![p] = 0]
    BY <1>6 DEF PollTimer
  <2>2. Types'
    BY <1>3, <2>1 DEF IInv, Types
  <2>3. OneChain(p)' /\ ToldOnce(p)' /\ DelayKept(p)'
    BY <1>1, <1>3, <2>1 DEF OneChain, ToldOnce, DelayKept, IInv, Types
  <2>4. \A q \in Providers : q # p => OneChain(q)' /\ ToldOnce(q)' /\ DelayKept(q)'
    BY <1>4, <2>1 DEF OneChain, ToldOnce, DelayKept, IInv, Types
  <2>5. QED
    BY <2>1, <2>2, <2>3, <2>4 DEF IInv, InTime, StartedOnce
<1>7. QED
  BY <1>5, <1>6

-----------------------------------------------------------------------------
(* Polls end *)

\* A poll ends and leaves its provider idle, or with a timer and the delay that it keeps.
LEMMA EndKeeps ==
  ASSUME IInv, NEW p \in Providers, NEW c \in Controllers, polls[p][c].open, PollEnds(p, c),
         UNCHANGED <<running, starts, reconcile>>,
         timer' \in [Providers -> 0 .. NoTimer], owed' \in [Providers -> 0 .. Longest],
         streak' \in [Providers -> Nat], told' \in [Providers -> Nat],
         wait' \in [Providers -> Nat],
         \A q \in Providers : q # p =>
           /\ timer'[q] = timer[q] /\ owed'[q] = owed[q] /\ wait'[q] = wait[q]
           /\ streak'[q] = streak[q] /\ told'[q] = told[q],
         ToldOnce(p)',
         \/ timer'[p] = timer[p] /\ owed'[p] = 0
         \/ running /\ timer'[p] # NoTimer /\ owed'[p] = timer'[p]
  PROVE  IInv' /\ InTime
<1> USE Numbers
<1>1. OneChain(p) /\ timer[p] = NoTimer
  BY DEF IInv, OneChain
<1>2. /\ \A d \in Controllers : ~polls'[p][d].open
      /\ \A q \in Providers : q # p => polls'[q] = polls[q] /\ inFlight'[q] = inFlight[q]
      /\ inFlight'[p] = 0
  BY <1>1, PollShapes DEF PollEnds, OneChain, IInv, Types
<1>3. Types'
  BY PollShapes DEF PollEnds, IInv, Types
<1>4. OneChain(p)' /\ DelayKept(p)'
  BY <1>1, <1>2, <1>3 DEF OneChain, DelayKept, Types
<1>5. \A q \in Providers : q # p => OneChain(q)' /\ ToldOnce(q)' /\ DelayKept(q)'
  BY <1>2 DEF OneChain, ToldOnce, DelayKept, IInv
<1>6. StartedOnce'
  BY <1>2 DEF StartedOnce, IInv
<1>7. InTime
  BY <1>2 DEF InTime
<1>8. QED
  BY <1>3, <1>4, <1>5, <1>6, <1>7 DEF IInv

LEMMA GivenUpKeeps ==
  ASSUME IInv, NEW p \in Providers, NEW c \in Controllers, polls[p][c].open, GivenUp(p, c)
  PROVE  IInv' /\ InTime
<1>1. /\ PollEnds(p, c) /\ owed' = [owed EXCEPT ![p] = 0]
      /\ UNCHANGED <<running, starts, reconcile, timer, streak, told, wait>>
  BY DEF GivenUp
<1>2. ToldOnce(p)'
  BY <1>1 DEF IInv, ToldOnce
<1>3. owed' \in [Providers -> 0 .. Longest]
  BY <1>1, Numbers DEF IInv, Types
<1>4. owed'[p] = 0 /\ \A q \in Providers : q # p => owed'[q] = owed[q]
  BY <1>1 DEF IInv, Types
<1>5. QED
  BY <1>1, <1>2, <1>3, <1>4, EndKeeps DEF IInv, Types

LEMMA ScheduledKeeps ==
  ASSUME IInv, NEW p \in Providers, NEW c \in Controllers, polls[p][c].open, PollEnds(p, c),
         running, NEW delay \in 0 .. Longest, Scheduled(p, delay),
         UNCHANGED <<running, starts, reconcile>>,
         streak' \in [Providers -> Nat], told' \in [Providers -> Nat], ToldOnce(p)',
         \A q \in Providers : q # p => streak'[q] = streak[q] /\ told'[q] = told[q]
  PROVE  IInv' /\ InTime
<1> USE Numbers
<1>1. /\ timer' \in [Providers -> 0 .. NoTimer] /\ owed' \in [Providers -> 0 .. Longest]
      /\ wait' \in [Providers -> Nat] /\ timer'[p] = delay /\ owed'[p] = delay
      /\ \A q \in Providers : q # p =>
           timer'[q] = timer[q] /\ owed'[q] = owed[q] /\ wait'[q] = wait[q]
  BY DEF Scheduled, IInv, Types
<1>2. delay # NoTimer
  OBVIOUS
<1>3. QED
  BY <1>1, <1>2, EndKeeps

LEMMA FailureStoredKeeps ==
  ASSUME IInv, NEW p \in Providers, NEW c \in Controllers, polls[p][c].open, running,
         FailureStored(p, c)
  PROVE  IInv' /\ InTime
<1> DEFINE n == IF streak[p] < MaxStreak THEN streak[p] + 1 ELSE MaxStreak
<1> USE Numbers
<1>1. /\ PollEnds(p, c) /\ Scheduled(p, Delay(n)) /\ UNCHANGED <<running, starts, reconcile>>
      /\ streak' = [streak EXCEPT ![p] = n]
      /\ told' = [told EXCEPT ![p] = IF streak[p] = 0 THEN @ + 1 ELSE @]
  BY DEF FailureStored, FailureNoted
<1>2. n \in Nat /\ n # 0 /\ streak[p] \in Nat /\ told[p] \in Nat
  BY DEF IInv, Types
<1>3. /\ streak' \in [Providers -> Nat] /\ told' \in [Providers -> Nat]
      /\ streak'[p] = n /\ told'[p] = IF streak[p] = 0 THEN told[p] + 1 ELSE told[p]
      /\ \A q \in Providers : q # p => streak'[q] = streak[q] /\ told'[q] = told[q]
  BY <1>1, <1>2 DEF IInv, Types
<1>4. ToldOnce(p)'
  BY <1>2, <1>3 DEF ToldOnce, IInv
<1>5. QED
  BY <1>1, <1>3, <1>4, ScheduledKeeps

LEMMA AnswerHealthyKeeps ==
  ASSUME IInv, NEW p \in Providers, NEW c \in Controllers, AnswerHealthy(p, c)
  PROVE  IInv' /\ InTime
<1>1. /\ polls[p][c].open /\ running /\ PollEnds(p, c) /\ Scheduled(p, Interval)
      /\ streak' = [streak EXCEPT ![p] = 0] /\ told' = [told EXCEPT ![p] = 0]
      /\ UNCHANGED <<running, starts, reconcile>>
  BY DEF AnswerHealthy, Accepted
<1>2. /\ streak' \in [Providers -> Nat] /\ told' \in [Providers -> Nat] /\ told'[p] = 0
      /\ \A q \in Providers : q # p => streak'[q] = streak[q] /\ told'[q] = told[q]
  BY <1>1 DEF IInv, Types
<1>3. ToldOnce(p)'
  BY <1>2 DEF ToldOnce
<1>4. QED
  BY <1>1, <1>2, <1>3, Numbers, ScheduledKeeps

LEMMA ProcessGoneKeeps ==
  ASSUME IInv, ProcessGone, starts' \in Nat, UNCHANGED wait PROVE IInv' /\ InTime
<1> USE Numbers, PollShapes
<1>1. \A p \in Providers : /\ timer'[p] = NoTimer /\ inFlight'[p] = 0 /\ owed'[p] = 0
                          /\ told'[p] = 0 /\ \A c \in Controllers : ~polls'[p][c].open
  BY DEF ProcessGone
<1>2. Types'
  <2>1. [c \in Controllers |-> NoPoll] \in [Controllers -> PollState]
    OBVIOUS
  <2>2. polls' \in [Providers -> [Controllers -> PollState]]
    BY <2>1 DEF ProcessGone
  <2>3. NoTimer \in Nat /\ NoTimer \in 0 .. NoTimer /\ 0 \in 0 .. Longest
    OBVIOUS
  <2>4. QED
    BY <2>2, <2>3 DEF ProcessGone, IInv, Types
<1>3. StartedOnce'
  BY <1>1 DEF StartedOnce, ProcessGone
<1>4. \A p \in Providers : OneChain(p)' /\ ToldOnce(p)' /\ DelayKept(p)'
  BY <1>1 DEF OneChain, ToldOnce, DelayKept
<1>5. InTime
  BY <1>1 DEF InTime
<1>6. QED
  BY <1>2, <1>3, <1>4, <1>5 DEF IInv

LEMMA PollSettlesKeeps ==
  ASSUME IInv, NEW p \in Providers, NEW c \in Controllers, PollSettles(p, c)
  PROVE  IInv' /\ InTime
<1>1. CASE AnswerDropped(p, c)
  BY <1>1, GivenUpKeeps DEF AnswerDropped
<1>2. CASE AnswerHealthy(p, c)
  BY <1>2, AnswerHealthyKeeps
<1>3. CASE AnswerFailed(p, c)
  BY <1>3, FailureStoredKeeps DEF AnswerFailed, Accepted
<1>4. CASE AdapterThrows(p, c)
  BY <1>4, FailureStoredKeeps, GivenUpKeeps DEF AdapterThrows, Accepted
<1>5. CASE TimesOut(p, c)
  BY <1>5, FailureStoredKeeps, GivenUpKeeps DEF TimesOut, Accepted
<1>6. CASE PersistFails(p, c)
  BY <1>6, FailureStoredKeeps, GivenUpKeeps DEF PersistFails, Accepted
<1>7. CASE PersistFailsAgain(p, c)
  BY <1>7, ProcessGoneKeeps DEF PersistFailsAgain, IInv, Types
<1>8. QED
  BY <1>1, <1>2, <1>3, <1>4, <1>5, <1>6, <1>7 DEF PollSettles

-----------------------------------------------------------------------------
(* The other steps *)

LEMMA StartKeeps == ASSUME MaxStarts <= 1, IInv, Start PROVE IInv' /\ InTime
<1>1. starts = 0 /\ starts' = 1
  BY QuotaConstants DEF Start, IInv, Types
<1>2. [p \in Providers |-> Active(p)] \in [Providers -> BOOLEAN]
  BY DEF Active, IInv
<1>3. QED
  BY <1>1, <1>2, ReconciledKeeps DEF Start

LEMMA ReconcileTimerKeeps == ASSUME IInv, ReconcileTimer PROVE IInv' /\ InTime
<1>1. starts \in Nat \ {0} /\ running
  BY DEF ReconcileTimer, IInv, Types, StartedOnce
<1>2. [p \in Providers |-> Active(p)] \in [Providers -> BOOLEAN]
  BY DEF Active
<1>3. QED
  BY <1>1, <1>2, ReconciledKeeps DEF ReconcileTimer

LEMMA RequestLeaseKeeps ==
  ASSUME IInv, NEW S \in SUBSET Providers, NEW ttl \in Ttls, RequestLease(S, ttl)
  PROVE  IInv' /\ InTime
<1> DEFINE leases == LeaseExtended({p \in S : cool[p] = 0}, ttl)
           demand == [p \in Providers |-> live[p] \/ leases[p] > 0]
<1>1. starts \in Nat \ {0} /\ running /\ reconcile \in Nat
  BY DEF RequestLease, IInv, Types, StartedOnce
<1>2. demand \in [Providers -> BOOLEAN]
  OBVIOUS
<1>3. /\ Reconciled(demand)
      /\ UNCHANGED <<running, starts, reconcile, streak, told, wait>>
  BY DEF RequestLease
<1> HIDE DEF demand
<1>4. QED
  BY <1>1, <1>2, <1>3, ReconciledKeeps DEF IInv, Types

LEMMA StopKeeps == ASSUME IInv, Stop PROVE IInv' /\ InTime
<1> USE Numbers
<1>1. \A p \in Providers, c \in Controllers :
        /\ polls'[p][c] \in PollState /\ polls'[p][c].open = polls[p][c].open
        /\ (polls[p][c].aborted \/ c = inFlight[p] => polls'[p][c].aborted)
  <2>1. \A r \in PollState, b \in BOOLEAN :
          /\ [r EXCEPT !.aborted = b] \in PollState
          /\ [r EXCEPT !.aborted = b].open = r.open /\ [r EXCEPT !.aborted = b].aborted = b
    BY DEF PollState
  <2>2. \A r \in PollState, b \in BOOLEAN : (r.aborted \/ b) \in BOOLEAN
    OBVIOUS
  <2>3. \A p \in Providers, c \in Controllers :
          /\ polls[p][c] \in PollState
          /\ polls'[p][c] = [polls[p][c] EXCEPT !.aborted = polls[p][c].aborted \/ c = inFlight[p]]
    BY DEF Stop, IInv, Types
  <2>4. SUFFICES ASSUME NEW p \in Providers, NEW c \in Controllers
                 PROVE  /\ polls'[p][c] \in PollState /\ polls'[p][c].open = polls[p][c].open
                        /\ (polls[p][c].aborted \/ c = inFlight[p] => polls'[p][c].aborted)
    OBVIOUS
  <2>5. PICK b \in BOOLEAN : b = (polls[p][c].aborted \/ c = inFlight[p])
    OBVIOUS
  <2>6. polls'[p][c] = [polls[p][c] EXCEPT !.aborted = b]
    BY <2>3, <2>5
  <2>7. /\ polls'[p][c] \in PollState /\ polls'[p][c].open = polls[p][c].open
        /\ polls'[p][c].aborted = b
    <3>1. polls[p][c] \in PollState
      BY <2>3
    <3>2. QED
      BY <2>1, <2>6, <3>1
  <2>8. QED
    BY <2>5, <2>7
<1>2. Types'
  <2>1. polls' \in [Providers -> [Controllers -> PollState]]
    BY <1>1 DEF Stop
  <2>2. NoTimer \in Nat /\ NoTimer \in 0 .. NoTimer /\ 0 \in 0 .. Longest
    OBVIOUS
  <2>3. QED
    BY <2>1, <2>2 DEF Stop, IInv, Types
<1>3. \A p \in Providers : OneChain(p)' /\ ToldOnce(p)' /\ DelayKept(p)'
  <2>1. \A p \in Providers :
          /\ timer'[p] = NoTimer /\ inFlight'[p] = 0 /\ owed'[p] = 0
          /\ told'[p] = told[p] /\ streak'[p] = streak[p] /\ ~running'
    BY DEF Stop
  <2>2. \A p \in Providers : ToldOnce(p)' /\ DelayKept(p)'
    BY <2>1 DEF ToldOnce, DelayKept, IInv
  <2>3. ASSUME NEW p \in Providers PROVE OneChain(p)'
    <3>1. OneChain(p)
      BY DEF IInv
    <3>2. \A c \in Controllers : polls'[p][c].open => polls'[p][c].aborted
      BY <1>1, <3>1 DEF OneChain
    <3>3. QED
      BY <1>1, <2>1, <3>1, <3>2 DEF OneChain
  <2>4. QED
    BY <2>2, <2>3
<1>4. StartedOnce'
  BY <1>1 DEF StartedOnce, Stop, IInv
<1>5. QED
  BY <1>1, <1>2, <1>3, <1>4 DEF IInv, InTime

LEMMA TickKeeps == ASSUME IInv, Tick PROVE IInv' /\ InTime
<1> USE Numbers
<1>1. \A n \in 0 .. NoTimer :
        /\ DownBy1(n) \in 0 .. NoTimer /\ n = NoTimer => DownBy1(n) = NoTimer
        /\ DownBy1(n) # NoTimer => n # NoTimer
        /\ n # NoTimer /\ n # 0 => DownBy1(n) = n - 1
  BY DEF DownBy1
<1>2. \A p \in Providers, c \in Controllers :
        /\ polls'[p][c] \in PollState /\ polls'[p][c].open = polls[p][c].open
        /\ polls[p][c].open => polls'[p][c].aborted = polls[p][c].aborted
  <2>1. SUFFICES ASSUME NEW p \in Providers, NEW c \in Controllers
                 PROVE  /\ polls'[p][c] \in PollState /\ polls'[p][c].open = polls[p][c].open
                        /\ polls[p][c].open => polls'[p][c].aborted = polls[p][c].aborted
    OBVIOUS
  <2>2. polls[p][c] \in PollState /\ (polls[p][c].open => polls[p][c].left # 0)
    BY DEF Tick, NothingDue, IInv, Types
  <2>3. polls'[p][c] = IF polls[p][c].open
                         THEN [polls[p][c] EXCEPT !.left = @ - 1, !.age = @ + 1] ELSE NoPoll
    BY DEF Tick
  <2>4. CASE polls[p][c].open
    <3>1. polls[p][c].left - 1 \in Nat /\ polls[p][c].age + 1 \in Nat
      BY <2>2, <2>4 DEF PollState
    <3>2. QED
      BY <2>2, <2>3, <2>4, <3>1, ZenonT(60) DEF PollState
  <2>5. CASE ~polls[p][c].open
    BY <2>2, <2>3, <2>5, PollShapes DEF PollState
  <2>6. QED
    BY <2>4, <2>5
<1>3. \A p \in Providers :
        /\ timer'[p] = DownBy1(timer[p]) /\ timer[p] \in 0 .. NoTimer /\ timer[p] # 0
        /\ wait[p] \in Nat /\ wait'[p] \in Nat /\ owed[p] \in 0 .. Longest
        /\ wait'[p] = wait[p] + 1 \/ (wait'[p] = wait[p] /\ wait[p] >= Longest)
  <2>1. SUFFICES ASSUME NEW p \in Providers
                 PROVE  /\ timer'[p] = DownBy1(timer[p]) /\ timer[p] \in 0 .. NoTimer
                        /\ timer[p] # 0
                        /\ wait[p] \in Nat /\ wait'[p] \in Nat /\ owed[p] \in 0 .. Longest
                        /\ wait'[p] = wait[p] + 1 \/ (wait'[p] = wait[p] /\ wait[p] >= Longest)
    OBVIOUS
  <2>2. /\ timer[p] \in 0 .. NoTimer /\ wait[p] \in Nat /\ owed[p] \in 0 .. Longest
    BY DEF IInv, Types
  <2>3. timer'[p] = DownBy1(timer[p]) /\ timer[p] # 0 /\ wait'[p] = UpBy1(wait[p], Longest)
    BY DEF Tick, NothingDue
  <2>4. QED
    BY <2>2, <2>3 DEF UpBy1
<1>4. reconcile' \in Nat /\ (reconcile = NoTimer => reconcile' = NoTimer)
  <2>1. reconcile \in Nat /\ reconcile # 0 /\ reconcile' = DownBy1(reconcile)
    BY DEF Tick, NothingDue, IInv, Types
  <2>2. QED
    BY <2>1 DEF DownBy1
<1>5. Types'
  <2>1. polls' \in [Providers -> [Controllers -> PollState]]
    BY <1>2 DEF Tick
  <2>2. timer' \in [Providers -> 0 .. NoTimer] /\ wait' \in [Providers -> Nat]
    <3>1. \A p \in Providers : DownBy1(timer[p]) \in 0 .. NoTimer /\ UpBy1(wait[p], Longest) \in Nat
      BY <1>1, <1>3 DEF UpBy1
    <3>2. QED
      BY <3>1 DEF Tick
  <2>3. QED
    BY <1>4, <2>1, <2>2 DEF Tick, IInv, Types
<1>6. ASSUME NEW p \in Providers PROVE OneChain(p)' /\ ToldOnce(p)'
  <2>1. UNCHANGED <<running, inFlight, told, streak>>
    BY DEF Tick
  <2>2. timer'[p] # NoTimer => timer[p] # NoTimer
    BY <1>1, <1>3
  <2>3. inFlight[p] \in Controllers \cup {0} /\ OneChain(p) /\ ToldOnce(p)
    BY DEF IInv, Types
  <2>4. ToldOnce(p)'
    BY <2>1, <2>3 DEF ToldOnce
  <2>5. OneChain(p)'
    BY <1>2, <2>1, <2>2, <2>3 DEF OneChain
  <2>6. QED
    BY <2>4, <2>5
<1>7. ASSUME NEW p \in Providers PROVE DelayKept(p)'
  <2>1. SUFFICES ASSUME owed[p] # 0, \A c \in Controllers : ~polls[p][c].open
                 PROVE  timer'[p] # NoTimer /\ timer'[p] + wait'[p] >= owed[p]
    <3>1. UNCHANGED <<running, owed>> /\ (owed[p] # 0 => running)
      BY DEF Tick, DelayKept, IInv
    <3>2. QED
      BY <1>2, <3>1 DEF DelayKept
  <2>2. running /\ timer[p] # NoTimer /\ timer[p] + wait[p] >= owed[p]
    BY <2>1 DEF DelayKept, IInv
  <2>3. timer'[p] = timer[p] - 1
    BY <1>1, <1>3, <2>2
  <2>4. QED
    BY <1>3, <2>2, <2>3
<1>8. StartedOnce'
  BY <1>2, <1>4 DEF StartedOnce, Tick, IInv
<1>9. QED
  BY <1>2, <1>5, <1>6, <1>7, <1>8 DEF IInv, InTime

-----------------------------------------------------------------------------
(* The theorems *)

LEMMA InitIInv == ASSUME Init PROVE IInv
<1> USE Numbers, PollShapes
<1>1. Types
  <2>1. [c \in Controllers |-> NoPoll] \in [Controllers -> PollState]
    OBVIOUS
  <2>2. NoTimer \in 0 .. NoTimer /\ 0 \in 0 .. Longest
    OBVIOUS
  <2>3. QED
    BY <2>1, <2>2 DEF Init, Types
<1>2. QED
  BY <1>1 DEF Init, IInv, StartedOnce, OneChain, ToldOnce, DelayKept

LEMMA Step == ASSUME MaxStarts <= 1, IInv, [Next]_vars PROVE IInv' /\ InTime
<1>1. CASE Start
  BY <1>1, StartKeeps
<1>2. CASE Stop
  BY <1>2, StopKeeps
<1>3. CASE ReconcileTimer
  BY <1>3, ReconcileTimerKeeps
<1>4. ASSUME NEW S \in SUBSET Providers, NEW ttl \in Ttls, RequestLease(S, ttl)
      PROVE  IInv' /\ InTime
  BY <1>4, RequestLeaseKeeps
<1>5. ASSUME NEW p \in Providers, PollTimer(p) PROVE IInv' /\ InTime
  BY <1>5, PollTimerKeeps
<1>6. ASSUME UNCHANGED <<running, starts, reconcile, timer, polls, inFlight, streak, told, wait,
                         owed>>
      PROVE  IInv' /\ InTime
  BY <1>6 DEF IInv, Types, StartedOnce, OneChain, ToldOnce, DelayKept, InTime
<1>7. ASSUME NEW p \in Providers, SessionsChange(p) PROVE IInv' /\ InTime
  BY <1>6, <1>7 DEF SessionsChange
<1>8. ASSUME NEW p \in Providers, NEW c \in Controllers, PollSettles(p, c)
      PROVE  IInv' /\ InTime
  BY <1>8, PollSettlesKeeps
<1>9. CASE NewProcess
  BY <1>9, ProcessGoneKeeps DEF NewProcess
<1>10. CASE Tick
  BY <1>10, TickKeeps
<1>11. CASE UNCHANGED vars
  BY <1>6, <1>11 DEF vars
<1>12. QED
  BY <1>1, <1>2, <1>3, <1>4, <1>5, <1>7, <1>8, <1>9, <1>10, <1>11 DEF Next

\* The invariant of timers, polls and delays, in a server that starts its scheduler once.
THEOREM Inductive == ASSUME MaxStarts <= 1 PROVE Spec => []IInv
<1>1. Init => IInv
  BY InitIInv
<1>2. IInv /\ [Next]_vars => IInv'
  BY Step
<1>3. QED
  BY <1>1, <1>2, PTL DEF Spec

\* No provider is polled twice at a time, or while its next poll is scheduled.
THEOREM OnePollEach == ASSUME MaxStarts <= 1 PROVE Spec => []OnePoll
<1>1. ASSUME IInv, NEW p \in Providers PROVE Cardinality(Open(p)) <= 1
  <2>1. \A c, d \in Open(p) : c = d
    BY <1>1 DEF IInv, OneChain, Open
  <2>2. CASE Open(p) = {}
    BY <2>2, FS_EmptySet
  <2>3. CASE Open(p) # {}
    <3>1. PICK c \in Open(p) : TRUE
      BY <2>3
    <3>2. Open(p) = {c}
      BY <2>1, <3>1
    <3>3. Cardinality({c}) = 1
      BY FS_Singleton
    <3>4. QED
      BY <3>2, <3>3
  <2>4. QED
    BY <2>2, <2>3
<1>2. IInv => OnePoll
  BY <1>1, Numbers DEF IInv, OneChain, OnePoll, Open, Types
<1>3. QED
  BY <1>2, Inductive, PTL

\* A stopped scheduler has no timer and no poll that was not aborted.
THEOREM Stopped == ASSUME MaxStarts <= 1 PROVE Spec => []StoppedIsQuiet
<1>1. IInv => StoppedIsQuiet
  BY Numbers DEF IInv, StartedOnce, OneChain, StoppedIsQuiet, Open, Types
<1>2. QED
  BY <1>1, Inductive, PTL

\* A streak of failures is reported once.
THEOREM Reported == ASSUME MaxStarts <= 1 PROVE Spec => []OneReportPerStreak
<1>1. IInv => OneReportPerStreak
  BY DEF IInv, ToldOnce, OneReportPerStreak
<1>2. QED
  BY <1>1, Inductive, PTL

\* No provider in demand is polled before its delay is over.
THEOREM Backoffs == ASSUME MaxStarts <= 1 PROVE Spec => BackoffKept
<1>1. IInv /\ [Next]_vars =>
        [\A p \in Providers : Open(p) = {} /\ Open(p)' # {} => wait[p] >= owed[p]]_vars
  BY Step DEF InTime, Open
<1>2. QED
  BY <1>1, Inductive, PTL DEF Spec, BackoffKept

-----------------------------------------------------------------------------
(* The age of what is shown *)

StoredState == [health : {"none", "healthy", "unavailable"}, age : Nat]

\* A poll has run for as long as it is off its timeout.
Clock(p) == \A c \in Controllers :
  polls[p][c].open => polls[p][c].left + polls[p][c].age = Timeout

\* A healthy snapshot was as old as its poll when the timer was armed, and ages no faster than
\* the timer and then the next poll run.
Young(p) == owed[p] # 0 /\ stored[p].health = "healthy" =>
  /\ \A c \in Controllers :
       polls[p][c].open => stored[p].age <= Interval + Timeout + polls[p][c].age
  /\ timer[p] # NoTimer => stored[p].age + timer[p] <= Interval + Timeout

Ages == stored \in [Providers -> StoredState] /\ \A p \in Providers : Clock(p) /\ Young(p)

\* A provider nothing happens to, or that loses its demand.
LEMMA UndisturbedAge ==
  ASSUME Ages, NEW p \in Providers, stored'[p] = stored[p], owed'[p] \in {owed[p], 0},
         timer'[p] \in {timer[p], NoTimer},
         \A c \in Controllers : polls'[p][c].open =>
           /\ polls[p][c].open
           /\ polls'[p][c].left = polls[p][c].left /\ polls'[p][c].age = polls[p][c].age
  PROVE  Clock(p)' /\ Young(p)'
BY DEF Ages, Clock, Young

LEMMA ReconciledAges ==
  ASSUME IInv, Ages, NEW demand \in [Providers -> BOOLEAN], Reconciled(demand), UNCHANGED stored
  PROVE  Ages'
<1>1. SUFFICES ASSUME NEW p \in Providers PROVE Clock(p)' /\ Young(p)'
  BY DEF Ages
<1>2. /\ OneChain(p) /\ DelayKept(p) /\ polls[p] \in [Controllers -> PollState]
      /\ owed[p] \in 0 .. Longest
  BY DEF IInv, Types
<1>3. CASE demand[p] /\ timer[p] = NoTimer /\ inFlight[p] = 0
  <2>1. PICK c \in Controllers :
          polls'[p] = [polls[p] EXCEPT ![c] = NewPoll] /\ owed'[p] = owed[p]
    <3>1. Types
      BY DEF IInv
    <3>2. /\ FreeController(p) \in Controllers /\ inFlight'[p] = FreeController(p)
          /\ polls'[p] = [polls[p] EXCEPT ![FreeController(p)] = NewPoll]
          /\ timer'[p] = timer[p] /\ owed'[p] = owed[p]
      BY <1>3, <3>1, ReconciledOne, ZenonT(120)
    <3>3. QED
      BY <3>2, Zenon
  <2>2. \/ owed[p] = 0
        \/ ~running /\ \E d \in Controllers : polls[p][d].open
        \/ running /\ \E d \in Controllers : polls[p][d].open
    BY <1>2, <1>3 DEF DelayKept
  <2>3. owed[p] = 0
    BY <1>2, <1>3, <2>2, Numbers DEF OneChain, DelayKept
  <2>4. Young(p)'
    BY <2>1, <2>3 DEF Young
  <2>5. \A d \in Controllers : polls'[p][d] = IF d = c THEN NewPoll ELSE polls[p][d]
    BY <1>2, <2>1
  <2>6. NewPoll.left + NewPoll.age = Timeout
    BY Numbers DEF NewPoll
  <2>7. Clock(p)'
    BY <2>5, <2>6 DEF Clock, Ages
  <2>8. QED
    BY <2>4, <2>7
<1>4. CASE ~(demand[p] /\ timer[p] = NoTimer /\ inFlight[p] = 0)
  <2>5. Types
    BY DEF IInv
  <2>1. \A r \in PollState, b \in BOOLEAN :
          /\ [r EXCEPT !.aborted = r.aborted \/ b].open = r.open
          /\ [r EXCEPT !.aborted = r.aborted \/ b].left = r.left
          /\ [r EXCEPT !.aborted = r.aborted \/ b].age = r.age
    BY DEF PollState
  <2>2. /\ owed'[p] \in {owed[p], 0} /\ timer'[p] \in {timer[p], NoTimer}
        /\ \A c \in Controllers : \E b \in BOOLEAN :
             polls'[p][c] = [polls[p][c] EXCEPT !.aborted = @ \/ b]
    <3>1. CASE demand[p]
      <4>1. /\ inFlight'[p] = inFlight[p] /\ timer'[p] = timer[p] /\ owed'[p] = owed[p]
            /\ \A c \in Controllers : polls'[p][c] = [polls[p][c] EXCEPT !.aborted = @ \/ FALSE]
        BY <1>4, <2>5, <3>1, ReconciledOne, ZenonT(60)
      <4>2. QED
        BY <4>1
    <3>2. CASE ~demand[p]
      <4>1. /\ timer'[p] = NoTimer /\ owed'[p] = 0
            /\ polls'[p] = [c \in Controllers |->
                 [polls[p][c] EXCEPT !.aborted = @ \/ c = inFlight[p]]]
        BY <2>5, <3>2, ReconciledOne, ZenonT(60)
      <4>2. \A c \in Controllers : (c = inFlight[p]) \in BOOLEAN
        OBVIOUS
      <4>3. QED
        BY <4>1, <4>2
    <3>3. QED
      BY <3>1, <3>2
  <2>3. \A c \in Controllers : /\ polls'[p][c].open = polls[p][c].open
                              /\ polls'[p][c].left = polls[p][c].left
                              /\ polls'[p][c].age = polls[p][c].age
    <3>1. SUFFICES ASSUME NEW c \in Controllers
                   PROVE  /\ polls'[p][c].open = polls[p][c].open
                          /\ polls'[p][c].left = polls[p][c].left
                          /\ polls'[p][c].age = polls[p][c].age
      OBVIOUS
    <3>2. PICK b \in BOOLEAN : polls'[p][c] = [polls[p][c] EXCEPT !.aborted = @ \/ b]
      BY <2>2
    <3>3. polls[p][c] \in PollState
      BY <1>2
    <3>4. QED
      BY <2>1, <3>2, <3>3
  <2>4. QED
    BY <2>2, <2>3, UndisturbedAge
<1>5. QED
  BY <1>3, <1>4

LEMMA PollTimerAges == ASSUME IInv, Ages, NEW p \in Providers, PollTimer(p) PROVE Ages'
<1> USE Numbers
<1>1. /\ timer[p] = 0 /\ timer' = [timer EXCEPT ![p] = NoTimer] /\ UNCHANGED stored
      /\ OneChain(p) /\ \A c \in Controllers : ~polls[p][c].open
  BY DEF PollTimer, IInv, OneChain
<1>2. CASE running /\ Active(p) /\ inFlight[p] = 0
  <2>1. PollStarted({p}) /\ UNCHANGED owed
    BY <1>2 DEF PollTimer
  <2>2. FreeController(p) \in Controllers
    BY <1>1, FreeFound
  <2>3. /\ polls'[p] = [polls[p] EXCEPT ![FreeController(p)] = NewPoll]
        /\ \A q \in Providers : q # p => polls'[q] = polls[q]
    BY <2>1 DEF PollStarted
  <2>4. \A d \in Controllers :
          polls'[p][d] = IF d = FreeController(p) THEN NewPoll ELSE polls[p][d]
    BY <2>2, <2>3 DEF IInv, Types
  <2>5. NewPoll.left + NewPoll.age = Timeout /\ NewPoll.age = 0
    BY DEF NewPoll
  <2>6. Clock(p)'
    BY <1>1, <2>4, <2>5 DEF Clock
  <2>7. Young(p)'
    <3>1. timer'[p] = NoTimer
      BY <1>1 DEF IInv, Types
    <3>2. stored[p].age \in Nat
      BY DEF Ages, StoredState
    <3>3. QED
      BY <1>1, <2>1, <2>4, <2>5, <3>1, <3>2 DEF Young, Ages
  <2>8. \A q \in Providers : q # p => Clock(q)' /\ Young(q)'
    <3>1. \A q \in Providers : q # p => timer'[q] = timer[q]
      BY <1>1 DEF IInv, Types
    <3>2. QED
      BY <1>1, <2>1, <2>3, <3>1, UndisturbedAge
  <2>9. QED
    BY <1>1, <2>6, <2>7, <2>8 DEF Ages
<1>3. CASE ~(running /\ Active(p) /\ inFlight[p] = 0)
  <2>1. UNCHANGED polls /\ owed' = [owed EXCEPT ![p] = 0]
    BY <1>3 DEF PollTimer
  <2>2. \A q \in Providers :
          /\ owed'[q] \in {owed[q], 0} /\ timer'[q] \in {timer[q], NoTimer}
          /\ stored'[q] = stored[q]
    BY <1>1, <2>1 DEF IInv, Types
  <2>3. QED
    BY <1>1, <2>1, <2>2, UndisturbedAge DEF Ages
<1>4. QED
  BY <1>2, <1>3

\* A poll ends; a snapshot that is stored healthy then is as old as the poll and waits for its
\* interval.
LEMMA EndAges ==
  ASSUME IInv, Ages, NEW p \in Providers, NEW c \in Controllers, polls[p][c].open,
         PollEnds(p, c), stored' \in [Providers -> StoredState],
         \A q \in Providers : q # p =>
           stored'[q] = stored[q] /\ timer'[q] = timer[q] /\ owed'[q] = owed[q],
         \/ owed'[p] = 0
         \/ stored'[p].health = "unavailable"
         \/ stored'[p].age = polls[p][c].age /\ timer'[p] = Interval
  PROVE  Ages'
<1> USE Numbers
<1>1. /\ \A d \in Controllers : ~polls'[p][d].open
      /\ \A q \in Providers : q # p => polls'[q] = polls[q]
  BY PollShapes DEF PollEnds, OneChain, IInv, Types
<1>2. polls[p][c].age \in Nat /\ polls[p][c].left \in Nat
  BY DEF IInv, Types, PollState
<1>3. polls[p][c].age <= Timeout /\ Interval \in Nat
  BY <1>2 DEF Ages, Clock
<1>4. Clock(p)' /\ Young(p)'
  BY <1>1, <1>2, <1>3 DEF Clock, Young
<1>5. \A q \in Providers : q # p => Clock(q)' /\ Young(q)'
  BY <1>1, UndisturbedAge
<1>6. QED
  BY <1>4, <1>5 DEF Ages

\* What is stored of a poll has its age.
LEMMA WrittenAge ==
  ASSUME IInv, Ages, NEW p \in Providers, NEW c \in Controllers,
         NEW health \in {"healthy", "unavailable"}
  PROVE  /\ Written(p, c, health) \in [Providers -> StoredState]
         /\ Written(p, c, health)[p].health = health
         /\ Written(p, c, health)[p].age = polls[p][c].age
         /\ \A q \in Providers : q # p => Written(p, c, health)[q] = stored[q]
<1>1. polls[p][c].age \in Nat
  BY DEF IInv, Types, PollState
<1>2. [health |-> health, age |-> polls[p][c].age] \in StoredState
  BY <1>1 DEF StoredState
<1>3. QED
  BY <1>2 DEF Written, Ages

LEMMA FailureStoredAges ==
  ASSUME IInv, Ages, NEW p \in Providers, NEW c \in Controllers, polls[p][c].open,
         FailureStored(p, c)
  PROVE  Ages'
<1>1. PollEnds(p, c) /\ stored' = Written(p, c, "unavailable")
  BY DEF FailureStored
<1>2. \A q \in Providers : q # p => timer'[q] = timer[q] /\ owed'[q] = owed[q]
  BY DEF FailureStored, FailureNoted, Scheduled, IInv, Types
<1>3. QED
  BY <1>1, <1>2, WrittenAge, EndAges

LEMMA GivenUpAges ==
  ASSUME IInv, Ages, NEW p \in Providers, NEW c \in Controllers, polls[p][c].open,
         GivenUp(p, c),
         stored' \in {stored, Written(p, c, "healthy"), Written(p, c, "unavailable")}
  PROVE  Ages'
<1>1. /\ PollEnds(p, c) /\ UNCHANGED timer /\ owed'[p] = 0
      /\ \A q \in Providers : q # p => owed'[q] = owed[q]
  BY DEF GivenUp, IInv, Types
<1>2. /\ stored' \in [Providers -> StoredState]
      /\ \A q \in Providers : q # p => stored'[q] = stored[q]
  BY WrittenAge DEF Ages
<1>3. QED
  BY <1>1, <1>2, EndAges

LEMMA AnswerHealthyAges ==
  ASSUME IInv, Ages, NEW p \in Providers, NEW c \in Controllers, AnswerHealthy(p, c)
  PROVE  Ages'
<1>1. /\ polls[p][c].open /\ PollEnds(p, c) /\ stored' = Written(p, c, "healthy")
      /\ timer' = [timer EXCEPT ![p] = Interval] /\ owed' = [owed EXCEPT ![p] = Interval]
  BY DEF AnswerHealthy, Scheduled
<1>2. /\ timer'[p] = Interval
      /\ \A q \in Providers : q # p => timer'[q] = timer[q] /\ owed'[q] = owed[q]
  BY <1>1 DEF IInv, Types
<1>3. QED
  BY <1>1, <1>2, WrittenAge, EndAges

LEMMA ProcessGoneAges ==
  ASSUME ProcessGone, stored' \in [Providers -> StoredState] PROVE Ages'
BY PollShapes DEF ProcessGone, Ages, Clock, Young

LEMMA PollSettlesAges ==
  ASSUME IInv, Ages, NEW p \in Providers, NEW c \in Controllers, PollSettles(p, c)
  PROVE  Ages'
<1>1. polls[p][c].open
  BY DEF PollSettles, AnswerDropped, AnswerHealthy, AnswerFailed, AdapterThrows, TimesOut,
         PersistFails, PersistFailsAgain
<1>2. CASE AnswerDropped(p, c)
  BY <1>1, <1>2, GivenUpAges DEF AnswerDropped
<1>3. CASE AnswerHealthy(p, c)
  BY <1>3, AnswerHealthyAges
<1>4. CASE AnswerFailed(p, c)
  BY <1>1, <1>4, FailureStoredAges DEF AnswerFailed
<1>5. CASE AdapterThrows(p, c)
  BY <1>1, <1>5, FailureStoredAges, GivenUpAges DEF AdapterThrows
<1>6. CASE TimesOut(p, c)
  BY <1>1, <1>6, FailureStoredAges, GivenUpAges DEF TimesOut
<1>7. CASE PersistFails(p, c)
  BY <1>1, <1>7, FailureStoredAges, GivenUpAges DEF PersistFails
<1>8. CASE PersistFailsAgain(p, c)
  <2>1. stored' \in [Providers -> StoredState]
    BY <1>8, WrittenAge DEF PersistFailsAgain, Ages
  <2>2. QED
    BY <1>8, <2>1, ProcessGoneAges DEF PersistFailsAgain
<1>9. QED
  BY <1>2, <1>3, <1>4, <1>5, <1>6, <1>7, <1>8 DEF PollSettles

LEMMA StopAges == ASSUME IInv, Ages, Stop PROVE Ages'
<1>1. SUFFICES ASSUME NEW p \in Providers PROVE Clock(p)' /\ Young(p)'
  BY DEF Ages, Stop
<1>2. \A r \in PollState, b \in BOOLEAN :
        /\ [r EXCEPT !.aborted = r.aborted \/ b].open = r.open
        /\ [r EXCEPT !.aborted = r.aborted \/ b].left = r.left
        /\ [r EXCEPT !.aborted = r.aborted \/ b].age = r.age
  BY DEF PollState
<1>3. \A c \in Controllers : \E b \in BOOLEAN :
        polls'[p][c] = [polls[p][c] EXCEPT !.aborted = @ \/ b]
  <2>1. \A c \in Controllers : (c = inFlight[p]) \in BOOLEAN
    OBVIOUS
  <2>2. \A c \in Controllers : polls'[p][c] = [polls[p][c] EXCEPT !.aborted = @ \/ c = inFlight[p]]
    BY DEF Stop
  <2>3. QED
    BY <2>1, <2>2
<1>4. \A c \in Controllers : /\ polls'[p][c].open = polls[p][c].open
                            /\ polls'[p][c].left = polls[p][c].left
                            /\ polls'[p][c].age = polls[p][c].age
  <2>1. SUFFICES ASSUME NEW c \in Controllers
                 PROVE  /\ polls'[p][c].open = polls[p][c].open
                        /\ polls'[p][c].left = polls[p][c].left
                        /\ polls'[p][c].age = polls[p][c].age
    OBVIOUS
  <2>2. PICK b \in BOOLEAN : polls'[p][c] = [polls[p][c] EXCEPT !.aborted = @ \/ b]
    BY <1>3
  <2>3. polls[p][c] \in PollState
    BY DEF IInv, Types
  <2>4. QED
    BY <1>2, <2>2, <2>3
<1>5. owed'[p] = 0 /\ timer'[p] = NoTimer /\ stored'[p] = stored[p]
  BY DEF Stop
<1>6. QED
  BY <1>4, <1>5, UndisturbedAge

LEMMA TickAges == ASSUME IInv, Ages, Tick PROVE Ages'
<1> USE Numbers
<1>1. stored' \in [Providers -> StoredState]
  <2>1. \A p \in Providers : stored[p] \in StoredState
    BY DEF Ages
  <2>2. \A s \in StoredState : [s EXCEPT !.age = UpBy1(@, StaleAge)] \in StoredState
    BY DEF StoredState, UpBy1
  <2>3. Missing \in StoredState
    BY DEF Missing, StoredState
  <2>4. QED
    BY <2>1, <2>2, <2>3 DEF Tick
<1>2. SUFFICES ASSUME NEW p \in Providers PROVE Clock(p)' /\ Young(p)'
  BY <1>1 DEF Ages
<1>3. \A c \in Controllers : polls'[p][c].open =>
        /\ polls[p][c].open /\ polls[p][c].left \in Nat \ {0} /\ polls[p][c].age \in Nat
        /\ polls'[p][c].left = polls[p][c].left - 1 /\ polls'[p][c].age = polls[p][c].age + 1
  <2>1. SUFFICES ASSUME NEW c \in Controllers, polls'[p][c].open
                 PROVE  /\ polls[p][c].open /\ polls[p][c].left \in Nat \ {0}
                        /\ polls[p][c].age \in Nat
                        /\ polls'[p][c].left = polls[p][c].left - 1
                        /\ polls'[p][c].age = polls[p][c].age + 1
    OBVIOUS
  <2>2. polls'[p][c] = IF polls[p][c].open
                         THEN [polls[p][c] EXCEPT !.left = @ - 1, !.age = @ + 1] ELSE NoPoll
    BY DEF Tick
  <2>3. polls[p][c].open
    BY <2>1, <2>2, PollShapes
  <2>4. polls[p][c] \in PollState /\ polls[p][c].left # 0
    BY <2>3 DEF Tick, NothingDue, IInv, Types
  <2>5. QED
    BY <2>2, <2>3, <2>4 DEF PollState
<1>4. Clock(p)'
  <2>1. SUFFICES ASSUME NEW c \in Controllers, polls'[p][c].open
                 PROVE  polls'[p][c].left + polls'[p][c].age = Timeout
    BY DEF Clock, Tick
  <2>2. polls[p][c].left + polls[p][c].age = Timeout
    BY <1>3, <2>1 DEF Ages, Clock
  <2>3. QED
    BY <1>3, <2>1, <2>2
<1>5. Young(p)'
  <2>1. SUFFICES ASSUME owed[p] # 0, stored'[p].health = "healthy"
                 PROVE  /\ \A c \in Controllers : polls'[p][c].open =>
                             stored'[p].age <= Interval + Timeout + polls'[p][c].age
                        /\ timer'[p] # NoTimer =>
                             stored'[p].age + timer'[p] <= Interval + Timeout
    BY DEF Young, Tick
  <2>2. /\ stored[p].health = "healthy" /\ stored[p].age \in Nat /\ stored'[p].age \in Nat
        /\ stored'[p].age <= stored[p].age + 1
    <3>1. stored[p] \in StoredState /\ StaleAge \in Nat
      BY QuotaConstants DEF Ages
    <3>2. stored'[p] = IF stored[p].health = "none" THEN Missing
                       ELSE [stored[p] EXCEPT !.age = UpBy1(@, StaleAge)]
      BY DEF Tick
    <3>3. stored[p].health # "none"
      BY <2>1, <3>2 DEF Missing
    <3>4. stored'[p].health = stored[p].health /\ stored'[p].age = UpBy1(stored[p].age, StaleAge)
      BY <3>1, <3>2, <3>3 DEF StoredState
    <3>5. QED
      BY <2>1, <3>1, <3>4 DEF UpBy1, StoredState
  <2>3. Young(p)
    BY DEF Ages
  <2>4. /\ Interval \in Nat /\ timer[p] \in 0 .. NoTimer /\ timer[p] # 0
        /\ timer'[p] = DownBy1(timer[p])
    <3>1. timer[p] \in 0 .. NoTimer
      BY DEF IInv, Types
    <3>2. timer[p] # 0 /\ timer'[p] = DownBy1(timer[p])
      BY DEF Tick, NothingDue
    <3>3. QED
      BY <3>1, <3>2
  <2>5. QED
    BY <1>3, <2>1, <2>2, <2>3, <2>4 DEF Young, DownBy1
<1>6. QED
  BY <1>4, <1>5

LEMMA StepAges == ASSUME IInv, Ages, [Next]_vars PROVE Ages'
<1>1. ASSUME UNCHANGED <<stored, owed, timer, polls>> PROVE Ages'
  BY <1>1 DEF Ages, Clock, Young
<1>2. \A S, ttl : [p \in Providers |-> live[p] \/ LeaseExtended(S, ttl)[p] > 0] \in [Providers -> BOOLEAN]
  OBVIOUS
<1>3. [p \in Providers |-> Active(p)] \in [Providers -> BOOLEAN]
  BY DEF Active
<1>4. CASE Start \/ ReconcileTimer
  BY <1>3, <1>4, ReconciledAges DEF Start, ReconcileTimer
<1>5. CASE Stop
  BY <1>5, StopAges
<1>6. ASSUME NEW S \in SUBSET Providers, NEW ttl \in Ttls, RequestLease(S, ttl) PROVE Ages'
  <2>1. PICK demand : demand = [p \in Providers |->
          live[p] \/ LeaseExtended({q \in S : cool[q] = 0}, ttl)[p] > 0]
    OBVIOUS
  <2>2. demand \in [Providers -> BOOLEAN]
    BY <2>1
  <2>3. Reconciled(demand) /\ UNCHANGED stored
    BY <1>6, <2>1 DEF RequestLease
  <2>4. QED
    BY <2>2, <2>3, ReconciledAges
<1>7. ASSUME NEW p \in Providers, PollTimer(p) PROVE Ages'
  BY <1>7, PollTimerAges
<1>8. ASSUME NEW p \in Providers, SessionsChange(p) PROVE Ages'
  BY <1>1, <1>8 DEF SessionsChange
<1>9. ASSUME NEW p \in Providers, NEW c \in Controllers, PollSettles(p, c) PROVE Ages'
  BY <1>9, PollSettlesAges
<1>10. CASE NewProcess
  BY <1>10, ProcessGoneAges DEF NewProcess, Ages
<1>11. CASE Tick
  BY <1>11, TickAges
<1>12. CASE UNCHANGED vars
  BY <1>1, <1>12 DEF vars
<1>13. QED
  BY <1>4, <1>5, <1>6, <1>7, <1>8, <1>9, <1>10, <1>11, <1>12 DEF Next

\* A provider in demand that answers is never shown with a snapshot that has gone stale, when
\* an interval and two timeouts are shorter than StaleAge (30 minutes against 5 and twice 30
\* seconds, providerQuota.ts:92 and providerQuotaScheduler.ts:51, 87).
THEOREM Fresh ==
  ASSUME MaxStarts <= 1, Interval + 2 * Timeout < StaleAge
  PROVE  Spec => []FreshWhileProbed
<1>1. Init => Ages
  BY PollShapes DEF Init, Ages, Clock, Young, Missing, StoredState
<1>2. IInv /\ Ages /\ [Next]_vars => Ages'
  BY StepAges
<1>3. ASSUME IInv, Ages PROVE FreshWhileProbed
  <2>1. SUFFICES ASSUME NEW p \in Providers, owed[p] # 0, stored[p].health = "healthy"
                 PROVE  stored[p].age <= Interval + 2 * Timeout
    <3>1. \A p \in Providers : stored[p].age \in Nat
      BY <1>3 DEF Ages, StoredState
    <3>2. QED
      BY <2>1, <3>1, Numbers, QuotaConstants DEF FreshWhileProbed
  <2>2. Interval \in Nat /\ Timeout \in Nat /\ stored[p].age \in Nat
    BY <1>3, Numbers DEF Ages, StoredState
  <2>3. CASE \E c \in Controllers : polls[p][c].open
    <3>1. PICK c \in Controllers : polls[p][c].open
      BY <2>3
    <3>2. polls[p][c].left \in Nat /\ polls[p][c].age \in Nat
      BY <1>3 DEF IInv, Types, PollState
    <3>3. stored[p].age <= Interval + Timeout + polls[p][c].age
      BY <1>3, <2>1, <3>1 DEF Ages, Young
    <3>4. polls[p][c].left + polls[p][c].age = Timeout
      BY <1>3, <3>1 DEF Ages, Clock
    <3>5. QED
      BY <2>2, <3>2, <3>3, <3>4
  <2>4. CASE \A c \in Controllers : ~polls[p][c].open
    <3>1. timer[p] # NoTimer /\ timer[p] \in 0 .. NoTimer
      BY <1>3, <2>1, <2>4 DEF IInv, DelayKept, Types
    <3>2. stored[p].age + timer[p] <= Interval + Timeout
      BY <1>3, <2>1, <3>1 DEF Ages, Young
    <3>3. QED
      BY <2>2, <3>1, <3>2, Numbers
  <2>5. QED
    BY <2>3, <2>4
<1>4. QED
  BY <1>1, <1>2, <1>3, Inductive, PTL DEF Spec

-----------------------------------------------------------------------------
(* The token gateway: induction, for sets of numbers and of finite sets *)

LEMMA LeastOf == ASSUME NEW S \in SUBSET Nat, S # {} PROVE \E m \in S : \A k \in S : m <= k
<1>1. PICK m \in S : \A k \in S : ~ (<<k, m>> \in OpToRel(<, Nat))
  BY NatLessThanWellFounded, WFMin, Zenon
<1>2. OpToRel(<, Nat) = {ss \in Nat \X Nat : ss[1] < ss[2]}
  BY Zenon DEF OpToRel
<1>3. \A k \in S : <<k, m>> \notin {ss \in Nat \X Nat : ss[1] < ss[2]}
  BY <1>1, <1>2, Zenon
<1>4. ASSUME NEW k \in S PROVE m <= k
  <2>1. m \in Nat /\ k \in Nat /\ <<k, m>> \in Nat \X Nat
    OBVIOUS
  <2>2. ~ (<<k, m>>[1] < <<k, m>>[2])
    BY <1>3, <2>1
  <2>3. QED
    BY <2>1, <2>2
<1>5. QED
  BY <1>4

LEMMA Numbered ==
  ASSUME NEW B \in SUBSET Nat, 0 \in B, \A n \in B : n + 1 \in B
  PROVE  B = Nat
<1>1. SUFFICES ASSUME B # Nat PROVE FALSE
  OBVIOUS
<1>2. PICK m \in Nat \ B : \A k \in Nat \ B : m <= k
  BY <1>1, LeastOf
<1>3. m # 0 /\ m - 1 \in Nat
  BY <1>2
<1>4. m - 1 \in B
  BY <1>2, <1>3
<1>5. (m - 1) + 1 = m
  BY <1>2
<1>6. QED
  BY <1>2, <1>4, <1>5

LEMMA OneByOne ==
  ASSUME NEW U, IsFiniteSet(U), NEW C \in SUBSET SUBSET U, {} \in C,
         \A T \in C : \A x \in U \ T : T \cup {x} \in C
  PROVE  U \in C
<1> DEFINE B == {n \in Nat : \A T \in SUBSET U : Cardinality(T) = n => T \in C}
<1>1. \A T \in SUBSET U : IsFiniteSet(T) /\ Cardinality(T) \in Nat
  BY FS_Subset, FS_CardinalityType
<1>2. 0 \in B
  BY <1>1, FS_EmptySet
<1>3. ASSUME NEW n \in B PROVE n + 1 \in B
  <2>1. SUFFICES ASSUME NEW T \in SUBSET U, Cardinality(T) = n + 1 PROVE T \in C
    BY <1>3
  <2>2. T # {}
    <3>1. n \in Nat
      BY <1>3
    <3>2. Cardinality({}) = 0
      BY FS_EmptySet
    <3>3. QED
      BY <2>1, <3>1, <3>2
  <2>3. PICK x \in T : TRUE
    BY <2>2
  <2>4. Cardinality(T \ {x}) = n
    BY <1>1, <1>3, <2>1, <2>3, FS_RemoveElement
  <2>5. T \ {x} \in C
    BY <1>3, <2>4
  <2>6. (T \ {x}) \cup {x} = T /\ x \in U \ (T \ {x})
    BY <2>3
  <2>7. QED
    BY <2>5, <2>6
<1>4. B = Nat
  <2>1. B \in SUBSET Nat
    OBVIOUS
  <2> HIDE DEF B
  <2>2. QED
    BY <1>2, <1>3, <2>1, Numbered
<1>5. QED
  BY <1>1, <1>4

-----------------------------------------------------------------------------
(* Sums *)

Picked(S) == CHOOSE x \in S : TRUE
SumStep(f, s, g) == IF s = {} THEN 0 ELSE f[Picked(s)] + g[s \ {Picked(s)}]
Iter(f, S) == CHOOSE g : g = [s \in SUBSET S |-> SumStep(f, s, g)]

LEMMA SumIsIter == ASSUME NEW f, NEW S PROVE SumFunctionOnSet(f, S) = Iter(f, S)[S]
BY DEF SumFunctionOnSet, FoldFunctionOnSet, MapThenFoldSet, Iter, Picked, SumStep

\* The recursion that defines a sum has a solution on every finite set.
LEMMA IterSteps ==
  ASSUME NEW f, NEW S, IsFiniteSet(S)
  PROVE  \A s \in SUBSET S : Iter(f, S)[s] = SumStep(f, s, Iter(f, S))
<1> DEFINE Upto(n) == {s \in SUBSET S : Cardinality(s) <= n}
           B == {n \in Nat : \E g : g = [s \in Upto(n) |-> SumStep(f, s, g)]}
<1>1. \A s \in SUBSET S : IsFiniteSet(s) /\ Cardinality(s) \in Nat
  BY FS_Subset, FS_CardinalityType
<1>2. 0 \in B
  <2>1. \A s \in Upto(0) : s = {}
    BY <1>1, FS_EmptySet
  <2>2. [s \in Upto(0) |-> 0] = [s \in Upto(0) |-> SumStep(f, s, [t \in Upto(0) |-> 0])]
    BY <2>1 DEF SumStep
  <2>3. QED
    BY <2>2
<1>3. ASSUME NEW n \in B PROVE n + 1 \in B
  <2>1. PICK g : g = [s \in Upto(n) |-> SumStep(f, s, g)]
    BY <1>3
  <2> DEFINE h == [s \in Upto(n + 1) |-> SumStep(f, s, g)]
  <2>2. \A s \in Upto(n) : g[s] = SumStep(f, s, g) /\ s \in Upto(n + 1)
    <3>1. DOMAIN g = Upto(n) /\ \A s \in Upto(n) : g[s] = SumStep(f, s, g)
      BY <2>1
    <3>2. ASSUME NEW s \in Upto(n) PROVE s \in Upto(n + 1)
      BY <1>1, <1>3
    <3>3. QED
      BY <3>1, <3>2
  <2>3. \A s \in Upto(n) : h[s] = g[s]
    BY <2>2
  <2>4. ASSUME NEW s \in Upto(n + 1) PROVE SumStep(f, s, g) = SumStep(f, s, h)
    <3>1. CASE s = {}
      BY <3>1 DEF SumStep
    <3>2. CASE s # {}
      <4>1. Picked(s) \in s
        BY <3>2 DEF Picked
      <4>2. s \ {Picked(s)} \in Upto(n)
        <5>1. /\ s \in SUBSET S /\ IsFiniteSet(s) /\ Cardinality(s) \in Nat
              /\ Cardinality(s) <= n + 1 /\ n \in Nat
          BY <1>1, <1>3
        <5>2. Cardinality(s \ {Picked(s)}) = Cardinality(s) - 1
          BY <4>1, <5>1, FS_RemoveElement
        <5>3. Cardinality(s \ {Picked(s)}) <= n /\ s \ {Picked(s)} \in SUBSET S
          BY <5>1, <5>2
        <5>4. QED
          BY <5>3
      <4>3. QED
        BY <2>3, <4>2 DEF SumStep
    <3>3. QED
      BY <3>1, <3>2
  <2>5. h = [s \in Upto(n + 1) |-> SumStep(f, s, h)]
    BY <2>4
  <2>6. n + 1 \in Nat
    BY <1>3
  <2> HIDE DEF h
  <2>7. QED
    BY <2>5, <2>6
<1>4. B = Nat
  <2>1. B \in SUBSET Nat
    OBVIOUS
  <2> HIDE DEF B
  <2>2. QED
    BY <1>2, <1>3, <2>1, Numbered
<1>5. Cardinality(S) \in Nat /\ Upto(Cardinality(S)) = SUBSET S
  BY FS_Subset, FS_CardinalityType
<1>6. \E g : g = [s \in SUBSET S |-> SumStep(f, s, g)]
  <2>1. PICK n : n = Cardinality(S)
    OBVIOUS
  <2>2. n \in B
    BY <1>4, <1>5, <2>1
  <2>3. PICK g : g = [s \in Upto(n) |-> SumStep(f, s, g)]
    BY <2>2
  <2>4. Upto(n) = SUBSET S
    BY <1>5, <2>1
  <2> HIDE DEF Upto
  <2>5. QED
    BY <2>3, <2>4
<1>7. Iter(f, S) = [s \in SUBSET S |-> SumStep(f, s, Iter(f, S))]
  BY <1>6 DEF Iter
<1>8. QED
  BY <1>7

LEMMA IterAgree ==
  ASSUME NEW f, NEW S, IsFiniteSet(S), NEW T \in SUBSET S
  PROVE  Iter(f, S)[T] = Iter(f, T)[T]
<1> DEFINE B == {n \in Nat : \A V, W : IsFiniteSet(V) /\ W \in SUBSET V /\ Cardinality(W) = n
                                         => Iter(f, V)[W] = Iter(f, W)[W]}
<1>1. 0 \in B
  <2>1. SUFFICES ASSUME NEW V, NEW W, IsFiniteSet(V), W \in SUBSET V, Cardinality(W) = 0
                 PROVE  Iter(f, V)[W] = Iter(f, W)[W]
    OBVIOUS
  <2>2. IsFiniteSet(W) /\ W = {}
    BY <2>1, FS_Subset, FS_EmptySet
  <2>3. QED
    BY <2>1, <2>2, IterSteps DEF SumStep
<1>2. ASSUME NEW n \in B PROVE n + 1 \in B
  <2>1. SUFFICES ASSUME NEW V, NEW W, IsFiniteSet(V), W \in SUBSET V, Cardinality(W) = n + 1
                 PROVE  Iter(f, V)[W] = Iter(f, W)[W]
    BY <1>2
  <2>2. IsFiniteSet(W) /\ W # {}
    BY <2>1, <1>2, FS_Subset, FS_EmptySet
  <2>3. PICK R : R = W \ {Picked(W)}
    OBVIOUS
  <2>4. R \in SUBSET W /\ R \in SUBSET V /\ Cardinality(R) = n
    <3>1. Picked(W) \in W
      BY <2>2 DEF Picked
    <3>2. QED
      <4>1. n \in Nat /\ Cardinality(W) = n + 1
        BY <1>2, <2>1
      <4>2. Cardinality(R) = Cardinality(W) - 1
        BY <2>2, <2>3, <3>1, FS_RemoveElement
      <4>3. QED
        BY <2>1, <2>3, <4>1, <4>2
  <2>5. Iter(f, V)[R] = Iter(f, R)[R] /\ Iter(f, W)[R] = Iter(f, R)[R]
    BY <1>2, <2>1, <2>2, <2>4
  <2>6. Iter(f, V)[W] = f[Picked(W)] + Iter(f, V)[R]
    BY <2>1, <2>2, <2>3, IterSteps DEF SumStep
  <2>7. Iter(f, W)[W] = f[Picked(W)] + Iter(f, W)[R]
    BY <2>2, <2>3, IterSteps DEF SumStep
  <2>8. QED
    BY <2>5, <2>6, <2>7
<1>3. B = Nat
  <2>1. B \in SUBSET Nat
    OBVIOUS
  <2> HIDE DEF B
  <2>2. QED
    BY <1>1, <1>2, <2>1, Numbered
<1>4. Cardinality(T) \in Nat
  BY FS_Subset, FS_CardinalityType
<1>5. QED
  BY <1>3, <1>4

LEMMA SumPicks ==
  ASSUME NEW f, NEW S, IsFiniteSet(S)
  PROVE  /\ S = {} => SumFunctionOnSet(f, S) = 0
         /\ S # {} => /\ Picked(S) \in S
                      /\ SumFunctionOnSet(f, S)
                           = f[Picked(S)] + SumFunctionOnSet(f, S \ {Picked(S)})
<1>1. S = {} => SumFunctionOnSet(f, S) = 0
  BY SumIsIter, IterSteps DEF SumStep
<1>2. S # {} => Picked(S) \in S
  BY DEF Picked
<1>3. PICK R : R = S \ {Picked(S)}
  OBVIOUS
<1>4. S # {} => SumFunctionOnSet(f, S) = f[Picked(S)] + SumFunctionOnSet(f, R)
  <2>1. R \in SUBSET S
    BY <1>3
  <2>2. Iter(f, S)[R] = SumFunctionOnSet(f, R)
    BY <2>1, SumIsIter, IterAgree
  <2>3. S # {} => Iter(f, S)[S] = f[Picked(S)] + Iter(f, S)[R]
    BY <1>3, IterSteps DEF SumStep
  <2>4. QED
    BY <2>2, <2>3, SumIsIter
<1>5. QED
  BY <1>1, <1>2, <1>3, <1>4

LEMMA SumNothing == ASSUME NEW f PROVE SumFunctionOnSet(f, {}) = 0
<1>1. IsFiniteSet({})
  BY FS_EmptySet
<1>2. QED
  BY <1>1, SumPicks

\* A sum of natural numbers is one, and any summand may be taken out first.
LEMMA SumNat ==
  ASSUME NEW f, NEW S, IsFiniteSet(S), \A x \in S : f[x] \in Nat
  PROVE  SumFunctionOnSet(f, S) \in Nat
<1> DEFINE B == {n \in Nat : \A V \in SUBSET S : Cardinality(V) = n => SumFunctionOnSet(f, V) \in Nat}
<1>1. \A V \in SUBSET S : IsFiniteSet(V) /\ Cardinality(V) \in Nat
  BY FS_Subset, FS_CardinalityType
<1>2. 0 \in B
  <2>1. SUFFICES ASSUME NEW V \in SUBSET S, Cardinality(V) = 0
                 PROVE  SumFunctionOnSet(f, V) \in Nat
    OBVIOUS
  <2>2. IsFiniteSet(V) /\ V = {}
    BY <1>1, <2>1, FS_EmptySet
  <2>3. SumFunctionOnSet(f, V) = 0
    BY <2>2, SumPicks
  <2>4. QED
    BY <2>3
<1>3. ASSUME NEW n \in B PROVE n + 1 \in B
  <2>1. SUFFICES ASSUME NEW V \in SUBSET S, Cardinality(V) = n + 1
                 PROVE  SumFunctionOnSet(f, V) \in Nat
    BY <1>3
  <2>2. IsFiniteSet(V) /\ V # {}
    <3>1. n \in Nat /\ Cardinality({}) = 0
      BY <1>3, FS_EmptySet
    <3>2. QED
      BY <1>1, <2>1, <3>1
  <2>3. PICK R : R = V \ {Picked(V)}
    OBVIOUS
  <2>4. /\ Picked(V) \in V
        /\ SumFunctionOnSet(f, V) = f[Picked(V)] + SumFunctionOnSet(f, R)
    BY <2>2, <2>3, SumPicks
  <2>5. Cardinality(R) = n
    <3>1. Cardinality(R) = Cardinality(V) - 1
      BY <2>2, <2>3, <2>4, FS_RemoveElement
    <3>2. n \in Nat
      BY <1>3
    <3>3. QED
      BY <2>1, <3>1, <3>2
  <2>6. SumFunctionOnSet(f, R) \in Nat
    BY <1>3, <2>3, <2>5
  <2>7. f[Picked(V)] \in Nat
    BY <2>4
  <2>8. QED
    BY <2>4, <2>6, <2>7
<1>4. B = Nat
  <2>1. B \in SUBSET Nat
    OBVIOUS
  <2> HIDE DEF B
  <2>2. QED
    BY <1>2, <1>3, <2>1, Numbered
<1>5. QED
  BY <1>1, <1>4

LEMMA SumTake ==
  ASSUME NEW f, NEW S, IsFiniteSet(S), \A x \in S : f[x] \in Nat, NEW x \in S
  PROVE  SumFunctionOnSet(f, S) = f[x] + SumFunctionOnSet(f, S \ {x})
<1> DEFINE Takes(V) == \A y \in V : SumFunctionOnSet(f, V) = f[y] + SumFunctionOnSet(f, V \ {y})
           B == {n \in Nat : \A V \in SUBSET S : Cardinality(V) = n => Takes(V)}
<1>1. \A V \in SUBSET S : IsFiniteSet(V) /\ Cardinality(V) \in Nat
  BY FS_Subset, FS_CardinalityType
<1>2. 0 \in B
  <2>1. SUFFICES ASSUME NEW V \in SUBSET S, Cardinality(V) = 0 PROVE Takes(V)
    OBVIOUS
  <2>2. V = {}
    BY <1>1, <2>1, FS_EmptySet
  <2>3. QED
    BY <2>2
<1>3. ASSUME NEW n \in B PROVE n + 1 \in B
  <2>1. SUFFICES ASSUME NEW V \in SUBSET S, Cardinality(V) = n + 1, NEW y \in V
                 PROVE  SumFunctionOnSet(f, V) = f[y] + SumFunctionOnSet(f, V \ {y})
    BY <1>3
  <2>2. PICK p : p = Picked(V)
    OBVIOUS
  <2>3. IsFiniteSet(V) /\ p \in V /\ SumFunctionOnSet(f, V) = f[p] + SumFunctionOnSet(f, V \ {p})
    BY <1>1, <2>1, <2>2, SumPicks
  <2>4. \A z \in V : Cardinality(V \ {z}) = n
    <3>1. n \in Nat
      BY <1>3
    <3>2. TAKE z \in V
    <3>3. Cardinality(V \ {z}) = Cardinality(V) - 1
      BY <2>3, FS_RemoveElement
    <3>4. QED
      BY <2>1, <3>1, <3>3
  <2>5. CASE y = p
    BY <2>3, <2>5
  <2>6. CASE y # p
    <3>1. PICK R : R = V \ {p, y}
      OBVIOUS
    <3>2. (V \ {p}) \ {y} = R /\ (V \ {y}) \ {p} = R
      BY <3>1
    <3>3. Takes(V \ {p}) /\ Takes(V \ {y})
      BY <1>3, <2>3, <2>4
    <3>4. SumFunctionOnSet(f, V \ {p}) = f[y] + SumFunctionOnSet(f, R)
      BY <2>1, <2>6, <3>2, <3>3
    <3>5. SumFunctionOnSet(f, V \ {y}) = f[p] + SumFunctionOnSet(f, R)
      BY <2>3, <2>6, <3>2, <3>3
    <3>6. f[p] \in Nat /\ f[y] \in Nat /\ SumFunctionOnSet(f, R) \in Nat
      <4>1. R \in SUBSET S
        BY <3>1
      <4>2. IsFiniteSet(R) /\ \A z \in R : f[z] \in Nat
        BY <1>1, <4>1
      <4>3. QED
        BY <2>3, <4>2, SumNat
    <3>7. QED
      BY <2>3, <3>4, <3>5, <3>6
  <2>7. QED
    BY <2>5, <2>6
<1>4. B = Nat
  <2>1. B \in SUBSET Nat
    OBVIOUS
  <2> HIDE DEF B
  <2>2. QED
    BY <1>2, <1>3, <2>1, Numbered
<1>5. Takes(S)
  BY <1>1, <1>4
<1>6. QED
  BY <1>5

LEMMA SumPut ==
  ASSUME NEW f, NEW S, IsFiniteSet(S), NEW x, x \notin S, \A y \in S \cup {x} : f[y] \in Nat
  PROVE  SumFunctionOnSet(f, S \cup {x}) = f[x] + SumFunctionOnSet(f, S)
<1>1. IsFiniteSet(S \cup {x}) /\ (S \cup {x}) \ {x} = S
  BY FS_AddElement
<1>2. SumFunctionOnSet(f, S \cup {x}) = f[x] + SumFunctionOnSet(f, (S \cup {x}) \ {x})
  BY <1>1, SumTake
<1>3. QED
  BY <1>1, <1>2

\* Sums of the same summands are equal.
LEMMA SumSame ==
  ASSUME NEW f, NEW g, NEW S, IsFiniteSet(S), \A x \in S : f[x] \in Nat /\ g[x] = f[x]
  PROVE  SumFunctionOnSet(f, S) = SumFunctionOnSet(g, S)
<1> DEFINE C == {T \in SUBSET S : SumFunctionOnSet(f, T) = SumFunctionOnSet(g, T)}
<1>1. {} \in C
  BY SumNothing
<1>2. ASSUME NEW T \in C, NEW x \in S \ T PROVE T \cup {x} \in C
  <2>1. IsFiniteSet(T) /\ x \notin T /\ T \cup {x} \in SUBSET S
    BY <1>2, FS_Subset
  <2>2. \A y \in T \cup {x} : f[y] \in Nat /\ g[y] \in Nat
    BY <2>1
  <2>3. SumFunctionOnSet(f, T \cup {x}) = f[x] + SumFunctionOnSet(f, T)
    BY <2>1, <2>2, SumPut
  <2>4. SumFunctionOnSet(g, T \cup {x}) = g[x] + SumFunctionOnSet(g, T)
    BY <2>1, <2>2, SumPut
  <2>5. QED
    BY <1>2, <2>1, <2>3, <2>4
<1>3. C \in SUBSET SUBSET S
  OBVIOUS
<1>4. S \in C
  <2> HIDE DEF C
  <2>1. QED
    BY <1>1, <1>2, <1>3, OneByOne
<1>5. QED
  BY <1>4

\* The sum of sums.
LEMMA SumAdds ==
  ASSUME NEW f, NEW g, NEW h, NEW S, IsFiniteSet(S),
         \A x \in S : f[x] \in Nat /\ g[x] \in Nat /\ h[x] = f[x] + g[x]
  PROVE  SumFunctionOnSet(h, S) = SumFunctionOnSet(f, S) + SumFunctionOnSet(g, S)
<1> DEFINE C == {T \in SUBSET S :
             SumFunctionOnSet(h, T) = SumFunctionOnSet(f, T) + SumFunctionOnSet(g, T)}
<1>1. {} \in C
  BY SumNothing
<1>2. ASSUME NEW T \in C, NEW x \in S \ T PROVE T \cup {x} \in C
  <2>1. IsFiniteSet(T) /\ x \notin T /\ T \cup {x} \in SUBSET S
    BY <1>2, FS_Subset
  <2>2. \A y \in T \cup {x} : f[y] \in Nat /\ g[y] \in Nat /\ h[y] \in Nat /\ h[y] = f[y] + g[y]
    BY <2>1
  <2>3. SumFunctionOnSet(f, T \cup {x}) = f[x] + SumFunctionOnSet(f, T)
    BY <2>1, <2>2, SumPut
  <2>4. SumFunctionOnSet(g, T \cup {x}) = g[x] + SumFunctionOnSet(g, T)
    BY <2>1, <2>2, SumPut
  <2>5. SumFunctionOnSet(h, T \cup {x}) = h[x] + SumFunctionOnSet(h, T)
    BY <2>1, <2>2, SumPut
  <2>6. SumFunctionOnSet(f, T) \in Nat /\ SumFunctionOnSet(g, T) \in Nat
    BY <2>1, <2>2, SumNat
  <2>7. SumFunctionOnSet(h, T) = SumFunctionOnSet(f, T) + SumFunctionOnSet(g, T)
    BY <1>2
  <2>8. SumFunctionOnSet(h, T \cup {x})
          = SumFunctionOnSet(f, T \cup {x}) + SumFunctionOnSet(g, T \cup {x})
    BY <2>2, <2>3, <2>4, <2>5, <2>6, <2>7
  <2>9. QED
    BY <2>1, <2>8
<1>3. C \in SUBSET SUBSET S
  OBVIOUS
<1>4. S \in C
  <2> HIDE DEF C
  <2>1. QED
    BY <1>1, <1>2, <1>3, OneByOne
<1>5. QED
  BY <1>4

\* A sum with one summand only.
LEMMA SumOne ==
  ASSUME NEW f, NEW S, IsFiniteSet(S), NEW x \in S, f[x] \in Nat, \A y \in S \ {x} : f[y] = 0
  PROVE  SumFunctionOnSet(f, S) = f[x]
<1> DEFINE C == {T \in SUBSET (S \ {x}) : SumFunctionOnSet(f, T) = 0}
<1>1. {} \in C
  BY SumNothing
<1>2. IsFiniteSet(S \ {x})
  BY FS_Subset
<1>3. ASSUME NEW T \in C, NEW y \in (S \ {x}) \ T PROVE T \cup {y} \in C
  <2>1. IsFiniteSet(T) /\ y \notin T /\ T \cup {y} \in SUBSET (S \ {x})
    BY <1>2, <1>3, FS_Subset
  <2>2. \A z \in T \cup {y} : f[z] = 0
    BY <2>1
  <2>3. SumFunctionOnSet(f, T \cup {y}) = f[y] + SumFunctionOnSet(f, T)
    BY <2>1, <2>2, SumPut
  <2>4. QED
    BY <1>3, <2>1, <2>2, <2>3
<1>4. C \in SUBSET SUBSET (S \ {x})
  OBVIOUS
<1>5. S \ {x} \in C
  <2> HIDE DEF C
  <2>1. QED
    BY <1>1, <1>2, <1>3, <1>4, OneByOne
<1>6. SumFunctionOnSet(f, S) = f[x] + SumFunctionOnSet(f, S \ {x})
  <2>1. \A y \in S : f[y] \in Nat
    OBVIOUS
  <2>2. QED
    BY <2>1, SumTake
<1>7. QED
  BY <1>5, <1>6
-----------------------------------------------------------------------------
(* The inductive invariant *)

\* What holds of the memory and of the file, each by itself.
Balanced(u) == \A K, L \in Kinds : SumFunctionOnSet(u, K) = SumFunctionOnSet(u, L)
Loads(st) ==
  /\ Cardinality(InUse(st.used)) <= MaxKeys
  /\ Len(st.terminal) <= MaxTerminal /\ ActiveCount(st) <= MaxActive
  /\ TerminalIds(st) \cap st.active = {} /\ TerminalIds(st) \subseteq MadeIds
  /\ \A i, j \in st.active : made[i] = made[j] => i = j
SlotsSound(st) ==
  /\ IsFiniteSet(HeldSlots(st))
  /\ \A id \in st.active : made[id] \in Slots =>
       st.slot[made[id]] = "claimed" /\ st.slotRes[made[id]] = id
  /\ \A s \in Slots :
       /\ st.slot[s] \in {"none", "reserved"} => st.slotRes[s] = 0
       /\ st.slot[s] \in {"claimed", "settled"} => st.slotRes[s] # 0
       /\ st.slot[s] = "claimed" => st.slotRes[s] \in st.active
       /\ st.slotRes[s] # 0 => st.slotRes[s] \in MadeIds /\ made[st.slotRes[s]] = s
  /\ \A g \in Groups :
       /\ \A s, t \in SlotSet(g) : st.slot[s] = "none" => st.slot[t] = "none"
       /\ \A i, j \in DOMAIN SlotsOf[g] :
            i < j /\ st.slot[SlotsOf[g][j]] = "claimed" => st.slot[SlotsOf[g][i]] # "reserved"
Counted(st) ==
  /\ \A k \in Keys : st.used[k] = Required(st, k) + st.spent[k] /\ st.used[k] <= Cap[k]
  /\ Balanced(st.used)

\* How they go together while no write has failed.
Durable ==
  failures = 0 =>
    /\ up => mem = disk
    /\ MadeIds \subseteq disk.active \cup ended
    /\ closed \cap (disk.active \cup mem.active) = {}
    /\ \A g \in assured : \A s \in SlotSet(g) : disk.slot[s] # "none"

Sound(st) == st \in GatewayState /\ st.active \subseteq MadeIds /\ Loads(st) /\ SlotsSound(st) /\ Counted(st)
GatewayIInv ==
  /\ up \in BOOLEAN /\ made \in Seq(Handoffs \cup Slots) /\ Len(made) <= MaxIds
  /\ granted \subseteq MadeIds /\ assured \subseteq Groups
  /\ closed \subseteq MadeIds /\ ended \subseteq MadeIds
  /\ failures \in 0 .. MaxFailures /\ crashes \in 0 .. MaxCrashes
  /\ \A st \in {mem, disk} : Sound(st)
  /\ Durable

-----------------------------------------------------------------------------
(* Routes and usage *)

LEMMA Route ==
  ASSUME NEW h \in Handoffs \cup Slots
  PROVE  /\ KeysOf[h] \subseteq Keys /\ Total[h] \in Nat
         /\ \A K \in Kinds : \E k \in K : KeysOf[h] \cap K = {k}
         /\ h \in Slots => Hold[h] \in Nat \ {0} /\ Total[h] <= Hold[h] /\ h \notin Handoffs
BY GatewayConstants

LEMMA KindsFinite == ASSUME NEW K \in Kinds PROVE K \subseteq Keys /\ IsFiniteSet(K)
<1>1. K \subseteq Keys /\ IsFiniteSet(Keys)
  BY GatewayConstants
<1>2. QED
  BY <1>1, FS_Subset

LEMMA Shares == ASSUME NEW h, NEW n \in Nat, NEW k PROVE Share(h, n, k) \in {0, n} /\ Share(h, n, k) \in Nat
BY DEF Share

LEMMA AddIs ==
  ASSUME NEW u \in [Keys -> Nat], NEW h, NEW n \in Nat
  PROVE  Add(u, h, n) \in [Keys -> Nat] /\ \A k \in Keys : Add(u, h, n)[k] = u[k] + Share(h, n, k)
BY DEF Add, Share

LEMMA SubIs ==
  ASSUME NEW u \in [Keys -> Nat], NEW h, NEW n \in Nat
  PROVE  /\ Sub(u, h, n) \in [Keys -> Nat]
         /\ \A k \in Keys : u[k] >= Share(h, n, k) => Sub(u, h, n)[k] + Share(h, n, k) = u[k]
BY DEF Sub, Share

\* One key of each kind gains b and loses a: the kinds stay balanced.
LEMMA KindMoves ==
  ASSUME NEW u \in [Keys -> Nat], NEW v \in [Keys -> Nat], NEW h \in Handoffs \cup Slots,
         NEW a \in Nat, NEW b \in Nat, Balanced(u),
         \A k \in Keys : v[k] + Share(h, a, k) = u[k] + Share(h, b, k)
  PROVE  Balanced(v)
<1>1. ASSUME NEW K \in Kinds
      PROVE  /\ SumFunctionOnSet(v, K) + a = SumFunctionOnSet(u, K) + b
             /\ SumFunctionOnSet(v, K) \in Nat /\ SumFunctionOnSet(u, K) \in Nat
  <2>1. K \subseteq Keys /\ IsFiniteSet(K)
    BY KindsFinite
  <2>2. PICK p \in K : KeysOf[h] \cap K = {p}
    BY Route
  <2>3. ASSUME NEW n \in Nat PROVE SumFunctionOnSet([k \in Keys |-> Share(h, n, k)], K) = n
    <3>1. PICK f : f = [k \in Keys |-> Share(h, n, k)]
      OBVIOUS
    <3>2. f[p] = n /\ \A y \in K \ {p} : f[y] = 0
      BY <2>1, <2>2, <3>1 DEF Share
    <3>3. SumFunctionOnSet(f, K) = f[p]
      BY <2>1, <3>2, SumOne
    <3>4. QED
      BY <3>1, <3>2, <3>3
  <2>4. PICK fa, fb, w : /\ fa = [k \in Keys |-> Share(h, a, k)] /\ fb = [k \in Keys |-> Share(h, b, k)]
                         /\ w = [k \in Keys |-> v[k] + Share(h, a, k)]
    OBVIOUS
  <2>5. \A k \in K : /\ v[k] \in Nat /\ u[k] \in Nat /\ fa[k] \in Nat /\ fb[k] \in Nat
                     /\ w[k] = v[k] + fa[k] /\ w[k] = u[k] + fb[k]
    BY <2>1, <2>4, Shares
  <2>6. SumFunctionOnSet(w, K) = SumFunctionOnSet(v, K) + SumFunctionOnSet(fa, K)
    BY <2>1, <2>5, SumAdds
  <2>7. SumFunctionOnSet(w, K) = SumFunctionOnSet(u, K) + SumFunctionOnSet(fb, K)
    BY <2>1, <2>5, SumAdds
  <2>8. SumFunctionOnSet(fa, K) = a /\ SumFunctionOnSet(fb, K) = b
    BY <2>3, <2>4
  <2>9. SumFunctionOnSet(v, K) \in Nat /\ SumFunctionOnSet(u, K) \in Nat
    BY <2>1, <2>5, SumNat
  <2>10. QED
    BY <2>6, <2>7, <2>8, <2>9
<1>2. SUFFICES ASSUME NEW K \in Kinds, NEW L \in Kinds
               PROVE  SumFunctionOnSet(v, K) = SumFunctionOnSet(v, L)
  BY DEF Balanced
<1>3. SumFunctionOnSet(u, K) = SumFunctionOnSet(u, L)
  BY DEF Balanced
<1>4. /\ SumFunctionOnSet(v, K) + a = SumFunctionOnSet(u, K) + b
      /\ SumFunctionOnSet(v, K) \in Nat /\ SumFunctionOnSet(u, K) \in Nat
  BY <1>1
<1>5. /\ SumFunctionOnSet(v, L) + a = SumFunctionOnSet(u, L) + b
      /\ SumFunctionOnSet(v, L) \in Nat /\ SumFunctionOnSet(u, L) \in Nat
  BY <1>1
<1>6. QED
  BY <1>3, <1>4, <1>5

LEMMA AddBalanced ==
  ASSUME NEW u \in [Keys -> Nat], NEW h \in Handoffs \cup Slots, NEW n \in Nat, Balanced(u)
  PROVE  Balanced(Add(u, h, n))
<1>1. PICK v, z : v = Add(u, h, n) /\ z = 0
  OBVIOUS
<1>2. v \in [Keys -> Nat] /\ \A k \in Keys : v[k] = u[k] + Share(h, n, k)
  BY <1>1, AddIs
<1>3. z \in Nat /\ \A k \in Keys : v[k] + Share(h, z, k) = u[k] + Share(h, n, k)
  BY <1>1, <1>2 DEF Share
<1>4. Balanced(v)
  BY <1>2, <1>3, KindMoves
<1>5. QED
  BY <1>1, <1>4

LEMMA SubBalanced ==
  ASSUME NEW u \in [Keys -> Nat], NEW h \in Handoffs \cup Slots, NEW n \in Nat, Balanced(u),
         \A k \in Keys : u[k] >= Share(h, n, k)
  PROVE  Balanced(Sub(u, h, n))
<1>1. PICK v, z : v = Sub(u, h, n) /\ z = 0
  OBVIOUS
<1>2. v \in [Keys -> Nat] /\ \A k \in Keys : v[k] + Share(h, n, k) = u[k]
  BY <1>1, SubIs
<1>3. z \in Nat /\ \A k \in Keys : v[k] + Share(h, n, k) = u[k] + Share(h, z, k)
  BY <1>1, <1>2 DEF Share
<1>4. Balanced(v)
  BY <1>2, <1>3, KindMoves
<1>5. QED
  BY <1>1, <1>4

LEMMA HoldsIs ==
  ASSUME NEW k PROVE \A s \in Slots : Holds(k)[s] = Share(s, Hold[s], k) /\ Holds(k)[s] \in Nat
<1>1. \A s \in Slots : Hold[s] \in Nat
  BY Route
<1>2. QED
  BY <1>1, Shares DEF Holds

LEMMA GroupSlots ==
  ASSUME NEW g \in Groups
  PROVE  /\ SlotSet(g) \subseteq Slots /\ IsFiniteSet(SlotSet(g)) /\ Cardinality(SlotSet(g)) \in Nat
         /\ SlotsOf[g] \in Seq(Slots)
         /\ \A s : s \in SlotSet(g) <=> \E i \in 1 .. Len(SlotsOf[g]) : s = SlotsOf[g][i]
<1>1. SlotsOf[g] \in Seq(Slots)
  BY GatewayConstants
<1>2. SlotSet(g) = {SlotsOf[g][i] : i \in 1 .. Len(SlotsOf[g])}
  BY <1>1 DEF SlotSet, Range
<1>3. IsFiniteSet(1 .. Len(SlotsOf[g]))
  BY <1>1, FS_Interval
<1>4. IsFiniteSet(SlotSet(g))
  <2>1. SlotsOf[g] \in Surjection(1 .. Len(SlotsOf[g]), SlotSet(g))
    BY <1>1, <1>2 DEF Surjection
  <2>2. QED
    BY <1>3, <2>1, FS_Surjection
<1>5. SlotSet(g) \subseteq Slots
  BY DEF SlotSet, Slots
<1>6. QED
  BY <1>1, <1>2, <1>4, <1>5, FS_CardinalityType

\* A group asks every kind of key for the same number of tokens.
LEMMA GroupBalanced ==
  ASSUME NEW u \in [Keys -> Nat], Balanced(u), NEW g \in Groups
  PROVE  /\ GroupUsage(g) \in [Keys -> Nat]
         /\ Balanced([k \in Keys |-> u[k] + GroupUsage(g)[k]])
<1> DEFINE With(T) == [k \in Keys |-> u[k] + SumFunctionOnSet(Holds(k), T)]
           C == {T \in SUBSET SlotSet(g) : Balanced(With(T))}
<1>1. IsFiniteSet(SlotSet(g)) /\ SlotSet(g) \subseteq Slots
  BY GroupSlots
<1>2. ASSUME NEW T \in SUBSET SlotSet(g), NEW k PROVE SumFunctionOnSet(Holds(k), T) \in Nat
  <2>1. IsFiniteSet(T) /\ \A s \in T : Holds(k)[s] \in Nat
    BY <1>1, FS_Subset, HoldsIs
  <2>2. QED
    BY <2>1, SumNat
<1>3. {} \in C
  <2>1. With({}) = u
    BY SumNothing
  <2>2. QED
    BY <2>1
<1>4. ASSUME NEW T \in C, NEW x \in SlotSet(g) \ T PROVE T \cup {x} \in C
  <2>1. x \in Slots /\ Hold[x] \in Nat /\ T \cup {x} \in SUBSET SlotSet(g)
    BY <1>1, Route
  <2>2. PICK v, w : v = With(T) /\ w = With(T \cup {x})
    OBVIOUS
  <2>3. v \in [Keys -> Nat] /\ w \in [Keys -> Nat]
    BY <1>2, <2>1, <2>2
  <2>4. ASSUME NEW k \in Keys PROVE w[k] + Share(x, 0, k) = v[k] + Share(x, Hold[x], k)
    <3>1. SumFunctionOnSet(Holds(k), T \cup {x}) = Holds(k)[x] + SumFunctionOnSet(Holds(k), T)
      <4>1. IsFiniteSet(T) /\ x \notin T /\ \A y \in T \cup {x} : Holds(k)[y] \in Nat
        BY <1>1, <1>4, <2>1, FS_Subset, HoldsIs
      <4>2. QED
        BY <4>1, SumPut
    <3>2. Holds(k)[x] = Share(x, Hold[x], k) /\ Share(x, Hold[x], k) \in Nat
      BY <2>1, HoldsIs, Shares
    <3>3. Share(x, 0, k) = 0
      BY DEF Share
    <3>4. SumFunctionOnSet(Holds(k), T) \in Nat
      BY <1>2
    <3>5. w[k] = u[k] + SumFunctionOnSet(Holds(k), T \cup {x}) /\ v[k] = u[k] + SumFunctionOnSet(Holds(k), T)
      BY <2>2
    <3>6. QED
      BY <3>1, <3>2, <3>3, <3>4, <3>5
  <2>5. Balanced(v)
    BY <1>4, <2>2
  <2>6. Balanced(w)
    <3>1. PICK a, b : a = 0 /\ b = Hold[x]
      OBVIOUS
    <3>2. x \in Handoffs \cup Slots /\ a \in Nat /\ b \in Nat
      BY <2>1, <3>1
    <3>3. \A k \in Keys : w[k] + Share(x, a, k) = v[k] + Share(x, b, k)
      BY <2>4, <3>1
    <3> HIDE DEF C, With
    <3>4. QED
      BY <2>3, <2>5, <3>2, <3>3, KindMoves
  <2>7. QED
    BY <2>1, <2>2, <2>6
<1>5. C \in SUBSET SUBSET SlotSet(g)
  OBVIOUS
<1>6. SlotSet(g) \in C
  <2> HIDE DEF C
  <2>1. QED
    BY <1>1, <1>3, <1>4, <1>5, OneByOne
<1>7. GroupUsage(g) = [k \in Keys |-> SumFunctionOnSet(Holds(k), SlotSet(g))]
  BY DEF GroupUsage
<1>8. GroupUsage(g) \in [Keys -> Nat]
  BY <1>2, <1>7
<1>9. With(SlotSet(g)) = [k \in Keys |-> u[k] + GroupUsage(g)[k]]
  BY <1>7
<1>10. QED
  BY <1>6, <1>8, <1>9

-----------------------------------------------------------------------------
(* What the reservations require *)

LEMMA Counts ==
  ASSUME NEW st \in GatewayState, made \in Seq(Handoffs \cup Slots), Len(made) <= MaxIds,
         st.active \subseteq MadeIds, IsFiniteSet(HeldSlots(st))
  PROVE  /\ Ordinary(st) \subseteq st.active /\ IsFiniteSet(Ordinary(st))
         /\ Cardinality(Ordinary(st)) \in Nat /\ Cardinality(HeldSlots(st)) \in Nat
         /\ \A k : /\ \A id \in Ordinary(st) : Asked(k)[id] = Share(made[id], Total[made[id]], k)
                                               /\ Asked(k)[id] \in Nat
                   /\ SumFunctionOnSet(Asked(k), Ordinary(st)) \in Nat
                   /\ SumFunctionOnSet(Holds(k), HeldSlots(st)) \in Nat
<1>1. Ordinary(st) \subseteq st.active
  BY DEF Ordinary
<1>2. IsFiniteSet(Ordinary(st))
  <2>1. IsFiniteSet(Ids)
    BY GatewayConstants, FS_Interval DEF Ids
  <2>2. st.active \subseteq Ids
    BY DEF GatewayState
  <2>3. QED
    BY <1>1, <2>1, <2>2, FS_Subset
<1>3. Cardinality(Ordinary(st)) \in Nat /\ Cardinality(HeldSlots(st)) \in Nat
  BY <1>2, FS_CardinalityType
<1>4. ASSUME NEW k, NEW id \in Ordinary(st)
      PROVE  Asked(k)[id] = Share(made[id], Total[made[id]], k) /\ Asked(k)[id] \in Nat
  <2>1. id \in DOMAIN made /\ made[id] \in Handoffs
    BY <1>1 DEF MadeIds, Ordinary
  <2>2. Total[made[id]] \in Nat
    BY <2>1, Route
  <2>3. QED
    BY <2>1, <2>2, Shares DEF Asked
<1>5. ASSUME NEW k
      PROVE  /\ SumFunctionOnSet(Asked(k), Ordinary(st)) \in Nat
             /\ SumFunctionOnSet(Holds(k), HeldSlots(st)) \in Nat
  <2>1. \A s \in HeldSlots(st) : Holds(k)[s] \in Nat
    BY HoldsIs DEF HeldSlots
  <2>2. \A id \in Ordinary(st) : Asked(k)[id] \in Nat
    BY <1>4
  <2>3. PICK f, d : f = Asked(k) /\ d = Holds(k)
    OBVIOUS
  <2>4. SumFunctionOnSet(f, Ordinary(st)) \in Nat
    BY <1>2, <2>2, <2>3, SumNat
  <2>5. SumFunctionOnSet(d, HeldSlots(st)) \in Nat
    BY <2>1, <2>3, SumNat
  <2>6. QED
    BY <2>3, <2>4, <2>5
<1>6. QED
  BY <1>1, <1>2, <1>3, <1>4, <1>5

\* Nothing changes for a state while the list of reservations stays ...
LEMMA MadeStays == ASSUME NEW st, made' = made, Sound(st) PROVE Sound(st)'
<1>1. Ordinary(st)' = Ordinary(st) /\ MadeIds' = MadeIds
  BY DEF Ordinary, MadeIds
<1>2. \A k : Asked(k)' = Asked(k)
  BY DEF Asked
<1>3. \A k : Required(st, k)' = Required(st, k)
  BY <1>1, <1>2 DEF Required
<1>4. Loads(st)'
  BY <1>1 DEF Sound, Loads, ActiveCount
<1>5. SlotsSound(st)'
  BY <1>1 DEF Sound, SlotsSound
<1>6. Counted(st)'
  BY <1>3 DEF Sound, Counted
<1>7. QED
  BY <1>1, <1>4, <1>5, <1>6 DEF Sound

\* ... nor while it grows.
LEMMA MadeGrows ==
  ASSUME NEW st, NEW h \in Handoffs \cup Slots, made \in Seq(Handoffs \cup Slots), Len(made) <= MaxIds,
         made' = Append(made, h), Sound(st)
  PROVE  Sound(st)' /\ Ordinary(st)' = Ordinary(st) /\ \A k \in Keys : Required(st, k)' = Required(st, k)
<1>1. /\ MadeIds' = MadeIds \cup {Len(made) + 1} /\ MadeIds = 1 .. Len(made) /\ Len(made) \in Nat
      /\ \A id \in MadeIds : made'[id] = made[id]
  BY DEF MadeIds
<1>2. st \in GatewayState /\ st.active \subseteq MadeIds /\ IsFiniteSet(HeldSlots(st))
  BY DEF Sound, SlotsSound
<1>3. Ordinary(st)' = Ordinary(st)
  BY <1>1, <1>2 DEF Ordinary
<1>4. ASSUME NEW k \in Keys PROVE Required(st, k)' = Required(st, k)
  <2>1. PICK f, d : f = Asked(k) /\ d = Asked(k)'
    OBVIOUS
  <2>2. IsFiniteSet(Ordinary(st)) /\ Ordinary(st) \subseteq MadeIds
    BY <1>2, Counts
  <2>3. \A id \in Ordinary(st) : f[id] \in Nat
    BY <1>2, <2>1, Counts
  <2>4. \A id \in Ordinary(st) : d[id] = f[id]
    BY <1>1, <2>1, <2>2 DEF Asked, MadeIds
  <2>5. SumFunctionOnSet(f, Ordinary(st)) = SumFunctionOnSet(d, Ordinary(st))
    BY <2>2, <2>3, <2>4, SumSame
  <2>6. QED
    BY <1>3, <2>1, <2>5 DEF Required
<1>5. Loads(st)'
  BY <1>1, <1>2, <1>3 DEF Sound, Loads, ActiveCount
<1>6. SlotsSound(st)'
  <2>1. SlotsSound(st)
    BY DEF Sound
  <2>2. ASSUME NEW id \in st.active, made'[id] \in Slots
        PROVE  st.slot[made'[id]] = "claimed" /\ st.slotRes[made'[id]] = id
    BY <1>1, <1>2, <2>1, <2>2 DEF SlotsSound
  <2>3. ASSUME NEW s \in Slots, st.slotRes[s] # 0
        PROVE  st.slotRes[s] \in MadeIds' /\ made'[st.slotRes[s]] = s
    BY <1>1, <2>1, <2>3 DEF SlotsSound
  <2>4. QED
    BY <2>1, <2>2, <2>3 DEF SlotsSound
<1>7. Counted(st)'
  BY <1>4 DEF Sound, Counted
<1>8. st.active \subseteq MadeIds'
  BY <1>1, <1>2
<1>9. QED
  BY <1>2, <1>3, <1>4, <1>5, <1>6, <1>7, <1>8 DEF Sound

-----------------------------------------------------------------------------
(* reserve and claimGroupSlot *)

LEMMA ReserveSound ==
  ASSUME NEW st, NEW t, NEW h \in Handoffs, made \in Seq(Handoffs \cup Slots), Len(made) < MaxIds,
         made' = Append(made, h), Sound(st), \A id \in st.active : made[id] # h,
         ActiveCount(st) < MaxActive, Cardinality(InUse(st.used) \cup KeysOf[h]) <= MaxKeys,
         \A k \in KeysOf[h] : st.used[k] + Total[h] <= Cap[k],
         t = [st EXCEPT !.active = @ \cup {Len(made) + 1}, !.used = Add(@, h, Total[h])]
  PROVE  Sound(t)'
<1>1. PICK n : n = Len(made) + 1
  OBVIOUS
<1>2. /\ MadeIds' = MadeIds \cup {n} /\ MadeIds = 1 .. Len(made) /\ Len(made) \in Nat /\ n \notin MadeIds
      /\ n \in Ids /\ made'[n] = h /\ \A id \in MadeIds : made'[id] = made[id]
  BY <1>1, GatewayConstants DEF MadeIds, Ids
<1>3. st \in GatewayState /\ st.active \subseteq MadeIds /\ IsFiniteSet(HeldSlots(st)) /\ Loads(st)
  BY DEF Sound, SlotsSound
<1>4. Len(made) <= MaxIds /\ Total[h] \in Nat /\ KeysOf[h] \subseteq Keys /\ h \notin Slots
  BY <1>2, GatewayConstants, Route
<1>5. st.used \in [Keys -> Nat] /\ st.spent \in [Keys -> Nat]
  BY <1>3 DEF GatewayState
<1>6. /\ t.active = st.active \cup {n} /\ t.used = Add(st.used, h, Total[h]) /\ t.terminal = st.terminal
      /\ t.slot = st.slot /\ t.slotRes = st.slotRes /\ t.spent = st.spent
  BY <1>1, <1>3 DEF GatewayState
<1>7. t.used \in [Keys -> Nat] /\ \A k \in Keys : t.used[k] = st.used[k] + Share(h, Total[h], k)
  BY <1>4, <1>5, <1>6, AddIs
<1>8. t \in GatewayState
  BY <1>2, <1>3, <1>6, <1>7 DEF GatewayState
<1>9. HeldSlots(t) = HeldSlots(st) /\ TerminalIds(t) = TerminalIds(st)
  BY <1>6 DEF HeldSlots, TerminalIds
<1>10. Ordinary(t)' = Ordinary(st) \cup {n} /\ n \notin Ordinary(st)
  BY <1>2, <1>3, <1>6 DEF Ordinary
<1>11. /\ IsFiniteSet(Ordinary(st)) /\ Ordinary(st) \subseteq MadeIds
       /\ Cardinality(Ordinary(st)) \in Nat /\ Cardinality(HeldSlots(st)) \in Nat
  BY <1>3, <1>4, Counts
<1>12. Loads(t)'
  <2>1. Cardinality(InUse(t.used)) <= MaxKeys
    <3>1. InUse(t.used) \subseteq InUse(st.used) \cup KeysOf[h]
      BY <1>4, <1>5, <1>7 DEF InUse, Share
    <3>2. IsFiniteSet(InUse(st.used) \cup KeysOf[h])
      BY <1>4, GatewayConstants, FS_Subset DEF InUse
    <3>3. PICK a, b : a = Cardinality(InUse(t.used)) /\ b = Cardinality(InUse(st.used) \cup KeysOf[h])
      OBVIOUS
    <3>4. a \in Nat /\ b \in Nat /\ a <= b
      BY <3>1, <3>2, <3>3, FS_Subset, FS_CardinalityType
    <3>5. MaxKeys \in Nat /\ b <= MaxKeys
      BY <3>3, GatewayConstants
    <3>6. QED
      BY <3>3, <3>4, <3>5
  <2>2. ActiveCount(t)' <= MaxActive
    <3>1. Cardinality(Ordinary(t)') = Cardinality(Ordinary(st)) + 1
      BY <1>10, <1>11, FS_AddElement
    <3>2. ActiveCount(t)' = Cardinality(HeldSlots(st)) + (Cardinality(Ordinary(st)) + 1)
      BY <1>9, <3>1 DEF ActiveCount
    <3>3. Cardinality(HeldSlots(st)) + Cardinality(Ordinary(st)) < MaxActive /\ MaxActive \in Nat
      BY GatewayConstants DEF ActiveCount
    <3>4. QED
      BY <1>11, <3>2, <3>3
  <2>3. TerminalIds(t) \cap t.active = {} /\ TerminalIds(t) \subseteq MadeIds'
    BY <1>2, <1>3, <1>6, <1>9 DEF Loads
  <2>4. ASSUME NEW i \in t.active, NEW j \in t.active, made'[i] = made'[j] PROVE i = j
    BY <1>2, <1>3, <1>6, <2>4 DEF Loads
  <2>5. Len(t.terminal) <= MaxTerminal
    BY <1>3, <1>6 DEF Loads
  <2>6. QED
    BY <1>9, <2>1, <2>2, <2>3, <2>4, <2>5 DEF Loads, TerminalIds, InUse
<1>13. SlotsSound(t)'
  <2>1. SlotsSound(st)
    BY DEF Sound
  <2>2. ASSUME NEW id \in t.active, made'[id] \in Slots
        PROVE  t.slot[made'[id]] = "claimed" /\ t.slotRes[made'[id]] = id
    BY <1>2, <1>3, <1>4, <1>6, <2>1, <2>2 DEF SlotsSound
  <2>3. ASSUME NEW s \in Slots
        PROVE  /\ t.slot[s] \in {"none", "reserved"} => t.slotRes[s] = 0
               /\ t.slot[s] \in {"claimed", "settled"} => t.slotRes[s] # 0
               /\ t.slot[s] = "claimed" => t.slotRes[s] \in t.active
               /\ t.slotRes[s] # 0 => t.slotRes[s] \in MadeIds' /\ made'[t.slotRes[s]] = s
    BY <1>2, <1>6, <2>1 DEF SlotsSound
  <2>4. IsFiniteSet(HeldSlots(t))
    BY <1>3, <1>9
  <2>5. ASSUME NEW g \in Groups
        PROVE  /\ \A s, r \in SlotSet(g) : t.slot[s] = "none" => t.slot[r] = "none"
               /\ \A i, j \in DOMAIN SlotsOf[g] :
                    i < j /\ t.slot[SlotsOf[g][j]] = "claimed" => t.slot[SlotsOf[g][i]] # "reserved"
    BY <1>6, <2>1 DEF SlotsSound
  <2>6. QED
    BY <2>2, <2>3, <2>4, <2>5 DEF SlotsSound, HeldSlots, SlotSet
<1>14. Counted(t)'
  <2>1. ASSUME NEW k \in Keys PROVE Required(t, k)' = Required(st, k) + Share(h, Total[h], k)
    <3>1. PICK f, d : f = Asked(k) /\ d = Asked(k)'
      OBVIOUS
    <3>2. \A id \in Ordinary(st) : f[id] \in Nat
      BY <1>3, <1>4, <3>1, Counts
    <3>3. \A id \in Ordinary(st) : d[id] = f[id]
      BY <1>2, <1>11, <3>1 DEF Asked, MadeIds
    <3>4. d[n] = Share(h, Total[h], k) /\ d[n] \in Nat
      BY <1>2, <1>4, <3>1, Shares DEF Asked, MadeIds
    <3>5. SumFunctionOnSet(f, Ordinary(st)) = SumFunctionOnSet(d, Ordinary(st))
      BY <1>11, <3>2, <3>3, SumSame
    <3>6. SumFunctionOnSet(d, Ordinary(st) \cup {n}) = d[n] + SumFunctionOnSet(d, Ordinary(st))
      BY <1>10, <1>11, <3>2, <3>3, <3>4, SumPut
    <3>7. /\ SumFunctionOnSet(f, Ordinary(st)) \in Nat
          /\ SumFunctionOnSet(Holds(k), HeldSlots(st)) \in Nat
      BY <1>3, <1>4, <3>1, Counts
    <3>8. /\ Required(t, k)' = SumFunctionOnSet(d, Ordinary(st) \cup {n}) + SumFunctionOnSet(Holds(k), HeldSlots(st))
          /\ Required(st, k) = SumFunctionOnSet(f, Ordinary(st)) + SumFunctionOnSet(Holds(k), HeldSlots(st))
      BY <1>9, <1>10, <3>1 DEF Required
    <3>9. QED
      BY <3>4, <3>5, <3>6, <3>7, <3>8
  <2>2. ASSUME NEW k \in Keys PROVE Required(st, k) \in Nat
    <3>1. /\ SumFunctionOnSet(Asked(k), Ordinary(st)) \in Nat
          /\ SumFunctionOnSet(Holds(k), HeldSlots(st)) \in Nat
      BY <1>3, <1>4, Counts
    <3>2. QED
      BY <3>1 DEF Required
  <2>3. ASSUME NEW k \in Keys PROVE t.used[k] = Required(t, k)' + t.spent[k] /\ t.used[k] <= Cap[k]
    <3>1. st.used[k] = Required(st, k) + st.spent[k] /\ st.used[k] <= Cap[k]
      BY DEF Sound, Counted
    <3>2. Share(h, Total[h], k) \in Nat /\ Required(st, k) \in Nat /\ st.spent[k] \in Nat /\ Cap[k] \in Nat
      BY <1>4, <1>5, <2>2, Shares, GatewayConstants
    <3>3. t.used[k] = Required(t, k)' + t.spent[k]
      BY <1>6, <1>7, <2>1, <3>1, <3>2
    <3>4. st.used[k] + Share(h, Total[h], k) <= Cap[k]
      BY <1>5, <3>1 DEF Share
    <3>5. QED
      BY <1>7, <3>3, <3>4
  <2>4. Balanced(t.used)
    <3>1. Balanced(st.used)
      BY DEF Sound, Counted
    <3>2. h \in Handoffs \cup Slots
      OBVIOUS
    <3>3. QED
      BY <1>4, <1>5, <1>6, <3>1, <3>2, AddBalanced
  <2>5. QED
    BY <2>3, <2>4 DEF Counted, Balanced
<1>15. QED
  BY <1>2, <1>3, <1>6, <1>8, <1>12, <1>13, <1>14 DEF Sound, GatewayState

LEMMA PutOne ==
  ASSUME NEW A, NEW B, NEW f \in [A -> B], NEW x \in A, NEW y \in B
  PROVE  [f EXCEPT ![x] = y] \in [A -> B]
OBVIOUS

LEMMA ClaimSound ==
  ASSUME NEW st, NEW t, NEW g \in Groups, NEW s \in SlotSet(g),
         made \in Seq(Handoffs \cup Slots), Len(made) < MaxIds,
         made' = Append(made, s), Sound(st), st.slot[s] = "reserved",
         \A i, j \in DOMAIN SlotsOf[g] :
           i < j /\ SlotsOf[g][j] = s => st.slot[SlotsOf[g][i]] # "reserved",
         t = [st EXCEPT !.active = @ \cup {Len(made) + 1},
                        !.slot = [@ EXCEPT ![s] = "claimed"],
                        !.slotRes = [@ EXCEPT ![s] = Len(made) + 1]]
  PROVE  Sound(t)'
<1>1. PICK n : n = Len(made) + 1
  OBVIOUS
<1>2. /\ MadeIds' = MadeIds \cup {n} /\ MadeIds = 1 .. Len(made) /\ Len(made) \in Nat /\ n \notin MadeIds
      /\ n \in Ids /\ made'[n] = s /\ \A id \in MadeIds : made'[id] = made[id]
      /\ n \in Nat \ {0}
  BY <1>1, GatewayConstants DEF MadeIds, Ids
<1>3. st \in GatewayState /\ st.active \subseteq MadeIds /\ Loads(st) /\ SlotsSound(st) /\ Counted(st)
  BY DEF Sound
<1>4. s \in Slots /\ s \notin Handoffs
  BY GroupSlots, Route
<1>5. /\ t.active = st.active \cup {n} /\ t.used = st.used /\ t.terminal = st.terminal /\ t.spent = st.spent
      /\ t.slot = [st.slot EXCEPT ![s] = "claimed"] /\ t.slotRes = [st.slotRes EXCEPT ![s] = n]
  BY <1>1, <1>3 DEF GatewayState
<1>6. /\ st.slot \in [Slots -> {"none", "reserved", "claimed", "settled", "released"}]
      /\ st.slotRes \in [Slots -> {0} \cup Ids]
  BY <1>3 DEF GatewayState
<1>7. /\ t.slot[s] = "claimed" /\ t.slotRes[s] = n
      /\ \A r \in Slots \ {s} : t.slot[r] = st.slot[r] /\ t.slotRes[r] = st.slotRes[r]
  BY <1>4, <1>5, <1>6
<1>8. t \in GatewayState
  <2>1. /\ t.slot \in [Slots -> {"none", "reserved", "claimed", "settled", "released"}]
        /\ t.slotRes \in [Slots -> {0} \cup Ids]
    <3>1. t.slot \in [Slots -> {"none", "reserved", "claimed", "settled", "released"}]
      <4>1. PICK Q : Q = {"none", "reserved", "claimed", "settled", "released"}
        OBVIOUS
      <4>2. st.slot \in [Slots -> Q] /\ "claimed" \in Q
        BY <1>6, <4>1
      <4>3. [st.slot EXCEPT ![s] = "claimed"] \in [Slots -> Q]
        BY <1>4, <4>2, PutOne
      <4>4. t.slot \in [Slots -> Q]
        BY <1>5, <4>3
      <4>5. QED
        BY <4>1, <4>4
    <3>2. PICK R : R = {0} \cup Ids
      OBVIOUS
    <3>3. st.slotRes \in [Slots -> R] /\ n \in R
      BY <1>2, <1>6, <3>2
    <3>4. [st.slotRes EXCEPT ![s] = n] \in [Slots -> R]
      BY <1>4, <3>3, PutOne
    <3>5. t.slotRes \in [Slots -> R]
      BY <1>5, <3>4
    <3>6. QED
      BY <3>1, <3>2, <3>5
  <2>2. t.active \in SUBSET Ids
    BY <1>2, <1>3, <1>5 DEF GatewayState
  <2>3. QED
    BY <1>3, <1>5, <2>1, <2>2 DEF GatewayState
<1>9. HeldSlots(t) = HeldSlots(st)
  BY <1>4, <1>7 DEF HeldSlots
<1>10. /\ Sound(st)' /\ Ordinary(st)' = Ordinary(st)
       /\ \A k \in Keys : Required(st, k)' = Required(st, k)
  <2>1. Len(made) <= MaxIds /\ s \in Handoffs \cup Slots
    BY <1>2, <1>4, GatewayConstants
  <2>2. QED
    BY <2>1, MadeGrows
<1>11. Ordinary(t)' = Ordinary(st)'
  <2>1. \A id \in t.active : made'[id] \in Handoffs => id \in st.active
    BY <1>2, <1>4, <1>5
  <2>2. QED
    BY <1>5, <2>1 DEF Ordinary
<1>12. \A k : Required(t, k)' = Required(st, k)'
  BY <1>9, <1>11 DEF Required, HeldSlots
<1>13. Loads(t)'
  <2>1. ActiveCount(t)' = ActiveCount(st)'
    BY <1>9, <1>11 DEF ActiveCount, HeldSlots
  <2>2. Loads(st)' /\ SlotsSound(st)'
    BY <1>10 DEF Sound
  <2>3. TerminalIds(t) \cap t.active = {} /\ TerminalIds(t) \subseteq MadeIds'
    BY <1>2, <1>3, <1>5 DEF Loads, TerminalIds
  <2>4. ASSUME NEW i \in t.active, NEW j \in t.active, made'[i] = made'[j] PROVE i = j
    <3>1. \A id \in st.active : made'[id] # s
      <4>1. \A id \in st.active : made[id] # s
        BY <1>3, <1>4 DEF SlotsSound
      <4>2. QED
        BY <1>2, <1>3, <4>1
    <3>2. \A p, q \in st.active : made'[p] = made'[q] => p = q
      BY <1>2, <1>3 DEF Loads
    <3>3. CASE i = n
      <4>1. made'[j] = s
        BY <1>2, <2>4, <3>3
      <4>2. QED
        BY <1>5, <3>1, <3>3, <4>1
    <3>4. CASE j = n
      <4>1. made'[i] = s
        BY <1>2, <2>4, <3>4
      <4>2. QED
        BY <1>5, <3>1, <3>4, <4>1
    <3>5. QED
      BY <1>5, <2>4, <3>2, <3>3, <3>4
  <2>5. QED
    BY <1>5, <2>1, <2>2, <2>3, <2>4 DEF Loads, TerminalIds, InUse
<1>14. SlotsSound(t)'
  <2>1. ASSUME NEW id \in t.active, made'[id] \in Slots
        PROVE  t.slot[made'[id]] = "claimed" /\ t.slotRes[made'[id]] = id
    <3>1. CASE id = n
      BY <1>2, <1>7, <3>1
    <3>2. CASE id # n
      <4>1. id \in st.active /\ made'[id] = made[id]
        BY <1>2, <1>3, <1>5, <3>2
      <4>2. st.slot[made[id]] = "claimed" /\ st.slotRes[made[id]] = id
        BY <1>3, <2>1, <4>1 DEF SlotsSound
      <4>3. made[id] # s
        BY <4>2
      <4>4. QED
        BY <1>7, <2>1, <4>1, <4>2, <4>3
    <3>3. QED
      BY <3>1, <3>2
  <2>2. ASSUME NEW r \in Slots
        PROVE  /\ t.slot[r] \in {"none", "reserved"} => t.slotRes[r] = 0
               /\ t.slot[r] \in {"claimed", "settled"} => t.slotRes[r] # 0
               /\ t.slot[r] = "claimed" => t.slotRes[r] \in t.active
               /\ t.slotRes[r] # 0 => t.slotRes[r] \in MadeIds' /\ made'[t.slotRes[r]] = r
    <3>1. CASE r = s
      <4>1. t.slot[r] = "claimed" /\ t.slotRes[r] = n
        BY <1>7, <3>1
      <4>2. n # 0 /\ n \in t.active /\ n \in MadeIds' /\ made'[n] = r
        BY <1>2, <1>5, <3>1
      <4>3. QED
        BY <4>1, <4>2
    <3>2. CASE r # s
      <4>1. t.slot[r] = st.slot[r] /\ t.slotRes[r] = st.slotRes[r]
        BY <1>7, <3>2
      <4>2. QED
        BY <1>2, <1>3, <1>5, <4>1 DEF SlotsSound
    <3>3. QED
      BY <3>1, <3>2
  <2>3. IsFiniteSet(HeldSlots(t))
    BY <1>3, <1>9 DEF SlotsSound
  <2>4. ASSUME NEW f \in Groups, NEW p \in SlotSet(f), NEW q \in SlotSet(f), t.slot[p] = "none"
        PROVE  t.slot[q] = "none"
    <3>1. p \in Slots /\ q \in Slots
      BY GroupSlots
    <3>2. p # s /\ st.slot[p] = "none"
      BY <1>7, <2>4, <3>1
    <3>3. st.slot[q] = "none"
      BY <1>3, <2>4, <3>2 DEF SlotsSound
    <3>4. QED
      BY <1>7, <3>1, <3>3
  <2>5. ASSUME NEW f \in Groups, NEW i \in DOMAIN SlotsOf[f], NEW j \in DOMAIN SlotsOf[f],
               i < j, t.slot[SlotsOf[f][j]] = "claimed"
        PROVE  t.slot[SlotsOf[f][i]] # "reserved"
    <3>1. /\ SlotsOf[f][i] \in SlotSet(f) /\ SlotsOf[f][j] \in SlotSet(f)
          /\ SlotsOf[f][i] \in Slots /\ SlotsOf[f][j] \in Slots
      <4>1. DOMAIN SlotsOf[f] = 1 .. Len(SlotsOf[f])
        BY GroupSlots
      <4>2. SlotsOf[f][i] \in SlotSet(f) /\ SlotsOf[f][j] \in SlotSet(f)
        BY <4>1, GroupSlots
      <4>3. QED
        BY <4>2, GroupSlots
    <3>2. st.slot[SlotsOf[f][i]] # "reserved" => t.slot[SlotsOf[f][i]] # "reserved"
      BY <1>7, <3>1
    <3>3. CASE SlotsOf[f][j] = s
      <4>1. f = g
        BY <3>1, <3>3, GatewayConstants DEF SlotSet
      <4>2. QED
        BY <2>5, <3>2, <3>3, <4>1
    <3>4. CASE SlotsOf[f][j] # s
      <4>1. st.slot[SlotsOf[f][j]] = "claimed"
        BY <1>7, <2>5, <3>1, <3>4
      <4>2. QED
        BY <1>3, <2>5, <3>2, <4>1 DEF SlotsSound
    <3>5. QED
      BY <3>3, <3>4
  <2>6. \A f \in Groups :
          /\ \A p, q \in SlotSet(f) : t.slot[p] = "none" => t.slot[q] = "none"
          /\ \A i, j \in DOMAIN SlotsOf[f] :
               i < j /\ t.slot[SlotsOf[f][j]] = "claimed" => t.slot[SlotsOf[f][i]] # "reserved"
    BY <2>4, <2>5
  <2>7. QED
    BY <2>1, <2>2, <2>3, <2>6 DEF SlotsSound, HeldSlots, SlotSet
<1>15. Counted(t)'
  BY <1>3, <1>5, <1>10, <1>12 DEF Counted, Balanced
<1>16. QED
  BY <1>2, <1>3, <1>5, <1>8, <1>13, <1>14, <1>15 DEF Sound, GatewayState

-----------------------------------------------------------------------------
(* settle and release *)

LEMMA PruneIs ==
  ASSUME NEW R, NEW seq \in Seq(R)
  PROVE  /\ Prune(seq) \in Seq(R) /\ Len(Prune(seq)) <= MaxTerminal
         /\ \A i \in DOMAIN Prune(seq) : \E j \in DOMAIN seq : Prune(seq)[i] = seq[j]
<1>1. Len(seq) \in Nat /\ MaxTerminal \in Nat /\ DOMAIN seq = 1 .. Len(seq)
  BY GatewayConstants
<1>2. CASE Len(seq) > MaxTerminal
  <2>1. Prune(seq) = SubSeq(seq, Len(seq) - MaxTerminal + 1, Len(seq))
    BY <1>2 DEF Prune
  <2>2. PICK a : a = Len(seq) - MaxTerminal + 1
    OBVIOUS
  <2>3. a \in 1 .. Len(seq) + 1
    BY <1>1, <1>2, <2>2
  <2>4. SubSeq(seq, a, Len(seq)) \in Seq(R) /\ Len(SubSeq(seq, a, Len(seq))) = MaxTerminal
    <3>1. CASE a <= Len(seq)
      BY <1>1, <1>2, <2>2, <2>3, <3>1
    <3>2. CASE a > Len(seq)
      BY <1>1, <1>2, <2>2, <2>3, <3>2
    <3>3. QED
      BY <1>1, <2>3, <3>1, <3>2
  <2>5. ASSUME NEW i \in 1 .. MaxTerminal
        PROVE  SubSeq(seq, a, Len(seq))[i] = seq[a + i - 1] /\ a + i - 1 \in 1 .. Len(seq)
    BY <1>1, <1>2, <2>2, <2>3, <2>5
  <2>6. QED
    BY <1>1, <2>1, <2>2, <2>4, <2>5
<1>3. CASE ~ (Len(seq) > MaxTerminal)
  BY <1>1, <1>3 DEF Prune
<1>4. QED
  BY <1>2, <1>3

\* What becomes of the counts when reservation id goes.
LEMMA CloseCounts ==
  ASSUME NEW st, NEW t, NEW id \in st.active, made \in Seq(Handoffs \cup Slots), Len(made) <= MaxIds, Sound(st),
         t.active = st.active \ {id},
         t.slot \in [Slots -> {"none", "reserved", "claimed", "settled", "released"}],
         \A s \in Slots : s # made[id] => t.slot[s] = st.slot[s],
         made[id] \in Slots => t.slot[made[id]] \in {"settled", "released"}
  PROVE  /\ made[id] \in Handoffs \cup Slots /\ HeldBy(id) \in Nat /\ Total[made[id]] <= HeldBy(id)
         /\ IsFiniteSet(HeldSlots(t)) /\ ActiveCount(t) <= MaxActive
         /\ \A k \in Keys : /\ Required(t, k) \in Nat
                            /\ Required(t, k) + Share(made[id], HeldBy(id), k) = Required(st, k)
<1>1. PICK h, w : h = made[id] /\ w = HeldBy(id)
  OBVIOUS
<1>2. st \in GatewayState /\ st.active \subseteq MadeIds /\ SlotsSound(st) /\ Loads(st) /\ IsFiniteSet(HeldSlots(st))
  BY DEF Sound, SlotsSound
<1>3. id \in MadeIds /\ h \in Handoffs \cup Slots
  BY <1>1, <1>2 DEF MadeIds
<1>4. w \in Nat /\ Total[h] <= w /\ Total[h] \in Nat
  BY <1>1, <1>3, Route DEF HeldBy
<1>5. PICK O, H : O = Ordinary(st) /\ H = HeldSlots(st)
  OBVIOUS
<1>6. /\ IsFiniteSet(O) /\ IsFiniteSet(H) /\ Cardinality(O) \in Nat /\ Cardinality(H) \in Nat
      /\ Cardinality(H) + Cardinality(O) <= MaxActive /\ MaxActive \in Nat
      /\ H \subseteq Slots
  <2>1. IsFiniteSet(O) /\ Cardinality(O) \in Nat /\ Cardinality(H) \in Nat
    BY <1>2, <1>5, Counts
  <2>2. Cardinality(H) + Cardinality(O) <= MaxActive
    BY <1>2, <1>5 DEF Loads, ActiveCount
  <2>3. H \subseteq Slots
    BY <1>5 DEF HeldSlots
  <2>4. QED
    BY <1>2, <1>5, <2>1, <2>2, <2>3, GatewayConstants
<1>7. ASSUME NEW k
      PROVE  /\ \A x \in O : Asked(k)[x] = Share(made[x], Total[made[x]], k) /\ Asked(k)[x] \in Nat
             /\ \A x \in H : Holds(k)[x] = Share(x, Hold[x], k) /\ Holds(k)[x] \in Nat
             /\ SumFunctionOnSet(Asked(k), O) \in Nat /\ SumFunctionOnSet(Holds(k), H) \in Nat
             /\ Required(st, k) = SumFunctionOnSet(Asked(k), O) + SumFunctionOnSet(Holds(k), H)
  <2>1. \A x \in O : Asked(k)[x] = Share(made[x], Total[made[x]], k) /\ Asked(k)[x] \in Nat
    BY <1>2, <1>5, Counts
  <2>2. SumFunctionOnSet(Asked(k), O) \in Nat /\ SumFunctionOnSet(Holds(k), H) \in Nat
    BY <1>2, <1>5, Counts
  <2>3. \A x \in H : Holds(k)[x] = Share(x, Hold[x], k) /\ Holds(k)[x] \in Nat
    BY <1>6, HoldsIs
  <2>4. QED
    BY <1>5, <2>1, <2>2, <2>3 DEF Required
<1>8. CASE h \in Handoffs
  <2>1. h \notin Slots /\ w = Total[h]
    BY <1>1, <1>8, GatewayConstants DEF HeldBy
  <2>2. HeldSlots(t) = H
    BY <1>1, <1>5, <2>1 DEF HeldSlots
  <2>3. Ordinary(t) = O \ {id} /\ id \in O
    BY <1>1, <1>5, <1>8 DEF Ordinary
  <2>4. ActiveCount(t) <= MaxActive
    <3>1. Cardinality(O \ {id}) = Cardinality(O) - 1
      BY <1>6, <2>3, FS_RemoveElement
    <3>2. ActiveCount(t) = Cardinality(H) + Cardinality(O \ {id})
      BY <2>2, <2>3 DEF ActiveCount
    <3>3. QED
      BY <1>6, <3>1, <3>2
  <2>5. ASSUME NEW k \in Keys
        PROVE  Required(t, k) \in Nat /\ Required(t, k) + Share(h, w, k) = Required(st, k)
    <3>1. PICK f : f = Asked(k)
      OBVIOUS
    <3>2. \A x \in O : f[x] \in Nat
      BY <1>7, <3>1
    <3>3. SumFunctionOnSet(f, O) = f[id] + SumFunctionOnSet(f, O \ {id})
      BY <1>6, <2>3, <3>2, SumTake
    <3>4. f[id] = Share(h, w, k) /\ f[id] \in Nat
      BY <1>1, <1>7, <2>1, <2>3, <3>1
    <3>5. SumFunctionOnSet(f, O \ {id}) \in Nat
      <4>1. IsFiniteSet(O \ {id}) /\ \A x \in O \ {id} : f[x] \in Nat
        BY <1>6, <3>2, FS_Subset
      <4>2. QED
        BY <4>1, SumNat
    <3>6. Required(t, k) = SumFunctionOnSet(f, O \ {id}) + SumFunctionOnSet(Holds(k), H)
      BY <2>2, <2>3, <3>1 DEF Required
    <3>7. Required(st, k) = SumFunctionOnSet(f, O) + SumFunctionOnSet(Holds(k), H) /\ SumFunctionOnSet(Holds(k), H) \in Nat
      BY <1>7, <3>1
    <3>8. QED
      BY <3>3, <3>4, <3>5, <3>6, <3>7
  <2>6. QED
    BY <1>1, <1>3, <1>4, <1>6, <2>2, <2>4, <2>5
<1>9. CASE h \in Slots
  <2>1. h \notin Handoffs /\ w = Hold[h] /\ st.slot[h] = "claimed" /\ h \in H
    BY <1>1, <1>2, <1>5, <1>9, GatewayConstants DEF HeldBy, SlotsSound, HeldSlots
  <2>2. HeldSlots(t) = H \ {h}
    BY <1>1, <1>5, <1>9 DEF HeldSlots
  <2>3. Ordinary(t) = O
    BY <1>1, <1>5, <2>1 DEF Ordinary
  <2>4. ActiveCount(t) <= MaxActive
    <3>1. Cardinality(H \ {h}) = Cardinality(H) - 1
      BY <1>6, <2>1, FS_RemoveElement
    <3>2. ActiveCount(t) = Cardinality(H \ {h}) + Cardinality(O)
      BY <2>2, <2>3 DEF ActiveCount
    <3>3. QED
      BY <1>6, <3>1, <3>2
  <2>5. ASSUME NEW k \in Keys
        PROVE  Required(t, k) \in Nat /\ Required(t, k) + Share(h, w, k) = Required(st, k)
    <3>1. PICK f : f = Holds(k)
      OBVIOUS
    <3>2. \A x \in H : f[x] \in Nat
      BY <1>7, <3>1
    <3>3. SumFunctionOnSet(f, H) = f[h] + SumFunctionOnSet(f, H \ {h})
      BY <1>6, <2>1, <3>2, SumTake
    <3>4. f[h] = Share(h, w, k) /\ f[h] \in Nat
      BY <1>7, <2>1, <3>1
    <3>5. SumFunctionOnSet(f, H \ {h}) \in Nat
      <4>1. IsFiniteSet(H \ {h}) /\ \A x \in H \ {h} : f[x] \in Nat
        BY <1>6, <3>2, FS_Subset
      <4>2. QED
        BY <4>1, SumNat
    <3>6. Required(t, k) = SumFunctionOnSet(Asked(k), O) + SumFunctionOnSet(f, H \ {h})
      BY <2>2, <2>3, <3>1 DEF Required
    <3>7. Required(st, k) = SumFunctionOnSet(Asked(k), O) + SumFunctionOnSet(f, H) /\ SumFunctionOnSet(Asked(k), O) \in Nat
      BY <1>7, <3>1
    <3>8. QED
      BY <3>3, <3>4, <3>5, <3>6, <3>7
  <2>6. IsFiniteSet(HeldSlots(t))
    BY <1>6, <2>2, FS_Subset
  <2>7. QED
    BY <1>1, <1>3, <1>4, <2>4, <2>5, <2>6
<1>10. QED
  BY <1>3, <1>8, <1>9

LEMMA AppendIs ==
  ASSUME NEW R, NEW c \in Seq(R), NEW r \in R
  PROVE  /\ Append(c, r) \in Seq(R)
         /\ \A j \in DOMAIN Append(c, r) : Append(c, r)[j] = r \/ (j \in DOMAIN c /\ Append(c, r)[j] = c[j])
OBVIOUS

LEMMA CloseUsage ==
  ASSUME NEW st \in GatewayState, NEW id, NEW event, NEW n
  PROVE  /\ Closed(st, id, event, n).used = Add(Sub(st.used, made[id], HeldBy(id)), made[id], n)
         /\ Closed(st, id, event, n).spent = Add(st.spent, made[id], n)
         /\ Closed(st, id, event, n).active = st.active \ {id}
         /\ Closed(st, id, event, n).slotRes = st.slotRes
<1>1. PICK u, p, a, b, c :
        /\ u = Add(Sub(st.used, made[id], HeldBy(id)), made[id], n) /\ p = Add(st.spent, made[id], n)
        /\ a = st.active \ {id} /\ b = Prune(Append(st.terminal, [id |-> id, event |-> event]))
        /\ c = [s \in Slots |-> IF s = made[id] THEN event ELSE st.slot[s]]
  OBVIOUS
<1>2. PICK t : t = Closed(st, id, event, n)
  OBVIOUS
<1>3. t = [st EXCEPT !.used = u, !.spent = p, !.active = a, !.terminal = b, !.slot = c]
  BY <1>1, <1>2, Zenon DEF Closed
<1>4. t.used = u /\ t.spent = p /\ t.active = a /\ t.terminal = b /\ t.slot = c /\ t.slotRes = st.slotRes
  BY <1>3 DEF GatewayState
<1>5. QED
  BY <1>1, <1>2, <1>4, Zenon

LEMMA CloseSlot ==
  ASSUME NEW st \in GatewayState, NEW id, NEW event, NEW n
  PROVE  Closed(st, id, event, n).slot = [s \in Slots |-> IF s = made[id] THEN event ELSE st.slot[s]]
<1>1. PICK u, p, a, b, c :
        /\ u = Add(Sub(st.used, made[id], HeldBy(id)), made[id], n) /\ p = Add(st.spent, made[id], n)
        /\ a = st.active \ {id} /\ b = Prune(Append(st.terminal, [id |-> id, event |-> event]))
        /\ c = [s \in Slots |-> IF s = made[id] THEN event ELSE st.slot[s]]
  OBVIOUS
<1>2. PICK t : t = Closed(st, id, event, n)
  OBVIOUS
<1>3. t = [st EXCEPT !.used = u, !.spent = p, !.active = a, !.terminal = b, !.slot = c]
  BY <1>1, <1>2, Zenon DEF Closed
<1>4. t.used = u /\ t.spent = p /\ t.active = a /\ t.terminal = b /\ t.slot = c /\ t.slotRes = st.slotRes
  BY <1>3 DEF GatewayState
<1>5. QED
  BY <1>1, <1>2, <1>4, Zenon

LEMMA CloseRecord ==
  ASSUME NEW st \in GatewayState, NEW id, NEW event, NEW n, NEW r, r = [id |-> id, event |-> event]
  PROVE  Closed(st, id, event, n).terminal = Prune(Append(st.terminal, r))
<1>1. PICK u, p, a, b, c :
        /\ u = Add(Sub(st.used, made[id], HeldBy(id)), made[id], n) /\ p = Add(st.spent, made[id], n)
        /\ a = st.active \ {id} /\ b = Prune(Append(st.terminal, [id |-> id, event |-> event]))
        /\ c = [s \in Slots |-> IF s = made[id] THEN event ELSE st.slot[s]]
  OBVIOUS
<1>2. PICK t : t = Closed(st, id, event, n)
  OBVIOUS
<1>3. t = [st EXCEPT !.used = u, !.spent = p, !.active = a, !.terminal = b, !.slot = c]
  BY <1>1, <1>2, Zenon DEF Closed
<1>4. t.used = u /\ t.spent = p /\ t.active = a /\ t.terminal = b /\ t.slot = c /\ t.slotRes = st.slotRes
  BY <1>3 DEF GatewayState
<1>5. QED
  BY <1>1, <1>2, <1>4, Zenon

LEMMA CloseType ==
  ASSUME NEW st \in GatewayState, NEW id, NEW event, NEW n, NEW t, t = Closed(st, id, event, n),
         t.used \in [Keys -> Nat], t.spent \in [Keys -> Nat], t.active \in SUBSET Ids,
         t.terminal \in Seq([id : Ids, event : {"settled", "released"}]),
         t.slot \in [Slots -> {"none", "reserved", "claimed", "settled", "released"}],
         t.slotRes \in [Slots -> {0} \cup Ids]
  PROVE  t \in GatewayState
<1>1. PICK u, p, a, b, c :
        t = [st EXCEPT !.used = u, !.spent = p, !.active = a, !.terminal = b, !.slot = c]
  BY Zenon DEF Closed
<1>2. t.used = u /\ t.spent = p /\ t.active = a /\ t.terminal = b /\ t.slot = c /\ t.slotRes = st.slotRes
  BY <1>1 DEF GatewayState
<1>3. QED
  BY <1>1, <1>2 DEF GatewayState

LEMMA CloseSound ==
  ASSUME NEW st, NEW id \in st.active, NEW event \in {"settled", "released"}, NEW n \in Nat,
         made \in Seq(Handoffs \cup Slots), Len(made) <= MaxIds, Sound(st), n <= Total[made[id]],
         \A k \in KeysOf[made[id]] : st.used[k] + n <= Cap[k] + HeldBy(id)
  PROVE  Sound(Closed(st, id, event, n))
<1>1. PICK t, h, w : t = Closed(st, id, event, n) /\ h = made[id] /\ w = HeldBy(id)
  OBVIOUS
<1>2. st \in GatewayState /\ st.active \subseteq MadeIds /\ SlotsSound(st) /\ Loads(st) /\ Counted(st)
  BY DEF Sound
<1>3. /\ st.used \in [Keys -> Nat] /\ st.spent \in [Keys -> Nat] /\ st.active \in SUBSET Ids
      /\ st.terminal \in Seq([id : Ids, event : {"settled", "released"}])
      /\ st.slot \in [Slots -> {"none", "reserved", "claimed", "settled", "released"}]
      /\ st.slotRes \in [Slots -> {0} \cup Ids]
  BY <1>2 DEF GatewayState
<1>4. /\ t.used = Add(Sub(st.used, h, w), h, n) /\ t.spent = Add(st.spent, h, n) /\ t.active = st.active \ {id}
      /\ t.terminal = Prune(Append(st.terminal, [id |-> id, event |-> event]))
      /\ t.slot = [s \in Slots |-> IF s = h THEN event ELSE st.slot[s]] /\ t.slotRes = st.slotRes
  <2>1. st \in GatewayState
    BY <1>2
  <2>2. Closed(st, id, event, n).used = Add(Sub(st.used, made[id], HeldBy(id)), made[id], n)
    BY <2>1, CloseUsage
  <2>3. Closed(st, id, event, n).spent = Add(st.spent, made[id], n)
    BY <2>1, CloseUsage
  <2>4. Closed(st, id, event, n).active = st.active \ {id} /\ Closed(st, id, event, n).slotRes = st.slotRes
    BY <2>1, CloseUsage
  <2>5. Closed(st, id, event, n).terminal = Prune(Append(st.terminal, [id |-> id, event |-> event]))
    BY <2>1, CloseRecord
  <2>6. Closed(st, id, event, n).slot = [s \in Slots |-> IF s = made[id] THEN event ELSE st.slot[s]]
    BY <2>1, CloseSlot
  <2>7. QED
    BY <1>1, <2>2, <2>3, <2>4, <2>5, <2>6, Zenon
<1>5. /\ t.slot \in [Slots -> {"none", "reserved", "claimed", "settled", "released"}]
      /\ \A s \in Slots : s # h => t.slot[s] = st.slot[s]
      /\ h \in Slots => t.slot[h] = event
  BY <1>3, <1>4
<1>6. /\ h \in Handoffs \cup Slots /\ w \in Nat /\ Total[h] <= w
      /\ IsFiniteSet(HeldSlots(t)) /\ ActiveCount(t) <= MaxActive
      /\ \A k \in Keys : Required(t, k) \in Nat /\ Required(t, k) + Share(h, w, k) = Required(st, k)
  <2>1. /\ \A s \in Slots : s # made[id] => t.slot[s] = st.slot[s]
        /\ made[id] \in Slots => t.slot[made[id]] \in {"settled", "released"}
    BY <1>1, <1>5
  <2>2. t.active = st.active \ {id}
    BY <1>4
  <2>3. QED
    BY <1>1, <1>5, <2>1, <2>2, CloseCounts
<1>7. Total[h] \in Nat /\ n <= w
  <2>1. Total[h] \in Nat
    BY <1>6, Route
  <2>2. QED
    BY <1>1, <1>6, <2>1
<1>8. ASSUME NEW k \in Keys
      PROVE  /\ Share(h, w, k) \in Nat /\ Share(h, n, k) \in Nat /\ Required(st, k) \in Nat
             /\ st.used[k] = Required(st, k) + st.spent[k] /\ st.used[k] <= Cap[k] /\ Cap[k] \in Nat
             /\ st.used[k] >= Share(h, w, k)
  <2>1. Share(h, w, k) \in Nat /\ Share(h, n, k) \in Nat
    BY <1>6, Shares
  <2>2. st.used[k] = Required(st, k) + st.spent[k] /\ st.used[k] <= Cap[k]
    BY <1>2 DEF Counted
  <2>3. Required(t, k) \in Nat /\ Required(t, k) + Share(h, w, k) = Required(st, k)
    BY <1>6
  <2>4. Cap[k] \in Nat /\ st.spent[k] \in Nat /\ st.used[k] \in Nat
    BY <1>3, GatewayConstants
  <2>5. QED
    BY <2>1, <2>2, <2>3, <2>4
<1>9. PICK v : v = Sub(st.used, h, w)
  OBVIOUS
<1>10. v \in [Keys -> Nat] /\ \A k \in Keys : v[k] + Share(h, w, k) = st.used[k]
  <2>1. PICK u : u = st.used
    OBVIOUS
  <2>2. u \in [Keys -> Nat] /\ \A k \in Keys : u[k] >= Share(h, w, k)
    BY <1>3, <1>8, <2>1
  <2>3. /\ Sub(u, h, w) \in [Keys -> Nat]
        /\ \A k \in Keys : u[k] >= Share(h, w, k) => Sub(u, h, w)[k] + Share(h, w, k) = u[k]
    BY <1>6, <2>2, SubIs
  <2>4. QED
    BY <1>9, <2>1, <2>2, <2>3
<1>11. t.used \in [Keys -> Nat] /\ \A k \in Keys : t.used[k] = v[k] + Share(h, n, k)
  BY <1>4, <1>9, <1>10, AddIs
<1>12. t.spent \in [Keys -> Nat] /\ \A k \in Keys : t.spent[k] = st.spent[k] + Share(h, n, k)
  <2>1. PICK u : u = st.spent
    OBVIOUS
  <2>2. Add(u, h, n) \in [Keys -> Nat] /\ \A k \in Keys : Add(u, h, n)[k] = u[k] + Share(h, n, k)
    BY <1>3, <2>1, AddIs
  <2>3. QED
    BY <1>4, <2>1, <2>2
<1>13. PICK r : r = [id |-> id, event |-> event]
  OBVIOUS
<1>14. r \in [id : Ids, event : {"settled", "released"}]
  BY <1>3, <1>13
<1>15. /\ t.terminal \in Seq([id : Ids, event : {"settled", "released"}]) /\ Len(t.terminal) <= MaxTerminal
       /\ \A i \in DOMAIN t.terminal : t.terminal[i] = r \/ \E j \in DOMAIN st.terminal : t.terminal[i] = st.terminal[j]
  <2>1. PICK R, b : R = [id : Ids, event : {"settled", "released"}] /\ b = Append(st.terminal, r)
    OBVIOUS
  <2>2. b \in Seq(R) /\ \A j \in DOMAIN b : b[j] = r \/ (j \in DOMAIN st.terminal /\ b[j] = st.terminal[j])
    <3>1. st.terminal \in Seq(R) /\ r \in R
      BY <1>3, <1>14, <2>1
    <3>2. PICK c : c = st.terminal
      OBVIOUS
    <3>3. c \in Seq(R) /\ b = Append(c, r)
      BY <2>1, <3>1, <3>2
    <3>4. b \in Seq(R) /\ \A j \in DOMAIN b : b[j] = r \/ (j \in DOMAIN c /\ b[j] = c[j])
      BY <3>1, <3>3, AppendIs
    <3>5. QED
      BY <3>2, <3>4
  <2>3. t.terminal = Prune(b)
    BY <1>4, <1>13, <2>1
  <2>4. /\ Prune(b) \in Seq(R) /\ Len(Prune(b)) <= MaxTerminal
        /\ \A i \in DOMAIN Prune(b) : \E j \in DOMAIN b : Prune(b)[i] = b[j]
    BY <2>2, PruneIs
  <2>5. \A i \in DOMAIN Prune(b) : Prune(b)[i] = r \/ \E j \in DOMAIN st.terminal : Prune(b)[i] = st.terminal[j]
    BY <2>2, <2>4
  <2>6. QED
    BY <2>1, <2>3, <2>4, <2>5
<1>16. t \in GatewayState
  <2>1. t.active \in SUBSET Ids
    BY <1>3, <1>4
  <2>2. QED
    BY <1>1, <1>2, <1>3, <1>4, <1>5, <1>11, <1>12, <1>15, <2>1, CloseType
<1>17. TerminalIds(t) \subseteq TerminalIds(st) \cup {id}
  BY <1>13, <1>15 DEF TerminalIds
<1>18. Loads(t)
  <2>1. Cardinality(InUse(t.used)) <= MaxKeys
    <3>1. ASSUME NEW k \in InUse(t.used) PROVE k \in InUse(st.used)
      <4>1. k \in Keys /\ t.used[k] > 0
        BY DEF InUse
      <4>2. t.used[k] = v[k] + Share(h, n, k) /\ v[k] + Share(h, w, k) = st.used[k]
        BY <1>10, <1>11, <4>1
      <4>3. v[k] \in Nat /\ Share(h, n, k) <= Share(h, w, k) /\ Share(h, w, k) \in Nat /\ Share(h, n, k) \in Nat
        BY <1>6, <1>7, <1>8, <1>10, <4>1 DEF Share
      <4>4. st.used[k] > 0
        BY <4>1, <4>2, <4>3
      <4>5. QED
        BY <4>1, <4>4 DEF InUse
    <3>2. IsFiniteSet(InUse(st.used))
      BY GatewayConstants, FS_Subset DEF InUse
    <3>3. PICK a, b : a = Cardinality(InUse(t.used)) /\ b = Cardinality(InUse(st.used))
      OBVIOUS
    <3>4. a \in Nat /\ b \in Nat /\ a <= b
      BY <3>1, <3>2, <3>3, FS_Subset, FS_CardinalityType
    <3>5. MaxKeys \in Nat /\ b <= MaxKeys
      BY <1>2, <3>3, GatewayConstants DEF Loads
    <3>6. QED
      BY <3>3, <3>4, <3>5
  <2>2. TerminalIds(t) \cap t.active = {} /\ TerminalIds(t) \subseteq MadeIds
    BY <1>2, <1>4, <1>17 DEF Loads
  <2>3. \A i, j \in t.active : made[i] = made[j] => i = j
    BY <1>2, <1>4 DEF Loads
  <2>4. QED
    BY <1>6, <1>15, <2>1, <2>2, <2>3 DEF Loads
<1>19. SlotsSound(t)
  <2>1. h \in Slots => st.slot[h] = "claimed" /\ st.slotRes[h] = id
    BY <1>1, <1>2 DEF SlotsSound
  <2>2. ASSUME NEW i \in t.active, made[i] \in Slots
        PROVE  t.slot[made[i]] = "claimed" /\ t.slotRes[made[i]] = i
    <3>1. i \in st.active /\ i # id
      BY <1>4
    <3>2. made[i] # h
      BY <1>1, <1>2, <3>1 DEF Loads
    <3>3. st.slot[made[i]] = "claimed" /\ st.slotRes[made[i]] = i
      BY <1>2, <2>2, <3>1 DEF SlotsSound
    <3>4. QED
      BY <1>4, <1>5, <2>2, <3>2, <3>3
  <2>3. ASSUME NEW s \in Slots
        PROVE  /\ t.slot[s] \in {"none", "reserved"} => t.slotRes[s] = 0
               /\ t.slot[s] \in {"claimed", "settled"} => t.slotRes[s] # 0
               /\ t.slot[s] = "claimed" => t.slotRes[s] \in t.active
               /\ t.slotRes[s] # 0 => t.slotRes[s] \in MadeIds /\ made[t.slotRes[s]] = s
    <3>1. /\ st.slot[s] \in {"none", "reserved"} => st.slotRes[s] = 0
          /\ st.slot[s] \in {"claimed", "settled"} => st.slotRes[s] # 0
          /\ st.slot[s] = "claimed" => st.slotRes[s] \in st.active
          /\ st.slotRes[s] # 0 => st.slotRes[s] \in MadeIds /\ made[st.slotRes[s]] = s
      BY <1>2 DEF SlotsSound
    <3>2. t.slotRes[s] = st.slotRes[s]
      BY <1>4
    <3>3. CASE s = h
      BY <1>5, <3>1, <3>2, <3>3, <2>1
    <3>4. CASE s # h
      <4>1. t.slot[s] = st.slot[s]
        BY <1>5, <3>4
      <4>2. st.slot[s] = "claimed" => st.slotRes[s] # id
        BY <1>1, <3>1, <3>4
      <4>3. QED
        BY <1>4, <3>1, <3>2, <4>1, <4>2
    <3>5. QED
      BY <3>3, <3>4
  <2>4. ASSUME NEW g \in Groups, NEW p \in SlotSet(g), NEW q \in SlotSet(g), t.slot[p] = "none"
        PROVE  t.slot[q] = "none"
    <3>1. p \in Slots /\ q \in Slots
      BY GroupSlots
    <3>2. st.slot[p] = "none"
      BY <1>5, <2>4, <3>1
    <3>3. st.slot[q] = "none"
      BY <1>2, <3>2 DEF SlotsSound
    <3>4. q # h
      BY <2>1, <3>1, <3>3
    <3>5. QED
      BY <1>5, <3>1, <3>3, <3>4
  <2>5. ASSUME NEW g \in Groups, NEW i \in DOMAIN SlotsOf[g], NEW j \in DOMAIN SlotsOf[g],
               i < j, t.slot[SlotsOf[g][j]] = "claimed"
        PROVE  t.slot[SlotsOf[g][i]] # "reserved"
    <3>1. SlotsOf[g][i] \in Slots /\ SlotsOf[g][j] \in Slots
      <4>1. SlotsOf[g] \in Seq(Slots)
        BY GroupSlots
      <4>2. QED
        BY <4>1
    <3>2. st.slot[SlotsOf[g][j]] = "claimed"
      BY <1>5, <2>5, <3>1
    <3>3. st.slot[SlotsOf[g][i]] # "reserved"
      BY <1>2, <2>5, <3>2 DEF SlotsSound
    <3>4. QED
      BY <1>5, <3>1, <3>3
  <2>6. \A g \in Groups :
          /\ \A p, q \in SlotSet(g) : t.slot[p] = "none" => t.slot[q] = "none"
          /\ \A i, j \in DOMAIN SlotsOf[g] :
               i < j /\ t.slot[SlotsOf[g][j]] = "claimed" => t.slot[SlotsOf[g][i]] # "reserved"
    BY <2>4, <2>5
  <2>7. QED
    BY <1>6, <2>2, <2>3, <2>6 DEF SlotsSound
<1>20. Counted(t)
  <2>1. ASSUME NEW k \in Keys PROVE t.used[k] = Required(t, k) + t.spent[k] /\ t.used[k] <= Cap[k]
    <3>1. t.used[k] = v[k] + Share(h, n, k) /\ v[k] + Share(h, w, k) = st.used[k] /\ v[k] \in Nat
      BY <1>10, <1>11
    <3>2. t.spent[k] = st.spent[k] + Share(h, n, k) /\ st.spent[k] \in Nat /\ st.used[k] \in Nat
      BY <1>3, <1>12
    <3>3. /\ Share(h, w, k) \in Nat /\ Share(h, n, k) \in Nat /\ Required(st, k) \in Nat
          /\ st.used[k] = Required(st, k) + st.spent[k] /\ st.used[k] <= Cap[k] /\ Cap[k] \in Nat
      BY <1>8
    <3>4. Required(t, k) \in Nat /\ Required(t, k) + Share(h, w, k) = Required(st, k)
      BY <1>6
    <3>5. t.used[k] = Required(t, k) + t.spent[k]
      <4>1. PICK a, b, c, d : a = Required(t, k) /\ b = Required(st, k) /\ c = Share(h, w, k) /\ d = Share(h, n, k)
        OBVIOUS
      <4>2. PICK e, f, i : e = v[k] /\ f = st.spent[k] /\ i = st.used[k]
        OBVIOUS
      <4>3. /\ a \in Nat /\ b \in Nat /\ c \in Nat /\ d \in Nat /\ e \in Nat /\ f \in Nat
            /\ e + c = i /\ i = b + f /\ a + c = b
        BY <3>1, <3>2, <3>3, <3>4, <4>1, <4>2
      <4>4. e + d = a + (f + d)
        <5>1. e + c = b + f
          BY <4>3, Zenon
        <5>2. a \in Nat /\ c \in Nat /\ d \in Nat /\ e \in Nat /\ f \in Nat
          BY <4>3, Zenon
        <5>3. e + c = (a + c) + f
          BY <4>3, <5>1, Zenon
        <5>4. e = a + f
          BY <5>2, <5>3
        <5>5. QED
          BY <5>2, <5>4
      <4>5. t.used[k] = e + d /\ t.spent[k] = f + d
        BY <3>1, <3>2, <4>1, <4>2, Zenon
      <4>6. QED
        BY <4>1, <4>4, <4>5, Zenon
    <3>6. st.used[k] + Share(h, n, k) <= Cap[k] + Share(h, w, k)
      <4>1. CASE k \in KeysOf[h]
        BY <1>1, <4>1 DEF Share
      <4>2. CASE k \notin KeysOf[h]
        BY <3>2, <3>3, <4>2 DEF Share
      <4>3. QED
        BY <4>1, <4>2
    <3>7. t.used[k] <= Cap[k]
      <4>1. PICK c, d, e, i, z : /\ c = Share(h, w, k) /\ d = Share(h, n, k)
                                 /\ e = v[k] /\ i = st.used[k] /\ z = Cap[k]
        OBVIOUS
      <4>2. c \in Nat /\ d \in Nat /\ e \in Nat /\ z \in Nat
        BY <3>1, <3>3, <4>1, Zenon
      <4>3. e + c = i /\ i + d <= z + c /\ t.used[k] = e + d
        BY <3>1, <3>6, <4>1, Zenon
      <4>4. (e + c) + d <= z + c
        BY <4>3, Zenon
      <4>5. e + d <= z
        BY <4>2, <4>4
      <4>6. QED
        BY <4>1, <4>3, <4>5, Zenon
    <3>8. QED
      BY <3>5, <3>7
  <2>2. Balanced(t.used)
    <3>1. Balanced(st.used)
      BY <1>2 DEF Counted
    <3>2. Balanced(v)
      BY <1>3, <1>6, <1>8, <1>9, <3>1, SubBalanced
    <3>3. Balanced(Add(v, h, n))
      BY <1>6, <1>10, <3>2, AddBalanced
    <3>4. QED
      BY <1>4, <1>9, <3>3
  <2>3. QED
    BY <2>1, <2>2 DEF Counted
<1>21. t.active \subseteq MadeIds
  BY <1>2, <1>4
<1>22. QED
  BY <1>1, <1>16, <1>18, <1>19, <1>20, <1>21 DEF Sound

-----------------------------------------------------------------------------
(* Slots that lose their hold without a reservation *)

LEMMA Dropped ==
  ASSUME NEW a \in Nat, NEW b \in Nat, NEW c \in Nat, NEW e \in Nat, NEW f \in Nat, NEW m \in Nat,
         e + b = c + f, a + b = c, c + f <= m
  PROVE  e = a + f /\ e <= m
OBVIOUS

LEMMA DropSound ==
  ASSUME NEW st, NEW t \in GatewayState, NEW h \in Slots, st.slot[h] = "reserved", Sound(st),
         made \in Seq(Handoffs \cup Slots), Len(made) <= MaxIds,
         t.used = Sub(st.used, h, Hold[h]), t.spent = st.spent, t.active = st.active,
         t.terminal = st.terminal, t.slotRes = st.slotRes,
         t.slot[h] = "released", \A s \in Slots : s # h => t.slot[s] = st.slot[s]
  PROVE  Sound(t)
<1>1. PICK w, O, H, v : w = Hold[h] /\ O = Ordinary(st) /\ H = HeldSlots(st) /\ v = st.used
  OBVIOUS
<1>2. st \in GatewayState /\ st.active \subseteq MadeIds /\ SlotsSound(st) /\ Loads(st) /\ Counted(st)
  BY DEF Sound
<1>3. IsFiniteSet(H) /\ h \in H /\ HeldSlots(t) = H \ {h} /\ Ordinary(t) = O /\ w \in Nat /\ H \subseteq Slots
  <2>1. IsFiniteSet(H) /\ Ordinary(t) = O /\ w \in Nat /\ H \subseteq Slots /\ h \in H
    BY <1>1, <1>2, Route DEF SlotsSound, Ordinary, HeldSlots
  <2>2. HeldSlots(t) = H \ {h}
    BY <1>1 DEF HeldSlots
  <2>3. QED
    BY <2>1, <2>2
<1>4. Cardinality(O) \in Nat /\ Cardinality(H) \in Nat /\ Cardinality(H) + Cardinality(O) <= MaxActive
  <2>1. Cardinality(O) \in Nat /\ Cardinality(H) \in Nat
    BY <1>1, <1>2, <1>3, Counts
  <2>2. QED
    BY <1>1, <1>2, <2>1 DEF Loads, ActiveCount
<1>5. ASSUME NEW k \in Keys
      PROVE  /\ Required(t, k) \in Nat /\ Required(t, k) + Share(h, w, k) = Required(st, k)
             /\ Share(h, w, k) \in Nat
  <2>1. PICK f, a : f = Holds(k) /\ a = SumFunctionOnSet(Asked(k), O)
    OBVIOUS
  <2>2. \A x \in H : f[x] = Share(x, Hold[x], k) /\ f[x] \in Nat
    BY <1>3, <2>1, HoldsIs
  <2>3. SumFunctionOnSet(f, H) = f[h] + SumFunctionOnSet(f, H \ {h})
    BY <1>3, <2>2, SumTake
  <2>4. SumFunctionOnSet(f, H \ {h}) \in Nat
    <3>1. IsFiniteSet(H \ {h}) /\ \A x \in H \ {h} : f[x] \in Nat
      BY <1>3, <2>2, FS_Subset
    <3>2. QED
      BY <3>1, SumNat
  <2>5. a \in Nat
    BY <1>1, <1>2, <1>3, <2>1, Counts
  <2>6. Required(t, k) = a + SumFunctionOnSet(f, H \ {h}) /\ Required(st, k) = a + SumFunctionOnSet(f, H)
    BY <1>1, <1>3, <2>1 DEF Required
  <2>7. f[h] = Share(h, w, k) /\ f[h] \in Nat
    BY <1>1, <1>3, <2>2
  <2>8. QED
    BY <2>3, <2>4, <2>5, <2>6, <2>7
<1>6. ASSUME NEW k \in Keys
      PROVE  /\ st.used[k] \in Nat /\ st.spent[k] \in Nat /\ Cap[k] \in Nat
             /\ st.used[k] = Required(st, k) + st.spent[k] /\ st.used[k] <= Cap[k]
  BY <1>2, GatewayConstants DEF GatewayState, Counted
<1>7. v \in [Keys -> Nat] /\ \A k \in Keys : v[k] >= Share(h, w, k)
  <2>1. v \in [Keys -> Nat]
    BY <1>1, <1>2 DEF GatewayState
  <2>2. ASSUME NEW k \in Keys PROVE v[k] >= Share(h, w, k)
    BY <1>1, <1>5, <1>6
  <2>3. QED
    BY <2>1, <2>2
<1>8. t.used \in [Keys -> Nat] /\ \A k \in Keys : t.used[k] + Share(h, w, k) = st.used[k]
  <2>1. /\ Sub(v, h, w) \in [Keys -> Nat]
        /\ \A k \in Keys : v[k] >= Share(h, w, k) => Sub(v, h, w)[k] + Share(h, w, k) = v[k]
    BY <1>3, <1>7, SubIs
  <2>2. t.used = Sub(v, h, w)
    BY <1>1
  <2>3. QED
    BY <1>1, <1>7, <2>1, <2>2
<1>9. Loads(t)
  <2>1. Cardinality(InUse(t.used)) <= MaxKeys
    <3>1. InUse(t.used) \subseteq InUse(st.used)
      BY <1>5, <1>6, <1>8 DEF InUse
    <3>2. IsFiniteSet(InUse(st.used))
      BY GatewayConstants, FS_Subset DEF InUse
    <3>3. PICK a, b : a = Cardinality(InUse(t.used)) /\ b = Cardinality(InUse(st.used))
      OBVIOUS
    <3>4. a \in Nat /\ b \in Nat /\ a <= b
      BY <3>1, <3>2, <3>3, FS_Subset, FS_CardinalityType
    <3>5. MaxKeys \in Nat /\ b <= MaxKeys
      BY <1>2, <3>3, GatewayConstants DEF Loads
    <3>6. QED
      BY <3>3, <3>4, <3>5
  <2>2. ActiveCount(t) <= MaxActive
    <3>1. Cardinality(H \ {h}) = Cardinality(H) - 1
      BY <1>3, FS_RemoveElement
    <3>2. ActiveCount(t) = Cardinality(H \ {h}) + Cardinality(O)
      BY <1>3 DEF ActiveCount
    <3>3. MaxActive \in Nat
      BY GatewayConstants
    <3>4. QED
      BY <1>4, <3>1, <3>2, <3>3
  <2>3. TerminalIds(t) = TerminalIds(st)
    BY DEF TerminalIds
  <2>4. QED
    BY <1>2, <2>1, <2>2, <2>3 DEF Loads
<1>10. SlotsSound(t)
  <2>1. ASSUME NEW i \in t.active, made[i] \in Slots
        PROVE  t.slot[made[i]] = "claimed" /\ t.slotRes[made[i]] = i
    <3>1. st.slot[made[i]] = "claimed" /\ st.slotRes[made[i]] = i
      BY <1>2, <2>1 DEF SlotsSound
    <3>2. made[i] # h
      BY <3>1
    <3>3. QED
      BY <2>1, <3>1, <3>2
  <2>2. ASSUME NEW s \in Slots
        PROVE  /\ t.slot[s] \in {"none", "reserved"} => t.slotRes[s] = 0
               /\ t.slot[s] \in {"claimed", "settled"} => t.slotRes[s] # 0
               /\ t.slot[s] = "claimed" => t.slotRes[s] \in t.active
               /\ t.slotRes[s] # 0 => t.slotRes[s] \in MadeIds /\ made[t.slotRes[s]] = s
    <3>1. /\ st.slot[s] \in {"none", "reserved"} => st.slotRes[s] = 0
          /\ st.slot[s] \in {"claimed", "settled"} => st.slotRes[s] # 0
          /\ st.slot[s] = "claimed" => st.slotRes[s] \in st.active
          /\ st.slotRes[s] # 0 => st.slotRes[s] \in MadeIds /\ made[st.slotRes[s]] = s
      BY <1>2 DEF SlotsSound
    <3>2. CASE s = h
      BY <3>1, <3>2
    <3>3. CASE s # h
      BY <3>1, <3>3
    <3>4. QED
      BY <3>2, <3>3
  <2>3. ASSUME NEW g \in Groups, NEW p \in SlotSet(g), NEW q \in SlotSet(g), t.slot[p] = "none"
        PROVE  t.slot[q] = "none"
    <3>1. p \in Slots /\ q \in Slots
      BY GroupSlots
    <3>2. st.slot[p] = "none"
      BY <2>3, <3>1
    <3>3. st.slot[q] = "none"
      BY <1>2, <3>2 DEF SlotsSound
    <3>4. QED
      BY <3>1, <3>3
  <2>4. ASSUME NEW g \in Groups, NEW i \in DOMAIN SlotsOf[g], NEW j \in DOMAIN SlotsOf[g],
               i < j, t.slot[SlotsOf[g][j]] = "claimed"
        PROVE  t.slot[SlotsOf[g][i]] # "reserved"
    <3>1. SlotsOf[g][i] \in Slots /\ SlotsOf[g][j] \in Slots
      <4>1. SlotsOf[g] \in Seq(Slots)
        BY GroupSlots
      <4>2. QED
        BY <4>1
    <3>2. st.slot[SlotsOf[g][j]] = "claimed"
      BY <2>4, <3>1
    <3>3. st.slot[SlotsOf[g][i]] # "reserved"
      BY <1>2, <2>4, <3>2 DEF SlotsSound
    <3>4. QED
      BY <3>1, <3>3
  <2>5. \A g \in Groups :
          /\ \A p, q \in SlotSet(g) : t.slot[p] = "none" => t.slot[q] = "none"
          /\ \A i, j \in DOMAIN SlotsOf[g] :
               i < j /\ t.slot[SlotsOf[g][j]] = "claimed" => t.slot[SlotsOf[g][i]] # "reserved"
    BY <2>3, <2>4
  <2>6. IsFiniteSet(HeldSlots(t))
    BY <1>3, FS_Subset
  <2>7. QED
    BY <2>1, <2>2, <2>5, <2>6 DEF SlotsSound
<1>11. Counted(t)
  <2>1. ASSUME NEW k \in Keys PROVE t.used[k] = Required(t, k) + t.spent[k] /\ t.used[k] <= Cap[k]
    <3>1. t.used[k] + Share(h, w, k) = st.used[k] /\ t.used[k] \in Nat
      BY <1>8
    <3>2. PICK a, b, c : a = Required(t, k) /\ b = Share(h, w, k) /\ c = Required(st, k)
      OBVIOUS
    <3>3. a \in Nat /\ b \in Nat /\ a + b = c
      BY <1>5, <3>2
    <3>4. /\ st.used[k] \in Nat /\ st.spent[k] \in Nat /\ Cap[k] \in Nat
          /\ st.used[k] = c + st.spent[k] /\ st.used[k] <= Cap[k]
      BY <1>6, <3>2
    <3>5. PICK e, f, i, m : e = t.used[k] /\ f = st.spent[k] /\ i = st.used[k] /\ m = Cap[k]
      OBVIOUS
    <3>6. /\ a \in Nat /\ b \in Nat /\ c \in Nat /\ e \in Nat /\ f \in Nat /\ m \in Nat
          /\ e + b = i /\ i = c + f /\ a + b = c /\ i <= m
      <4>1. a \in Nat /\ b \in Nat /\ a + b = c /\ c \in Nat
        BY <3>3
      <4>2. e \in Nat /\ e + b = i
        BY <3>1, <3>2, <3>5
      <4>3. f \in Nat /\ m \in Nat /\ i = c + f /\ i <= m
        BY <3>4, <3>5
      <4>4. QED
        BY <4>1, <4>2, <4>3
    <3>7. e = a + f /\ e <= m
      BY <3>6, Dropped
    <3>8. QED
      BY <3>2, <3>5, <3>7
  <2>2. Balanced(v)
    BY <1>1, <1>2 DEF Counted
  <2>3. h \in Handoffs \cup Slots
    OBVIOUS
  <2>4. Balanced(Sub(v, h, w))
    BY <1>3, <1>7, <2>2, <2>3, SubBalanced
  <2>5. QED
    BY <1>1, <2>1, <2>4 DEF Counted
<1>12. QED
  BY <1>2, <1>9, <1>10, <1>11 DEF Sound

-----------------------------------------------------------------------------
(* reserveGroup *)

LEMMA SumUnion ==
  ASSUME NEW f, NEW S, NEW T, IsFiniteSet(S), IsFiniteSet(T), S \cap T = {}, \A x \in S \cup T : f[x] \in Nat
  PROVE  SumFunctionOnSet(f, S \cup T) = SumFunctionOnSet(f, S) + SumFunctionOnSet(f, T)
<1> DEFINE C == {R \in SUBSET T : SumFunctionOnSet(f, S \cup R) = SumFunctionOnSet(f, S) + SumFunctionOnSet(f, R)}
<1>1. SumFunctionOnSet(f, S) \in Nat
  BY SumNat
<1>2. {} \in C
  <2>1. S \cup {} = S /\ SumFunctionOnSet(f, {}) = 0
    BY SumNothing
  <2>2. QED
    BY <1>1, <2>1
<1>3. ASSUME NEW R \in C, NEW x \in T \ R PROVE R \cup {x} \in C
  <2>1. /\ IsFiniteSet(R) /\ IsFiniteSet(S \cup R) /\ x \notin R /\ x \notin S \cup R
        /\ R \cup {x} \in SUBSET T /\ S \cup (R \cup {x}) = (S \cup R) \cup {x}
    BY <1>3, FS_Subset, FS_Union
  <2>2. \A y \in (S \cup R) \cup {x} : f[y] \in Nat
    BY <2>1
  <2>3. SumFunctionOnSet(f, (S \cup R) \cup {x}) = f[x] + SumFunctionOnSet(f, S \cup R)
    BY <2>1, <2>2, SumPut
  <2>4. SumFunctionOnSet(f, R \cup {x}) = f[x] + SumFunctionOnSet(f, R)
    <3>1. \A y \in R \cup {x} : f[y] \in Nat
      BY <2>2
    <3>2. QED
      BY <2>1, <3>1, SumPut
  <2>5. SumFunctionOnSet(f, R) \in Nat /\ f[x] \in Nat
    <3>1. \A y \in R : f[y] \in Nat
      BY <2>2
    <3>2. QED
      BY <2>1, <2>2, <3>1, SumNat
  <2>6. SumFunctionOnSet(f, S \cup R) = SumFunctionOnSet(f, S) + SumFunctionOnSet(f, R)
    BY <1>3
  <2>7. SumFunctionOnSet(f, S \cup (R \cup {x})) = SumFunctionOnSet(f, S) + SumFunctionOnSet(f, R \cup {x})
    <3>1. PICK a, b, c, d : /\ a = SumFunctionOnSet(f, S) /\ b = SumFunctionOnSet(f, R) /\ c = f[x]
                            /\ d = SumFunctionOnSet(f, S \cup (R \cup {x}))
      OBVIOUS
    <3>2. a \in Nat /\ b \in Nat /\ c \in Nat /\ d = c + (a + b)
      BY <1>1, <2>1, <2>3, <2>5, <2>6, <3>1
    <3>3. d = a + (c + b)
      BY <3>2
    <3>4. QED
      BY <2>4, <3>1, <3>3
  <2>8. QED
    BY <2>1, <2>7
<1>4. C \in SUBSET SUBSET T
  OBVIOUS
<1>5. T \in C
  <2> HIDE DEF C
  <2>1. QED
    BY <1>2, <1>3, <1>4, OneByOne
<1>6. QED
  BY <1>5

LEMMA GroupSound ==
  ASSUME NEW st, NEW t \in GatewayState, NEW g \in Groups, Sound(st),
         made \in Seq(Handoffs \cup Slots), Len(made) <= MaxIds,
         \A s \in SlotSet(g) : st.slot[s] = "none",
         ActiveCount(st) + Cardinality(SlotSet(g)) <= MaxActive,
         \A k \in Keys : st.used[k] + GroupUsage(g)[k] <= Cap[k],
         Cardinality(InUse(st.used) \cup InUse(GroupUsage(g))) <= MaxKeys,
         t.used = [k \in Keys |-> st.used[k] + GroupUsage(g)[k]],
         t.slot = [s \in Slots |-> IF s \in SlotSet(g) THEN "reserved" ELSE st.slot[s]],
         t.spent = st.spent, t.active = st.active, t.terminal = st.terminal, t.slotRes = st.slotRes
  PROVE  Sound(t)
<1>1. PICK O, H, G, v : O = Ordinary(st) /\ H = HeldSlots(st) /\ G = SlotSet(g) /\ v = st.used
  OBVIOUS
<1>2. st \in GatewayState /\ st.active \subseteq MadeIds /\ SlotsSound(st) /\ Loads(st) /\ Counted(st)
  BY DEF Sound
<1>3. /\ G \subseteq Slots /\ IsFiniteSet(G) /\ Cardinality(G) \in Nat
      /\ IsFiniteSet(H) /\ H \subseteq Slots /\ H \cap G = {}
  BY <1>1, <1>2, GroupSlots DEF SlotsSound, HeldSlots
<1>4. /\ \A s \in G : t.slot[s] = "reserved" /\ t.slotRes[s] = 0
      /\ \A s \in Slots \ G : t.slot[s] = st.slot[s] /\ t.slotRes[s] = st.slotRes[s]
  BY <1>1, <1>2, <1>3 DEF SlotsSound
<1>5. HeldSlots(t) = H \cup G /\ Ordinary(t) = O
  <2>1. ASSUME NEW s \in Slots PROVE s \in HeldSlots(t) <=> s \in H \cup G
    <3>1. CASE s \in G
      BY <1>4, <3>1 DEF HeldSlots
    <3>2. CASE s \notin G
      BY <1>1, <1>4, <3>2 DEF HeldSlots
    <3>3. QED
      BY <3>1, <3>2
  <2>2. HeldSlots(t) \subseteq Slots
    BY DEF HeldSlots
  <2>3. Ordinary(t) = O
    BY <1>1 DEF Ordinary
  <2>4. QED
    BY <1>3, <2>1, <2>2, <2>3
<1>6. Cardinality(O) \in Nat /\ Cardinality(H) \in Nat
  BY <1>1, <1>2, <1>3, Counts
<1>7. v \in [Keys -> Nat] /\ Balanced(v)
  BY <1>1, <1>2 DEF GatewayState, Counted
<1>8. GroupUsage(g) \in [Keys -> Nat] /\ Balanced(t.used)
  BY <1>1, <1>7, GroupBalanced
<1>9. \A k \in Keys : t.used[k] = st.used[k] + GroupUsage(g)[k]
  OBVIOUS
<1>10. Loads(t)
  <2>1. Cardinality(InUse(t.used)) <= MaxKeys
    <3>1. InUse(t.used) \subseteq InUse(st.used) \cup InUse(GroupUsage(g))
      BY <1>1, <1>7, <1>8, <1>9 DEF InUse
    <3>2. IsFiniteSet(InUse(st.used) \cup InUse(GroupUsage(g)))
      BY GatewayConstants, FS_Subset DEF InUse
    <3>3. PICK a, b : a = Cardinality(InUse(t.used)) /\ b = Cardinality(InUse(st.used) \cup InUse(GroupUsage(g)))
      OBVIOUS
    <3>4. a \in Nat /\ b \in Nat /\ a <= b
      BY <3>1, <3>2, <3>3, FS_Subset, FS_CardinalityType
    <3>5. MaxKeys \in Nat /\ b <= MaxKeys
      BY <3>3, GatewayConstants
    <3>6. QED
      BY <3>3, <3>4, <3>5
  <2>2. ActiveCount(t) <= MaxActive
    <3>1. Cardinality(H \cup G) = Cardinality(H) + Cardinality(G)
      <4>1. Cardinality(H \cup G) = Cardinality(H) + Cardinality(G) - Cardinality({})
        BY <1>3, FS_Union
      <4>2. Cardinality({}) = 0
        BY FS_EmptySet
      <4>3. QED
        BY <1>3, <1>6, <4>1, <4>2
    <3>2. ActiveCount(t) = Cardinality(H \cup G) + Cardinality(O)
      BY <1>5 DEF ActiveCount
    <3>3. (Cardinality(H) + Cardinality(O)) + Cardinality(G) <= MaxActive /\ MaxActive \in Nat
      BY <1>1, GatewayConstants DEF ActiveCount
    <3>4. QED
      BY <1>3, <1>6, <3>1, <3>2, <3>3
  <2>3. TerminalIds(t) = TerminalIds(st)
    BY DEF TerminalIds
  <2>4. QED
    BY <1>2, <2>1, <2>2, <2>3 DEF Loads
<1>11. SlotsSound(t)
  <2>1. ASSUME NEW i \in t.active, made[i] \in Slots
        PROVE  t.slot[made[i]] = "claimed" /\ t.slotRes[made[i]] = i
    <3>1. st.slot[made[i]] = "claimed" /\ st.slotRes[made[i]] = i
      BY <1>2, <2>1 DEF SlotsSound
    <3>2. made[i] \notin G
      BY <1>1, <3>1
    <3>3. QED
      BY <1>4, <2>1, <3>1, <3>2
  <2>2. ASSUME NEW s \in Slots
        PROVE  /\ t.slot[s] \in {"none", "reserved"} => t.slotRes[s] = 0
               /\ t.slot[s] \in {"claimed", "settled"} => t.slotRes[s] # 0
               /\ t.slot[s] = "claimed" => t.slotRes[s] \in t.active
               /\ t.slotRes[s] # 0 => t.slotRes[s] \in MadeIds /\ made[t.slotRes[s]] = s
    <3>1. CASE s \in G
      BY <1>4, <3>1
    <3>2. CASE s \notin G
      <4>1. t.slot[s] = st.slot[s] /\ t.slotRes[s] = st.slotRes[s]
        BY <1>4, <3>2
      <4>2. QED
        BY <1>2, <4>1 DEF SlotsSound
    <3>3. QED
      BY <3>1, <3>2
  <2>3. ASSUME NEW f \in Groups, f # g, NEW p \in SlotSet(f) PROVE p \in Slots \ G
    <3>1. p \in Slots
      BY GroupSlots
    <3>2. Range(SlotsOf[f]) \cap Range(SlotsOf[g]) = {}
      BY <2>3, GatewayConstants
    <3>3. QED
      BY <1>1, <3>1, <3>2 DEF SlotSet
  <2>4. ASSUME NEW f \in Groups, NEW p \in SlotSet(f), NEW q \in SlotSet(f), t.slot[p] = "none"
        PROVE  t.slot[q] = "none"
    <3>1. f # g
      BY <1>1, <1>4, <2>4
    <3>2. p \in Slots \ G /\ q \in Slots \ G
      BY <2>3, <3>1
    <3>3. st.slot[p] = "none"
      BY <1>4, <2>4, <3>2
    <3>4. st.slot[q] = "none"
      BY <1>2, <3>3 DEF SlotsSound
    <3>5. QED
      BY <1>4, <3>2, <3>4
  <2>5. ASSUME NEW f \in Groups, NEW i \in DOMAIN SlotsOf[f], NEW j \in DOMAIN SlotsOf[f],
               i < j, t.slot[SlotsOf[f][j]] = "claimed"
        PROVE  t.slot[SlotsOf[f][i]] # "reserved"
    <3>1. SlotsOf[f][i] \in SlotSet(f) /\ SlotsOf[f][j] \in SlotSet(f)
      <4>1. DOMAIN SlotsOf[f] = 1 .. Len(SlotsOf[f])
        BY GroupSlots
      <4>2. QED
        BY <4>1, GroupSlots
    <3>2. f # g
      BY <1>1, <1>4, <2>5, <3>1
    <3>3. SlotsOf[f][i] \in Slots \ G /\ SlotsOf[f][j] \in Slots \ G
      BY <2>3, <3>1, <3>2
    <3>4. st.slot[SlotsOf[f][j]] = "claimed"
      BY <1>4, <2>5, <3>3
    <3>5. st.slot[SlotsOf[f][i]] # "reserved"
      BY <1>2, <2>5, <3>4 DEF SlotsSound
    <3>6. QED
      BY <1>4, <3>3, <3>5
  <2>6. \A f \in Groups :
          /\ \A p, q \in SlotSet(f) : t.slot[p] = "none" => t.slot[q] = "none"
          /\ \A i, j \in DOMAIN SlotsOf[f] :
               i < j /\ t.slot[SlotsOf[f][j]] = "claimed" => t.slot[SlotsOf[f][i]] # "reserved"
    BY <2>4, <2>5
  <2>7. IsFiniteSet(HeldSlots(t))
    <3>1. IsFiniteSet(H \cup G)
      BY <1>3, FS_Union
    <3>2. QED
      BY <1>5, <3>1
  <2>8. QED
    BY <2>1, <2>2, <2>6, <2>7 DEF SlotsSound
<1>12. Counted(t)
  <2>1. ASSUME NEW k \in Keys PROVE t.used[k] = Required(t, k) + t.spent[k] /\ t.used[k] <= Cap[k]
    <3>1. PICK f, a, b, c : /\ f = Holds(k) /\ a = SumFunctionOnSet(Asked(k), O)
                            /\ b = SumFunctionOnSet(Holds(k), H) /\ c = SumFunctionOnSet(Holds(k), G)
      OBVIOUS
    <3>2. \A x \in H \cup G : f[x] \in Nat
      BY <1>3, <3>1, HoldsIs
    <3>3. SumFunctionOnSet(f, H \cup G) = b + c
      BY <1>3, <3>1, <3>2, SumUnion
    <3>4. a \in Nat /\ b \in Nat
      BY <1>1, <1>2, <1>3, <3>1, Counts
    <3>5. GroupUsage(g)[k] = c /\ c \in Nat
      BY <1>1, <1>8, <3>1 DEF GroupUsage
    <3>6. Required(t, k) = a + (b + c) /\ Required(st, k) = a + b
      BY <1>1, <1>5, <3>1, <3>3 DEF Required
    <3>7. st.used[k] = Required(st, k) + st.spent[k] /\ st.spent[k] \in Nat
      BY <1>2 DEF Counted, GatewayState
    <3>8. t.used[k] = ((a + b) + st.spent[k]) + c
      BY <1>9, <3>5, <3>6, <3>7
    <3>9. PICK d : d = st.spent[k]
      OBVIOUS
    <3>10. ((a + b) + d) + c = (a + (b + c)) + d
      BY <3>4, <3>5, <3>7, <3>9
    <3>11. t.used[k] = Required(t, k) + t.spent[k]
      BY <3>6, <3>8, <3>9, <3>10
    <3>12. QED
      BY <1>9, <3>11
  <2>2. QED
    BY <1>8, <2>1 DEF Counted
<1>13. QED
  BY <1>2, <1>10, <1>11, <1>12 DEF Sound

-----------------------------------------------------------------------------
(* acknowledgeTerminal *)

LEMMA ConcatIs ==
  ASSUME NEW R, NEW a \in Seq(R), NEW b \in Seq(R)
  PROVE  /\ a \o b \in Seq(R) /\ Len(a \o b) = Len(a) + Len(b) /\ DOMAIN (a \o b) = 1 .. Len(a) + Len(b)
         /\ \A m \in Len(a) + 1 .. Len(a) + Len(b) : (a \o b)[m] = b[m - Len(a)]
<1>1. a \o b \in Seq(R) /\ Len(a \o b) = Len(a) + Len(b)
  OBVIOUS
<1>2. \A m \in Len(a) + 1 .. Len(a) + Len(b) : (a \o b)[m] = b[m - Len(a)]
  OBVIOUS
<1>3. DOMAIN (a \o b) = 1 .. Len(a \o b)
  BY <1>1
<1>4. QED
  BY <1>1, <1>2, <1>3

LEMMA RemoveIs ==
  ASSUME NEW R, NEW seq \in Seq(R), NEW n \in DOMAIN seq
  PROVE  /\ RemoveAt(seq, n) \in Seq(R) /\ Len(RemoveAt(seq, n)) <= Len(seq)
         /\ \A i \in DOMAIN RemoveAt(seq, n) : \E j \in DOMAIN seq : RemoveAt(seq, n)[i] = seq[j]
<1>1. Len(seq) \in Nat /\ n \in 1 .. Len(seq) /\ DOMAIN seq = 1 .. Len(seq)
  OBVIOUS
<1>2. PICK a, b : a = SubSeq(seq, 1, n - 1) /\ b = SubSeq(seq, n + 1, Len(seq))
  OBVIOUS
<1>3. a \in Seq(R) /\ Len(a) = n - 1 /\ \A i \in 1 .. n - 1 : a[i] = seq[i]
  BY <1>1, <1>2
<1>4. b \in Seq(R) /\ Len(b) = Len(seq) - n /\ \A i \in 1 .. Len(seq) - n : b[i] = seq[n + i]
  BY <1>1, <1>2
<1>5. RemoveAt(seq, n) = a \o b
  BY <1>2 DEF RemoveAt
<1>6. a \o b \in Seq(R) /\ Len(a \o b) = Len(seq) - 1
  <2>1. a \o b \in Seq(R) /\ Len(a \o b) = Len(a) + Len(b)
    BY <1>3, <1>4, ConcatIs
  <2>2. QED
    BY <1>1, <1>3, <1>4, <2>1
<1>7. ASSUME NEW i \in 1 .. Len(seq) - 1 PROVE \E j \in DOMAIN seq : (a \o b)[i] = seq[j]
  <2>1. CASE i <= n - 1
    <3>1. (a \o b)[i] = a[i]
      BY <1>1, <1>3, <1>4, <2>1
    <3>2. a[i] = seq[i] /\ i \in DOMAIN seq
      BY <1>1, <1>3, <2>1
    <3>3. QED
      BY <3>1, <3>2
  <2>2. CASE i > n - 1
    <3>1. (a \o b)[i] = b[i - (n - 1)]
      <4>1. \A m \in Len(a) + 1 .. Len(a) + Len(b) : (a \o b)[m] = b[m - Len(a)]
        BY <1>3, <1>4, ConcatIs
      <4>2. i \in Len(a) + 1 .. Len(a) + Len(b)
        BY <1>1, <1>3, <1>4, <2>2
      <4>3. (a \o b)[i] = b[i - Len(a)]
        BY <4>1, <4>2
      <4>4. QED
        BY <1>3, <4>3
    <3>2. i - (n - 1) \in 1 .. Len(seq) - n /\ n + (i - (n - 1)) \in DOMAIN seq
      BY <1>1, <2>2
    <3>3. b[i - (n - 1)] = seq[n + (i - (n - 1))]
      BY <1>4, <3>2
    <3>4. QED
      BY <3>1, <3>2, <3>3
  <2>3. i \in Int /\ n \in Int
    BY <1>1
  <2>4. i <= n - 1 \/ i > n - 1
    BY <2>3
  <2>5. QED
    BY <2>1, <2>2, <2>4
<1>8. DOMAIN (a \o b) = 1 .. Len(seq) - 1 /\ Len(a \o b) <= Len(seq)
  <2>1. DOMAIN (a \o b) = 1 .. Len(a) + Len(b)
    BY <1>3, <1>4, ConcatIs
  <2>2. Len(a) + Len(b) = Len(seq) - 1
    BY <1>1, <1>3, <1>4
  <2>3. \A m \in Nat : m - 1 <= m
    OBVIOUS
  <2>4. Len(a \o b) <= Len(seq)
    BY <1>1, <1>6, <2>3, Zenon
  <2>5. QED
    BY <2>1, <2>2, <2>4, Zenon
<1>9. QED
  BY <1>5, <1>6, <1>7, <1>8

LEMMA AcknowledgeSound ==
  ASSUME NEW st, NEW t, NEW n \in DOMAIN st.terminal, Sound(st), t = [st EXCEPT !.terminal = RemoveAt(@, n)]
  PROVE  Sound(t)
<1>1. st \in GatewayState /\ st.active \subseteq MadeIds /\ SlotsSound(st) /\ Loads(st) /\ Counted(st)
  BY DEF Sound
<1>2. /\ t.used = st.used /\ t.spent = st.spent /\ t.active = st.active /\ t.slot = st.slot
      /\ t.slotRes = st.slotRes /\ t.terminal = RemoveAt(st.terminal, n)
  BY <1>1 DEF GatewayState
<1>3. PICK c, b, R : c = st.terminal /\ b = RemoveAt(st.terminal, n) /\ R = [id : Ids, event : {"settled", "released"}]
  OBVIOUS
<1>4. c \in Seq(R)
  BY <1>1, <1>3 DEF GatewayState
<1>5. b \in Seq(R) /\ Len(b) <= Len(c) /\ \A i \in DOMAIN b : \E j \in DOMAIN c : b[i] = c[j]
  BY <1>3, <1>4, RemoveIs
<1>6. t \in GatewayState
  BY <1>1, <1>2, <1>3, <1>5 DEF GatewayState
<1>7. TerminalIds(t) \subseteq TerminalIds(st)
  BY <1>2, <1>3, <1>5 DEF TerminalIds
<1>8. Len(t.terminal) <= MaxTerminal
  <2>1. Len(b) \in Nat /\ Len(c) \in Nat /\ MaxTerminal \in Nat /\ Len(c) <= MaxTerminal
    BY <1>1, <1>3, <1>4, <1>5, GatewayConstants DEF Loads
  <2>2. QED
    BY <1>2, <1>3, <1>5, <2>1
<1>9. HeldSlots(t) = HeldSlots(st) /\ Ordinary(t) = Ordinary(st)
  BY <1>2 DEF HeldSlots, Ordinary
<1>10. Loads(t)
  BY <1>1, <1>2, <1>7, <1>8, <1>9 DEF Loads, ActiveCount
<1>11. SlotsSound(t)
  BY <1>1, <1>2, <1>9 DEF SlotsSound
<1>12. Counted(t)
  BY <1>1, <1>2, <1>9 DEF Counted, Required
<1>13. QED
  BY <1>1, <1>2, <1>6, <1>10, <1>11, <1>12 DEF Sound

-----------------------------------------------------------------------------
(* releaseGroupSlots, slot by slot *)

\* The recursion over the slots has a solution.
LEMMA ReleaseSteps ==
  ASSUME NEW g \in Groups, NEW S
  PROVE  /\ ReleasedUpTo(g, S, 0) = mem
         /\ \A i \in 1 .. Len(SlotsOf[g]) :
              ReleasedUpTo(g, S, i) = IF SlotsOf[g][i] \in S
                                        THEN ReleaseSlot(ReleasedUpTo(g, S, i - 1), SlotsOf[g][i])
                                        ELSE ReleasedUpTo(g, S, i - 1)
<1> DEFINE StepTo(f, i) == IF i = 0 THEN mem
                           ELSE IF SlotsOf[g][i] \in S THEN ReleaseSlot(f[i - 1], SlotsOf[g][i]) ELSE f[i - 1]
           B == {n \in Nat : \E f : f = [i \in 0 .. n |-> StepTo(f, i)]}
           N == Len(SlotsOf[g])
           F == CHOOSE f : f = [i \in 0 .. N |-> StepTo(f, i)]
<1>1. 0 \in B
  <2>1. [i \in 0 .. 0 |-> mem] = [i \in 0 .. 0 |-> StepTo([j \in 0 .. 0 |-> mem], i)]
    OBVIOUS
  <2>2. QED
    BY <2>1
<1>2. ASSUME NEW n \in B PROVE n + 1 \in B
  <2>1. n \in Nat
    BY <1>2
  <2>2. PICK f : f = [i \in 0 .. n |-> StepTo(f, i)]
    BY <1>2
  <2>3. PICK h : h = [i \in 0 .. n + 1 |-> StepTo(f, i)]
    OBVIOUS
  <2>4. \A i \in 0 .. n : h[i] = f[i]
    BY <2>1, <2>2, <2>3
  <2>5. ASSUME NEW i \in 0 .. n + 1 PROVE StepTo(f, i) = StepTo(h, i)
    <3>1. CASE i = 0
      BY <3>1
    <3>2. CASE i # 0
      <4>1. i - 1 \in 0 .. n
        BY <2>1, <3>2
      <4>2. h[i - 1] = f[i - 1]
        BY <2>4, <4>1
      <4>3. QED
        BY <4>2
    <3>3. QED
      BY <3>1, <3>2
  <2>6. h = [i \in 0 .. n + 1 |-> StepTo(h, i)]
    BY <2>3, <2>5
  <2>7. n + 1 \in Nat
    BY <2>1
  <2>8. QED
    BY <2>6, <2>7
<1>3. B = Nat
  <2>1. B \in SUBSET Nat
    OBVIOUS
  <2> HIDE DEF B
  <2>2. QED
    BY <1>1, <1>2, <2>1, Numbered
<1>4. N \in Nat
  BY GroupSlots
<1>5. \E f : f = [i \in 0 .. N |-> StepTo(f, i)]
  BY <1>3, <1>4
<1>6. F = [i \in 0 .. N |-> StepTo(F, i)]
  BY <1>5
<1>7. \A n : ReleasedUpTo(g, S, n) = F[n]
  BY DEF ReleasedUpTo
<1>8. \A i \in 0 .. N : F[i] = StepTo(F, i)
  <2> HIDE DEF F, StepTo
  <2>1. QED
    BY <1>6
<1>9. F[0] = mem
  BY <1>4, <1>8
<1>10. ASSUME NEW i \in 1 .. N
       PROVE  F[i] = IF SlotsOf[g][i] \in S THEN ReleaseSlot(F[i - 1], SlotsOf[g][i]) ELSE F[i - 1]
  <2>1. i \in 0 .. N /\ i # 0
    BY <1>4
  <2>2. F[i] = StepTo(F, i)
    BY <1>8, <2>1
  <2> HIDE DEF F
  <2>3. QED
    BY <2>1, <2>2
<1>11. QED
  <2> HIDE DEF F
  <2>1. QED
    BY <1>7, <1>9, <1>10

\* What of group g has been gone through after n slots, and what the state then is
\* compared with the memory m it began from: it becomes sound by marking.
Passed(g, S, n) == {s \in S : \E i \in 1 .. n : s = SlotsOf[g][i]}
Part(m, st, P) ==
  /\ st \in GatewayState /\ Sound(MarkReleased(st, P))
  /\ st.slotRes = m.slotRes
  /\ st.active = m.active \ {m.slotRes[s] : s \in {x \in P : m.slot[x] = "claimed"}}
  /\ \A s \in Slots : /\ s \notin P => st.slot[s] = m.slot[s]
                      /\ st.slot[s] = "reserved" => m.slot[s] = "reserved"
                      /\ m.slot[s] # "none" => st.slot[s] # "none"

LEMMA MarkFields ==
  ASSUME NEW st \in GatewayState, NEW P, NEW t, t = MarkReleased(st, P)
  PROVE  /\ t \in GatewayState /\ t.used = st.used /\ t.spent = st.spent /\ t.active = st.active
         /\ t.terminal = st.terminal /\ t.slotRes = st.slotRes
         /\ t.slot = [s \in Slots |-> IF s \in P /\ st.slot[s] = "reserved" THEN "released" ELSE st.slot[s]]
<1>1. PICK c : c = [s \in Slots |-> IF s \in P /\ st.slot[s] = "reserved" THEN "released" ELSE st.slot[s]]
  OBVIOUS
<1>2. c \in [Slots -> {"none", "reserved", "claimed", "settled", "released"}]
  BY <1>1 DEF GatewayState
<1>3. t = [st EXCEPT !.slot = c]
  BY <1>1, Zenon DEF MarkReleased
<1>4. /\ t.used = st.used /\ t.spent = st.spent /\ t.active = st.active
      /\ t.terminal = st.terminal /\ t.slotRes = st.slotRes /\ t.slot = c
  BY <1>3 DEF GatewayState
<1>5. t \in GatewayState
  BY <1>2, <1>3, <1>4 DEF GatewayState
<1>6. QED
  BY <1>1, <1>4, <1>5

LEMMA SameSound ==
  ASSUME NEW a, NEW b \in GatewayState, Sound(a), a.used = b.used, a.spent = b.spent, a.active = b.active,
         a.terminal = b.terminal, a.slot = b.slot, a.slotRes = b.slotRes
  PROVE  Sound(b)
<1>1. HeldSlots(b) = HeldSlots(a) /\ Ordinary(b) = Ordinary(a) /\ TerminalIds(b) = TerminalIds(a)
  BY DEF HeldSlots, Ordinary, TerminalIds
<1>2. Loads(b)
  BY <1>1 DEF Sound, Loads, ActiveCount
<1>3. SlotsSound(b)
  BY <1>1 DEF Sound, SlotsSound
<1>4. Counted(b)
  BY <1>1 DEF Sound, Counted, Required
<1>5. QED
  BY <1>2, <1>3, <1>4 DEF Sound

LEMMA ReleaseStep ==
  ASSUME NEW m, NEW st, NEW t, NEW P \in SUBSET Slots, NEW s \in Slots, s \notin P,
         Sound(m), Part(m, st, P), t = ReleaseSlot(st, s),
         made \in Seq(Handoffs \cup Slots), Len(made) <= MaxIds
  PROVE  Part(m, t, P \cup {s})
<1>1. PICK a, b, Q : a = MarkReleased(st, P) /\ b = MarkReleased(t, P \cup {s}) /\ Q = P \cup {s}
  OBVIOUS
<1>2. /\ st \in GatewayState /\ Sound(a) /\ st.slotRes = m.slotRes
      /\ st.active = m.active \ {m.slotRes[x] : x \in {y \in P : m.slot[y] = "claimed"}}
      /\ \A x \in Slots : /\ x \notin P => st.slot[x] = m.slot[x]
                          /\ st.slot[x] = "reserved" => m.slot[x] = "reserved"
                          /\ m.slot[x] # "none" => st.slot[x] # "none"
  BY <1>1 DEF Part
<1>3. /\ a \in GatewayState /\ a.used = st.used /\ a.spent = st.spent /\ a.active = st.active
      /\ a.terminal = st.terminal /\ a.slotRes = st.slotRes
      /\ a.slot = [x \in Slots |-> IF x \in P /\ st.slot[x] = "reserved" THEN "released" ELSE st.slot[x]]
  BY <1>1, <1>2, MarkFields
<1>4. a.slot[s] = st.slot[s] /\ st.slot[s] = m.slot[s]
  BY <1>2, <1>3
<1>5. st.slot \in [Slots -> {"none", "reserved", "claimed", "settled", "released"}]
  BY <1>2 DEF GatewayState
<1>6. t \in GatewayState =>
        /\ b \in GatewayState /\ b.used = t.used /\ b.spent = t.spent /\ b.active = t.active
        /\ b.terminal = t.terminal /\ b.slotRes = t.slotRes
        /\ b.slot = [x \in Slots |-> IF x \in Q /\ t.slot[x] = "reserved" THEN "released" ELSE t.slot[x]]
  BY <1>1, MarkFields
<1>7. CASE st.slot[s] = "claimed"
  <2>1. PICK id, c : id = st.slotRes[s] /\ c = Closed(a, id, "released", 0)
    OBVIOUS
  <2>2. t = Closed(st, id, "released", 0)
    BY <1>7, <2>1 DEF ReleaseSlot
  <2>3. id \in a.active /\ made[id] = s /\ a.active \subseteq MadeIds
    <3>1. /\ a.slot[s] \in {"claimed", "settled"} => a.slotRes[s] # 0
          /\ a.slot[s] = "claimed" => a.slotRes[s] \in a.active
          /\ a.slotRes[s] # 0 => a.slotRes[s] \in MadeIds /\ made[a.slotRes[s]] = s
          /\ a.active \subseteq MadeIds
      BY <1>2 DEF Sound, SlotsSound
    <3>2. a.slot[s] = "claimed" /\ a.slotRes[s] = id
      BY <1>3, <1>4, <1>7, <2>1
    <3>3. QED
      BY <3>1, <3>2
  <2>4. Sound(c)
    <3>1. Total[made[id]] \in Nat /\ HeldBy(id) \in Nat /\ KeysOf[made[id]] \subseteq Keys
      BY <2>3, Route DEF HeldBy
    <3>2. \A k \in Keys : a.used[k] \in Nat /\ a.used[k] <= Cap[k] /\ Cap[k] \in Nat
      BY <1>2, <1>3, GatewayConstants DEF Sound, Counted, GatewayState
    <3>3. \A k \in KeysOf[made[id]] : a.used[k] + 0 <= Cap[k] + HeldBy(id)
      BY <3>1, <3>2
    <3>4. 0 \in Nat /\ 0 <= Total[made[id]] /\ "released" \in {"settled", "released"}
      BY <3>1
    <3>5. Sound(Closed(a, id, "released", 0))
      BY <1>2, <2>3, <3>3, <3>4, CloseSound
    <3>6. QED
      BY <2>1, <3>5
  <2>5. PICK r : r = [id |-> id, event |-> "released"]
    OBVIOUS
  <2>6. /\ t.used = Add(Sub(st.used, s, HeldBy(id)), s, 0) /\ t.spent = Add(st.spent, s, 0)
        /\ t.active = st.active \ {id} /\ t.terminal = Prune(Append(st.terminal, r))
        /\ t.slot = [x \in Slots |-> IF x = s THEN "released" ELSE st.slot[x]] /\ t.slotRes = st.slotRes
    <3>1. /\ Closed(st, id, "released", 0).used = Add(Sub(st.used, made[id], HeldBy(id)), made[id], 0)
          /\ Closed(st, id, "released", 0).spent = Add(st.spent, made[id], 0)
          /\ Closed(st, id, "released", 0).active = st.active \ {id}
          /\ Closed(st, id, "released", 0).slotRes = st.slotRes
      BY <1>2, CloseUsage
    <3>2. Closed(st, id, "released", 0).terminal = Prune(Append(st.terminal, r))
      BY <1>2, <2>5, CloseRecord
    <3>3. Closed(st, id, "released", 0).slot = [x \in Slots |-> IF x = made[id] THEN "released" ELSE st.slot[x]]
      BY <1>2, CloseSlot
    <3>4. QED
      BY <2>2, <2>3, <3>1, <3>2, <3>3, Zenon
  <2>7. /\ c.used = Add(Sub(a.used, s, HeldBy(id)), s, 0) /\ c.spent = Add(a.spent, s, 0)
        /\ c.active = a.active \ {id} /\ c.terminal = Prune(Append(a.terminal, r))
        /\ c.slot = [x \in Slots |-> IF x = s THEN "released" ELSE a.slot[x]] /\ c.slotRes = a.slotRes
    <3>1. /\ Closed(a, id, "released", 0).used = Add(Sub(a.used, made[id], HeldBy(id)), made[id], 0)
          /\ Closed(a, id, "released", 0).spent = Add(a.spent, made[id], 0)
          /\ Closed(a, id, "released", 0).active = a.active \ {id}
          /\ Closed(a, id, "released", 0).slotRes = a.slotRes
      BY <1>3, CloseUsage
    <3>2. Closed(a, id, "released", 0).terminal = Prune(Append(a.terminal, r))
      BY <1>3, <2>5, CloseRecord
    <3>3. Closed(a, id, "released", 0).slot = [x \in Slots |-> IF x = made[id] THEN "released" ELSE a.slot[x]]
      BY <1>3, CloseSlot
    <3>4. c = Closed(a, id, "released", 0) /\ made[id] = s
      BY <2>1, <2>3
    <3>5. QED
      BY <3>1, <3>2, <3>3, <3>4, Zenon
  <2>8. /\ t.used = c.used /\ t.spent = c.spent /\ t.active = c.active /\ t.terminal = c.terminal
        /\ t.slotRes = c.slotRes
    BY <1>3, <2>6, <2>7, Zenon
  <2>9. /\ c \in GatewayState /\ c.used \in [Keys -> Nat] /\ c.spent \in [Keys -> Nat] /\ c.active \in SUBSET Ids
        /\ c.terminal \in Seq([id : Ids, event : {"settled", "released"}]) /\ c.slotRes \in [Slots -> {0} \cup Ids]
    BY <2>4 DEF Sound, GatewayState
  <2>10. t.slot \in [Slots -> {"none", "reserved", "claimed", "settled", "released"}]
    BY <1>5, <2>6
  <2>11. t \in GatewayState
    <3>1. /\ t.used \in [Keys -> Nat] /\ t.spent \in [Keys -> Nat] /\ t.active \in SUBSET Ids
          /\ t.terminal \in Seq([id : Ids, event : {"settled", "released"}]) /\ t.slotRes \in [Slots -> {0} \cup Ids]
      BY <2>8, <2>9, Zenon
    <3>2. st \in GatewayState
      BY <1>2
    <3>3. QED
      BY <2>2, <2>10, <3>1, <3>2, CloseType
  <2>12. /\ b \in GatewayState /\ b.used = t.used /\ b.spent = t.spent /\ b.active = t.active
         /\ b.terminal = t.terminal /\ b.slotRes = t.slotRes
         /\ b.slot = [x \in Slots |-> IF x \in Q /\ t.slot[x] = "reserved" THEN "released" ELSE t.slot[x]]
    BY <1>6, <2>11
  <2>13. b.slot = c.slot
    <3>1. ASSUME NEW x \in Slots PROVE b.slot[x] = c.slot[x]
      <4>1. CASE x = s
        BY <2>6, <2>7, <2>12, <4>1
      <4>2. CASE x # s
        <5>1. t.slot[x] = st.slot[x] /\ c.slot[x] = a.slot[x] /\ (x \in Q <=> x \in P)
          BY <1>1, <2>6, <2>7, <4>2
        <5>2. QED
          BY <1>3, <2>12, <5>1
      <4>3. QED
        BY <4>1, <4>2
    <3>2. b.slot = [x \in Slots |-> b.slot[x]] /\ c.slot = [x \in Slots |-> c.slot[x]]
      BY <2>7, <2>12
    <3>3. QED
      BY <3>1, <3>2
  <2>14. Sound(b)
    BY <2>4, <2>8, <2>12, <2>13, SameSound
  <2>15. t.active = m.active \ {m.slotRes[x] : x \in {y \in Q : m.slot[y] = "claimed"}}
    <3>1. m.slot[s] = "claimed" /\ id = m.slotRes[s]
      BY <1>2, <1>4, <1>7, <2>1
    <3>2. {y \in Q : m.slot[y] = "claimed"} = {y \in P : m.slot[y] = "claimed"} \cup {s}
      BY <1>1, <3>1
    <3>3. QED
      BY <1>2, <2>6, <3>1, <3>2
  <2>16. \A x \in Slots : /\ x \notin Q => t.slot[x] = m.slot[x]
                          /\ t.slot[x] = "reserved" => m.slot[x] = "reserved"
                          /\ m.slot[x] # "none" => t.slot[x] # "none"
    BY <1>1, <1>2, <2>6
  <2>17. QED
    BY <1>1, <1>2, <2>6, <2>11, <2>14, <2>15, <2>16 DEF Part
<1>8. CASE st.slot[s] = "reserved"
  <2>1. t = [st EXCEPT !.used = Sub(@, s, Hold[s])]
    BY <1>8 DEF ReleaseSlot
  <2>2. /\ t.used = Sub(st.used, s, Hold[s]) /\ t.spent = st.spent /\ t.active = st.active
        /\ t.terminal = st.terminal /\ t.slot = st.slot /\ t.slotRes = st.slotRes
    BY <1>2, <2>1 DEF GatewayState
  <2>3. t.used \in [Keys -> Nat]
    <3>1. st.used \in [Keys -> Nat] /\ Hold[s] \in Nat
      BY <1>2, Route DEF GatewayState
    <3>2. Sub(st.used, s, Hold[s]) \in [Keys -> Nat]
      BY <3>1, SubIs
    <3>3. QED
      BY <2>2, <3>2
  <2>4. t \in GatewayState
    BY <1>2, <2>1, <2>2, <2>3 DEF GatewayState
  <2>5. /\ b \in GatewayState /\ b.used = t.used /\ b.spent = t.spent /\ b.active = t.active
        /\ b.terminal = t.terminal /\ b.slotRes = t.slotRes
        /\ b.slot = [x \in Slots |-> IF x \in Q /\ t.slot[x] = "reserved" THEN "released" ELSE t.slot[x]]
    BY <1>6, <2>4
  <2>6. b.slot[s] = "released" /\ \A x \in Slots : x # s => b.slot[x] = a.slot[x]
    <3>1. b.slot[s] = "released"
      BY <1>1, <1>8, <2>2, <2>5
    <3>2. ASSUME NEW x \in Slots, x # s PROVE b.slot[x] = a.slot[x]
      <4>1. x \in Q <=> x \in P
        BY <1>1, <3>2
      <4>2. QED
        BY <1>3, <2>2, <2>5, <4>1
    <3>3. QED
      BY <3>1, <3>2
  <2>7. /\ a.slot[s] = "reserved" /\ b.used = Sub(a.used, s, Hold[s]) /\ b.spent = a.spent
        /\ b.active = a.active /\ b.terminal = a.terminal /\ b.slotRes = a.slotRes
    BY <1>3, <1>4, <1>8, <2>2, <2>5
  <2>8. Sound(b)
    BY <1>2, <2>5, <2>6, <2>7, DropSound
  <2>9. {y \in Q : m.slot[y] = "claimed"} = {y \in P : m.slot[y] = "claimed"}
    BY <1>1, <1>4, <1>8
  <2>10. \A x \in Slots : x \notin Q => x \notin P
    BY <1>1
  <2>11. QED
    BY <1>1, <1>2, <2>2, <2>4, <2>8, <2>9, <2>10 DEF Part
<1>9. CASE st.slot[s] \notin {"claimed", "reserved"}
  <2>1. t = st
    BY <1>9 DEF ReleaseSlot
  <2>2. /\ b \in GatewayState /\ b.used = t.used /\ b.spent = t.spent /\ b.active = t.active
        /\ b.terminal = t.terminal /\ b.slotRes = t.slotRes
        /\ b.slot = [x \in Slots |-> IF x \in Q /\ t.slot[x] = "reserved" THEN "released" ELSE t.slot[x]]
    BY <1>2, <1>6, <2>1
  <2>3. b.slot = a.slot
    BY <1>1, <1>3, <1>9, <2>1, <2>2
  <2>4. Sound(b)
    <3>1. /\ a.used = b.used /\ a.spent = b.spent /\ a.active = b.active /\ a.terminal = b.terminal
          /\ a.slot = b.slot /\ a.slotRes = b.slotRes
      BY <1>3, <2>1, <2>2, <2>3
    <3>2. Sound(a) /\ b \in GatewayState
      BY <1>2, <2>2
    <3>3. QED
      BY <3>1, <3>2, SameSound
  <2>5. {y \in Q : m.slot[y] = "claimed"} = {y \in P : m.slot[y] = "claimed"}
    BY <1>1, <1>4, <1>9
  <2>6. \A x \in Slots : x \notin Q => x \notin P
    BY <1>1
  <2>7. QED
    BY <1>1, <1>2, <2>1, <2>4, <2>5, <2>6 DEF Part
<1>10. QED
  BY <1>7, <1>8, <1>9

LEMMA PlacesDiffer ==
  ASSUME NEW g \in Groups, NEW i \in 1 .. Len(SlotsOf[g]), NEW j \in 1 .. Len(SlotsOf[g]), SlotsOf[g][i] = SlotsOf[g][j]
  PROVE  i = j
<1>1. IsInjective(SlotsOf[g]) /\ SlotsOf[g] \in Seq(Slots)
  BY GatewayConstants
<1>2. DOMAIN SlotsOf[g] = 1 .. Len(SlotsOf[g])
  BY <1>1
<1>3. QED
  BY <1>1, <1>2 DEF IsInjective

\* The state after any number of slots is sound once its slots are marked.
LEMMA ReleaseParts ==
  ASSUME NEW g \in Groups, NEW S \in SUBSET SlotSet(g), Sound(mem),
         made \in Seq(Handoffs \cup Slots), Len(made) <= MaxIds, NEW i \in 0 .. Len(SlotsOf[g])
  PROVE  Part(mem, ReleasedUpTo(g, S, i), Passed(g, S, i))
<1> DEFINE B == {n \in Nat : n <= Len(SlotsOf[g]) => Part(mem, ReleasedUpTo(g, S, n), Passed(g, S, n))}
<1>1. Len(SlotsOf[g]) \in Nat /\ S \subseteq Slots
  BY GroupSlots
<1>2. 0 \in B
  <2>1. ReleasedUpTo(g, S, 0) = mem /\ Passed(g, S, 0) = {}
    BY ReleaseSteps DEF Passed
  <2>2. PICK m, a, P : m = mem /\ a = MarkReleased(mem, {}) /\ P = {}
    OBVIOUS
  <2>3. m \in GatewayState /\ Sound(m)
    BY <2>2 DEF Sound
  <2>4. /\ a \in GatewayState /\ a.used = m.used /\ a.spent = m.spent /\ a.active = m.active
        /\ a.terminal = m.terminal /\ a.slotRes = m.slotRes
        /\ a.slot = [s \in Slots |-> IF s \in P /\ m.slot[s] = "reserved" THEN "released" ELSE m.slot[s]]
    <3>1. a = MarkReleased(m, P)
      BY <2>2
    <3>2. QED
      BY <2>3, <3>1, MarkFields
  <2>5. a.slot = m.slot
    BY <2>2, <2>3, <2>4 DEF GatewayState
  <2>6. Sound(a)
    BY <2>3, <2>4, <2>5, SameSound
  <2>7. Part(m, m, {})
    <3>1. MarkReleased(m, {}) = a
      BY <2>2
    <3>2. QED
      BY <2>3, <2>6, <3>1 DEF Part
  <2>8. QED
    BY <2>1, <2>2, <2>7
<1>3. ASSUME NEW n \in B PROVE n + 1 \in B
  <2>1. n \in Nat /\ n + 1 \in Nat
    BY <1>3
  <2>2. SUFFICES ASSUME n + 1 <= Len(SlotsOf[g])
                 PROVE  Part(mem, ReleasedUpTo(g, S, n + 1), Passed(g, S, n + 1))
    BY <2>1
  <2>3. PICK s, P, st : s = SlotsOf[g][n + 1] /\ P = Passed(g, S, n) /\ st = ReleasedUpTo(g, S, n)
    OBVIOUS
  <2>4. n + 1 \in 1 .. Len(SlotsOf[g]) /\ (n + 1) - 1 = n
    BY <1>1, <2>1, <2>2
  <2>5. Part(mem, st, P)
    BY <1>1, <1>3, <2>1, <2>2, <2>3
  <2>6. \A x : (\E j \in 1 .. n + 1 : x = SlotsOf[g][j]) <=> (x = s \/ \E j \in 1 .. n : x = SlotsOf[g][j])
    <3>1. \A j \in 1 .. n + 1 : j = n + 1 \/ j \in 1 .. n
      BY <2>1
    <3>2. \A j \in 1 .. n : j \in 1 .. n + 1
      BY <2>1
    <3>3. n + 1 \in 1 .. n + 1
      BY <2>1
    <3>4. QED
      BY <2>3, <3>1, <3>2, <3>3, Zenon
  <2> ReleasedUpTo(g, S, n + 1) = IF s \in S THEN ReleaseSlot(st, s) ELSE st
    <3>1. PICK k : k = n + 1
      OBVIOUS
    <3>2. k \in 1 .. Len(SlotsOf[g]) /\ k - 1 = n
      BY <2>4, <3>1
    <3>3. ReleasedUpTo(g, S, k) = IF SlotsOf[g][k] \in S
                                    THEN ReleaseSlot(ReleasedUpTo(g, S, k - 1), SlotsOf[g][k])
                                    ELSE ReleasedUpTo(g, S, k - 1)
      <4>1. \A p \in 1 .. Len(SlotsOf[g]) :
              ReleasedUpTo(g, S, p) = IF SlotsOf[g][p] \in S
                                        THEN ReleaseSlot(ReleasedUpTo(g, S, p - 1), SlotsOf[g][p])
                                        ELSE ReleasedUpTo(g, S, p - 1)
        BY ReleaseSteps, Zenon
      <4>2. QED
        BY <3>2, <4>1, Zenon
    <3>4. QED
      BY <2>3, <3>1, <3>2, <3>3
  <2>7. CASE s \in S
    <3>1. ReleasedUpTo(g, S, n + 1) = ReleaseSlot(st, s)
      BY <2>7
    <3>2. Passed(g, S, n + 1) = P \cup {s}
      BY <2>3, <2>6, <2>7 DEF Passed
    <3>3. s \notin P
      <4>1. SUFFICES ASSUME NEW j \in 1 .. n, s = SlotsOf[g][j] PROVE FALSE
        BY <2>3 DEF Passed
      <4>2. j \in 1 .. Len(SlotsOf[g]) /\ j # n + 1
        BY <1>1, <2>1, <2>2
      <4>3. QED
        BY <2>3, <2>4, <4>1, <4>2, PlacesDiffer
    <3>4. P \in SUBSET Slots /\ s \in Slots
      BY <1>1, <2>3, <2>7 DEF Passed
    <3>5. PICK m : m = mem
      OBVIOUS
    <3>6. Sound(m) /\ Part(m, st, P)
      BY <2>5, <3>5
    <3>7. Part(m, ReleaseSlot(st, s), P \cup {s})
      BY <3>3, <3>4, <3>6, ReleaseStep
    <3>8. QED
      BY <3>1, <3>2, <3>5, <3>7
  <2>8. CASE s \notin S
    <3>1. ReleasedUpTo(g, S, n + 1) = st
      BY <2>8
    <3>2. Passed(g, S, n + 1) = P
      BY <2>3, <2>6, <2>8 DEF Passed
    <3>3. QED
      BY <2>5, <3>1, <3>2
  <2>9. QED
    BY <2>7, <2>8
<1>4. B = Nat
  <2>1. B \in SUBSET Nat
    OBVIOUS
  <2> HIDE DEF B
  <2>2. QED
    BY <1>2, <1>3, <2>1, Numbered
<1>5. i \in Nat /\ i <= Len(SlotsOf[g])
  BY <1>1
<1>6. QED
  BY <1>4, <1>5

\* What releaseGroupSlots leaves behind at its end ...
LEMMA ReleasedAllSound ==
  ASSUME NEW g \in Groups, NEW S \in SUBSET SlotSet(g), Sound(mem),
         made \in Seq(Handoffs \cup Slots), Len(made) <= MaxIds, NEW t, t = ReleasedAll(g, S)
  PROVE  /\ Sound(t) /\ t.active = mem.active \ ClosedIds(g, Claimed(g, S))
         /\ \A s \in Slots : mem.slot[s] # "none" => t.slot[s] # "none"
<1>1. PICK n, st, m : n = Len(SlotsOf[g]) /\ st = ReleasedUpTo(g, S, n) /\ m = mem
  OBVIOUS
<1>2. n \in Nat /\ DOMAIN SlotsOf[g] = 1 .. n /\ S \subseteq Slots
  BY <1>1, GroupSlots
<1>3. Passed(g, S, n) = S
  BY <1>1, GroupSlots DEF Passed
<1>4. Part(m, st, S)
  <2>1. n \in 0 .. Len(SlotsOf[g])
    BY <1>1, <1>2
  <2>2. Part(mem, ReleasedUpTo(g, S, n), Passed(g, S, n))
    BY <2>1, ReleaseParts
  <2>3. QED
    BY <1>1, <1>3, <2>2
<1>5. t = MarkReleased(st, S)
  BY <1>1 DEF ReleasedAll
<1>6. /\ st \in GatewayState /\ Sound(t)
      /\ st.active = m.active \ {m.slotRes[s] : s \in {x \in S : m.slot[x] = "claimed"}}
      /\ \A s \in Slots : m.slot[s] # "none" => st.slot[s] # "none"
  BY <1>4, <1>5 DEF Part
<1>7. /\ t.active = st.active
      /\ t.slot = [s \in Slots |-> IF s \in S /\ st.slot[s] = "reserved" THEN "released" ELSE st.slot[s]]
  BY <1>5, <1>6, MarkFields
<1>8. ClosedIds(g, Claimed(g, S)) = {m.slotRes[s] : s \in {x \in S : m.slot[x] = "claimed"}}
  <2>1. \A s \in S : \E i \in DOMAIN SlotsOf[g] : s = SlotsOf[g][i]
    BY <1>1, <1>2, GroupSlots
  <2>2. QED
    BY <1>1, <2>1 DEF ClosedIds, Claimed
<1>9. QED
  BY <1>1, <1>6, <1>7, <1>8

\* ... and after each claimed slot: as slots are claimed in order, none before it is
\* still reserved, and nothing is left to be marked.
LEMMA ReleasedSound ==
  ASSUME NEW g \in Groups, NEW S \in SUBSET SlotSet(g), Sound(mem),
         made \in Seq(Handoffs \cup Slots), Len(made) <= MaxIds,
         NEW i \in Claimed(g, S), NEW t, t = ReleasedUpTo(g, S, i)
  PROVE  /\ Sound(t) /\ t.active = mem.active \ ClosedIds(g, {j \in Claimed(g, S) : j <= i})
         /\ \A s \in Slots : mem.slot[s] # "none" => t.slot[s] # "none"
<1>1. PICK n, m, P, a : n = Len(SlotsOf[g]) /\ m = mem /\ P = Passed(g, S, i) /\ a = MarkReleased(t, P)
  OBVIOUS
<1>2. n \in Nat /\ DOMAIN SlotsOf[g] = 1 .. n /\ S \subseteq Slots
  BY <1>1, GroupSlots
<1>3. i \in 1 .. n /\ i \in 0 .. n /\ SlotsOf[g][i] \in S /\ m.slot[SlotsOf[g][i]] = "claimed"
  BY <1>1, <1>2 DEF Claimed
<1>4. Part(m, t, P)
  <2>1. Part(mem, ReleasedUpTo(g, S, i), Passed(g, S, i))
    BY <1>1, <1>3, ReleaseParts
  <2>2. QED
    BY <1>1, <2>1
<1>5. /\ t \in GatewayState /\ Sound(a)
      /\ t.active = m.active \ {m.slotRes[s] : s \in {x \in P : m.slot[x] = "claimed"}}
      /\ \A s \in Slots : /\ t.slot[s] = "reserved" => m.slot[s] = "reserved"
                          /\ m.slot[s] # "none" => t.slot[s] # "none"
  BY <1>1, <1>4 DEF Part
<1>6. /\ a.used = t.used /\ a.spent = t.spent /\ a.active = t.active
      /\ a.terminal = t.terminal /\ a.slotRes = t.slotRes
      /\ a.slot = [s \in Slots |-> IF s \in P /\ t.slot[s] = "reserved" THEN "released" ELSE t.slot[s]]
  BY <1>1, <1>5, MarkFields
<1>7. ASSUME NEW s \in P PROVE s \in Slots /\ m.slot[s] # "reserved"
  <2>1. PICK j \in 1 .. i : s = SlotsOf[g][j]
    BY <1>1 DEF Passed
  <2>2. CASE j = i
    BY <1>2, <1>3, <2>1, <2>2
  <2>3. CASE j # i
    <3>1. j \in 1 .. n /\ j < i
      BY <1>2, <1>3, <2>3
    <3>2. SlotsSound(mem)
      BY DEF Sound
    <3>3. \A p, q \in DOMAIN SlotsOf[g] :
             p < q /\ mem.slot[SlotsOf[g][q]] = "claimed" => mem.slot[SlotsOf[g][p]] # "reserved"
      BY <3>2 DEF SlotsSound
    <3>4. mem.slot[SlotsOf[g][j]] # "reserved"
      BY <1>1, <1>2, <1>3, <3>1, <3>3
    <3>5. s \in Slots
      BY <1>1, <1>2 DEF Passed
    <3>6. QED
      BY <1>1, <2>1, <3>4, <3>5
  <2>4. QED
    BY <2>2, <2>3
<1>8. a.slot = t.slot
  <2>1. t.slot \in [Slots -> {"none", "reserved", "claimed", "settled", "released"}]
    BY <1>5 DEF GatewayState
  <2>2. \A s \in Slots : ~ (s \in P /\ t.slot[s] = "reserved")
    BY <1>5, <1>7
  <2>3. QED
    BY <1>6, <2>1, <2>2
<1>9. Sound(t)
  <2>1. Sound(a) /\ t \in GatewayState
    BY <1>5
  <2>2. QED
    BY <1>6, <1>8, <2>1, SameSound
<1>10. ClosedIds(g, {j \in Claimed(g, S) : j <= i}) = {m.slotRes[s] : s \in {x \in P : m.slot[x] = "claimed"}}
  <2>1. ASSUME NEW j \in Claimed(g, S), j <= i PROVE SlotsOf[g][j] \in P /\ m.slot[SlotsOf[g][j]] = "claimed"
    <3>1. j \in 1 .. i /\ SlotsOf[g][j] \in S /\ m.slot[SlotsOf[g][j]] = "claimed"
      BY <1>1, <1>2, <1>3, <2>1 DEF Claimed
    <3>2. QED
      BY <1>1, <3>1 DEF Passed
  <2>2. ASSUME NEW s \in P, m.slot[s] = "claimed" PROVE \E j \in Claimed(g, S) : j <= i /\ s = SlotsOf[g][j]
    <3>1. PICK j \in 1 .. i : s = SlotsOf[g][j] /\ s \in S
      BY <1>1 DEF Passed
    <3>2. j \in 1 .. n /\ j <= i
      BY <1>2, <1>3
    <3>3. j \in Claimed(g, S)
      BY <1>1, <1>2, <2>2, <3>1, <3>2 DEF Claimed
    <3>4. QED
      BY <3>1, <3>2, <3>3
  <2>3. QED
    BY <1>1, <2>1, <2>2 DEF ClosedIds
<1>11. QED
  BY <1>1, <1>5, <1>9, <1>10

-----------------------------------------------------------------------------
(* The invariant is inductive *)

\* What the steps below take from the invariant.
LEMMA InvariantGives ==
  ASSUME GatewayIInv
  PROVE  /\ made \in Seq(Handoffs \cup Slots) /\ Len(made) <= MaxIds /\ Len(made) \in Nat
         /\ MadeIds = 1 .. Len(made) /\ granted \subseteq MadeIds
         /\ Sound(mem) /\ Sound(disk)
         /\ mem \in GatewayState /\ mem.active \subseteq MadeIds
         /\ disk \in GatewayState /\ disk.active \subseteq MadeIds
         /\ failures \in Nat /\ failures <= MaxFailures /\ MaxFailures \in Nat
         /\ crashes \in Nat /\ crashes <= MaxCrashes /\ MaxCrashes \in Nat
<1>1. made \in Seq(Handoffs \cup Slots) /\ Len(made) <= MaxIds /\ granted \subseteq MadeIds
  BY DEF GatewayIInv
<1>2. Len(made) \in Nat /\ MadeIds = 1 .. Len(made)
  BY <1>1 DEF MadeIds
<1>3. Sound(mem) /\ Sound(disk)
  BY DEF GatewayIInv
<1>4. /\ mem \in GatewayState /\ mem.active \subseteq MadeIds
      /\ disk \in GatewayState /\ disk.active \subseteq MadeIds
  BY <1>3 DEF Sound
<1>5. /\ failures \in Nat /\ failures <= MaxFailures /\ MaxFailures \in Nat
      /\ crashes \in Nat /\ crashes <= MaxCrashes /\ MaxCrashes \in Nat
  BY GatewayConstants DEF GatewayIInv
<1>6. QED
  BY <1>1, <1>2, <1>3, <1>4, <1>5

\* A write goes through or it does not; memory has the new state in both cases.
LEMMA PersistGives ==
  ASSUME NEW t, Persist(t), failures \in Nat, failures <= MaxFailures, MaxFailures \in Nat
  PROVE  /\ mem' = t /\ disk' \in {t, disk}
         /\ failures' \in 0 .. MaxFailures
         /\ failures' = 0 => failures = 0 /\ disk' = t
         /\ \A I, J : Returns(I, J) \subseteq J \cup I
BY DEF Persist, Returns

\* A new reservation, ordinary or for a slot: it is in the file when it is returned.
LEMMA GrantKeeps ==
  ASSUME GatewayIInv, NEW h \in Handoffs \cup Slots, NEW t, up, Len(made) < MaxIds,
         made' = Append(made, h), Persist(t), Sound(t)',
         t.active = mem.active \cup {Len(made) + 1},
         \A s \in Slots : mem.slot[s] # "none" => t.slot[s] # "none",
         granted' = Returns({Len(made) + 1}, granted),
         UNCHANGED <<up, assured, closed, ended, crashes>>
  PROVE  GatewayIInv'
<1>1. /\ made \in Seq(Handoffs \cup Slots) /\ Len(made) <= MaxIds /\ Len(made) \in Nat
      /\ MadeIds = 1 .. Len(made) /\ granted \subseteq MadeIds /\ Sound(disk)
      /\ failures \in Nat /\ failures <= MaxFailures /\ MaxFailures \in Nat
  BY InvariantGives
<1>2. /\ mem' = t /\ disk' \in {t, disk} /\ failures' \in 0 .. MaxFailures
      /\ failures' = 0 => failures = 0 /\ disk' = t
      /\ granted' \subseteq granted \cup {Len(made) + 1}
  BY <1>1, PersistGives
<1>3. /\ made' \in Seq(Handoffs \cup Slots) /\ Len(made') <= MaxIds
      /\ MadeIds' = MadeIds \cup {Len(made) + 1} /\ Len(made) + 1 \notin MadeIds
  <2>1. made' \in Seq(Handoffs \cup Slots) /\ Len(made') = Len(made) + 1
    BY <1>1
  <2>2. MaxIds \in Nat
    BY GatewayConstants
  <2>3. MadeIds' = 1 .. Len(made) + 1
    BY <2>1 DEF MadeIds
  <2>4. QED
    BY <1>1, <2>1, <2>2, <2>3
<1>4. \A st \in {mem', disk'} : Sound(st)'
  <2>1. PICK d : d = disk
    OBVIOUS
  <2>2. Sound(d)
    BY <1>1, <2>1
  <2>3. Sound(d)'
    BY <1>1, <2>2, MadeGrows
  <2>4. QED
    BY <1>2, <2>1, <2>3
<1>5. Durable'
  <2>1. SUFFICES ASSUME failures' = 0
                 PROVE  /\ mem' = disk' /\ MadeIds' \subseteq disk'.active \cup ended
                        /\ closed \cap (disk'.active \cup mem'.active) = {}
                        /\ \A g \in assured : \A s \in SlotSet(g) : disk'.slot[s] # "none"
    BY DEF Durable, SlotSet
  <2>2. /\ mem = disk /\ MadeIds \subseteq disk.active \cup ended
        /\ closed \cap (disk.active \cup mem.active) = {} /\ closed \subseteq MadeIds /\ assured \subseteq Groups
        /\ \A g \in assured : \A s \in SlotSet(g) : disk.slot[s] # "none"
    BY <1>2, <2>1 DEF GatewayIInv, Durable
  <2>3. mem' = t /\ disk' = t
    BY <1>2, <2>1
  <2>4. \A g \in Groups : SlotSet(g) \subseteq Slots
    BY GroupSlots
  <2>5. MadeIds' \subseteq t.active \cup ended
    BY <1>3, <2>2
  <2>6. closed \cap t.active = {}
    BY <1>3, <2>2
  <2>7. \A g \in assured : \A s \in SlotSet(g) : t.slot[s] # "none"
    BY <2>2, <2>4
  <2>8. QED
    BY <2>3, <2>5, <2>6, <2>7
<1>6. granted' \subseteq MadeIds' /\ closed' \subseteq MadeIds' /\ ended' \subseteq MadeIds'
  BY <1>1, <1>2, <1>3 DEF GatewayIInv
<1>7. QED
  BY <1>2, <1>3, <1>4, <1>5, <1>6 DEF GatewayIInv

\* An operation that closes the reservations I and assures the groups G, and writes.
LEMMA WriteKeeps ==
  ASSUME GatewayIInv, NEW t, NEW I \in SUBSET MadeIds, NEW G \in SUBSET Groups, up, Persist(t), Sound(t),
         t.active = mem.active \ I,
         \A s \in Slots : mem.slot[s] # "none" => t.slot[s] # "none",
         \A g \in G : \A s \in SlotSet(g) : t.slot[s] # "none",
         closed' \subseteq closed \cup I, ended' = ended \cup I, assured' \subseteq assured \cup G,
         UNCHANGED <<up, made, granted, crashes>>
  PROVE  GatewayIInv'
<1>1. /\ Sound(disk) /\ failures \in Nat /\ failures <= MaxFailures /\ MaxFailures \in Nat
  BY InvariantGives
<1>2. /\ mem' = t /\ disk' \in {t, disk} /\ failures' \in 0 .. MaxFailures
      /\ failures' = 0 => failures = 0 /\ disk' = t
  BY <1>1, PersistGives
<1>3. MadeIds' = MadeIds
  BY DEF MadeIds
<1>4. \A st \in {mem', disk'} : Sound(st)'
  <2>1. PICK d : d = disk
    OBVIOUS
  <2>2. Sound(d)
    BY <1>1, <2>1
  <2>3. Sound(d)' /\ Sound(t)'
    BY <2>2, MadeStays
  <2>4. QED
    BY <1>2, <2>1, <2>3
<1>5. Durable'
  <2>1. SUFFICES ASSUME failures' = 0
                 PROVE  /\ mem' = disk' /\ MadeIds \subseteq disk'.active \cup ended'
                        /\ closed' \cap (disk'.active \cup mem'.active) = {}
                        /\ \A g \in assured' : \A s \in SlotSet(g) : disk'.slot[s] # "none"
    BY <1>3 DEF Durable, SlotSet
  <2>2. /\ mem = disk /\ MadeIds \subseteq disk.active \cup ended
        /\ closed \cap (disk.active \cup mem.active) = {} /\ assured \subseteq Groups
        /\ \A g \in assured : \A s \in SlotSet(g) : disk.slot[s] # "none"
    BY <1>2, <2>1 DEF GatewayIInv, Durable
  <2>3. mem' = t /\ disk' = t
    BY <1>2, <2>1
  <2>4. \A g \in Groups : SlotSet(g) \subseteq Slots
    BY GroupSlots
  <2>5. MadeIds \subseteq t.active \cup ended'
    BY <2>2
  <2>6. closed' \cap t.active = {}
    BY <2>2
  <2>7. \A g \in assured' : \A s \in SlotSet(g) : t.slot[s] # "none"
    BY <2>2, <2>4
  <2>8. QED
    BY <2>3, <2>5, <2>6, <2>7
<1>6. granted' \subseteq MadeIds' /\ closed' \subseteq MadeIds' /\ ended' \subseteq MadeIds' /\ assured' \subseteq Groups
  BY <1>3 DEF GatewayIInv
<1>7. QED
  BY <1>2, <1>4, <1>5, <1>6 DEF GatewayIInv

\* An answer from memory changes what callers know and nothing else.
LEMMA AnswerKeeps ==
  ASSUME GatewayIInv, up, granted' \subseteq MadeIds, closed' \subseteq MadeIds, assured' \subseteq Groups,
         (closed' \ closed) \cap mem.active = {},
         \A g \in assured' \ assured : \A s \in SlotSet(g) : mem.slot[s] # "none",
         UNCHANGED <<mem, disk, up, made, ended, failures, crashes>>
  PROVE  GatewayIInv'
<1>1. MadeIds' = MadeIds
  BY DEF MadeIds
<1>2. \A st \in {mem', disk'} : Sound(st)'
  <2>1. PICK d, m : d = disk /\ m = mem
    OBVIOUS
  <2>2. Sound(d) /\ Sound(m)
    BY <2>1, InvariantGives
  <2>3. Sound(d)' /\ Sound(m)'
    BY <2>2, MadeStays
  <2>4. QED
    BY <2>1, <2>3
<1>3. Durable'
  <2>1. SUFFICES ASSUME failures = 0
                 PROVE  /\ mem = disk /\ MadeIds \subseteq disk.active \cup ended
                        /\ closed' \cap (disk.active \cup mem.active) = {}
                        /\ \A g \in assured' : \A s \in SlotSet(g) : disk.slot[s] # "none"
    BY <1>1 DEF Durable, SlotSet
  <2>2. /\ mem = disk /\ MadeIds \subseteq disk.active \cup ended
        /\ closed \cap (disk.active \cup mem.active) = {}
        /\ \A g \in assured : \A s \in SlotSet(g) : disk.slot[s] # "none"
    BY <2>1 DEF GatewayIInv, Durable
  <2>3. closed' \cap (disk.active \cup mem.active) = {}
    BY <2>2
  <2>4. QED
    BY <2>2, <2>3
<1>4. QED
  BY <1>1, <1>2, <1>3 DEF GatewayIInv

LEMMA ReserveKeeps ==
  ASSUME GatewayIInv, NEW h \in Handoffs, Reserve(h)
  PROVE  GatewayIInv'
<1>0. PICK m : m = mem
  OBVIOUS
<1>1. PICK t : /\ m = mem
               /\ t = [m EXCEPT !.active = @ \cup {Len(made) + 1}, !.used = Add(@, h, Total[h])]
  BY <1>0
<1>2. /\ made \in Seq(Handoffs \cup Slots) /\ Sound(m) /\ m \in GatewayState
  BY <1>1, InvariantGives
<1>3. /\ up /\ Len(made) < MaxIds /\ made' = Append(made, h)
      /\ \A id \in m.active : made[id] # h
      /\ ActiveCount(m) < MaxActive /\ Cardinality(InUse(m.used) \cup KeysOf[h]) <= MaxKeys
      /\ \A k \in KeysOf[h] : m.used[k] + Total[h] <= Cap[k]
      /\ granted' = Returns({Len(made) + 1}, granted)
      /\ UNCHANGED <<up, assured, closed, ended, crashes>>
  BY <1>1 DEF Reserve
<1>4. Persist(t)
  BY <1>1 DEF Reserve
<1>5. Sound(t)'
  <2>1. t = [m EXCEPT !.active = @ \cup {Len(made) + 1}, !.used = Add(@, h, Total[h])]
    BY <1>1
  <2>2. QED
    BY <1>2, <1>3, <2>1, ReserveSound, Zenon
<1>6. t.active = mem.active \cup {Len(made) + 1} /\ t.slot = mem.slot
  BY <1>1, <1>2 DEF GatewayState
<1>7. QED
  BY <1>3, <1>4, <1>5, <1>6, GrantKeeps

LEMMA ClaimKeeps ==
  ASSUME GatewayIInv, NEW g \in Groups, NEW s \in SlotSet(g), ClaimGroupSlot(g, s)
  PROVE  GatewayIInv'
<1>0. PICK m : m = mem
  OBVIOUS
<1>1. PICK t : /\ m = mem
               /\ t = [m EXCEPT !.active = @ \cup {Len(made) + 1},
                                !.slot = [@ EXCEPT ![s] = "claimed"],
                                !.slotRes = [@ EXCEPT ![s] = Len(made) + 1]]
  BY <1>0
<1>2. /\ made \in Seq(Handoffs \cup Slots) /\ Sound(m) /\ m \in GatewayState
  BY <1>1, InvariantGives
<1>3. /\ up /\ Len(made) < MaxIds /\ made' = Append(made, s) /\ m.slot[s] = "reserved"
      /\ granted' = Returns({Len(made) + 1}, granted)
      /\ UNCHANGED <<up, assured, closed, ended, crashes>>
  BY <1>1 DEF ClaimGroupSlot
<1>4. Persist(t)
  BY <1>1 DEF ClaimGroupSlot
<1>5. \A i, j \in DOMAIN SlotsOf[g] : i < j /\ SlotsOf[g][j] = s => m.slot[SlotsOf[g][i]] # "reserved"
  BY <1>1 DEF ClaimGroupSlot, InOrder
<1>6. Sound(t)'
  <2>1. t = [m EXCEPT !.active = @ \cup {Len(made) + 1},
                      !.slot = [@ EXCEPT ![s] = "claimed"],
                      !.slotRes = [@ EXCEPT ![s] = Len(made) + 1]]
    BY <1>1
  <2>2. QED
    BY <1>2, <1>3, <1>5, <2>1, ClaimSound, Zenon
<1>7. s \in Slots
  BY GroupSlots
<1>8. t.active = mem.active \cup {Len(made) + 1} /\ t.slot = [m.slot EXCEPT ![s] = "claimed"]
  BY <1>1, <1>2 DEF GatewayState
<1>9. m.slot \in [Slots -> {"none", "reserved", "claimed", "settled", "released"}]
  BY <1>2 DEF GatewayState
<1>10. \A x \in Slots : mem.slot[x] # "none" => t.slot[x] # "none"
  BY <1>1, <1>8, <1>9
<1>11. s \in Handoffs \cup Slots
  BY <1>7
<1>12. QED
  BY <1>3, <1>4, <1>6, <1>8, <1>10, <1>11, GrantKeeps

LEMMA ReserveGroupKeeps ==
  ASSUME GatewayIInv, NEW g \in Groups, ReserveGroup(g)
  PROVE  GatewayIInv'
<1>0. PICK m : m = mem
  OBVIOUS
<1>1. PICK t : /\ m = mem
               /\ t = [m EXCEPT
                    !.used = [k \in Keys |-> @[k] + GroupUsage(g)[k]],
                    !.slot = [s \in Slots |-> IF s \in SlotSet(g) THEN "reserved" ELSE @[s]]]
  BY <1>0, Zenon
<1>2. made \in Seq(Handoffs \cup Slots) /\ Len(made) <= MaxIds /\ Sound(m) /\ m \in GatewayState
  BY <1>1, InvariantGives
<1>3. /\ up /\ \A s \in SlotSet(g) : m.slot[s] = "none"
      /\ ActiveCount(m) + Cardinality(SlotSet(g)) <= MaxActive
      /\ \A k \in Keys : m.used[k] + GroupUsage(g)[k] <= Cap[k]
      /\ Cardinality(InUse(m.used) \cup InUse(GroupUsage(g))) <= MaxKeys
      /\ UNCHANGED <<up, made, granted, closed, ended, crashes>>
  BY <1>1 DEF ReserveGroup
<1>4. Persist(t) /\ assured' = Returns({g}, assured)
  BY <1>1 DEF ReserveGroup
<1>5. /\ t.used = [k \in Keys |-> m.used[k] + GroupUsage(g)[k]]
      /\ t.slot = [s \in Slots |-> IF s \in SlotSet(g) THEN "reserved" ELSE m.slot[s]]
      /\ t.spent = m.spent /\ t.active = m.active /\ t.terminal = m.terminal /\ t.slotRes = m.slotRes
      /\ DOMAIN t = DOMAIN m
  BY <1>1, <1>2 DEF GatewayState
<1>6. t \in GatewayState
  <2>1. PICK v, w : v = t.used /\ w = t.slot
    OBVIOUS
  <2>2. v \in [Keys -> Nat]
    <3>1. m.used \in [Keys -> Nat]
      BY <1>2 DEF GatewayState
    <3>2. \A k \in Keys : GroupUsage(g)[k] \in Nat
      <4>1. SUFFICES ASSUME NEW k \in Keys PROVE SumFunctionOnSet(Holds(k), SlotSet(g)) \in Nat
        BY DEF GroupUsage
      <4>2. PICK f : f = Holds(k)
        OBVIOUS
      <4>3. SlotSet(g) \subseteq Slots /\ IsFiniteSet(SlotSet(g))
        BY GroupSlots
      <4>4. \A s \in SlotSet(g) : f[s] \in Nat
        BY <4>2, <4>3, HoldsIs
      <4>5. SumFunctionOnSet(f, SlotSet(g)) \in Nat
        BY <4>3, <4>4, SumNat
      <4>6. QED
        BY <4>2, <4>5
    <3>3. \A k \in Keys : m.used[k] + GroupUsage(g)[k] \in Nat
      BY <3>1, <3>2
    <3>4. QED
      BY <1>5, <2>1, <3>3
  <2>3. w \in [Slots -> {"none", "reserved", "claimed", "settled", "released"}]
    <3>1. m.slot \in [Slots -> {"none", "reserved", "claimed", "settled", "released"}]
      BY <1>2 DEF GatewayState
    <3>2. QED
      BY <1>5, <2>1, <3>1
  <2>4. t = [m EXCEPT !.used = v, !.slot = w]
    BY <1>1, <1>2, <1>5, <2>1 DEF GatewayState
  <2>5. QED
    BY <1>2, <2>2, <2>3, <2>4 DEF GatewayState
<1>7. Sound(t)
  BY <1>2, <1>3, <1>5, <1>6, GroupSound
<1>8. PICK G, I : G = {g} /\ I = {}
  OBVIOUS
<1>9. /\ \A s \in Slots : mem.slot[s] # "none" => t.slot[s] # "none"
      /\ \A f \in G : \A s \in SlotSet(f) : t.slot[s] # "none"
  <2>1. SlotSet(g) \subseteq Slots
    BY GroupSlots
  <2>2. QED
    BY <1>1, <1>5, <1>8, <2>1
<1>10. assured' \subseteq assured \cup G
  BY <1>4, <1>8 DEF Returns
<1>11. G \in SUBSET Groups /\ I \in SUBSET MadeIds
  BY <1>8
<1>12. t.active = mem.active \ I /\ closed' \subseteq closed \cup I /\ ended' = ended \cup I
  BY <1>1, <1>3, <1>5, <1>8
<1>13. QED
  BY <1>3, <1>4, <1>7, <1>9, <1>10, <1>11, <1>12, WriteKeeps

\* settle and release: what a reservation holds goes, what it used stays.
LEMMA CloseKeeps ==
  ASSUME GatewayIInv, NEW id \in mem.active, NEW event \in {"settled", "released"}, NEW n \in Nat,
         up, n <= Total[made[id]],
         \A k \in KeysOf[made[id]] : mem.used[k] + n <= Cap[k] + HeldBy(id),
         Persist(Closed(mem, id, event, n)), closed' = Returns({id}, closed), ended' = ended \cup {id},
         UNCHANGED <<up, assured, made, granted, crashes>>
  PROVE  GatewayIInv'
<1>1. PICK m, t : m = mem /\ t = Closed(m, id, event, n)
  OBVIOUS
<1>2. /\ made \in Seq(Handoffs \cup Slots) /\ Len(made) <= MaxIds /\ Sound(m)
      /\ m \in GatewayState /\ m.active \subseteq MadeIds
  BY <1>1, InvariantGives
<1>3. Sound(t)
  <2>1. id \in m.active /\ \A k \in KeysOf[made[id]] : m.used[k] + n <= Cap[k] + HeldBy(id)
    BY <1>1
  <2>2. Sound(Closed(m, id, event, n))
    BY <1>2, <2>1, CloseSound
  <2>3. QED
    BY <1>1, <2>2
<1>4. /\ t.active = m.active \ {id}
      /\ t.slot = [s \in Slots |-> IF s = made[id] THEN event ELSE m.slot[s]]
  BY <1>1, <1>2 DEF Closed, GatewayState
<1>5. PICK G, I : G = {} /\ I = {id}
  OBVIOUS
<1>6. Persist(t)
  BY <1>1
<1>7. \A s \in Slots : mem.slot[s] # "none" => t.slot[s] # "none"
  BY <1>1, <1>4
<1>8. /\ G \in SUBSET Groups /\ I \in SUBSET MadeIds /\ closed' \subseteq closed \cup I
      /\ t.active = mem.active \ I /\ ended' = ended \cup I /\ assured' \subseteq assured \cup G
      /\ \A g \in G : \A s \in SlotSet(g) : t.slot[s] # "none"
  BY <1>1, <1>2, <1>4, <1>5 DEF Returns
<1>9. QED
  BY <1>3, <1>6, <1>7, <1>8, WriteKeeps

LEMMA SettleKeeps ==
  ASSUME GatewayIInv, NEW id \in MadeIds, NEW n \in 0 .. Total[made[id]], Settle(id, n)
  PROVE  GatewayIInv'
<1>1. /\ id \in mem.active /\ up /\ n <= Total[made[id]]
      /\ \A k \in KeysOf[made[id]] : mem.used[k] + n <= Cap[k] + HeldBy(id)
      /\ Persist(Closed(mem, id, "settled", n)) /\ closed' = Returns({id}, closed)
      /\ ended' = ended \cup {id} /\ UNCHANGED <<up, assured, made, granted, crashes>>
  BY DEF Settle
<1>2. n \in Nat
  OBVIOUS
<1>3. QED
  BY <1>1, <1>2, CloseKeeps

\* Nothing stays used, and the budgets had room for the hold.
LEMMA ReleaseKeeps ==
  ASSUME GatewayIInv, NEW id \in MadeIds, Release(id)
  PROVE  GatewayIInv'
<1>1. /\ id \in mem.active /\ up
      /\ Persist(Closed(mem, id, "released", 0)) /\ closed' = Returns({id}, closed)
      /\ ended' = ended \cup {id} /\ UNCHANGED <<up, assured, made, granted, crashes>>
  BY DEF Release
<1>2. PICK h, w, u : h = made[id] /\ w = HeldBy(id) /\ u = mem.used
  OBVIOUS
<1>3. h \in Handoffs \cup Slots
  BY <1>2, InvariantGives DEF MadeIds
<1>4. Total[h] \in Nat /\ w \in Nat /\ KeysOf[h] \subseteq Keys
  BY <1>2, <1>3, Route DEF HeldBy
<1>5. \A k \in Keys : u[k] \in Nat /\ Cap[k] \in Nat /\ u[k] <= Cap[k]
  <2>1. mem \in GatewayState /\ Counted(mem)
    BY InvariantGives DEF Sound
  <2>2. u \in [Keys -> Nat]
    BY <1>2, <2>1 DEF GatewayState
  <2>3. \A k \in Keys : u[k] <= Cap[k]
    BY <1>2, <2>1 DEF Counted
  <2>4. QED
    BY <2>2, <2>3, GatewayConstants
<1>6. 0 <= Total[h] /\ \A k \in KeysOf[h] : u[k] + 0 <= Cap[k] + w
  BY <1>4, <1>5
<1>7. QED
  BY <1>1, <1>2, <1>6, CloseKeeps

LEMMA AcknowledgeKeeps ==
  ASSUME GatewayIInv, NEW id \in MadeIds, AcknowledgeTerminal(id)
  PROVE  GatewayIInv'
<1>1. PICK m : m = mem
  OBVIOUS
<1>2. PICK i \in DOMAIN m.terminal : Persist([m EXCEPT !.terminal = RemoveAt(@, i)])
  BY <1>1 DEF AcknowledgeTerminal
<1>3. up /\ UNCHANGED <<up, assured, made, granted, closed, ended, crashes>>
  BY DEF AcknowledgeTerminal
<1>4. PICK t, G, I : t = [m EXCEPT !.terminal = RemoveAt(@, i)] /\ G = {} /\ I = {}
  OBVIOUS
<1>5. Sound(m) /\ m \in GatewayState
  BY <1>1, InvariantGives
<1>6. Sound(t) /\ Persist(t)
  BY <1>2, <1>4, <1>5, AcknowledgeSound
<1>7. t.active = m.active /\ t.slot = m.slot
  BY <1>4, <1>5 DEF GatewayState
<1>8. /\ G \in SUBSET Groups /\ I \in SUBSET MadeIds /\ closed' \subseteq closed \cup I
      /\ t.active = mem.active \ I /\ ended' = ended \cup I /\ assured' \subseteq assured \cup G
      /\ \A g \in G : \A s \in SlotSet(g) : t.slot[s] # "none"
      /\ \A s \in Slots : mem.slot[s] # "none" => t.slot[s] # "none"
  BY <1>1, <1>3, <1>4, <1>7
<1>9. QED
  BY <1>3, <1>6, <1>8, WriteKeeps

\* The reservations of claimed slots are reservations that were made.
LEMMA ClaimedMade ==
  ASSUME NEW g \in Groups, NEW S \in SUBSET SlotSet(g), Sound(mem)
  PROVE  ClosedIds(g, Claimed(g, S)) \in SUBSET MadeIds
<1>1. SUFFICES ASSUME NEW i \in Claimed(g, S) PROVE mem.slotRes[SlotsOf[g][i]] \in MadeIds
  BY DEF ClosedIds
<1>2. PICK s : s = SlotsOf[g][i]
  OBVIOUS
<1>3. s \in S /\ mem.slot[s] = "claimed"
  BY <1>2 DEF Claimed
<1>4. s \in Slots
  BY <1>3, GroupSlots
<1>5. SlotsSound(mem) /\ mem.active \subseteq MadeIds
  BY DEF Sound
<1>6. mem.slotRes[s] \in mem.active
  BY <1>3, <1>4, <1>5 DEF SlotsSound
<1>7. QED
  BY <1>2, <1>5, <1>6

\* releaseGroupSlots when all of its writes go through.
LEMMA ReleaseSlotsKeeps ==
  ASSUME GatewayIInv, NEW g \in Groups, NEW S \in SUBSET SlotSet(g), ReleaseGroupSlots(g, S)
  PROVE  GatewayIInv'
<1>1. PICK t, I, G : t = ReleasedAll(g, S) /\ I = ClosedIds(g, Claimed(g, S)) /\ G = {}
  OBVIOUS
<1>2. /\ up /\ mem' = t /\ disk' = t /\ closed' = closed \cup I /\ ended' = ended \cup I
      /\ UNCHANGED <<up, assured, made, granted, failures, crashes>>
  BY <1>1 DEF ReleaseGroupSlots
<1>3. made \in Seq(Handoffs \cup Slots) /\ Len(made) <= MaxIds /\ Sound(mem)
  BY InvariantGives
<1>4. /\ Sound(t) /\ t.active = mem.active \ I
      /\ \A s \in Slots : mem.slot[s] # "none" => t.slot[s] # "none"
  BY <1>1, <1>3, ReleasedAllSound
<1>5. I \in SUBSET MadeIds
  BY <1>1, <1>3, ClaimedMade
<1>6. Persist(t)
  BY <1>2 DEF Persist
<1>7. /\ G \in SUBSET Groups /\ closed' \subseteq closed \cup I /\ assured' \subseteq assured \cup G
      /\ \A f \in G : \A s \in SlotSet(f) : t.slot[s] # "none"
  BY <1>1, <1>2
<1>8. QED
  BY <1>2, <1>4, <1>5, <1>6, <1>7, WriteKeeps

\* One of its writes fails: memory and file differ, and each is sound.
LEMMA ReleaseSlotsFailsKeeps ==
  ASSUME GatewayIInv, NEW g \in Groups, NEW S \in SUBSET SlotSet(g), ReleaseGroupSlotsFails(g, S)
  PROVE  GatewayIInv'
<1>1. made \in Seq(Handoffs \cup Slots) /\ Len(made) <= MaxIds /\ Sound(mem) /\ Sound(disk)
  BY InvariantGives
<1>2. PICK i \in Claimed(g, S) \cup {Len(SlotsOf[g]) + 1} :
        /\ mem' = IF i \in Claimed(g, S) THEN ReleasedUpTo(g, S, i) ELSE ReleasedAll(g, S)
        /\ disk' = disk \/ \E j \in Claimed(g, S) : disk' = ReleasedUpTo(g, S, j)
        /\ ended' = ended \cup ClosedIds(g, {j \in Claimed(g, S) : j <= i})
  BY DEF ReleaseGroupSlotsFails
<1>3. /\ failures < MaxFailures /\ failures' = failures + 1
      /\ UNCHANGED <<up, assured, made, granted, closed, crashes>>
  BY DEF ReleaseGroupSlotsFails
<1>4. \A st \in {mem', disk'} : Sound(st)
  <2>1. PICK t, d, e : t = mem' /\ d = disk' /\ e = disk
    OBVIOUS
  <2>2. Sound(t)
    <3>1. CASE i \in Claimed(g, S)
      <4>1. t = ReleasedUpTo(g, S, i)
        BY <1>2, <2>1, <3>1
      <4>2. QED
        BY <1>1, <3>1, <4>1, ReleasedSound
    <3>2. CASE i \notin Claimed(g, S)
      <4>1. t = ReleasedAll(g, S)
        BY <1>2, <2>1, <3>2
      <4>2. QED
        BY <1>1, <4>1, ReleasedAllSound
    <3>3. QED
      BY <3>1, <3>2
  <2>3. Sound(d)
    <3>1. CASE disk' = disk
      BY <1>1, <2>1, <3>1
    <3>2. CASE \E j \in Claimed(g, S) : disk' = ReleasedUpTo(g, S, j)
      <4>1. PICK j \in Claimed(g, S) : d = ReleasedUpTo(g, S, j)
        BY <2>1, <3>2
      <4>2. QED
        BY <1>1, <4>1, ReleasedSound
    <3>3. QED
      BY <1>2, <3>1, <3>2
  <2>4. QED
    BY <2>1, <2>2, <2>3
<1>5. \A st \in {mem', disk'} : Sound(st)'
  <2>1. PICK t, d : t = mem' /\ d = disk'
    OBVIOUS
  <2>2. Sound(t) /\ Sound(d)
    BY <1>4, <2>1
  <2>3. Sound(t)' /\ Sound(d)'
    BY <1>3, <2>2, MadeStays
  <2>4. QED
    BY <2>1, <2>3
<1>6. failures' \in 0 .. MaxFailures /\ failures' # 0
  BY <1>3, InvariantGives
<1>7. MadeIds' = MadeIds
  BY <1>3 DEF MadeIds
<1>8. ended' \subseteq MadeIds
  <2>1. PICK J : J = {j \in Claimed(g, S) : j <= i}
    OBVIOUS
  <2>2. ClosedIds(g, J) \subseteq ClosedIds(g, Claimed(g, S))
    BY <2>1 DEF ClosedIds
  <2>3. ClosedIds(g, Claimed(g, S)) \subseteq MadeIds
    BY <1>1, ClaimedMade
  <2>4. QED
    BY <1>2, <2>1, <2>2, <2>3 DEF GatewayIInv
<1>9. Durable'
  BY <1>6 DEF Durable
<1>10. QED
  BY <1>3, <1>5, <1>6, <1>7, <1>8, <1>9 DEF GatewayIInv

\* The process dies between two of them: the file has the slots released so far, and
\* callers were told of none.
LEMMA ReleaseSlotsCrashKeeps ==
  ASSUME GatewayIInv, NEW g \in Groups, NEW S \in SUBSET SlotSet(g), ReleaseGroupSlotsCrash(g, S)
  PROVE  GatewayIInv'
<1>1. made \in Seq(Handoffs \cup Slots) /\ Len(made) <= MaxIds /\ Sound(mem)
  BY InvariantGives
<1>2. PICK i \in Claimed(g, S) :
        /\ disk' = ReleasedUpTo(g, S, i)
        /\ ended' = ended \cup ClosedIds(g, {j \in Claimed(g, S) : j <= i})
  BY DEF ReleaseGroupSlotsCrash
<1>3. /\ up /\ up' = FALSE /\ crashes < MaxCrashes /\ crashes' = crashes + 1
      /\ UNCHANGED <<mem, assured, made, granted, closed, failures>>
  BY DEF ReleaseGroupSlotsCrash
<1>4. PICK d, m, I : d = disk' /\ m = mem /\ I = ClosedIds(g, {j \in Claimed(g, S) : j <= i})
  OBVIOUS
<1>5. /\ Sound(d) /\ d.active = mem.active \ I
      /\ \A s \in Slots : mem.slot[s] # "none" => d.slot[s] # "none"
  BY <1>1, <1>2, <1>4, ReleasedSound
<1>6. Sound(d)' /\ Sound(m)'
  BY <1>1, <1>3, <1>4, <1>5, MadeStays
<1>7. \A st \in {mem', disk'} : Sound(st)'
  BY <1>3, <1>4, <1>6
<1>8. crashes' \in 0 .. MaxCrashes
  BY <1>3, InvariantGives
<1>9. MadeIds' = MadeIds
  BY <1>3 DEF MadeIds
<1>10. ended' \subseteq MadeIds
  <2>1. I \subseteq ClosedIds(g, Claimed(g, S))
    BY <1>4 DEF ClosedIds
  <2>2. ClosedIds(g, Claimed(g, S)) \subseteq MadeIds
    BY <1>1, ClaimedMade
  <2>3. QED
    BY <1>2, <1>4, <2>1, <2>2 DEF GatewayIInv
<1>11. Durable'
  <2>1. SUFFICES ASSUME failures = 0
                 PROVE  /\ MadeIds \subseteq d.active \cup ended'
                        /\ closed \cap (d.active \cup mem.active) = {}
                        /\ \A f \in assured : \A s \in SlotSet(f) : d.slot[s] # "none"
    BY <1>3, <1>4, <1>9 DEF Durable, SlotSet
  <2>2. /\ mem = disk /\ MadeIds \subseteq disk.active \cup ended
        /\ closed \cap (disk.active \cup mem.active) = {} /\ assured \subseteq Groups
        /\ \A f \in assured : \A s \in SlotSet(f) : disk.slot[s] # "none"
    BY <1>3, <2>1 DEF GatewayIInv, Durable
  <2>3. \A f \in Groups : SlotSet(f) \subseteq Slots
    BY GroupSlots
  <2>4. MadeIds \subseteq d.active \cup ended'
    BY <1>2, <1>4, <1>5, <2>2
  <2>5. closed \cap (d.active \cup mem.active) = {}
    BY <1>5, <2>2
  <2>6. \A f \in assured : \A s \in SlotSet(f) : d.slot[s] # "none"
    BY <1>5, <2>2, <2>3
  <2>7. QED
    BY <2>4, <2>5, <2>6
<1>12. QED
  BY <1>3, <1>7, <1>8, <1>9, <1>10, <1>11 DEF GatewayIInv

LEMMA CrashKeeps ==
  ASSUME GatewayIInv, Crash
  PROVE  GatewayIInv'
<1>1. /\ up' = FALSE /\ crashes < MaxCrashes /\ crashes' = crashes + 1
      /\ UNCHANGED <<mem, disk, assured, made, granted, closed, ended, failures>>
  BY DEF Crash
<1>2. PICK d, m : d = disk /\ m = mem
  OBVIOUS
<1>3. Sound(d) /\ Sound(m)
  BY <1>2, InvariantGives
<1>4. Sound(d)' /\ Sound(m)'
  BY <1>1, <1>3, MadeStays
<1>5. crashes' \in 0 .. MaxCrashes
  BY <1>1, InvariantGives
<1>6. MadeIds' = MadeIds
  BY <1>1 DEF MadeIds
<1>7. Durable'
  BY <1>1, <1>6 DEF GatewayIInv, Durable, SlotSet
<1>8. \A st \in {mem', disk'} : Sound(st)'
  BY <1>1, <1>2, <1>4
<1>9. QED
  BY <1>1, <1>5, <1>6, <1>7, <1>8 DEF GatewayIInv

\* The new process starts with the file.
LEMMA BootKeeps ==
  ASSUME GatewayIInv, Boot
  PROVE  GatewayIInv'
<1>1. up' = TRUE /\ mem' = disk /\ UNCHANGED <<disk, assured, made, granted, closed, ended, failures, crashes>>
  BY DEF Boot
<1>2. PICK d : d = disk
  OBVIOUS
<1>3. Sound(d)
  BY <1>2, InvariantGives
<1>4. Sound(d)'
  BY <1>1, <1>3, MadeStays
<1>5. MadeIds' = MadeIds
  BY <1>1 DEF MadeIds
<1>6. Durable'
  BY <1>1, <1>5 DEF GatewayIInv, Durable, SlotSet
<1>7. \A st \in {mem', disk'} : Sound(st)'
  BY <1>1, <1>2, <1>4
<1>8. QED
  BY <1>1, <1>5, <1>6, <1>7 DEF GatewayIInv

\* What reserve, reserveGroup, claimGroupSlot, settle and release answer when asked again.
LEMMA AgainKeeps ==
  ASSUME GatewayIInv,
         \/ \E h \in Handoffs : ReserveAgain(h)
         \/ \E g \in Groups : ReserveGroupAgain(g)
         \/ \E s \in Slots : ClaimAgain(s)
         \/ \E id \in MadeIds : SettleAgain(id) \/ ReleaseAgain(id)
  PROVE  GatewayIInv'
<1>1. /\ granted \subseteq MadeIds /\ closed \subseteq MadeIds /\ assured \subseteq Groups
      /\ mem.active \subseteq MadeIds /\ SlotsSound(mem)
  BY InvariantGives DEF GatewayIInv, Sound
<1>2. ASSUME NEW h \in Handoffs, ReserveAgain(h) PROVE GatewayIInv'
  <2>1. /\ up /\ granted' \subseteq MadeIds
        /\ UNCHANGED <<mem, disk, up, assured, made, closed, ended, failures, crashes>>
    BY <1>1, <1>2 DEF ReserveAgain
  <2>2. QED
    BY <1>1, <2>1, AnswerKeeps
<1>3. ASSUME NEW g \in Groups, ReserveGroupAgain(g) PROVE GatewayIInv'
  <2>1. /\ up /\ assured' = assured \cup {g} /\ \E s \in SlotSet(g) : mem.slot[s] # "none"
        /\ UNCHANGED <<mem, disk, up, made, granted, closed, ended, failures, crashes>>
    BY <1>3 DEF ReserveGroupAgain
  <2>2. \A s, t \in SlotSet(g) : mem.slot[s] = "none" => mem.slot[t] = "none"
    BY <1>1 DEF SlotsSound
  <2>3. \A f \in assured' \ assured : \A s \in SlotSet(f) : mem.slot[s] # "none"
    BY <2>1, <2>2
  <2>4. QED
    BY <1>1, <2>1, <2>3, AnswerKeeps
<1>4. ASSUME NEW s \in Slots, ClaimAgain(s) PROVE GatewayIInv'
  <2>1. /\ up /\ mem.slotRes[s] # 0 /\ granted' = granted \cup {mem.slotRes[s]}
        /\ UNCHANGED <<mem, disk, up, assured, made, closed, ended, failures, crashes>>
    BY <1>4 DEF ClaimAgain
  <2>2. mem.slotRes[s] \in MadeIds
    BY <1>1, <2>1 DEF SlotsSound
  <2>3. QED
    BY <1>1, <2>1, <2>2, AnswerKeeps
<1>5. ASSUME NEW id \in MadeIds, SettleAgain(id) \/ ReleaseAgain(id) PROVE GatewayIInv'
  <2>1. /\ up /\ id \notin mem.active /\ closed' = closed \cup {id}
        /\ UNCHANGED <<mem, disk, up, assured, made, granted, ended, failures, crashes>>
    BY <1>5 DEF SettleAgain, ReleaseAgain
  <2>2. QED
    BY <1>1, <2>1, AnswerKeeps
<1>6. QED
  BY <1>2, <1>3, <1>4, <1>5

LEMMA EmptySound == made = <<>> => Sound(Empty)
<1>1. SUFFICES ASSUME made = <<>> PROVE Sound(Empty)
  OBVIOUS
<1>2. PICK e : e = Empty
  OBVIOUS
<1>3. /\ e.used = [k \in Keys |-> 0] /\ e.spent = [k \in Keys |-> 0] /\ e.active = {} /\ e.terminal = <<>>
      /\ e.slot = [s \in Slots |-> "none"] /\ e.slotRes = [s \in Slots |-> 0]
  BY <1>2 DEF Empty
<1>4. e \in GatewayState
  BY <1>2 DEF Empty, GatewayState
<1>5. HeldSlots(e) = {} /\ Ordinary(e) = {} /\ InUse(e.used) = {} /\ TerminalIds(e) = {}
  BY <1>3 DEF HeldSlots, Ordinary, InUse, TerminalIds
<1>6. IsFiniteSet({}) /\ Cardinality({}) = 0
  BY FS_EmptySet
<1>7. Loads(e)
  <2>1. Len(e.terminal) = 0 /\ ActiveCount(e) = 0 /\ Cardinality(InUse(e.used)) = 0
    <3>1. Cardinality(HeldSlots(e)) = 0 /\ Cardinality(Ordinary(e)) = 0 /\ Cardinality(InUse(e.used)) = 0
      BY <1>5, <1>6
    <3>2. ActiveCount(e) = 0
      BY <3>1 DEF ActiveCount
    <3>3. Len(e.terminal) = 0
      BY <1>3
    <3>4. QED
      BY <3>1, <3>2, <3>3
  <2>2. MaxTerminal \in Nat /\ MaxActive \in Nat /\ MaxKeys \in Nat
    BY GatewayConstants
  <2>3. TerminalIds(e) \cap e.active = {} /\ TerminalIds(e) \subseteq MadeIds
    BY <1>5
  <2>4. \A i, j \in e.active : made[i] = made[j] => i = j
    BY <1>3
  <2>5. 0 <= MaxTerminal /\ 0 <= MaxActive /\ 0 <= MaxKeys
    BY <2>2
  <2>6. QED
    BY <2>1, <2>3, <2>4, <2>5 DEF Loads
<1>8. SlotsSound(e)
  <2>1. \A g \in Groups : SlotSet(g) \subseteq Slots
    BY GroupSlots
  <2>2. \A g \in Groups : \A i \in DOMAIN SlotsOf[g] : SlotsOf[g][i] \in Slots
    BY GroupSlots
  <2>3. QED
    BY <1>3, <1>5, <1>6, <2>1, <2>2 DEF SlotsSound
<1>9. Counted(e)
  <2>1. ASSUME NEW k \in Keys PROVE Required(e, k) = 0
    BY <1>5, SumNothing DEF Required
  <2>2. \A k \in Keys : e.used[k] = 0 /\ e.spent[k] = 0 /\ Cap[k] \in Nat
    BY <1>3, GatewayConstants
  <2>3. \A k \in Keys : e.used[k] = Required(e, k) + e.spent[k] /\ e.used[k] <= Cap[k]
    BY <2>1, <2>2
  <2>4. ASSUME NEW K \in Kinds PROVE SumFunctionOnSet(e.used, K) = 0
    <3>1. PICK u : u = e.used
      OBVIOUS
    <3>2. K \subseteq Keys /\ IsFiniteSet(K)
      BY KindsFinite
    <3>3. \A k \in K : u[k] = 0
      BY <2>2, <3>1, <3>2
    <3>4. SumFunctionOnSet(u, K) = 0
      <4>1. CASE K = {}
        BY <4>1, SumNothing
      <4>2. CASE K # {}
        <5>1. PICK k \in K : TRUE
          BY <4>2
        <5>2. SumFunctionOnSet(u, K) = u[k]
          BY <3>2, <3>3, SumOne
        <5>3. QED
          BY <3>3, <5>2
      <4>3. QED
        BY <4>1, <4>2
    <3>5. QED
      BY <3>1, <3>4
  <2>5. Balanced(e.used)
    BY <2>4 DEF Balanced
  <2>6. QED
    BY <2>3, <2>5 DEF Counted
<1>10. QED
  BY <1>2, <1>3, <1>4, <1>7, <1>8, <1>9 DEF Sound

LEMMA GatewayStart == GatewayInit => GatewayIInv
<1>1. SUFFICES ASSUME GatewayInit PROVE GatewayIInv
  OBVIOUS
<1>2. /\ mem = Empty /\ disk = Empty /\ up = TRUE
      /\ made = <<>> /\ granted = {} /\ assured = {} /\ closed = {} /\ ended = {}
      /\ failures = 0 /\ crashes = 0
  BY <1>1 DEF GatewayInit
<1>3. made \in Seq(Handoffs \cup Slots) /\ Len(made) <= MaxIds /\ MadeIds = {}
  BY <1>2, GatewayConstants DEF MadeIds
<1>4. \A st \in {mem, disk} : Sound(st)
  BY <1>2, EmptySound
<1>5. Durable
  BY <1>2, <1>3 DEF Durable
<1>6. QED
  BY <1>2, <1>3, <1>4, <1>5, GatewayConstants DEF GatewayIInv

\* A step that changes nothing.
LEMMA NothingKeeps == ASSUME GatewayIInv, UNCHANGED gatewayVars PROVE GatewayIInv'
<1>1. UNCHANGED <<mem, disk, up, made, granted, assured, closed, ended, failures, crashes>>
  BY DEF gatewayVars
<1>2. PICK d, m : d = disk /\ m = mem
  OBVIOUS
<1>3. Sound(d) /\ Sound(m)
  BY <1>2, InvariantGives
<1>4. Sound(d)' /\ Sound(m)'
  BY <1>1, <1>3, MadeStays
<1>5. MadeIds' = MadeIds
  BY <1>1 DEF MadeIds
<1>6. Durable'
  BY <1>1, <1>5 DEF GatewayIInv, Durable, SlotSet
<1>7. \A st \in {mem', disk'} : Sound(st)'
  BY <1>1, <1>2, <1>4
<1>8. QED
  BY <1>1, <1>5, <1>6, <1>7 DEF GatewayIInv

\* Every operation of the gateway, each with every way its writes can end, keeps the
\* invariant, and so does a process that dies and starts again.
THEOREM GatewayInductive == GatewayIInv /\ [GatewayNext]_gatewayVars => GatewayIInv'
<1>1. SUFFICES ASSUME GatewayIInv, [GatewayNext]_gatewayVars PROVE GatewayIInv'
  OBVIOUS
<1>2. CASE UNCHANGED gatewayVars
  BY <1>1, <1>2, NothingKeeps
<1>3. ASSUME NEW h \in Handoffs, ReserveAgain(h) \/ Reserve(h) PROVE GatewayIInv'
  BY <1>1, <1>3, ReserveKeeps, AgainKeeps
<1>4. ASSUME NEW g \in Groups, ReserveGroup(g) \/ ReserveGroupAgain(g) PROVE GatewayIInv'
  BY <1>1, <1>4, ReserveGroupKeeps, AgainKeeps
<1>5. ASSUME NEW g \in Groups, NEW s \in SlotSet(g), ClaimGroupSlot(g, s) PROVE GatewayIInv'
  BY <1>1, <1>5, ClaimKeeps
<1>6. ASSUME NEW g \in Groups, NEW S \in SUBSET SlotSet(g),
             ReleaseGroupSlots(g, S) \/ ReleaseGroupSlotsFails(g, S) \/ ReleaseGroupSlotsCrash(g, S)
      PROVE  GatewayIInv'
  BY <1>1, <1>6, ReleaseSlotsKeeps, ReleaseSlotsFailsKeeps, ReleaseSlotsCrashKeeps
<1>7. ASSUME NEW s \in Slots, ClaimAgain(s) PROVE GatewayIInv'
  BY <1>1, <1>7, AgainKeeps
<1>8. ASSUME NEW id \in MadeIds, NEW n \in 0 .. Total[made[id]], Settle(id, n) PROVE GatewayIInv'
  BY <1>1, <1>8, SettleKeeps
<1>9. ASSUME NEW id \in MadeIds,
             SettleAgain(id) \/ Release(id) \/ ReleaseAgain(id) \/ AcknowledgeTerminal(id)
      PROVE  GatewayIInv'
  <2>1. CASE SettleAgain(id) \/ ReleaseAgain(id)
    BY <1>1, <2>1, AgainKeeps
  <2>2. CASE Release(id)
    BY <1>1, <2>2, ReleaseKeeps
  <2>3. CASE AcknowledgeTerminal(id)
    BY <1>1, <2>3, AcknowledgeKeeps
  <2>4. QED
    BY <1>9, <2>1, <2>2, <2>3
<1>10. CASE Crash
  BY <1>1, <1>10, CrashKeeps
<1>11. CASE Boot
  BY <1>1, <1>11, BootKeeps
<1>12. QED
  BY <1>1, <1>2, <1>3, <1>4, <1>5, <1>6, <1>7, <1>8, <1>9, <1>10, <1>11 DEF GatewayNext

LEMMA GatewayAlways == GatewaySpec => []GatewayIInv
BY GatewayStart, GatewayInductive, PTL DEF GatewaySpec

-----------------------------------------------------------------------------
(* What it gives *)

\* The memory and the file of the gateway keep the shape of GatewayState, and refer to
\* reservations that were made (tokenGateway.ts:110-115).
THEOREM GatewayTyped == GatewaySpec => []GatewayTypeOK
<1>1. GatewayIInv => GatewayTypeOK
  <2>1. SUFFICES ASSUME GatewayIInv PROVE GatewayTypeOK
    OBVIOUS
  <2>2. /\ mem \in GatewayState /\ mem.active \subseteq MadeIds
        /\ disk \in GatewayState /\ disk.active \subseteq MadeIds
    BY <2>1, InvariantGives
  <2>3. mem.active \cup disk.active \subseteq MadeIds
    BY <2>2
  <2>4. QED
    BY <2>1, <2>2, <2>3 DEF GatewayIInv, GatewayTypeOK
<1>2. QED
  BY <1>1, GatewayAlways, PTL

\* No token is lost or counted twice, in memory or in the file: the usage of a key is
\* what the open reservations and the held slots ask of it plus what was settled,
\* whatever claims, partial releases, failed writes and crashes came before
\* (addRouteUsage clamps at zero, and never has to).
THEOREM GatewayConserves == GatewaySpec => []UsageConserved
<1>1. GatewayIInv => UsageConserved
  BY DEF GatewayIInv, Sound, Counted, UsageConserved
<1>2. QED
  BY <1>1, GatewayAlways, PTL

\* No budget is exceeded, by single reservations, by groups or by what a settlement
\* reports (the three checks of reserve, of reserveGroup and of settle).
THEOREM GatewayWithinBudget == GatewaySpec => []BudgetRespected
<1>1. GatewayIInv => BudgetRespected
  BY DEF GatewayIInv, Sound, Counted, BudgetRespected
<1>2. QED
  BY <1>1, GatewayAlways, PTL

\* The constructor accepts every file the gateway writes, between the writes of a group
\* release too: isGatewayState and usageIsCoherent never refuse the gateway's own file.
THEOREM GatewayLoads == GatewaySpec => []DiskLoads
<1>1. GatewayIInv => DiskLoads
  <2>1. SUFFICES ASSUME GatewayIInv PROVE IsGatewayState(disk)
    BY DEF DiskLoads
  <2>2. Sound(disk) /\ disk \in GatewayState /\ disk.active \subseteq MadeIds
    BY <2>1, InvariantGives
  <2>3. Loads(disk) /\ SlotsSound(disk) /\ Counted(disk)
    BY <2>2 DEF Sound
  <2>4. ASSUME NEW k \in Keys PROVE disk.used[k] >= Required(disk, k)
    <3>1. PICK u, r, p : u = disk.used[k] /\ r = Required(disk, k) /\ p = disk.spent[k]
      OBVIOUS
    <3>2. u \in Nat /\ p \in Nat
      BY <2>2, <3>1 DEF GatewayState
    <3>3. r \in Nat
      <4>1. made \in Seq(Handoffs \cup Slots) /\ Len(made) <= MaxIds
        BY <2>1, InvariantGives
      <4>2. IsFiniteSet(HeldSlots(disk))
        BY <2>3 DEF SlotsSound
      <4>3. /\ SumFunctionOnSet(Asked(k), Ordinary(disk)) \in Nat
            /\ SumFunctionOnSet(Holds(k), HeldSlots(disk)) \in Nat
        BY <2>2, <4>1, <4>2, Counts
      <4>4. QED
        BY <3>1, <4>3 DEF Required
    <3>4. u = r + p
      BY <2>3, <3>1 DEF Counted
    <3>5. u >= r
      BY <3>2, <3>3, <3>4
    <3>6. QED
      BY <3>1, <3>5
  <2>5. \A K, L \in Kinds : SumFunctionOnSet(disk.used, K) = SumFunctionOnSet(disk.used, L)
    BY <2>3 DEF Counted, Balanced
  <2>6. /\ \A s \in Slots :
             /\ disk.slot[s] = "reserved" => disk.slotRes[s] = 0
             /\ disk.slot[s] \in {"claimed", "settled"} => disk.slotRes[s] # 0
             /\ disk.slot[s] = "claimed" => disk.slotRes[s] \in disk.active
        /\ \A id \in disk.active : made[id] \in Slots =>
             disk.slot[made[id]] = "claimed" /\ disk.slotRes[made[id]] = id
    BY <2>3 DEF SlotsSound
  <2>7. /\ Cardinality(InUse(disk.used)) <= MaxKeys
        /\ Len(disk.terminal) <= MaxTerminal /\ ActiveCount(disk) <= MaxActive
        /\ TerminalIds(disk) \cap disk.active = {}
        /\ \A i, j \in disk.active : made[i] = made[j] => i = j
    BY <2>3 DEF Loads
  <2>8. QED
    BY <2>4, <2>5, <2>6, <2>7 DEF IsGatewayState
<1>2. QED
  BY <1>1, GatewayAlways, PTL

\* While every write went through, what a caller was given is in the file until an
\* operation closes it, and every slot of a group it was given is held or closed there:
\* a restart takes no reservation from a run that was dispatched.
THEOREM GrantsSurvive == GatewaySpec => []WrittenGrantIsDurable
<1>1. GatewayIInv => WrittenGrantIsDurable
  BY DEF GatewayIInv, Durable, WrittenGrantIsDurable, GrantIsDurable
<1>2. QED
  BY <1>1, GatewayAlways, PTL

\* While every write went through, what a caller was told is closed holds no tokens, in
\* memory or in the file, and so never comes back with a restart.
THEOREM ClosesSurvive == GatewaySpec => []WrittenCloseIsDurable
<1>1. GatewayIInv => WrittenCloseIsDurable
  BY DEF GatewayIInv, Durable, WrittenCloseIsDurable
<1>2. QED
  BY <1>1, GatewayAlways, PTL
=============================================================================
