----------------------------- MODULE CliWorker -----------------------------
(***************************************************************************)
(* A governed dispatch and the worker it runs                              *)
(* (src/governed-core/dispatch.ts, src/data/delivery-system/cliWorker.ts   *)
(* and the process registry of cliWorkerCapture.ts).                       *)
(*                                                                         *)
(* Callers is what runs dispatches at the same time on one state           *)
(* directory: the control plane and the IPC server, each a process.  A     *)
(* dispatch reserves tokens, takes the one worker lock, runs the vendor,   *)
(* releases the lock and settles the reservation.  The lock is a file; it  *)
(* does not die with its process but goes stale after its TTL.  An agy     *)
(* child is a process of its own: it is recorded in the registry when it   *)
(* is spawned and when it exits, and every worker first sweeps the         *)
(* recorded children that are too old.                                     *)
(*                                                                         *)
(* Whatever the code does in one synchronous stretch under the state lock  *)
(* is one step.  Between two ticks every such stretch has run: a tick is   *)
(* minutes, a stretch seconds.  Token limits are left to TokenGateway, the *)
(* caller-owned reservation to RunLifecycle.                               *)
(***************************************************************************)
EXTENDS Integers, Sequences, SequencesExt

CONSTANTS
  Callers,       \* processes that dispatch
  Pids,          \* process ids of the host
  Ttl,           \* WORKER_LOCK_TTL_MINUTES
  MaxAge,        \* DEFAULT_VENDOR_PROCESS_MAX_AGE_MS
  Timeouts,      \* what a handoff asks for as timeoutMs; nothing caps it
  MaxDispatches, \* bound: dispatches, which also number the worker runs
  MaxFaults,     \* bound: writes of the state directory that throw
  MaxCrashes     \* bound: deaths of a caller

ASSUME WorkerConstants ==
  /\ Ttl \in Nat \ {0} /\ MaxAge \in Nat \ {0}
  /\ Timeouts \subseteq Nat \ {0} /\ Timeouts # {}
  /\ {MaxDispatches, MaxFaults, MaxCrashes} \subseteq Nat
  /\ Pids \subseteq Nat \ {0}

VARIABLES
  pc,        \* pc[c]: where the dispatch of c is
  job,       \* job[c]: its worker run
  lock,      \* the worker lock file
  registry,  \* vendor-process-registry.jsonl
  os,        \* os[i]: the process that has the id i
  held,      \* worker runs whose tokens are reserved
  next,      \* the next worker run
  faults, crashes,
  leaked,    \* history: runs that ended on a throw or death while they held the lock
  unsettled, \* history: runs whose reservation was left to its expiry
  unrecorded \* history: runs whose child ended and was never recorded as exited

vars == <<pc, job, lock, registry, os, held, next, faults, crashes,
          leaked, unsettled, unrecorded>>

Runs == 1 .. MaxDispatches
Free == 0                      \* no process has the id
Stranger == MaxDispatches + 1  \* a process of somebody else has it

Vendors == {"agy", "blocking"} \* blocking: spawnSync of codex and claude, and the HTTP lane
Oldest == (IF Ttl > MaxAge THEN Ttl ELSE MaxAge) + 1  \* ages beyond it are not told apart

NoJob == [run |-> 0, vendor |-> "none", limit |-> 0, age |-> 0, child |-> 0]
NoLock == [run |-> 0, age |-> 0]

Working == {"start", "spawn", "capture", "write", "release"}

Init ==
  /\ pc = [c \in Callers |-> "idle"] /\ job = [c \in Callers |-> NoJob]
  /\ lock = NoLock /\ registry = <<>> /\ os = [i \in Pids |-> Free]
  /\ held = {} /\ next = 1 /\ faults = 0 /\ crashes = 0
  /\ leaked = {} /\ unsettled = {} /\ unrecorded = {}

-----------------------------------------------------------------------------
(* Helpers *)

Older(n) == IF n < Oldest THEN n + 1 ELSE n

\* Mutant: a lock that has just reached its TTL is stale.
IsStaleEarly(l) == l.age >= Ttl

\* isWorkerLockStale
IsStale(l) == l.age > Ttl

Spend == faults < MaxFaults /\ faults' = faults + 1

Goto(c, where) == pc' = [pc EXCEPT ![c] = where]

\* runCliWorker throws.
Throws(c) == Goto(c, "unwind") /\ UNCHANGED <<job, held>>

-----------------------------------------------------------------------------
(* Before the lock *)

\* gateway.reserve() succeeds, runCliWorker begins; it throws at once on a route, a model
\* or a prompt it does not accept.  A handoff that the chain of refusals or the gateway
\* turns away changes nothing here.
Dispatch(c) ==
  /\ pc[c] = "idle" /\ next <= MaxDispatches
  /\ \E v \in Vendors, t \in Timeouts :
       job' = [job EXCEPT ![c] = [run |-> next, vendor |-> v, limit |-> t, age |-> 0, child |-> 0]]
  /\ held' = held \cup {next} /\ next' = next + 1
  /\ Goto(c, "sweep") \/ Goto(c, "unwind")
  /\ UNCHANGED <<lock, registry, os, faults, crashes, leaked, unsettled, unrecorded>>

Event(e, i, r) == [event |-> e, pid |-> i, run |-> r, age |-> 0]

\* killVendorProcess
Killed(children) == [i \in Pids |-> IF i \in children THEN Free ELSE os[i]]

\* hasLaterVendorProcessExit
LaterExit(k) == \E n \in k + 1 .. Len(registry) :
  /\ registry[n].event = "exited"
  /\ registry[n].pid = registry[k].pid /\ registry[n].run = registry[k].run

\* selectOrphanedVendorPids
Orphans == {registry[k].pid : k \in {k \in DOMAIN registry :
  /\ registry[k].event = "spawned" /\ registry[k].age > MaxAge
  /\ ~LaterExit(k) /\ os[registry[k].pid] # Free}}

\* openWorkerRunIdForPid: the newest spawn of the pid that has no exit, 0 without one.
OpenRun(i) ==
  LET open == {k \in DOMAIN registry :
                 registry[k].event = "spawned" /\ registry[k].pid = i /\ ~LaterExit(k)}
  IN IF open = {} THEN 0 ELSE registry[CHOOSE k \in open : \A j \in open : j <= k].run

\* sweepVendorProcessRegistryBestEffort.  The exits it cannot append are lost.
Sweep(c) ==
  /\ pc[c] = "sweep"
  /\ os' = Killed(Orphans)
  /\ \/ /\ registry' = registry \o SetToSeq({Event("exited", i, OpenRun(i)) : i \in Orphans})
        /\ UNCHANGED faults
     \/ Orphans # {} /\ Spend /\ UNCHANGED registry
  /\ Goto(c, "acquire")
  /\ UNCHANGED <<job, lock, held, next, crashes, leaked, unsettled, unrecorded>>

-----------------------------------------------------------------------------
(* The lock *)

\* acquireWorkerLock: acquired_supervisor_spawn, stale_replaced or already_locked.
\* A worker that finds the lock taken reports it and returns; it is settled like another.
TakeLock(c) ==
  \/ /\ lock = NoLock \/ IsStale(lock)
     /\ lock' = [run |-> job[c].run, age |-> 0]
     /\ Goto(c, "start") /\ UNCHANGED job
  \/ /\ lock # NoLock /\ ~IsStale(lock)
     /\ Goto(c, "settle") /\ UNCHANGED <<lock, job>>

Acquire(c) ==
  /\ pc[c] = "acquire"
  /\ \/ TakeLock(c) /\ UNCHANGED <<held, faults>>
     \/ Spend /\ Throws(c) /\ UNCHANGED lock
  /\ UNCHANGED <<registry, os, next, crashes, leaked, unsettled, unrecorded>>

\* appendRegistryEntry("subagent_start"): when it throws, the lock stays.
RegisterStart(c) ==
  /\ pc[c] = "start"
  /\ \/ Goto(c, IF job[c].vendor = "agy" THEN "spawn" ELSE "capture")
        /\ UNCHANGED <<job, held, faults, leaked>>
     \/ Spend /\ Throws(c) /\ leaked' = leaked \cup {job[c].run}
  /\ UNCHANGED <<lock, registry, os, next, crashes, unsettled, unrecorded>>

-----------------------------------------------------------------------------
(* The vendor *)

\* captureAgyResponse: pty.spawn, then the "spawned" record, which may be lost.
Spawn(c) ==
  /\ pc[c] = "spawn"
  /\ \E i \in {i \in Pids : os[i] = Free} :
       /\ os' = [os EXCEPT ![i] = job[c].run]
       /\ job' = [job EXCEPT ![c].child = i]
       /\ \/ registry' = Append(registry, Event("spawned", i, job[c].run)) /\ UNCHANGED faults
          \/ Spend /\ UNCHANGED registry
  /\ Goto(c, "capture")
  /\ UNCHANGED <<lock, held, next, crashes, leaked, unsettled, unrecorded>>

\* Mutant: the error of a capture is not caught.
SpawnFailsUncaught(c) ==
  /\ pc[c] = "spawn" /\ Throws(c)
  /\ UNCHANGED <<lock, registry, os, next, faults, crashes, leaked, unsettled, unrecorded>>

\* The vendor could not be run at all: the catch of the capture takes the error.
SpawnFails(c) ==
  /\ pc[c] = "spawn" /\ Goto(c, "release")
  /\ UNCHANGED <<job, lock, registry, os, held, next, faults, crashes,
                 leaked, unsettled, unrecorded>>

\* proc.onExit: the exit is recorded, best effort, and the capture resolves.
CaptureExit(c) ==
  /\ pc[c] = "capture" /\ job[c].child # 0 /\ os[job[c].child] # job[c].run
  /\ \/ /\ registry' = Append(registry, Event("exited", job[c].child, job[c].run))
        /\ UNCHANGED <<faults, unrecorded>>
     \/ Spend /\ unrecorded' = unrecorded \cup {job[c].run} /\ UNCHANGED registry
  /\ \/ Goto(c, "write")     \* some output
     \/ Goto(c, "release")   \* none
  /\ UNCHANGED <<job, lock, os, held, next, crashes, leaked, unsettled>>

\* The blocking vendor answers or fails; either way the capture returns.
CaptureReturns(c) ==
  /\ pc[c] = "capture" /\ job[c].child = 0
  /\ Goto(c, "write") \/ Goto(c, "release")
  /\ UNCHANGED <<job, lock, registry, os, held, next, faults, crashes,
                 leaked, unsettled, unrecorded>>

\* Mutant: the capture of an agy child has no timer.
TimedOutUnlessAgy(c) ==
  /\ pc[c] = "capture" /\ job[c].age = job[c].limit /\ job[c].child = 0
  /\ UNCHANGED <<os, unrecorded>>
  /\ Goto(c, "release")
  /\ UNCHANGED <<job, lock, registry, held, next, faults, crashes, leaked, unsettled>>

\* The timer of the capture: the child is killed, the error caught.  After the timer
\* settled the promise the child's exit is not recorded any more.
TimedOut(c) ==
  /\ pc[c] = "capture" /\ job[c].age = job[c].limit
  /\ os' = Killed({i \in Pids : i = job[c].child /\ os[i] = job[c].run})
  /\ unrecorded' = IF job[c].child = 0 THEN unrecorded ELSE unrecorded \cup {job[c].run}
  /\ Goto(c, "release")
  /\ UNCHANGED <<job, lock, registry, held, next, faults, crashes, leaked, unsettled>>

-----------------------------------------------------------------------------
(* After the vendor *)

\* writeResponseFile is outside the catch: when it throws, the lock stays.
Write(c) ==
  /\ pc[c] = "write"
  /\ \/ Goto(c, "release") /\ UNCHANGED <<job, held, faults, leaked>>
     \/ Spend /\ Throws(c) /\ leaked' = leaked \cup {job[c].run}
  /\ UNCHANGED <<lock, registry, os, next, crashes, unsettled, unrecorded>>

\* releaseWorkerLock: only the lock of this worker run is removed.
Released(c) == lock' = IF lock.run = job[c].run THEN NoLock ELSE lock

Release(c) ==
  /\ pc[c] = "release"
  /\ \/ Released(c) /\ Goto(c, "finish") /\ UNCHANGED <<job, held, faults, leaked>>
     \/ /\ Spend /\ Throws(c) /\ leaked' = leaked \cup {job[c].run}
        /\ UNCHANGED lock
  /\ UNCHANGED <<registry, os, next, crashes, unsettled, unrecorded>>

\* The stop entry, telemetry, alerts, correlation and evidence; each may throw.
Finish(c) ==
  /\ pc[c] = "finish"
  /\ \/ Goto(c, "settle") /\ UNCHANGED <<job, held, faults>>
     \/ Spend /\ Throws(c)
  /\ UNCHANGED <<lock, registry, os, next, crashes, leaked, unsettled, unrecorded>>

\* gateway.settle: what is not a TokenGatewayError is swallowed, the tokens stay reserved.
Settle(c) ==
  /\ pc[c] = "settle"
  /\ \/ held' = held \ {job[c].run} /\ UNCHANGED <<faults, unsettled>>
     \/ Spend /\ unsettled' = unsettled \cup {job[c].run} /\ UNCHANGED held
  /\ Goto(c, "idle") /\ job' = [job EXCEPT ![c] = NoJob]
  /\ UNCHANGED <<lock, registry, os, next, crashes, leaked, unrecorded>>

\* Mutant: dispatch rethrows with the tokens still reserved.
UnwindHolding(c) ==
  /\ pc[c] = "unwind"
  /\ Goto(c, "idle") /\ job' = [job EXCEPT ![c] = NoJob]
  /\ UNCHANGED <<lock, registry, os, held, next, faults, crashes, leaked, unsettled, unrecorded>>

\* The catch around runCliWorker: gateway.release, which may throw as well, and rethrow.
Unwind(c) ==
  /\ pc[c] = "unwind"
  /\ \/ held' = held \ {job[c].run} /\ UNCHANGED <<faults, unsettled>>
     \/ Spend /\ unsettled' = unsettled \cup {job[c].run} /\ UNCHANGED held
  /\ Goto(c, "idle") /\ job' = [job EXCEPT ![c] = NoJob]
  /\ UNCHANGED <<lock, registry, os, next, crashes, leaked, unrecorded>>

-----------------------------------------------------------------------------
(* The environment: the operator's scripts, the host's processes, deaths, time *)

\* worker-cleanup --confirm: every live pid that was spawned and never exited.
Cleanup ==
  LET exited == {registry[k].pid : k \in {k \in DOMAIN registry : registry[k].event = "exited"}}
      spawned == {registry[k].pid : k \in {k \in DOMAIN registry : registry[k].event = "spawned"}}
  IN /\ \E i \in spawned \ exited : os[i] # Free
     /\ os' = Killed(spawned \ exited)
     /\ UNCHANGED <<pc, job, lock, registry, held, next, faults, crashes,
                    leaked, unsettled, unrecorded>>

\* worker-cancel --confirm: the pid of the run's last record, when that is a spawn.
Cancel(r) ==
  LET mine == {k \in DOMAIN registry : registry[k].run = r} IN
  /\ mine # {}
  /\ LET last == registry[CHOOSE k \in mine : \A j \in mine : j <= k] IN
     /\ last.event = "spawned" /\ os[last.pid] # Free
     /\ os' = [os EXCEPT ![last.pid] = Free]
  /\ UNCHANGED <<pc, job, lock, registry, held, next, faults, crashes,
                 leaked, unsettled, unrecorded>>

\* A child ends by itself, a stranger ends, or a stranger gets the id a recorded child had
\* (bound: who has an id that no record names is of no interest).
HostStep(i) ==
  /\ os[i] # Free \/ \E k \in DOMAIN registry : registry[k].pid = i
  /\ os' = [os EXCEPT ![i] = IF os[i] = Free THEN Stranger ELSE Free]
  /\ UNCHANGED <<pc, job, lock, registry, held, next, faults, crashes,
                 leaked, unsettled, unrecorded>>

\* The caller dies: its child goes on, its lock and its reservation stay.
Crash(c) ==
  /\ pc[c] # "idle" /\ crashes < MaxCrashes
  /\ crashes' = crashes + 1
  /\ leaked' = IF pc[c] \in Working THEN leaked \cup {job[c].run} ELSE leaked
  /\ unsettled' = unsettled \cup {job[c].run}
  /\ unrecorded' = IF job[c].child = 0 THEN unrecorded ELSE unrecorded \cup {job[c].run}
  /\ Goto(c, "idle") /\ job' = [job EXCEPT ![c] = NoJob]
  /\ UNCHANGED <<lock, registry, os, held, next, faults>>

Tick ==
  /\ \A c \in Callers : pc[c] = "idle" \/ (pc[c] = "capture" /\ job[c].age < job[c].limit)
  /\ lock' = IF lock = NoLock THEN lock ELSE [lock EXCEPT !.age = Older(@)]
  /\ registry' = [k \in DOMAIN registry |-> [registry[k] EXCEPT !.age = Older(@)]]
  /\ job' = [c \in Callers |-> IF pc[c] = "capture" THEN [job[c] EXCEPT !.age = @ + 1] ELSE job[c]]
  /\ UNCHANGED <<pc, os, held, next, faults, crashes, leaked, unsettled, unrecorded>>

CallerStep(c) ==
  \/ Sweep(c) \/ Acquire(c) \/ RegisterStart(c) \/ Spawn(c) \/ SpawnFails(c)
  \/ CaptureExit(c) \/ TimedOut(c) \/ Write(c) \/ Release(c) \/ Finish(c) \/ Settle(c)
  \/ Unwind(c)

Next ==
  \/ \E c \in Callers : CallerStep(c) \/ Dispatch(c) \/ CaptureReturns(c) \/ Crash(c)
  \/ \E i \in Pids : HostStep(i)
  \/ \E r \in Runs : Cancel(r)
  \/ Cleanup \/ Tick

Spec == Init /\ [][Next]_vars

\* A dispatch that is under way goes on, and time passes.  The vendor owes no answer.
Fairness == WF_vars(Tick) /\ \A c \in Callers : WF_vars(CallerStep(c))

FairSpec == Spec /\ Fairness

-----------------------------------------------------------------------------
(* Properties *)

\* The state is what the code's types allow (WorkerLockRecord, VendorProcessRecord).
TypeOK ==
  /\ pc \in [Callers -> {"idle", "sweep", "acquire", "finish", "settle", "unwind"} \cup Working]
  /\ job \in [Callers -> [run : 0 .. MaxDispatches, vendor : Vendors \cup {"none"},
                          limit : Nat, age : Nat, child : Pids \cup {0}]]
  /\ lock \in [run : 0 .. MaxDispatches, age : 0 .. Oldest]
  /\ registry \in Seq([event : {"spawned", "exited"}, pid : Pids,
                       run : 0 .. MaxDispatches, age : 0 .. Oldest])
  /\ os \in [Pids -> 0 .. MaxDispatches + 1]
  /\ held \subseteq Runs /\ leaked \subseteq Runs /\ unsettled \subseteq Runs
  /\ unrecorded \subseteq Runs
  /\ next \in 1 .. MaxDispatches + 1
  /\ faults \in 0 .. MaxFaults /\ crashes \in 0 .. MaxCrashes

\* Two workers run at once only if one of them has worked longer than the TTL of the lock it
\* took (acquireWorkerLock, releaseWorkerLock).
SoleWorker == \A c, d \in Callers :
  pc[c] \in Working /\ pc[d] \in Working /\ c # d =>
    job[c].age > Ttl \/ job[d].age > Ttl

\* A lock on disk belongs to a worker at work, unless that worker died or threw between
\* acquireWorkerLock and releaseWorkerLock; so a busy answer is never about nobody.
LockHasWorker == lock # NoLock =>
  \/ lock.run \in leaked
  \/ \E c \in Callers : job[c].run = lock.run /\ pc[c] \in Working

\* Tokens stay reserved only for a dispatch that is under way, died, or could not be
\* settled (dispatchHandoff closes the reservation on every path).
ReservationClosed == \A r \in held : r \in unsettled \/ \E c \in Callers : job[c].run = r

\* An agy child runs only while its worker captures it, unless the worker's process died
\* (captureAgyResponse kills on timeout).
ChildHasWorker == \A i \in Pids : os[i] \in Runs =>
  \/ \E c \in Callers : pc[c] = "capture" /\ job[c].child = i /\ job[c].run = os[i]
  \/ os[i] \in unrecorded \cap unsettled

Captured(c, i) == pc[c] = "capture" /\ job[c].child = i /\ os[i] = job[c].run

\* A sweep kills a child whose worker still waits for it only when the child is older than
\* the limit or some earlier exit was never recorded and left an open record behind.
SweepSparesTheYoung == [][\A c, d \in Callers, i \in Pids :
  (pc[c] = "sweep" /\ pc'[c] = "acquire" /\ Captured(d, i) /\ os'[i] = Free) =>
    \/ unrecorded # {}
    \/ \E k \in DOMAIN registry : registry[k].run = job[d].run /\ registry[k].age > MaxAge]_vars

\* A lock that still holds is never taken from its worker: it changes hands only when free
\* or past its TTL, and only its own run removes it.
LockNotStolen == [][lock # NoLock /\ lock'.run # lock.run =>
  \/ lock.age > Ttl
  \/ lock' = NoLock /\ \E c \in Callers : job[c].run = lock.run /\ pc[c] = "release"]_vars

\* Every dispatch ends, although the vendor may never answer (the timeout of the capture).
DispatchEnds == \A c \in Callers : pc[c] # "idle" ~> pc[c] = "idle"

=============================================================================
