--------------------------- MODULE CliWorkerProofs ---------------------------
(***************************************************************************)
(* Proofs about governed dispatches and their workers for any callers,     *)
(* process ids, ages and timeouts, any number of dispatches, failing       *)
(* writes and deaths.                                                      *)
(***************************************************************************)
EXTENDS CliWorker, TLAPS

Job == [run : 0 .. MaxDispatches, vendor : Vendors \cup {"none"}, limit : Nat, age : Nat,
        child : Pids \cup {0}]
Where == {"idle", "sweep", "acquire", "finish", "settle", "unwind"} \cup Working

\* The part of TypeOK the proofs need; the registry's sequence is not in it.
Types ==
  /\ pc \in [Callers -> Where] /\ job \in [Callers -> Job]
  /\ lock \in [run : 0 .. MaxDispatches, age : Nat]
  /\ os \in [Pids -> 0 .. MaxDispatches + 1]
  /\ held \subseteq Runs /\ next \in Nat \ {0}

\* A worker run is of one dispatch, drawn before the next one is.
RunsDistinct ==
  /\ \A c \in Callers : IF pc[c] = "idle" THEN job[c] = NoJob
                        ELSE job[c].run \in Runs /\ job[c].run < next
  /\ \A c, d \in Callers : pc[c] # "idle" /\ pc[d] # "idle" /\ job[c].run = job[d].run => c = d

\* A worker has its lock, no older than the worker is, or has outlived the TTL.
HasLock(c) ==
  \/ lock.run = job[c].run /\ lock.age <= job[c].age
  \/ job[c].age > Ttl

WorkersHaveLock == \A c \in Callers : pc[c] \in Working => HasLock(c)

IInv ==
  /\ Types /\ RunsDistinct /\ WorkersHaveLock
  /\ LockHasWorker /\ ReservationClosed /\ ChildHasWorker

-----------------------------------------------------------------------------
(* Shapes *)

LEMMA Numbers ==
  /\ Ttl \in Nat \ {0} /\ MaxDispatches \in Nat /\ Timeouts \subseteq Nat /\ 0 \notin Pids
  /\ NoJob \in Job /\ NoLock \in [run : 0 .. MaxDispatches, age : Nat]
  /\ Free \in 0 .. MaxDispatches + 1 /\ Free \notin Runs
  /\ Stranger \in 0 .. MaxDispatches + 1 /\ Stranger \notin Runs
  /\ Runs \subseteq 0 .. MaxDispatches /\ 0 \notin Runs
BY WorkerConstants DEF NoJob, NoLock, Job, Free, Stranger, Runs

\* How most steps move a caller: its place changes, everything it has stays.
Moves(c, where) ==
  /\ pc[c] # "idle" /\ where # "idle" /\ where \in Where
  /\ pc' = [pc EXCEPT ![c] = where]
  /\ UNCHANGED <<job, held, next>>

-----------------------------------------------------------------------------
(* Runs and reservations *)

LEMMA MovesKeep ==
  ASSUME IInv, NEW c \in Callers, NEW where, Moves(c, where), unsettled \subseteq unsettled'
  PROVE  /\ pc' \in [Callers -> Where] /\ job' \in [Callers -> Job] /\ held' \subseteq Runs
         /\ next' \in Nat \ {0} /\ RunsDistinct' /\ ReservationClosed'
<1>1. pc' \in [Callers -> Where] /\ job' \in [Callers -> Job] /\ held' \subseteq Runs
  BY DEF IInv, Types, Moves
<1>2. \A d \in Callers : pc'[d] = "idle" <=> pc[d] = "idle"
  BY DEF IInv, Types, Moves
<1>3. RunsDistinct'
  BY <1>2 DEF IInv, RunsDistinct, Moves
<1>4. ReservationClosed'
  BY DEF IInv, ReservationClosed, Moves
<1>5. QED
  BY <1>1, <1>3, <1>4 DEF IInv, Types, Moves

\* A caller ends its dispatch: by settlement or unwinding, or with its process.
LEMMA EndKeeps ==
  ASSUME IInv, NEW c \in Callers, pc[c] # "idle",
         pc' = [pc EXCEPT ![c] = "idle"], job' = [job EXCEPT ![c] = NoJob], UNCHANGED next,
         \/ held' = held \ {job[c].run} /\ unsettled' = unsettled
         \/ held' = held /\ unsettled' = unsettled \cup {job[c].run}
  PROVE  /\ pc' \in [Callers -> Where] /\ job' \in [Callers -> Job] /\ held' \subseteq Runs
         /\ next' \in Nat \ {0} /\ RunsDistinct' /\ ReservationClosed'
<1>1. pc' \in [Callers -> Where] /\ job' \in [Callers -> Job] /\ held' \subseteq Runs
  BY Numbers DEF IInv, Types, Where
<1>2. \A d \in Callers : d # c => pc'[d] = pc[d] /\ job'[d] = job[d]
  BY DEF IInv, Types
<1>3. pc'[c] = "idle" /\ job'[c] = NoJob
  BY DEF IInv, Types
<1>4. RunsDistinct'
  BY <1>2, <1>3 DEF IInv, RunsDistinct
<1>5. ReservationClosed'
  <2>1. SUFFICES ASSUME NEW r \in held', r \notin unsettled'
                 PROVE  \E d \in Callers : job'[d].run = r
    BY DEF ReservationClosed
  <2>2. r \in held /\ r \notin unsettled /\ r # job[c].run
    BY <2>1
  <2>3. PICK d \in Callers : job[d].run = r
    BY <2>2 DEF IInv, ReservationClosed
  <2>4. QED
    BY <1>2, <2>2, <2>3
<1>6. QED
  BY <1>1, <1>4, <1>5 DEF IInv, Types

-----------------------------------------------------------------------------
(* The lock *)

\* The lock stays as it is; a worker that stops leaves its run among the leaked ones.
LEMMA LockStays ==
  ASSUME IInv, UNCHANGED lock, leaked \subseteq leaked',
         \A d \in Callers : pc'[d] \in Working =>
           pc[d] \in Working /\ job'[d].run = job[d].run /\ job'[d].age = job[d].age,
         \A d \in Callers : pc[d] \in Working /\ pc'[d] \notin Working => job[d].run \in leaked'
  PROVE  WorkersHaveLock' /\ LockHasWorker'
<1>1. WorkersHaveLock'
  BY DEF IInv, WorkersHaveLock, HasLock
<1>2. LockHasWorker'
  <2>1. SUFFICES ASSUME lock # NoLock, lock.run \notin leaked'
                 PROVE  \E d \in Callers : job'[d].run = lock.run /\ pc'[d] \in Working
    BY DEF LockHasWorker
  <2>2. PICK d \in Callers : job[d].run = lock.run /\ pc[d] \in Working
    BY <2>1 DEF IInv, LockHasWorker
  <2>3. pc'[d] \in Working
    BY <2>1, <2>2
  <2>4. QED
    BY <2>2, <2>3
<1>3. QED
  BY <1>1, <1>2

\* Two workers have different runs.
LEMMA WorkersDiffer ==
  ASSUME IInv, NEW c \in Callers, NEW d \in Callers, pc[c] # "idle", pc[d] # "idle", c # d
  PROVE  job[c].run # job[d].run
BY DEF IInv, RunsDistinct

\* The lock is free or older than its TTL: whoever is at work has outlived the TTL.
LEMMA LockTaken ==
  ASSUME IInv, NEW c \in Callers, pc[c] = "acquire", lock = NoLock \/ IsStale(lock),
         lock' = [run |-> job[c].run, age |-> 0], pc' = [pc EXCEPT ![c] = "start"],
         UNCHANGED job
  PROVE  WorkersHaveLock' /\ LockHasWorker'
<1>1. pc'[c] = "start" /\ \A d \in Callers : d # c => pc'[d] = pc[d]
  BY DEF IInv, Types
<1>2. job[c].age \in Nat /\ \A d \in Callers : job[d].age \in Nat
  BY DEF IInv, Types, Job
<1>3. HasLock(c)'
  BY <1>2 DEF HasLock
<1>4. ASSUME NEW d \in Callers, d # c, pc[d] \in Working PROVE HasLock(d)'
  <2>1. HasLock(d) /\ job[d].run \in Runs
    BY <1>4 DEF IInv, WorkersHaveLock, RunsDistinct, Working
  <2>2. job[d].age > Ttl
    <3>1. CASE lock = NoLock
      BY <2>1, <3>1, Numbers DEF HasLock, NoLock
    <3>2. CASE IsStale(lock)
      <4>1. lock.age \in Nat /\ lock.age > Ttl
        BY <3>2 DEF IInv, Types, IsStale
      <4>2. QED
        BY <1>2, <2>1, <4>1, Numbers DEF HasLock
    <3>3. QED
      BY <3>1, <3>2
  <2>3. QED
    BY <2>2 DEF HasLock
<1>5. WorkersHaveLock'
  BY <1>1, <1>3, <1>4 DEF WorkersHaveLock
<1>6. LockHasWorker'
  BY <1>1 DEF LockHasWorker, Working
<1>7. QED
  BY <1>5, <1>6

\* The worker that releases leaves the lock of another alone.
LEMMA LockReleased ==
  ASSUME IInv, NEW c \in Callers, pc[c] = "release", Released(c),
         pc' = [pc EXCEPT ![c] = "finish"], UNCHANGED <<job, leaked>>
  PROVE  WorkersHaveLock' /\ LockHasWorker'
<1>1. /\ pc'[c] = "finish" /\ pc'[c] \notin Working
      /\ \A d \in Callers : d # c => pc'[d] = pc[d]
  BY DEF IInv, Types, Working
<1>2. ASSUME NEW d \in Callers, d # c, pc[d] \in Working PROVE HasLock(d)'
  <2>1. HasLock(d) /\ job[c].run # job[d].run
    BY <1>2, WorkersDiffer DEF IInv, WorkersHaveLock, Working
  <2>2. QED
    BY <2>1 DEF HasLock, Released
<1>3. WorkersHaveLock'
  BY <1>1, <1>2 DEF WorkersHaveLock
<1>4. LockHasWorker'
  <2>1. SUFFICES ASSUME lock' # NoLock, lock'.run \notin leaked
                 PROVE  \E d \in Callers : job[d].run = lock'.run /\ pc'[d] \in Working
    BY DEF LockHasWorker
  <2>2. lock' = lock /\ lock.run # job[c].run
    BY <2>1 DEF Released
  <2>3. PICK d \in Callers : job[d].run = lock.run /\ pc[d] \in Working
    BY <2>1, <2>2 DEF IInv, LockHasWorker
  <2>4. QED
    BY <1>1, <2>2, <2>3
<1>5. QED
  BY <1>3, <1>4

-----------------------------------------------------------------------------
(* The children *)

\* No child appears; a worker that stops capturing has none left, or is noted.
LEMMA ChildStays ==
  ASSUME IInv, unrecorded \subseteq unrecorded', unsettled \subseteq unsettled',
         \A i \in Pids : os'[i] \in Runs => os'[i] = os[i],
         \A c \in Callers : pc[c] = "capture" =>
           \/ pc'[c] = "capture" /\ job'[c].child = job[c].child /\ job'[c].run = job[c].run
           \/ job[c].run \in unrecorded' \cap unsettled'
           \/ \A i \in Pids : job[c].child = i => os'[i] # job[c].run
  PROVE  ChildHasWorker'
<1>1. SUFFICES ASSUME NEW i \in Pids, os'[i] \in Runs, os'[i] \notin unrecorded' \cap unsettled'
               PROVE  \E c \in Callers :
                        pc'[c] = "capture" /\ job'[c].child = i /\ job'[c].run = os'[i]
  BY DEF ChildHasWorker
<1>2. os'[i] = os[i] /\ os[i] \notin unrecorded \cap unsettled
  BY <1>1
<1>3. PICK c \in Callers : pc[c] = "capture" /\ job[c].child = i /\ job[c].run = os[i]
  BY <1>1, <1>2 DEF IInv, ChildHasWorker
<1>4. QED
  BY <1>1, <1>2, <1>3

\* Killing a set of children leaves the others.
LEMMA KilledLeaves ==
  ASSUME NEW children, os \in [Pids -> 0 .. MaxDispatches + 1], os' = Killed(children)
  PROVE  /\ os' \in [Pids -> 0 .. MaxDispatches + 1]
         /\ \A i \in Pids : os'[i] \in Runs => os'[i] = os[i] /\ i \notin children
BY Numbers DEF Killed

-----------------------------------------------------------------------------
(* The steps *)

\* A step that only moves a caller, and leaves lock and children alone.
LEMMA QuietMoveKeeps ==
  ASSUME IInv, NEW c \in Callers, NEW where, Moves(c, where),
         UNCHANGED <<lock, os>>, leaked \subseteq leaked', unsettled \subseteq unsettled',
         unrecorded \subseteq unrecorded',
         where \in Working => pc[c] \in Working,
         pc[c] \in Working /\ where \notin Working => job[c].run \in leaked',
         pc[c] = "capture" => \A i \in Pids : job[c].child = i => os[i] # job[c].run
  PROVE  IInv'
<1>1. pc'[c] = where /\ \A d \in Callers : d # c => pc'[d] = pc[d]
  BY DEF IInv, Types, Moves
<1>2. WorkersHaveLock' /\ LockHasWorker'
  BY <1>1, LockStays DEF Moves
<1>3. ChildHasWorker'
  <2>1. \A d \in Callers : pc[d] = "capture" =>
          \/ pc'[d] = "capture" /\ job'[d].child = job[d].child /\ job'[d].run = job[d].run
          \/ \A i \in Pids : job[d].child = i => os'[i] # job[d].run
    BY <1>1 DEF Moves
  <2>2. QED
    BY <2>1, ChildStays
<1>4. QED
  BY <1>2, <1>3, MovesKeep DEF IInv, Types

LEMMA ThrowsMoves ==
  ASSUME NEW c \in Callers, pc[c] # "idle", Throws(c), UNCHANGED next
  PROVE  Moves(c, "unwind")
BY DEF Throws, Goto, Moves, Where

LEMMA SweepKeeps == ASSUME IInv, NEW c \in Callers, Sweep(c) PROVE IInv'
<1>1. Moves(c, "acquire")
  BY DEF Sweep, Goto, Moves, Where
<1>2. pc'[c] = "acquire" /\ pc[c] = "sweep" /\ \A d \in Callers : d # c => pc'[d] = pc[d]
  BY DEF IInv, Types, Sweep, Goto
<1>3. WorkersHaveLock' /\ LockHasWorker'
  BY <1>2, LockStays DEF Sweep, Working
<1>4. os' \in [Pids -> 0 .. MaxDispatches + 1] /\ \A i \in Pids : os'[i] \in Runs => os'[i] = os[i]
  BY KilledLeaves DEF IInv, Types, Sweep
<1>5. ChildHasWorker'
  BY <1>2, <1>4, ChildStays DEF Sweep
<1>6. QED
  BY <1>1, <1>3, <1>4, <1>5, MovesKeep DEF IInv, Types, Sweep

LEMMA AcquireKeeps == ASSUME IInv, NEW c \in Callers, Acquire(c) PROVE IInv'
<1>1. pc[c] = "acquire"
  BY DEF Acquire
<1>2. CASE (lock = NoLock \/ IsStale(lock)) /\ lock' = [run |-> job[c].run, age |-> 0]
           /\ Goto(c, "start") /\ UNCHANGED <<job, held>>
  <2>1. Moves(c, "start")
    BY <1>1, <1>2 DEF Acquire, Goto, Moves, Where, Working
  <2>2. lock' \in [run : 0 .. MaxDispatches, age : Nat]
    BY <1>2, Numbers DEF IInv, Types, Job
  <2>3. WorkersHaveLock' /\ LockHasWorker'
    BY <1>1, <1>2, LockTaken DEF Goto
  <2>4. ChildHasWorker'
    <3>1. \A d \in Callers : pc[d] = "capture" => pc'[d] = "capture"
      BY <1>1, <2>1 DEF IInv, Types, Moves
    <3>2. QED
      BY <1>2, <3>1, ChildStays DEF Acquire
  <2>5. QED
    BY <2>1, <2>2, <2>3, <2>4, MovesKeep DEF IInv, Types, Acquire
<1>3. CASE Goto(c, "settle") /\ UNCHANGED <<lock, job, held>>
  <2>1. Moves(c, "settle")
    BY <1>1, <1>3 DEF Acquire, Goto, Moves, Where
  <2>2. QED
    BY <1>1, <1>3, <2>1, QuietMoveKeeps DEF Acquire, Working
<1>4. CASE Throws(c) /\ UNCHANGED lock
  <2>1. Moves(c, "unwind")
    BY <1>1, <1>4, ThrowsMoves DEF Acquire
  <2>2. QED
    BY <1>1, <1>4, <2>1, QuietMoveKeeps DEF Acquire, Working
<1>5. QED
  BY <1>2, <1>3, <1>4 DEF Acquire, TakeLock

LEMMA RegisterStartKeeps == ASSUME IInv, NEW c \in Callers, RegisterStart(c) PROVE IInv'
<1>1. pc[c] = "start"
  BY DEF RegisterStart
<1>2. ASSUME NEW where \in {"spawn", "capture"}, Goto(c, where), UNCHANGED <<job, held, leaked>>
      PROVE  IInv'
  <2>1. Moves(c, where)
    BY <1>1, <1>2 DEF RegisterStart, Goto, Moves, Where, Working
  <2>2. QED
    BY <1>1, <1>2, <2>1, QuietMoveKeeps DEF RegisterStart, Working
<1>3. CASE Throws(c) /\ leaked' = leaked \cup {job[c].run}
  <2>1. Moves(c, "unwind")
    BY <1>1, <1>3, ThrowsMoves DEF RegisterStart
  <2>2. QED
    BY <1>1, <1>3, <2>1, QuietMoveKeeps DEF RegisterStart, Working
<1>4. QED
  BY <1>2, <1>3 DEF RegisterStart

LEMMA WriteKeeps == ASSUME IInv, NEW c \in Callers, Write(c) PROVE IInv'
<1>1. pc[c] = "write"
  BY DEF Write
<1>2. CASE Goto(c, "release") /\ UNCHANGED <<job, held, leaked>>
  <2>1. Moves(c, "release")
    BY <1>1, <1>2 DEF Write, Goto, Moves, Where, Working
  <2>2. QED
    BY <1>1, <1>2, <2>1, QuietMoveKeeps DEF Write, Working
<1>3. CASE Throws(c) /\ leaked' = leaked \cup {job[c].run}
  <2>1. Moves(c, "unwind")
    BY <1>1, <1>3, ThrowsMoves DEF Write
  <2>2. QED
    BY <1>1, <1>3, <2>1, QuietMoveKeeps DEF Write, Working
<1>4. QED
  BY <1>2, <1>3 DEF Write

LEMMA SpawnFailsKeeps == ASSUME IInv, NEW c \in Callers, SpawnFails(c) PROVE IInv'
<1>1. Moves(c, "release")
  BY DEF SpawnFails, Goto, Moves, Where, Working
<1>2. QED
  BY <1>1, QuietMoveKeeps DEF SpawnFails, Working

LEMMA FinishKeeps == ASSUME IInv, NEW c \in Callers, Finish(c) PROVE IInv'
<1>1. pc[c] = "finish"
  BY DEF Finish
<1>2. CASE Goto(c, "settle") /\ UNCHANGED <<job, held>>
  <2>1. Moves(c, "settle")
    BY <1>1, <1>2 DEF Finish, Goto, Moves, Where
  <2>2. QED
    BY <1>1, <2>1, QuietMoveKeeps DEF Finish, Working
<1>3. CASE Throws(c)
  <2>1. Moves(c, "unwind")
    BY <1>1, <1>3, ThrowsMoves DEF Finish
  <2>2. QED
    BY <1>1, <2>1, QuietMoveKeeps DEF Finish, Working
<1>4. QED
  BY <1>2, <1>3 DEF Finish

LEMMA CaptureEndsKeeps ==
  ASSUME IInv, NEW c \in Callers, CaptureExit(c) \/ CaptureReturns(c) PROVE IInv'
<1>1. pc[c] = "capture" /\ \A i \in Pids : job[c].child = i => os[i] # job[c].run
  BY Numbers DEF CaptureExit, CaptureReturns
<1>2. PICK where \in {"write", "release"} : Goto(c, where)
  BY DEF CaptureExit, CaptureReturns
<1>3. Moves(c, where)
  BY <1>1, <1>2 DEF CaptureExit, CaptureReturns, Goto, Moves, Where, Working
<1>4. unrecorded \subseteq unrecorded' /\ UNCHANGED <<lock, os, leaked, unsettled>>
  BY DEF CaptureExit, CaptureReturns
<1>5. QED
  BY <1>1, <1>2, <1>3, <1>4, QuietMoveKeeps DEF Working

LEMMA TimedOutKeeps == ASSUME IInv, NEW c \in Callers, TimedOut(c) PROVE IInv'
<1>1. Moves(c, "release") /\ pc[c] = "capture"
  BY DEF TimedOut, Goto, Moves, Where, Working
<1>2. pc'[c] = "release" /\ \A d \in Callers : d # c => pc'[d] = pc[d]
  BY <1>1 DEF IInv, Types, Moves
<1>3. WorkersHaveLock' /\ LockHasWorker'
  BY <1>1, <1>2, LockStays DEF TimedOut, Working
<1>4. /\ os' \in [Pids -> 0 .. MaxDispatches + 1]
      /\ \A i \in Pids : os'[i] \in Runs =>
           os'[i] = os[i] /\ i \notin {k \in Pids : k = job[c].child /\ os[k] = job[c].run}
  BY KilledLeaves DEF IInv, Types, TimedOut
<1>5. job[c].run \in Runs
  BY <1>1 DEF IInv, RunsDistinct
<1>6. \A i \in Pids : job[c].child = i => os'[i] # job[c].run
  BY <1>4, <1>5
<1>7. ChildHasWorker'
  BY <1>2, <1>4, <1>6, ChildStays DEF TimedOut
<1>8. QED
  BY <1>1, <1>3, <1>4, <1>7, MovesKeep DEF IInv, Types, TimedOut

LEMMA SpawnKeeps == ASSUME IInv, NEW c \in Callers, Spawn(c) PROVE IInv'
<1>1. PICK i \in Pids : /\ os[i] = Free /\ os' = [os EXCEPT ![i] = job[c].run]
                        /\ job' = [job EXCEPT ![c].child = i]
  BY DEF Spawn
<1>2. /\ pc[c] = "spawn" /\ pc' = [pc EXCEPT ![c] = "capture"]
      /\ UNCHANGED <<lock, held, next, leaked, unsettled, unrecorded>>
  BY DEF Spawn, Goto
<1>3. pc'[c] = "capture" /\ \A d \in Callers : d # c => pc'[d] = pc[d] /\ job'[d] = job[d]
  BY <1>1, <1>2 DEF IInv, Types
<1>4. /\ job[c] \in Job /\ job'[c] = [job[c] EXCEPT !.child = i] /\ job[c].run \in Runs
      /\ job[c].run < next
  BY <1>1, <1>2 DEF IInv, Types, RunsDistinct
<1>5. job'[c] \in Job /\ job'[c].run = job[c].run /\ job'[c].age = job[c].age /\ job'[c].child = i
  BY <1>4 DEF Job
<1>6. /\ pc' \in [Callers -> Where] /\ job' \in [Callers -> Job]
      /\ os' \in [Pids -> 0 .. MaxDispatches + 1]
  <2>1. job' = [job EXCEPT ![c] = job'[c]]
    BY <1>1, <1>4 DEF IInv, Types
  <2>2. QED
    BY <1>1, <1>2, <1>4, <1>5, <2>1, Numbers DEF IInv, Types, Where, Working, Runs
<1>7. RunsDistinct'
  <2>1. \A d \in Callers : job'[d].run = job[d].run /\ (pc'[d] = "idle" <=> pc[d] = "idle")
    BY <1>2, <1>3, <1>5
  <2>2. \A d \in Callers : pc[d] = "idle" => job'[d] = job[d]
    BY <1>2, <1>3
  <2>3. QED
    BY <1>2, <2>1, <2>2 DEF IInv, RunsDistinct
<1>8. WorkersHaveLock' /\ LockHasWorker'
  BY <1>2, <1>3, <1>5, LockStays DEF Working
<1>9. ReservationClosed'
  BY <1>2, <1>3, <1>5 DEF IInv, ReservationClosed
<1>10. ChildHasWorker'
  <2>1. SUFFICES ASSUME NEW k \in Pids, os'[k] \in Runs, os'[k] \notin unrecorded \cap unsettled
                 PROVE  \E d \in Callers :
                          pc'[d] = "capture" /\ job'[d].child = k /\ job'[d].run = os'[k]
    BY <1>2 DEF ChildHasWorker
  <2>2. CASE k = i
    BY <1>1, <1>3, <1>5, <2>2 DEF IInv, Types
  <2>3. CASE k # i
    <3>1. os'[k] = os[k]
      BY <1>1, <2>3 DEF IInv, Types
    <3>2. PICK d \in Callers : pc[d] = "capture" /\ job[d].child = k /\ job[d].run = os[k]
      BY <2>1, <3>1 DEF IInv, ChildHasWorker
    <3>3. d # c
      BY <1>2, <3>2
    <3>4. QED
      BY <1>3, <3>1, <3>2, <3>3
  <2>4. QED
    BY <2>2, <2>3
<1>11. QED
  BY <1>2, <1>6, <1>7, <1>8, <1>9, <1>10 DEF IInv, Types

LEMMA ReleaseKeeps == ASSUME IInv, NEW c \in Callers, Release(c) PROVE IInv'
<1>1. pc[c] = "release"
  BY DEF Release
<1>2. CASE Released(c) /\ Goto(c, "finish") /\ UNCHANGED <<job, held, faults, leaked>>
  <2>1. Moves(c, "finish")
    BY <1>1, <1>2 DEF Release, Goto, Moves, Where
  <2>2. lock' \in [run : 0 .. MaxDispatches, age : Nat]
    BY <1>2, Numbers DEF IInv, Types, Released
  <2>3. WorkersHaveLock' /\ LockHasWorker'
    BY <1>1, <1>2, LockReleased DEF Goto
  <2>4. ChildHasWorker'
    <3>1. \A d \in Callers : pc[d] = "capture" => pc'[d] = "capture"
      BY <1>1, <2>1 DEF IInv, Types, Moves
    <3>2. QED
      BY <1>2, <3>1, ChildStays DEF Release
  <2>5. QED
    BY <2>1, <2>2, <2>3, <2>4, MovesKeep DEF IInv, Types, Release
<1>3. CASE Throws(c) /\ leaked' = leaked \cup {job[c].run} /\ UNCHANGED lock
  <2>1. Moves(c, "unwind")
    BY <1>1, <1>3, ThrowsMoves DEF Release
  <2>2. QED
    BY <1>1, <1>3, <2>1, QuietMoveKeeps DEF Release, Working
<1>4. QED
  BY <1>2, <1>3 DEF Release

\* The end of a dispatch, by settlement, unwinding or death.
LEMMA EndingKeeps ==
  ASSUME IInv, NEW c \in Callers, pc[c] # "idle",
         pc' = [pc EXCEPT ![c] = "idle"], job' = [job EXCEPT ![c] = NoJob],
         UNCHANGED <<lock, os, next>>, leaked \subseteq leaked', unrecorded \subseteq unrecorded',
         \/ held' = held \ {job[c].run} /\ unsettled' = unsettled
         \/ held' = held /\ unsettled' = unsettled \cup {job[c].run},
         pc[c] \in Working => job[c].run \in leaked',
         pc[c] = "capture" => job[c].run \in unrecorded' \cap unsettled' \/ job[c].child = 0
  PROVE  IInv'
<1>1. /\ pc'[c] = "idle" /\ "idle" \notin Working
      /\ \A d \in Callers : d # c => pc'[d] = pc[d] /\ job'[d] = job[d]
  BY DEF IInv, Types, Working
<1>2. WorkersHaveLock' /\ LockHasWorker'
  BY <1>1, LockStays
<1>3. ChildHasWorker'
  <2>1. \A d \in Callers : pc[d] = "capture" =>
          \/ pc'[d] = "capture" /\ job'[d].child = job[d].child /\ job'[d].run = job[d].run
          \/ job[d].run \in unrecorded' \cap unsettled'
          \/ \A i \in Pids : job[d].child = i => os'[i] # job[d].run
    BY <1>1, Numbers
  <2>2. QED
    BY <2>1, ChildStays
<1>4. QED
  BY <1>2, <1>3, EndKeeps DEF IInv, Types

LEMMA SettleKeeps == ASSUME IInv, NEW c \in Callers, Settle(c) PROVE IInv'
BY EndingKeeps DEF Settle, Goto, Working

LEMMA UnwindKeeps == ASSUME IInv, NEW c \in Callers, Unwind(c) PROVE IInv'
BY EndingKeeps DEF Unwind, Goto, Working

LEMMA CrashKeeps == ASSUME IInv, NEW c \in Callers, Crash(c) PROVE IInv'
<1>1. pc[c] \in Working => job[c].run \in leaked'
  BY DEF Crash
<1>2. job[c].run \in unrecorded' \cap unsettled' \/ job[c].child = 0
  BY DEF Crash
<1>3. leaked \subseteq leaked' /\ unrecorded \subseteq unrecorded'
  BY DEF Crash
<1>4. QED
  BY <1>1, <1>2, <1>3, EndingKeeps DEF Crash, Goto

LEMMA DispatchKeeps == ASSUME IInv, NEW c \in Callers, Dispatch(c) PROVE IInv'
<1>1. PICK v \in Vendors, t \in Timeouts :
        job' = [job EXCEPT ![c] = [run |-> next, vendor |-> v, limit |-> t, age |-> 0, child |-> 0]]
  BY DEF Dispatch
<1>2. PICK where \in {"sweep", "unwind"} : pc' = [pc EXCEPT ![c] = where]
  BY DEF Dispatch, Goto
<1>3. /\ pc[c] = "idle" /\ pc'[c] = where /\ next \in Runs /\ next' = next + 1
      /\ job[c] = NoJob /\ job'[c].run = next
      /\ \A d \in Callers : d # c => pc'[d] = pc[d] /\ job'[d] = job[d]
  BY <1>1, <1>2, Numbers DEF Dispatch, IInv, Types, RunsDistinct, Runs
<1>4. job' \in [Callers -> Job] /\ pc' \in [Callers -> Where] /\ next' \in Nat \ {0}
  <2>1. [run |-> next, vendor |-> v, limit |-> t, age |-> 0, child |-> 0] \in Job
    BY <1>3, Numbers DEF Job
  <2>2. QED
    BY <1>1, <1>2, <1>3, <2>1 DEF IInv, Types, Where
<1>5. RunsDistinct'
  <2>1. \A d \in Callers : d # c /\ pc[d] # "idle" =>
          job[d].run \in Runs /\ job[d].run # next /\ job[d].run < next'
    BY <1>3 DEF IInv, Types, RunsDistinct, Runs
  <2>2. next < next'
    BY <1>3 DEF IInv, Types
  <2>3. QED
    BY <1>2, <1>3, <2>1, <2>2 DEF IInv, RunsDistinct
<1>6. WorkersHaveLock' /\ LockHasWorker'
  BY <1>2, <1>3, LockStays DEF Dispatch, Working
<1>7. ReservationClosed'
  <2>1. SUFFICES ASSUME NEW r \in held', r \notin unsettled
                 PROVE  \E d \in Callers : job'[d].run = r
    BY DEF ReservationClosed, Dispatch
  <2>2. CASE r = next
    BY <1>3, <2>2
  <2>3. CASE r \in held
    <3>1. PICK d \in Callers : job[d].run = r
      BY <2>1, <2>3 DEF IInv, ReservationClosed
    <3>2. d # c
      BY <1>3, <2>3, <3>1, Numbers DEF IInv, Types, NoJob
    <3>3. QED
      BY <1>3, <3>1, <3>2
  <2>4. QED
    BY <2>1, <2>2, <2>3 DEF Dispatch
<1>8. ChildHasWorker'
  BY <1>3, ChildStays DEF Dispatch
<1>9. QED
  BY <1>3, <1>4, <1>5, <1>6, <1>7, <1>8 DEF IInv, Types, Dispatch

\* Processes end, by the operator's hand or their own, or strangers begin.
LEMMA HostKeeps ==
  ASSUME IInv, UNCHANGED <<pc, job, lock, held, next, leaked, unsettled, unrecorded>>,
         os' \in [Pids -> 0 .. MaxDispatches + 1],
         \A i \in Pids : os'[i] \in Runs => os'[i] = os[i]
  PROVE  IInv'
<1>1. ChildHasWorker'
  BY ChildStays
<1>2. QED
  BY <1>1 DEF IInv, Types, RunsDistinct, WorkersHaveLock, HasLock, LockHasWorker, ReservationClosed

LEMMA HostStepsKeep ==
  ASSUME IInv, (\E i \in Pids : HostStep(i)) \/ (\E r \in Runs : Cancel(r)) \/ Cleanup
  PROVE  IInv'
<1>1. os \in [Pids -> 0 .. MaxDispatches + 1]
  BY DEF IInv, Types
<1>2. ASSUME NEW i \in Pids, HostStep(i) PROVE IInv'
  <2>1. /\ os' \in [Pids -> 0 .. MaxDispatches + 1]
        /\ \A k \in Pids : os'[k] \in Runs => os'[k] = os[k]
    BY <1>1, <1>2, Numbers DEF HostStep
  <2>2. QED
    BY <1>2, <2>1, HostKeeps DEF HostStep
<1>3. ASSUME NEW r \in Runs, Cancel(r) PROVE IInv'
  <2>1. PICK i : os' = [os EXCEPT ![i] = Free]
    BY <1>3 DEF Cancel
  <2>2. /\ os' \in [Pids -> 0 .. MaxDispatches + 1]
        /\ \A k \in Pids : os'[k] \in Runs => os'[k] = os[k]
    BY <1>1, <2>1, Numbers
  <2>3. QED
    BY <1>3, <2>2, HostKeeps DEF Cancel
<1>4. CASE Cleanup
  <2>1. PICK children : os' = Killed(children)
    BY <1>4 DEF Cleanup
  <2>2. QED
    BY <1>1, <1>4, <2>1, KilledLeaves, HostKeeps DEF Cleanup
<1>5. QED
  BY <1>2, <1>3, <1>4

\* Lock and worker grow older together; nobody at work stays behind.
LEMMA TickKeeps == ASSUME IInv, Tick PROVE IInv'
<1>1. \A c \in Callers :
        /\ pc'[c] = pc[c] /\ job[c] \in Job
        /\ job'[c] = IF pc[c] = "capture" THEN [job[c] EXCEPT !.age = @ + 1] ELSE job[c]
  BY DEF Tick, IInv, Types
<1>2. \A c \in Callers :
        /\ job'[c] \in Job /\ job'[c].run = job[c].run /\ job'[c].child = job[c].child
        /\ job'[c].age \in Nat /\ job'[c].age >= job[c].age
        /\ pc[c] = "capture" => job'[c].age = job[c].age + 1
        /\ pc[c] = "idle" => job'[c] = job[c]
  <2>1. ASSUME NEW c \in Callers, pc[c] = "capture"
        PROVE  /\ job'[c] \in Job /\ job'[c].run = job[c].run /\ job'[c].child = job[c].child
               /\ job[c].age \in Nat /\ job'[c].age = job[c].age + 1
    <3>1. job[c] \in Job /\ job'[c] = [job[c] EXCEPT !.age = job[c].age + 1]
      BY <1>1, <2>1
    <3>2. job[c].age \in Nat /\ job[c].age + 1 \in Nat
      BY <3>1 DEF Job
    <3>3. QED
      BY <3>1, <3>2 DEF Job
  <2>2. ASSUME NEW c \in Callers, pc[c] # "capture"
        PROVE  job'[c] = job[c] /\ job[c] \in Job /\ job[c].age \in Nat
    BY <1>1, <2>2 DEF Job
  <2>3. SUFFICES ASSUME NEW c \in Callers
                 PROVE  /\ job'[c] \in Job /\ job'[c].run = job[c].run
                        /\ job'[c].child = job[c].child
                        /\ job'[c].age \in Nat /\ job'[c].age >= job[c].age
                        /\ pc[c] = "capture" => job'[c].age = job[c].age + 1
                        /\ pc[c] = "idle" => job'[c] = job[c]
    OBVIOUS
  <2>4. CASE pc[c] = "capture"
    BY <2>1, <2>4
  <2>5. CASE pc[c] # "capture"
    <3>1. job[c].age >= job[c].age
      BY <2>2, <2>5
    <3>2. QED
      BY <2>2, <2>5, <3>1
  <2>6. QED
    BY <2>4, <2>5
<1>3. /\ lock'.run = lock.run /\ lock' \in [run : 0 .. MaxDispatches, age : Nat]
      /\ lock'.age <= lock.age + 1 /\ (lock = NoLock => lock' = NoLock)
  BY DEF Tick, IInv, Types, Older
<1>4. job' \in [Callers -> Job]
  BY <1>2 DEF Tick
<1>5. RunsDistinct'
  BY <1>1, <1>2 DEF IInv, RunsDistinct, Tick
<1>6. WorkersHaveLock'
  <2>1. SUFFICES ASSUME NEW c \in Callers, pc[c] \in Working PROVE HasLock(c)'
    BY <1>1 DEF WorkersHaveLock
  <2>2. pc[c] = "capture"
    BY <2>1 DEF Tick, Working
  <2>3. HasLock(c) /\ job[c].age \in Nat /\ job'[c].age = job[c].age + 1
    BY <1>1, <1>2, <2>1, <2>2 DEF IInv, WorkersHaveLock, Job
  <2>4. CASE lock.run = job[c].run /\ lock.age <= job[c].age
    <3>1. lock.age \in Nat /\ lock'.age \in Nat
      BY <1>3 DEF IInv, Types
    <3>2. lock'.age <= job'[c].age
      BY <1>3, <2>3, <2>4, <3>1
    <3>3. QED
      BY <1>2, <1>3, <2>4, <3>2 DEF HasLock
  <2>5. CASE job[c].age > Ttl
    <3>1. job'[c].age > Ttl
      BY <2>3, <2>5, Numbers
    <3>2. QED
      BY <3>1 DEF HasLock
  <2>6. QED
    BY <2>3, <2>4, <2>5 DEF HasLock
<1>7. LockHasWorker'
  BY <1>1, <1>2, <1>3 DEF IInv, LockHasWorker, Tick
<1>8. ReservationClosed'
  BY <1>2 DEF IInv, ReservationClosed, Tick
<1>9. ChildHasWorker'
  BY <1>1, <1>2, ChildStays DEF Tick
<1>10. QED
  BY <1>3, <1>4, <1>5, <1>6, <1>7, <1>8, <1>9 DEF IInv, Types, Tick

-----------------------------------------------------------------------------
(* The theorems *)

LEMMA InitIInv == ASSUME Init PROVE IInv
<1>1. Types
  BY Numbers DEF Init, Types, Where
<1>2. QED
  BY <1>1, Numbers DEF Init, IInv, RunsDistinct, WorkersHaveLock, LockHasWorker, ReservationClosed,
     ChildHasWorker, Working

LEMMA StepIInv == ASSUME IInv, [Next]_vars PROVE IInv'
<1>1. ASSUME NEW c \in Callers, CallerStep(c) PROVE IInv'
  BY <1>1, SweepKeeps, AcquireKeeps, RegisterStartKeeps, SpawnKeeps, SpawnFailsKeeps,
     CaptureEndsKeeps, TimedOutKeeps, WriteKeeps, ReleaseKeeps, FinishKeeps, SettleKeeps,
     UnwindKeeps DEF CallerStep
<1>2. CASE UNCHANGED vars
  BY <1>2, HostKeeps DEF vars, IInv, Types
<1>3. QED
  BY <1>1, <1>2, DispatchKeeps, CaptureEndsKeeps, CrashKeeps, HostStepsKeep, TickKeeps DEF Next

\* The strengthening is inductive.
THEOREM Inductive == Spec => []IInv
BY InitIInv, StepIInv, PTL DEF Spec

\* Two workers run at once only when one has outlived the TTL of its lock (acquireWorkerLock,
\* releaseWorkerLock).
THEOREM OneWorker == Spec => []SoleWorker
<1>1. ASSUME IInv PROVE SoleWorker
  <2>1. SUFFICES ASSUME NEW c \in Callers, NEW d \in Callers, pc[c] \in Working,
                        pc[d] \in Working, c # d
                 PROVE  job[c].age > Ttl \/ job[d].age > Ttl
    BY DEF SoleWorker
  <2>2. HasLock(c) /\ HasLock(d)
    BY <1>1, <2>1 DEF IInv, WorkersHaveLock
  <2>3. job[c].run # job[d].run
    BY <1>1, <2>1, WorkersDiffer DEF Working
  <2>4. QED
    BY <2>2, <2>3 DEF HasLock
<1>2. QED
  BY <1>1, Inductive, PTL

\* A lock on disk has a worker, or one that died or threw before it released it
\* (runCliWorker).
THEOREM LockOwned == Spec => []LockHasWorker
<1>1. IInv => LockHasWorker
  BY DEF IInv
<1>2. QED
  BY <1>1, Inductive, PTL

\* Reserved tokens have a dispatch, or one that died or could not settle (dispatchHandoff).
THEOREM Closed == Spec => []ReservationClosed
<1>1. IInv => ReservationClosed
  BY DEF IInv
<1>2. QED
  BY <1>1, Inductive, PTL

\* An agy child has a worker that captures it, or one that died (captureAgyResponse).
THEOREM ChildOwned == Spec => []ChildHasWorker
<1>1. IInv => ChildHasWorker
  BY DEF IInv
<1>2. QED
  BY <1>1, Inductive, PTL

\* A lock that still holds is not taken from its worker (acquireWorkerLock,
\* releaseWorkerLock).
THEOREM NotStolen == Spec => LockNotStolen
<1> DEFINE Kept == lock # NoLock /\ lock'.run # lock.run =>
             \/ lock.age > Ttl
             \/ lock' = NoLock /\ \E c \in Callers : job[c].run = lock.run /\ pc[c] = "release"
<1>1. ASSUME IInv, [Next]_vars PROVE Kept
  <2>1. CASE \E c \in Callers : Acquire(c)
    BY <2>1 DEF Acquire, TakeLock, IsStale
  <2>2. CASE \E c \in Callers : Release(c)
    BY <2>2 DEF Release, Released
  <2>3. CASE Tick
    BY <2>3 DEF Tick, IInv, Types
  <2>4. CASE UNCHANGED lock
    BY <2>4
  <2>5. QED
    BY <1>1, <2>1, <2>2, <2>3, <2>4
       DEF Next, CallerStep, Sweep, RegisterStart, Spawn, SpawnFails, CaptureExit, CaptureReturns,
           TimedOut, Write, Finish, Settle, Unwind, Dispatch, Crash, HostStep, Cancel, Cleanup, vars
<1>2. [][Kept]_vars => LockNotStolen
  BY DEF LockNotStolen
<1>3. QED
  BY <1>1, <1>2, Inductive, PTL DEF Spec
=============================================================================
