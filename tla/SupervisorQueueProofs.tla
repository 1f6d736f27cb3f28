----------------------- MODULE SupervisorQueueProofs -----------------------
(***************************************************************************)
(* Proofs about the supervisor queue for any tasks, any number of workers  *)
(* and any limits, failed writes and process deaths.                       *)
(***************************************************************************)
EXTENDS SupervisorQueue, TLAPS

\* The retry delay is a number of ticks, however often the task was tried.
LEMMA DelayType == ASSUME NEW n PROVE Delay(n) \in Nat
BY QueueConstants DEF Delay

\* What the end of an attempt makes of a task: it keeps its attempts, its grant and its
\* dependencies, and is queued again only with an attempt left.
LEMMA EndedTask ==
  ASSUME NEW r \in TaskState, NEW max \in Nat
  PROVE  /\ Ended(r, max) \in TaskState
         /\ Ended(r, max).attempt = r.attempt
         /\ Ended(r, max).granted = r.granted /\ Ended(r, max).deps = r.deps
         /\ Ended(r, max).status \in {"failed", "queued"}
         /\ Ended(r, max).status = "queued" => r.attempt < max
<1>1. Delay(r.attempt) \in Nat
  BY DelayType
<1>2. [r EXCEPT !.status = "failed", !.left = 0] \in TaskState
  BY DEF TaskState, Statuses, Terminal
<1>3. [r EXCEPT !.status = "queued", !.left = 0, !.wait = Delay(r.attempt)] \in TaskState
  BY <1>1 DEF TaskState, Statuses, Terminal
<1>4. CASE r.attempt >= max
  <2>1. Ended(r, max) = [r EXCEPT !.status = "failed", !.left = 0]
    BY <1>4 DEF Ended
  <2>2. Ended(r, max) \in TaskState
    BY <1>2, <2>1
  <2>3. QED
    BY <2>1, <2>2 DEF TaskState
<1>5. CASE ~(r.attempt >= max)
  <2>1. Ended(r, max) = [r EXCEPT !.status = "queued", !.left = 0, !.wait = Delay(r.attempt)]
    BY <1>5 DEF Ended
  <2>2. Ended(r, max) \in TaskState
    BY <1>3, <2>1
  <2>3. QED
    BY <1>5, <2>1, <2>2 DEF TaskState
<1>6. QED
  BY <1>4, <1>5

-----------------------------------------------------------------------------
(* What a step does to one task *)

Keeps(t) == task'[t].granted = task[t].granted /\ task'[t].deps = task[t].deps
NoStart(t) == task'[t].attempt = task[t].attempt /\ starts'[t] = starts[t]

Stays(t) == task'[t].status = task[t].status /\ NoStart(t) /\ Keeps(t)
Enters(t) ==
  /\ task[t].status = "absent" /\ t \in Listed'
  /\ task'[t].status = IF t \in NeedsApproval THEN "blocked" ELSE "queued"
  /\ task'[t].attempt = 0 /\ starts'[t] = starts[t]
IsGranted(t) ==
  /\ task[t].status = "blocked" /\ task'[t].status = "queued" /\ task'[t].granted
  /\ NoStart(t) /\ task'[t].deps = task[t].deps
AttemptEnds(t) ==
  /\ task[t].status \in {"running", "failed"} /\ task'[t].status \in {"queued", "failed"}
  /\ task'[t].status = "queued" => task[t].attempt < MaxAttempts[t]
  /\ NoStart(t) /\ Keeps(t)
Starts(t) ==
  /\ task[t].status \in {"queued", "running"} /\ task'[t].status = "running"
  /\ task[t].attempt < MaxAttempts[t] /\ \A d \in task[t].deps : task[d].status = "completed"
  /\ task'[t].attempt = task[t].attempt + 1 /\ starts'[t] = starts[t] + 1 /\ Keeps(t)
Completes(t) ==
  starts[t] > 0 /\ task'[t].status = "completed" /\ NoStart(t) /\ Keeps(t)
IsCancelled(t) ==
  /\ task[t].status \notin Terminal /\ t \in Listed
  /\ task'[t].status = "cancelled" /\ NoStart(t) /\ Keeps(t)

Moves(t) ==
  \/ Stays(t) \/ Enters(t) \/ IsGranted(t) \/ AttemptEnds(t) \/ Starts(t)
  \/ Completes(t) \/ IsCancelled(t)

\* The reconciled list: expired attempts end, everything else stays as it is.
LEMMA ReconciledTasks ==
  ASSUME IInv
  PROVE  /\ Reconciled \in [Tasks -> TaskState]
         /\ \A t \in Tasks :
              /\ Reconciled[t].attempt = task[t].attempt
              /\ Reconciled[t].granted = task[t].granted /\ Reconciled[t].deps = task[t].deps
              /\ \/ Reconciled[t] = task[t]
                 \/ /\ task[t].status = "running"
                    /\ Reconciled[t].status \in {"failed", "queued"}
                    /\ Reconciled[t].status = "queued" => task[t].attempt < MaxAttempts[t]
<1>1. task \in [Tasks -> TaskState] /\ MaxAttempts \in [Tasks -> Nat \ {0}]
  BY QueueConstants DEF IInv, TypeOK
<1>2. ASSUME NEW t \in Tasks
      PROVE  LET e == Ended(task[t], MaxAttempts[t]) IN
             /\ e \in TaskState /\ e.attempt = task[t].attempt
             /\ e.granted = task[t].granted /\ e.deps = task[t].deps
             /\ e.status \in {"failed", "queued"}
             /\ e.status = "queued" => task[t].attempt < MaxAttempts[t]
  <2>1. task[t] \in TaskState /\ MaxAttempts[t] \in Nat
    BY <1>1
  <2>2. QED
    BY <2>1, EndedTask
<1>3. \A t \in Tasks : Reconciled[t] = IF Expired(t) THEN Ended(task[t], MaxAttempts[t]) ELSE task[t]
  BY DEF Reconciled
<1>4. Reconciled \in [Tasks -> TaskState]
  BY <1>1, <1>2 DEF Reconciled
<1>5. QED
  BY <1>2, <1>3, <1>4 DEF Expired

-----------------------------------------------------------------------------
(* Every step is made of such moves *)

\* Every operation, answer, failed write, timeout, death and boot changes each task
\* only by one of the moves.
LEMMA StepMoves == IInv /\ [Next]_vars => \A u \in Tasks : Moves(u)
<1> SUFFICES ASSUME IInv, [Next]_vars, NEW u \in Tasks PROVE Moves(u)
  OBVIOUS
<1> USE DEF Moves, NoStart, Keeps
<1>1. /\ task \in [Tasks -> TaskState] /\ MaxAttempts \in [Tasks -> Nat \ {0}]
      /\ starts \in [Tasks -> Nat] /\ busy \in [Workers -> Tasks \cup {None}]
  BY QueueConstants DEF IInv, TypeOK
<1>2. ASSUME NEW t \in Tasks
      PROVE  LET e == Ended(task[t], MaxAttempts[t]) IN
             /\ e.attempt = task[t].attempt
             /\ e.granted = task[t].granted /\ e.deps = task[t].deps
             /\ e.status \in {"failed", "queued"}
             /\ e.status = "queued" => task[t].attempt < MaxAttempts[t]
  <2>1. task[t] \in TaskState /\ MaxAttempts[t] \in Nat
    BY <1>1
  <2>2. QED
    BY <2>1, EndedTask
<1>3. task[u] \in TaskState
  BY <1>1
<1>4. CASE UNCHANGED <<task, starts>>
  BY <1>4 DEF Stays
<1>5. ASSUME NEW w \in Workers, Claim(w) PROVE Moves(u)
  <2>1. PICK t \in Tasks :
          /\ First(Reconciled, t)
          /\ task' = [Reconciled EXCEPT ![t].status = "running", ![t].left = Timeout,
                                        ![t].attempt = @ + 1]
          /\ starts' = [starts EXCEPT ![t] = @ + 1]
    BY <1>5 DEF Claim
  <2>2. Reconciled[t].status = "queued" /\ \A d \in Reconciled[t].deps : Reconciled[d].status = "completed"
    BY <2>1 DEF First, Claimable, DependenciesComplete
  <2>3. task[t].deps \subseteq Tasks
    BY <1>1 DEF TaskState
  <2>4. task[t].attempt < MaxAttempts[t] /\ task[t].status \in {"queued", "running"}
    BY <2>2, ReconciledTasks DEF IInv, AttemptsBounded
  <2>5. \A d \in task[t].deps : task[d].status = "completed"
    BY <2>2, <2>3, ReconciledTasks
  <2>6. CASE u = t
    <3>1. task'[t] = [Reconciled[t] EXCEPT !.status = "running", !.left = Timeout, !.attempt = @ + 1]
      BY <2>1, ReconciledTasks
    <3>2. Reconciled[t] \in TaskState
      BY ReconciledTasks
    <3>3. /\ task'[t].status = "running" /\ task'[t].attempt = Reconciled[t].attempt + 1
          /\ task'[t].granted = Reconciled[t].granted /\ task'[t].deps = Reconciled[t].deps
      BY <3>1, <3>2 DEF TaskState
    <3>4. starts'[t] = starts[t] + 1
      BY <1>1, <2>1
    <3>5. QED
      BY <2>4, <2>5, <2>6, <3>3, <3>4, ReconciledTasks DEF Starts
  <2>7. CASE u # t
    <3>1. task'[u] = Reconciled[u] /\ starts'[u] = starts[u]
      BY <1>1, <2>1, <2>7, ReconciledTasks
    <3>2. QED
      BY <3>1, ReconciledTasks DEF Stays, AttemptEnds
  <2>8. QED
    BY <2>6, <2>7
<1>6. CASE Reconcile
  <2>1. task' = Reconciled /\ starts' = starts
    BY <1>6 DEF Reconcile
  <2>2. QED
    BY <2>1, ReconciledTasks DEF Stays, AttemptEnds
<1>7. ASSUME NEW w \in Workers, DispatchSucceeds(w) PROVE Moves(u)
  <2>1. /\ busy[w] \in Tasks /\ starts[busy[w]] > 0 /\ starts' = starts
        /\ task' = [task EXCEPT ![busy[w]].status = "completed", ![busy[w]].left = 0]
    BY <1>1, <1>7 DEF DispatchSucceeds, IInv, WorkersStarted
  <2>2. CASE u = busy[w]
    BY <1>1, <1>3, <2>1, <2>2 DEF Completes, TaskState
  <2>3. CASE u # busy[w]
    BY <1>1, <2>1, <2>3 DEF Stays
  <2>4. QED
    BY <2>2, <2>3
<1>8. ASSUME NEW w \in Workers, DispatchFails(w) \/ CompleteWriteFails(w) PROVE Moves(u)
  <2>1. /\ busy[w] \in Tasks /\ starts' = starts
        /\ task' = [task EXCEPT ![busy[w]] =
             IF @.status = "running" THEN Ended(@, MaxAttempts[busy[w]]) ELSE @]
    BY <1>1, <1>8 DEF DispatchFails, CompleteWriteFails
  <2>2. CASE u = busy[w]
    BY <1>1, <1>2, <2>1, <2>2 DEF Stays, AttemptEnds
  <2>3. CASE u # busy[w]
    BY <1>1, <2>1, <2>3 DEF Stays
  <2>4. QED
    BY <2>2, <2>3
<1>9. ASSUME NEW t \in Tasks, NEW D \in SUBSET (Tasks \ {t}), Enqueue(t, D) PROVE Moves(u)
  <2>1. t \notin Listed /\ starts' = starts /\ order' = Append(order, t)
    BY <1>9 DEF Enqueue
  <2>2. t \in Listed'
    <3>1. order \in Seq(Tasks)
      BY DEF IInv, TypeOK
    <3>2. Len(order') = Len(order) + 1 /\ order'[Len(order) + 1] = t
      BY <2>1, <3>1
    <3>3. Len(order) + 1 \in DOMAIN order'
      BY <2>1, <3>1, <3>2
    <3>4. QED
      BY <3>2, <3>3 DEF Listed
  <2>3. CASE u = t
    <3>1. task'[t] = [Unlisted EXCEPT !.status = IF t \in NeedsApproval THEN "blocked" ELSE "queued",
                                      !.deps = D]
      BY <1>1, <1>9 DEF Enqueue
    <3>2. task[t].status = "absent"
      BY <2>1 DEF IInv, Bookkeeping
    <3>3. QED
      BY <2>1, <2>2, <2>3, <3>1, <3>2 DEF Unlisted, Enters
  <2>4. CASE u # t
    BY <1>1, <1>9, <2>4 DEF Enqueue, Stays
  <2>5. QED
    BY <2>3, <2>4
<1>10. ASSUME NEW t \in Tasks, Approve(t) PROVE Moves(u)
  <2>1. CASE u = t
    BY <1>1, <1>3, <1>10, <2>1 DEF Approve, IsGranted, TaskState
  <2>2. CASE u # t
    BY <1>1, <1>10, <2>2 DEF Approve, Stays
  <2>3. QED
    BY <2>1, <2>2
<1>11. ASSUME NEW t \in Tasks, Retry(t) PROVE Moves(u)
  <2>1. CASE u = t
    BY <1>1, <1>2, <1>11, <2>1 DEF Retry, AttemptEnds
  <2>2. CASE u # t
    BY <1>1, <1>11, <2>2 DEF Retry, Stays
  <2>3. QED
    BY <2>1, <2>2
<1>12. ASSUME NEW t \in Tasks, Cancel(t) PROVE Moves(u)
  <2>1. CASE u = t
    BY <1>1, <1>3, <1>12, <2>1 DEF Cancel, IsCancelled, TaskState
  <2>2. CASE u # t
    BY <1>1, <1>12, <2>2 DEF Cancel, Stays
  <2>3. QED
    BY <2>1, <2>2
<1>13. CASE Tick
  BY <1>1, <1>3, <1>13 DEF Tick, Stays, TaskState
<1>14. CASE Boot
  BY <1>1, <1>2, <1>14 DEF Boot, Stays, AttemptEnds
<1>15. CASE UNCHANGED vars \/ Crash \/ \E w \in Workers : FailWriteFails(w)
  BY <1>4, <1>15 DEF vars, Crash, FailWriteFails
<1>16. QED
  BY <1>5, <1>6, <1>7, <1>8, <1>9, <1>10, <1>11, <1>12, <1>13, <1>14, <1>15
  DEF Next, WorkerStep, TaskStep

-----------------------------------------------------------------------------
(* The inductive invariant *)

\* The changes of a task's record keep its type.
LEMMA TaskTypes ==
  ASSUME NEW r \in TaskState
  PROVE  /\ [r EXCEPT !.status = "completed", !.left = 0] \in TaskState
         /\ [r EXCEPT !.status = "cancelled", !.left = 0] \in TaskState
         /\ [r EXCEPT !.status = "queued", !.granted = TRUE, !.wait = 0] \in TaskState
         /\ [r EXCEPT !.status = "running", !.left = Timeout, !.attempt = @ + 1] \in TaskState
         /\ [r EXCEPT !.wait = Less(@), !.left = Less(@)] \in TaskState
<1>1. Timeout \in Nat
  BY QueueConstants
<1>2. Less(r.wait) \in Nat /\ Less(r.left) \in Nat /\ r.attempt + 1 \in Nat
  BY DEF Less, TaskState
<1>3. QED
  BY <1>1, <1>2 DEF TaskState, Statuses, Terminal

\* A new task's record has the type of a task.
LEMMA NewTaskType ==
  ASSUME NEW D \in SUBSET Tasks, NEW st \in {"blocked", "queued"}
  PROVE  [Unlisted EXCEPT !.status = st, !.deps = D] \in TaskState
BY DEF Unlisted, TaskState, Statuses

\* Every step keeps the types of the task list and of the start counters.
LEMMA TaskTypeStep ==
  IInv /\ [Next]_vars => task' \in [Tasks -> TaskState] /\ starts' \in [Tasks -> Nat]
<1> SUFFICES ASSUME IInv, [Next]_vars
             PROVE  task' \in [Tasks -> TaskState] /\ starts' \in [Tasks -> Nat]
  OBVIOUS
<1>1. /\ task \in [Tasks -> TaskState] /\ MaxAttempts \in [Tasks -> Nat \ {0}]
      /\ starts \in [Tasks -> Nat] /\ busy \in [Workers -> Tasks \cup {None}]
  BY QueueConstants DEF IInv, TypeOK
<1>2. \A t \in Tasks : task[t] \in TaskState /\ Ended(task[t], MaxAttempts[t]) \in TaskState
  <2>1. \A t \in Tasks : task[t] \in TaskState /\ MaxAttempts[t] \in Nat
    BY <1>1
  <2>2. QED
    BY <2>1, EndedTask
<1>3. ASSUME NEW w \in Workers, Claim(w) PROVE task' \in [Tasks -> TaskState] /\ starts' \in [Tasks -> Nat]
  <2>1. PICK t \in Tasks :
          /\ task' = [Reconciled EXCEPT ![t].status = "running", ![t].left = Timeout,
                                        ![t].attempt = @ + 1]
          /\ starts' = [starts EXCEPT ![t] = @ + 1]
    BY <1>3 DEF Claim
  <2>2. Reconciled[t] \in TaskState
    BY ReconciledTasks
  <2>3. [Reconciled[t] EXCEPT !.status = "running", !.left = Timeout, !.attempt = @ + 1] \in TaskState
    BY <2>2, TaskTypes
  <2>4. QED
    BY <1>1, <2>1, <2>3, ReconciledTasks
<1>4. CASE Reconcile
  BY <1>1, <1>4, ReconciledTasks DEF Reconcile
<1>5. ASSUME NEW w \in Workers, DispatchSucceeds(w) PROVE task' \in [Tasks -> TaskState] /\ starts' \in [Tasks -> Nat]
  <2>1. /\ busy[w] \in Tasks /\ starts' = starts
        /\ task' = [task EXCEPT ![busy[w]].status = "completed", ![busy[w]].left = 0]
    BY <1>1, <1>5 DEF DispatchSucceeds
  <2>2. [task[busy[w]] EXCEPT !.status = "completed", !.left = 0] \in TaskState
    BY <1>2, <2>1, TaskTypes
  <2>3. QED
    BY <1>1, <2>1, <2>2
<1>6. ASSUME NEW w \in Workers, DispatchFails(w) \/ CompleteWriteFails(w)
      PROVE  task' \in [Tasks -> TaskState] /\ starts' \in [Tasks -> Nat]
  BY <1>1, <1>2, <1>6 DEF DispatchFails, CompleteWriteFails
<1>7. ASSUME NEW t \in Tasks, NEW D \in SUBSET (Tasks \ {t}), Enqueue(t, D)
      PROVE  task' \in [Tasks -> TaskState] /\ starts' \in [Tasks -> Nat]
  <2> DEFINE st == IF t \in NeedsApproval THEN "blocked" ELSE "queued"
  <2>1. [Unlisted EXCEPT !.status = st, !.deps = D] \in TaskState
    BY NewTaskType
  <2>2. QED
    BY <1>1, <1>7, <2>1 DEF Enqueue
<1>8. ASSUME NEW t \in Tasks, Approve(t) PROVE task' \in [Tasks -> TaskState] /\ starts' \in [Tasks -> Nat]
  <2>1. [task[t] EXCEPT !.status = "queued", !.granted = TRUE, !.wait = 0] \in TaskState
    BY <1>2, TaskTypes
  <2>2. QED
    BY <1>1, <1>8, <2>1 DEF Approve
<1>9. ASSUME NEW t \in Tasks, Retry(t) PROVE task' \in [Tasks -> TaskState] /\ starts' \in [Tasks -> Nat]
  BY <1>1, <1>2, <1>9 DEF Retry
<1>10. ASSUME NEW t \in Tasks, Cancel(t) PROVE task' \in [Tasks -> TaskState] /\ starts' \in [Tasks -> Nat]
  <2>1. [task[t] EXCEPT !.status = "cancelled", !.left = 0] \in TaskState
    BY <1>2, TaskTypes
  <2>2. QED
    BY <1>1, <1>10, <2>1 DEF Cancel
<1>11. CASE Tick
  <2>1. \A t \in Tasks : [task[t] EXCEPT !.wait = Less(@), !.left = Less(@)] \in TaskState
    BY <1>2, TaskTypes
  <2>2. QED
    BY <1>1, <1>11, <2>1 DEF Tick
<1>12. CASE Boot
  BY <1>1, <1>2, <1>12 DEF Boot
<1>13. CASE UNCHANGED vars \/ Crash \/ \E w \in Workers : FailWriteFails(w)
  BY <1>1, <1>13 DEF vars, Crash, FailWriteFails
<1>14. QED
  BY <1>3, <1>4, <1>5, <1>6, <1>7, <1>8, <1>9, <1>10, <1>11, <1>12, <1>13
  DEF Next, WorkerStep, TaskStep

\* The list grows only at its end, and only by the task that enters.
LEMMA OrderStep == IInv /\ [Next]_vars => order' \in Seq(Tasks) /\ Listed \subseteq Listed'
<1> SUFFICES ASSUME IInv, [Next]_vars PROVE order' \in Seq(Tasks) /\ Listed \subseteq Listed'
  OBVIOUS
<1>1. order \in Seq(Tasks)
  BY DEF IInv, TypeOK
<1>2. CASE order' = order
  BY <1>1, <1>2 DEF Listed
<1>3. ASSUME NEW t \in Tasks, order' = Append(order, t)
      PROVE  order' \in Seq(Tasks) /\ Listed \subseteq Listed'
  <2>1. order' \in Seq(Tasks) /\ Len(order') = Len(order) + 1
        /\ \A i \in 1 .. Len(order) : order'[i] = order[i]
    BY <1>1, <1>3
  <2>2. DOMAIN order = 1 .. Len(order) /\ DOMAIN order' = 1 .. Len(order) + 1
    BY <1>1, <2>1
  <2>3. QED
    BY <1>1, <2>1, <2>2 DEF Listed
<1>4. order' = order \/ \E t \in Tasks : order' = Append(order, t)
  BY DEF Next, WorkerStep, TaskStep, vars, Claim, DispatchSucceeds, DispatchFails,
    CompleteWriteFails, FailWriteFails, Enqueue, Approve, Retry, Cancel, Reconcile, Tick, Crash, Boot
<1>5. QED
  BY <1>2, <1>3, <1>4

\* A worker awaits nothing, what it awaited before, or the task it has just started.
LEMMA WorkerStepKeeps ==
  IInv /\ [Next]_vars => busy' \in [Workers -> Tasks \cup {None}] /\ WorkersStarted'
<1> SUFFICES ASSUME IInv, [Next]_vars
             PROVE  busy' \in [Workers -> Tasks \cup {None}] /\ WorkersStarted'
  OBVIOUS
<1>1. /\ busy \in [Workers -> Tasks \cup {None}] /\ starts \in [Tasks -> Nat] /\ WorkersStarted
  BY DEF IInv, TypeOK
<1>2. CASE UNCHANGED <<busy, starts>>
  BY <1>1, <1>2 DEF WorkersStarted
<1>3. ASSUME NEW w \in Workers, Idle(w), starts' = starts
      PROVE  busy' \in [Workers -> Tasks \cup {None}] /\ WorkersStarted'
  BY <1>1, <1>3 DEF Idle, WorkersStarted
<1>4. CASE Crash
  BY <1>1, <1>4 DEF Crash, WorkersStarted
<1>5. ASSUME NEW w \in Workers, Claim(w)
      PROVE  busy' \in [Workers -> Tasks \cup {None}] /\ WorkersStarted'
  <2>1. PICK t \in Tasks : busy' = [busy EXCEPT ![w] = t] /\ starts' = [starts EXCEPT ![t] = @ + 1]
    BY <1>5 DEF Claim
  <2>2. \A u \in Tasks : starts[u] > 0 \/ u = t => starts'[u] > 0
    BY <1>1, <2>1
  <2>3. busy' \in [Workers -> Tasks \cup {None}]
    BY <1>1, <2>1
  <2>4. \A v \in Workers : busy'[v] # None => starts'[busy'[v]] > 0
    BY <1>1, <2>1, <2>2 DEF WorkersStarted
  <2>5. QED
    BY <2>3, <2>4 DEF WorkersStarted
<1>6. QED
  BY <1>2, <1>3, <1>4, <1>5 DEF Next, WorkerStep, TaskStep, vars, DispatchSucceeds, DispatchFails,
    CompleteWriteFails, FailWriteFails, Enqueue, Approve, Retry, Cancel, Reconcile, Tick, Boot

\* The failed writes and the deaths are counted up to their bounds.
LEMMA LimitsStep ==
  IInv /\ [Next]_vars =>
    up' \in BOOLEAN /\ failures' \in 0 .. MaxFailures /\ crashes' \in 0 .. MaxCrashes
<1> DEFINE Good == up' \in BOOLEAN /\ failures' \in 0 .. MaxFailures /\ crashes' \in 0 .. MaxCrashes
<1> SUFFICES ASSUME IInv, [Next]_vars PROVE Good
  OBVIOUS
<1>1. /\ up \in BOOLEAN /\ failures \in 0 .. MaxFailures /\ crashes \in 0 .. MaxCrashes
      /\ MaxFailures \in Nat /\ MaxCrashes \in Nat
  BY QueueConstants DEF IInv, TypeOK
<1>2. CASE UNCHANGED <<up, failures, crashes>>
  BY <1>1, <1>2
<1>3. ASSUME NEW w \in Workers, CompleteWriteFails(w) \/ FailWriteFails(w) PROVE Good
  BY <1>1, <1>3 DEF CompleteWriteFails, FailWriteFails
<1>4. CASE Crash
  <2>1. up' = FALSE
    BY <1>4 DEF Crash
  <2>2. failures' = failures /\ crashes < MaxCrashes /\ crashes' = crashes + 1
    BY <1>4 DEF Crash
  <2>3. crashes' \in 0 .. MaxCrashes
    BY <1>1, <2>2
  <2>4. QED
    BY <1>1, <2>1, <2>2, <2>3
<1>5. CASE Boot
  BY <1>1, <1>5 DEF Boot
<1>6. ASSUME NEW w \in Workers, Claim(w) \/ DispatchSucceeds(w) \/ DispatchFails(w) PROVE Good
  BY <1>2, <1>6 DEF Claim, DispatchSucceeds, DispatchFails
<1>7. ASSUME NEW t \in Tasks, TaskStep(t) PROVE Good
  <2>1. CASE \E D \in SUBSET (Tasks \ {t}) : Enqueue(t, D)
    BY <1>2, <2>1 DEF Enqueue
  <2>2. CASE Approve(t) \/ Retry(t) \/ Cancel(t)
    BY <1>2, <2>2 DEF Approve, Retry, Cancel
  <2>3. QED
    BY <1>7, <2>1, <2>2 DEF TaskStep
<1>8. CASE Reconcile \/ Tick \/ UNCHANGED vars
  BY <1>2, <1>8 DEF Reconcile, Tick, vars
<1>9. QED
  BY <1>3, <1>4, <1>5, <1>6, <1>7, <1>8 DEF Next, WorkerStep

\* The initial state satisfies the inductive invariant.
LEMMA InitIInv == Init => IInv
<1>1. SUFFICES ASSUME Init PROVE IInv
  OBVIOUS
<1>2. Unlisted \in TaskState /\ Unlisted.status = "absent" /\ Unlisted.attempt = 0
  BY DEF Unlisted, TaskState, Statuses
<1>3. order = <<>> /\ order \in Seq(Tasks)
  BY <1>1 DEF Init
<1>4. 0 \in 0 .. MaxFailures /\ 0 \in 0 .. MaxCrashes
  BY QueueConstants
<1>5. TypeOK
  BY <1>1, <1>2, <1>3, <1>4 DEF Init, TypeOK
<1>6. \A t \in Tasks : task[t] = Unlisted /\ starts[t] = 0 /\ MaxAttempts[t] \in Nat \ {0}
  BY <1>1, QueueConstants DEF Init
<1>7. AttemptsBounded /\ DependenciesFirst /\ ApprovalFirst /\ Bookkeeping
  BY <1>2, <1>6, QueueConstants DEF AttemptsBounded, DependenciesFirst, ApprovalFirst, Bookkeeping
<1>8. WorkersStarted
  BY <1>1 DEF Init, WorkersStarted
<1>9. QED
  BY <1>5, <1>7, <1>8 DEF IInv

\* Every step keeps the inductive invariant.
LEMMA InvStep == IInv /\ [Next]_vars => IInv'
<1> SUFFICES ASSUME IInv, [Next]_vars PROVE IInv'
  OBVIOUS
<1>1. \A t \in Tasks : Moves(t)
  BY StepMoves
<1>2. /\ task \in [Tasks -> TaskState] /\ starts \in [Tasks -> Nat]
      /\ MaxAttempts \in [Tasks -> Nat \ {0}]
      /\ task' \in [Tasks -> TaskState] /\ starts' \in [Tasks -> Nat]
  BY TaskTypeStep, QueueConstants DEF IInv, TypeOK
<1>3. TypeOK'
  BY <1>2, LimitsStep, OrderStep, WorkerStepKeeps DEF TypeOK
<1>4. AttemptsBounded'
  <2> SUFFICES ASSUME NEW t \in Tasks
               PROVE  /\ starts'[t] = task'[t].attempt /\ task'[t].attempt <= MaxAttempts[t]
                      /\ task'[t].status = "queued" => task'[t].attempt < MaxAttempts[t]
    BY DEF AttemptsBounded
  <2>1. /\ starts[t] = task[t].attempt /\ task[t].attempt <= MaxAttempts[t]
        /\ task[t].status = "queued" => task[t].attempt < MaxAttempts[t]
        /\ task[t].status \in {"absent", "blocked"} => starts[t] = 0
        /\ task[t].attempt \in Nat /\ MaxAttempts[t] \in Nat \ {0}
    BY <1>2 DEF IInv, AttemptsBounded, Bookkeeping, TaskState
  <2>2. QED
    BY <1>1, <2>1 DEF Moves, Stays, Enters, IsGranted, AttemptEnds, Starts, Completes,
      IsCancelled, NoStart
<1>5. \A t \in Tasks : task[t].status = "completed" => task'[t].status = "completed"
  BY <1>1 DEF Moves, Stays, Enters, IsGranted, AttemptEnds, Starts, Completes, IsCancelled, Terminal
<1>6. DependenciesFirst'
  <2> SUFFICES ASSUME NEW t \in Tasks, starts'[t] > 0, NEW d \in task'[t].deps
               PROVE  task'[d].status = "completed"
    BY DEF DependenciesFirst
  <2>1. d \in Tasks /\ task[t].deps \subseteq Tasks
    BY <1>2 DEF TaskState
  <2>2. task[t].status \in {"absent", "blocked"} => starts[t] = 0
    BY DEF IInv, Bookkeeping
  <2>3. task[d].status = "completed"
    BY <1>1, <1>2, <2>2 DEF IInv, DependenciesFirst, Moves, Stays, Enters, IsGranted, AttemptEnds,
      Starts, Completes, IsCancelled, NoStart, Keeps
  <2>4. QED
    BY <1>5, <2>1, <2>3
<1>7. ApprovalFirst' /\ Bookkeeping'
  <2> SUFFICES ASSUME NEW t \in Tasks
               PROVE  /\ t \in NeedsApproval /\ starts'[t] > 0 => task'[t].granted
                      /\ task'[t].status # "absent" => t \in Listed'
                      /\ task'[t].status \in {"absent", "blocked"} => starts'[t] = 0
                      /\ task'[t].status \in {"queued", "running", "failed"} /\ t \in NeedsApproval
                           => task'[t].granted
    BY QueueConstants DEF ApprovalFirst, Bookkeeping
  <2>1. /\ t \in NeedsApproval /\ starts[t] > 0 => task[t].granted
        /\ task[t].status # "absent" => t \in Listed
        /\ task[t].status \in {"absent", "blocked"} => starts[t] = 0
        /\ task[t].status \in {"queued", "running", "failed"} /\ t \in NeedsApproval => task[t].granted
        /\ starts[t] \in Nat
    BY <1>2 DEF IInv, ApprovalFirst, Bookkeeping
  <2>2. Moves(t) /\ Listed \subseteq Listed'
    BY <1>1, OrderStep
  <2>3. QED
    BY <2>1, <2>2 DEF Moves, Stays, Enters, IsGranted, AttemptEnds, Starts, Completes,
      IsCancelled, NoStart, Keeps, Terminal
<1>8. QED
  BY <1>3, <1>4, <1>6, <1>7, WorkerStepKeeps DEF IInv

-----------------------------------------------------------------------------
(* The theorems *)

\* The inductive invariant holds in every reachable state.
THEOREM Invariance == Spec => []IInv
<1>1. Init => IInv
  BY InitIInv
<1>2. IInv /\ [Next]_vars => IInv'
  BY InvStep
<1>3. QED
  BY <1>1, <1>2, PTL DEF Spec

\* The task list, the counters and the workers keep their types (SupervisorTask).
THEOREM TypeCorrect == Spec => []TypeOK
<1>1. IInv => TypeOK
  BY DEF IInv
<1>2. QED
  BY <1>1, Invariance, PTL

\* A task is dispatched at most max_attempts times and every dispatch is counted, for
\* any interleaving of answers, timeouts, retries, failed writes and restarts.
THEOREM AttemptsBoundedHolds == Spec => []AttemptsBounded
<1>1. IInv => AttemptsBounded
  BY DEF IInv
<1>2. QED
  BY <1>1, Invariance, PTL

\* What a task depends on is completed before the task is dispatched, and stays so.
THEOREM DependenciesFirstHolds == Spec => []DependenciesFirst
<1>1. IInv => DependenciesFirst
  BY DEF IInv
<1>2. QED
  BY <1>1, Invariance, PTL

\* No task that needs approval is dispatched without it (approve, enqueue).
THEOREM ApprovalFirstHolds == Spec => []ApprovalFirst
<1>1. IInv => ApprovalFirst
  BY DEF IInv
<1>2. QED
  BY <1>1, Invariance, PTL

\* complete() is final: no late answer, timeout, retry, cancellation or boot undoes it.
THEOREM CompletedIsFinalHolds == Spec => CompletedIsFinal
<1>1. ASSUME IInv, [Next]_vars
      PROVE  \A t \in Tasks : task[t].status = "completed" => task'[t].status = "completed"
  BY <1>1, StepMoves DEF Moves, Stays, Enters, IsGranted, AttemptEnds, Starts, Completes,
    IsCancelled, Terminal
<1>2. IInv /\ [Next]_vars =>
        [\A t \in Tasks : task[t].status = "completed" => task'[t].status = "completed"]_vars
  BY <1>1
<1>3. QED
  BY <1>2, Invariance, PTL DEF Spec, CompletedIsFinal

\* A cancelled task is never dispatched again; only a late answer still completes it.
THEOREM CancelledNeverRestartsHolds == Spec => CancelledNeverRestarts
<1>1. ASSUME IInv, [Next]_vars
      PROVE  \A t \in Tasks : task[t].status = "cancelled" => task'[t].status \in {"cancelled", "completed"}
  BY <1>1, StepMoves DEF Moves, Stays, Enters, IsGranted, AttemptEnds, Starts, Completes,
    IsCancelled, Terminal
<1>2. IInv /\ [Next]_vars =>
        [\A t \in Tasks : task[t].status = "cancelled" => task'[t].status \in {"cancelled", "completed"}]_vars
  BY <1>1
<1>3. QED
  BY <1>2, Invariance, PTL DEF Spec, CancelledNeverRestarts
=============================================================================
