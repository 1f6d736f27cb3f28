--------------------------- MODULE SupervisorQueue ---------------------------
(***************************************************************************)
(* The durable task queue (src/data/delivery-system/supervisorQueue.ts).   *)
(*                                                                         *)
(* Every operation replaces the whole list of tasks: publish() writes the  *)
(* file first and changes memory only then, so the file and memory agree   *)
(* between operations and a failed write is an operation that did not      *)
(* happen.  One variable stands for both.                                  *)
(*                                                                         *)
(* Timestamps are kept as the time that is left: a queued task waits until *)
(* next_attempt_at, a running one may stay until run_started_at plus       *)
(* timeout_ms.                                                             *)
(***************************************************************************)
EXTENDS Naturals, Sequences, FiniteSets

CONSTANTS
  Tasks,        \* task ids
  Workers,      \* callers of runOnce; the control plane's poll loop is one
  MaxAttempts,  \* MaxAttempts[t]: max_attempts
  NeedsApproval,\* tasks enqueued with requiresApproval and without the grant
  MaxTasks,     \* maxTasks
  Timeout,      \* timeout_ms, in ticks
  BaseDelay,    \* baseRetryDelayMs, in ticks
  MaxDelay,     \* maxRetryDelayMs, in ticks
  MaxFailures,  \* bound on the number of failed writes
  MaxCrashes    \* bound on the number of process deaths

None == "none"

ASSUME QueueConstants ==
  /\ MaxAttempts \in [Tasks -> Nat \ {0}]
  /\ NeedsApproval \subseteq Tasks /\ None \notin Tasks
  /\ {MaxTasks, Timeout, BaseDelay, MaxDelay, MaxFailures, MaxCrashes} \subseteq Nat

VARIABLES
  order,     \* the ids in the task list, in its order
  task,      \* task[t] for the ids in the list
  busy,      \* busy[w]: the task whose dispatch worker w awaits
  starts,    \* starts[t]: how often a dispatch of t was started
  up,        \* the process runs
  failures,
  crashes

vars == <<order, task, busy, starts, up, failures, crashes>>

Terminal == {"completed", "failed", "cancelled"}
Listed == {order[i] : i \in DOMAIN order}
Unlisted == [status |-> "absent", attempt |-> 0, wait |-> 0, left |-> 0,
             granted |-> FALSE, deps |-> {}]

Init ==
  /\ order = <<>> /\ task = [t \in Tasks |-> Unlisted]
  /\ busy = [w \in Workers |-> None] /\ starts = [t \in Tasks |-> 0]
  /\ up = TRUE /\ failures = 0 /\ crashes = 0

-----------------------------------------------------------------------------
(* enqueue, approve *)

\* hasDependencyCycle: some set of listed tasks each of which depends on another.
HasCycle(deps) ==
  \E S \in SUBSET Tasks : S # {} /\ \A t \in S : deps[t] \cap S # {}

\* A dependency may be an id that is not in the list yet.
Enqueue(t, D) ==
  /\ up /\ t \notin Listed /\ Len(order) < MaxTasks
  /\ ~HasCycle([u \in Tasks |-> IF u = t THEN D ELSE task[u].deps])
  /\ order' = Append(order, t)
  /\ task' = [task EXCEPT ![t] =
       [Unlisted EXCEPT !.status = IF t \in NeedsApproval THEN "blocked" ELSE "queued",
                        !.deps = D]]
  /\ UNCHANGED <<busy, starts, up, failures, crashes>>

Approve(t) ==
  /\ up /\ task[t].status = "blocked"
  /\ task' = [task EXCEPT ![t].status = "queued", ![t].granted = TRUE, ![t].wait = 0]
  /\ UNCHANGED <<order, busy, starts, up, failures, crashes>>

-----------------------------------------------------------------------------
(* reconcile, peekClaimable, claim *)

\* The delay doubles from attempt to attempt, up to MaxDelay.
Delay(attempt) ==
  LET d == BaseDelay * 2 ^ (attempt - 1) IN IF d \in 0 .. MaxDelay THEN d ELSE MaxDelay

\* requeue(), or the end when the attempts are used up.
Ended(r, max) ==
  IF r.attempt >= max
    THEN [r EXCEPT !.status = "failed", !.left = 0]
    ELSE [r EXCEPT !.status = "queued", !.left = 0, !.wait = Delay(r.attempt)]

Expired(t) == task[t].status = "running" /\ task[t].left = 0

\* Mutant: no task times out.
ReconciledNever == task

Reconciled ==
  [t \in Tasks |-> IF Expired(t) THEN Ended(task[t], MaxAttempts[t]) ELSE task[t]]

\* Mutant: a dependency that failed or was cancelled no longer holds a task up.
DependenciesOver(ts, t) == \A d \in ts[t].deps : ts[d].status \in Terminal

DependenciesComplete(ts, t) == \A d \in ts[t].deps : ts[d].status = "completed"

Claimable(ts, t) ==
  ts[t].status = "queued" /\ ts[t].wait = 0 /\ DependenciesComplete(ts, t)

\* peekClaimable: the first claimable task in the order of the list.
First(ts, t) == \E i \in DOMAIN order :
  /\ order[i] = t /\ Claimable(ts, t)
  /\ \A j \in 1 .. i - 1 : ~Claimable(ts, order[j])

\* runOnce up to the await: reconcile, claim and start the dispatch.
Claim(w) ==
  /\ up /\ busy[w] = None
  /\ \E t \in Tasks :
       /\ First(Reconciled, t)
       /\ task' = [Reconciled EXCEPT ![t].status = "running", ![t].left = Timeout,
                                     ![t].attempt = @ + 1]
       /\ busy' = [busy EXCEPT ![w] = t]
       /\ starts' = [starts EXCEPT ![t] = @ + 1]
  /\ UNCHANGED <<order, up, failures, crashes>>

\* peekClaimable alone: nothing is claimable, the caller does not claim, or the
\* claim's own write fails.
Reconcile ==
  /\ up /\ \E t \in Tasks : Expired(t)
  /\ task' = Reconciled
  /\ UNCHANGED <<order, busy, starts, up, failures, crashes>>

-----------------------------------------------------------------------------
(* dispatchClaimed after the await *)

Idle(w) == busy' = [busy EXCEPT ![w] = None]

\* complete() does not look at the status: a task that was requeued, failed or
\* cancelled meanwhile is completed by the late answer.
DispatchSucceeds(w) ==
  /\ up /\ busy[w] # None /\ Idle(w)
  /\ task' = [task EXCEPT ![busy[w]].status = "completed", ![busy[w]].left = 0]
  /\ UNCHANGED <<order, starts, up, failures, crashes>>

\* Mutant: fail() takes any task for a running one.
DispatchFailsAny(w) ==
  /\ up /\ busy[w] # None /\ Idle(w)
  /\ task' = [task EXCEPT ![busy[w]] = Ended(@, MaxAttempts[busy[w]])]
  /\ UNCHANGED <<order, starts, up, failures, crashes>>

\* The dispatch is refused or throws: fail() ends the attempt, whichever attempt is
\* running by now, and refuses a task that is not running.
DispatchFails(w) ==
  /\ up /\ busy[w] # None /\ Idle(w)
  /\ task' = [task EXCEPT ![busy[w]] =
       IF @.status = "running" THEN Ended(@, MaxAttempts[busy[w]]) ELSE @]
  /\ UNCHANGED <<order, starts, up, failures, crashes>>

\* The dispatch succeeds and complete() cannot write: the catch block fails the
\* attempt, which is tried again although its work is done.
CompleteWriteFails(w) ==
  /\ failures < MaxFailures /\ failures' = failures + 1
  /\ up /\ busy[w] # None /\ Idle(w)
  /\ task' = [task EXCEPT ![busy[w]] =
       IF @.status = "running" THEN Ended(@, MaxAttempts[busy[w]]) ELSE @]
  /\ UNCHANGED <<order, starts, up, crashes>>

\* The write of fail() fails too: the task stays running, without a worker.
FailWriteFails(w) ==
  /\ failures < MaxFailures /\ failures' = failures + 1
  /\ up /\ busy[w] # None /\ Idle(w)
  /\ UNCHANGED <<order, task, starts, up, crashes>>

-----------------------------------------------------------------------------
(* retry, cancel *)

\* Retry with a delta; a task with no attempts left fails.
Retry(t) ==
  /\ up /\ task[t].status \in {"running", "failed"}
  /\ task' = [task EXCEPT ![t] = Ended(@, MaxAttempts[t])]
  /\ UNCHANGED <<order, busy, starts, up, failures, crashes>>

Cancel(t) ==
  /\ up /\ t \in Listed /\ task[t].status \notin Terminal
  /\ task' = [task EXCEPT ![t].status = "cancelled", ![t].left = 0]
  /\ UNCHANGED <<order, busy, starts, up, failures, crashes>>

-----------------------------------------------------------------------------
(* Time, process death, boot *)

Less(n) == IF n > 0 THEN n - 1 ELSE 0

Tick ==
  /\ \E t \in Tasks : task[t].wait > 0 \/ task[t].left > 0
  /\ task' = [t \in Tasks |-> [task[t] EXCEPT !.wait = Less(@), !.left = Less(@)]]
  /\ UNCHANGED <<order, busy, starts, up, failures, crashes>>

Crash ==
  /\ up /\ crashes < MaxCrashes
  /\ up' = FALSE /\ crashes' = crashes + 1
  /\ busy' = [w \in Workers |-> None]
  /\ UNCHANGED <<order, task, starts, failures>>

\* Mutant: recover() requeues without looking at the attempts.
BootRequeueing ==
  /\ ~up /\ up' = TRUE
  /\ task' = [t \in Tasks |-> IF task[t].status = "running"
       THEN [task[t] EXCEPT !.status = "queued", !.left = 0] ELSE task[t]]
  /\ UNCHANGED <<order, busy, starts, failures, crashes>>

\* The constructor and recover(): running tasks are requeued or failed.
Boot ==
  /\ ~up /\ up' = TRUE
  /\ task' = [t \in Tasks |-> IF task[t].status = "running"
       THEN Ended(task[t], MaxAttempts[t]) ELSE task[t]]
  /\ UNCHANGED <<order, busy, starts, failures, crashes>>

-----------------------------------------------------------------------------
WorkerStep(w) ==
  \/ Claim(w) \/ DispatchSucceeds(w) \/ DispatchFails(w)
  \/ CompleteWriteFails(w) \/ FailWriteFails(w)

TaskStep(t) ==
  \/ \E D \in SUBSET (Tasks \ {t}) : Enqueue(t, D)
  \/ Approve(t) \/ Retry(t) \/ Cancel(t)

Next ==
  \/ \E w \in Workers : WorkerStep(w)
  \/ \E t \in Tasks : TaskStep(t)
  \/ Reconcile \/ Tick \/ Crash \/ Boot

Spec == Init /\ [][Next]_vars

\* The poll loop claims again and again, a dispatch ends (the worker process has a
\* timeout of its own), time passes, the service manager restarts the process.
Fairness ==
  /\ \A w \in Workers :
       /\ WF_vars(Claim(w))
       /\ WF_vars(DispatchSucceeds(w) \/ DispatchFails(w) \/ CompleteWriteFails(w) \/ FailWriteFails(w))
  /\ WF_vars(Reconcile) /\ WF_vars(Tick) /\ WF_vars(Boot)

FairSpec == Spec /\ Fairness

-----------------------------------------------------------------------------
(* Properties *)

Statuses == {"absent", "blocked", "queued", "running"} \cup Terminal
TaskState == [status : Statuses, attempt : Nat, wait : Nat, left : Nat,
              granted : BOOLEAN, deps : SUBSET Tasks]

\* The variables keep their types (SupervisorTask, supervisorQueue.ts:16-36).
TypeOK ==
  /\ order \in Seq(Tasks) /\ task \in [Tasks -> TaskState]
  /\ busy \in [Workers -> Tasks \cup {None}]
  /\ starts \in [Tasks -> Nat] /\ up \in BOOLEAN
  /\ failures \in 0 .. MaxFailures /\ crashes \in 0 .. MaxCrashes

\* However timeouts, failed dispatches, retries, failed writes and restarts follow
\* each other, a task is dispatched at most max_attempts times, and every dispatch is
\* counted; a queued task has an attempt left (what isSupervisorState asks of the
\* file, supervisorQueue.ts:376-377).
AttemptsBounded == \A t \in Tasks :
  /\ starts[t] = task[t].attempt /\ task[t].attempt <= MaxAttempts[t]
  /\ task[t].status = "queued" => task[t].attempt < MaxAttempts[t]

\* No task is dispatched before everything it depends on is completed, and what it
\* depends on stays completed (dependenciesComplete, supervisorQueue.ts:295).
DependenciesFirst == \A t \in Tasks :
  starts[t] > 0 => \A d \in task[t].deps : task[d].status = "completed"

\* No task that needs approval is dispatched without it, retries and restarts
\* included (supervisorQueue.ts:132, 153).
ApprovalFirst == \A t \in NeedsApproval : starts[t] > 0 => task[t].granted

\* A completed task stays completed: no late failure, timeout, cancellation or
\* restart makes it run again.
CompletedIsFinal ==
  [][\A t \in Tasks : task[t].status = "completed" => task'[t].status = "completed"]_vars

\* A cancelled task is never dispatched again, though the late answer of a dispatch
\* that was under way may still complete it.
CancelledNeverRestarts ==
  [][\A t \in Tasks : task[t].status = "cancelled" =>
       task'[t].status \in {"cancelled", "completed"}]_vars

\* A queued task whose dependencies are completed ends, whatever fails on the way:
\* a running task that lost its worker is found by its timeout.
ReadyTaskEnds == \A t \in Tasks :
  (task[t].status = "queued" /\ DependenciesComplete(task, t)) ~> (task[t].status \in Terminal)

-----------------------------------------------------------------------------
(* The inductive invariant of SupervisorQueueProofs *)

\* Where the counters and grants come from: what was never claimed has no starts, and
\* nothing leaves "blocked" but by the grant.
Bookkeeping == \A t \in Tasks :
  /\ task[t].status # "absent" => t \in Listed
  /\ task[t].status \in {"absent", "blocked"} => starts[t] = 0
  /\ task[t].status \in {"queued", "running", "failed"} /\ t \in NeedsApproval => task[t].granted

WorkersStarted == \A w \in Workers : busy[w] # None => starts[busy[w]] > 0

IInv ==
  /\ TypeOK /\ AttemptsBounded /\ DependenciesFirst /\ ApprovalFirst
  /\ Bookkeeping /\ WorkersStarted
=============================================================================
