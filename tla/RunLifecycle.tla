---------------------------- MODULE RunLifecycle ----------------------------
(***************************************************************************)
(* The life of a run: from the operator's draft through approval, token    *)
(* reservation, queue and dispatch to its end                              *)
(* (src/data/delivery-system/runOrchestrator.ts with the run store's       *)
(* operations, and the supervisor queue and token gateway as it sees them).*)
(*                                                                         *)
(* A run is spread over four files (runs.json, the approval queue, the     *)
(* supervisor queue, the gateway state), each written on its own.  The     *)
(* handlers are synchronous, except that the poll awaits the dispatch: one *)
(* handler runs at a time, and pc.todo holds the writes it has still to    *)
(* make.  Between any two of them the process may die, or a write may      *)
(* throw and leave the rest undone.                                        *)
(*                                                                         *)
(* Runs are numbered in the order of the run store.  A run has one token   *)
(* reservation at a time, so the gateway's view of it is one value.        *)
(***************************************************************************)
EXTENDS Naturals, Sequences, FiniteSets

CONSTANTS
  NRuns,       \* number of runs
  MaxAttempts, \* supervisorMaxAttempts
  MaxTasks,    \* places in the supervisor's list
  Answers,     \* what a dispatch may come to, a subset of AllAnswers
  MaxCancels,  \* bound on the operator's cancellations
  MaxThrows,   \* bound on the writes that throw
  MaxRestarts  \* bound on the process deaths

Runs == 1 .. NRuns
AllAnswers == {"ok", "failed", "refused", "ok_over_budget", "failed_over_budget", "rejected"}

ASSUME LifecycleConstants ==
  /\ NRuns \in Nat /\ MaxAttempts \in Nat \ {0} /\ Answers \subseteq AllAnswers
  /\ {MaxTasks, MaxCancels, MaxThrows, MaxRestarts} \subseteq Nat

VARIABLES
  run,       \* run[r]: the record in runs.json and its approval
  queue,     \* the supervisor's list of tasks
  gw,        \* gw[r]: the state of the run's reservation in the gateway
  pc,        \* the handler that is running
  flight,    \* the run whose dispatch the poll awaits, or 0
  starts,    \* starts[r]: dispatches of run r
  charged,   \* charged[r]: settlements that the gateway accepted for run r
  cancels, throws, restarts

vars == <<run, queue, gw, pc, flight, starts, charged, cancels, throws, restarts>>
counters == <<cancels, throws, restarts>>

\* task: the bound task (and reservation), 0 when there is none; res: reservation_status;
\* result: provider_result; dfail: dispatch_failure; cancel: cancellation_requested;
\* comp: queue_compensation_requested.
Absent == [status |-> "absent", approval |-> "none", task |-> 0, res |-> "none",
           result |-> "none", dfail |-> FALSE, cancel |-> FALSE, comp |-> FALSE,
           artifact |-> FALSE]

Nobody == [run |-> 0, todo |-> <<>>, err |-> FALSE, answer |-> "none"]

Init ==
  /\ run = [r \in Runs |-> Absent] /\ queue = <<>> /\ gw = [r \in Runs |-> "none"]
  /\ pc = Nobody /\ flight = 0
  /\ starts = [r \in Runs |-> 0] /\ charged = [r \in Runs |-> 0]
  /\ cancels = 0 /\ throws = 0 /\ restarts = 0

-----------------------------------------------------------------------------
(* Reading the state *)

Terminal == {"completed", "failed", "cancelled"}
Here == run[pc.run]

\* The place of the bound task in the supervisor's list, 0 when it is not there.
TaskAt(r) ==
  IF \E i \in DOMAIN queue : queue[i].run = r /\ queue[i].task = run[r].task
    THEN CHOOSE i \in DOMAIN queue : queue[i].run = r /\ queue[i].task = run[r].task
    ELSE 0
TaskStatus(r) == IF TaskAt(r) = 0 THEN "missing" ELSE queue[TaskAt(r)].status
TaskOpen(r) == TaskStatus(r) \in {"queued", "running"}

\* The first run in the store with a property, 0 when there is none.
FirstIn(S) == IF S = {} THEN 0 ELSE CHOOSE r \in S : \A q \in S : r <= q

CancelPending == FirstIn({r \in Runs : run[r].cancel /\ run[r].status # "cancelled"})
FailurePending == FirstIn({r \in Runs : run[r].dfail /\ run[r].status \notin Terminal})
ResultPending ==
  FirstIn({r \in Runs : run[r].result # "none" /\ run[r].status \notin Terminal})

-----------------------------------------------------------------------------
(* The running handler *)

Idle == pc.todo = <<>>
Doing(write) == pc.todo # <<>> /\ Head(pc.todo) = write

Then(todo) == pc' = IF todo = <<>> THEN Nobody ELSE [pc EXCEPT !.todo = todo]
Continue == Then(Tail(pc.todo))
Stop == pc' = Nobody                       \* return, or throw
Begin(r, todo) == pc' = [Nobody EXCEPT !.run = r, !.todo = todo]

SetRun(record) == run' = [run EXCEPT ![pc.run] = record]
SetTask(status) == queue' = [queue EXCEPT ![TaskAt(pc.run)].status = status]

\* TokenGateway.release: silent for a reservation that is terminal already.
ReleaseTokens ==
  gw' = [gw EXCEPT ![pc.run] = IF @ = "active" THEN "released" ELSE @]
\* TokenGateway.acknowledgeTerminal
Acknowledge(r) ==
  gw' = [gw EXCEPT ![r] = IF @ \in {"released", "settled"} THEN "dismissed" ELSE @]

-----------------------------------------------------------------------------
(* prepareRun *)

Prepare(r) ==
  /\ Idle /\ run[r] = Absent /\ \A q \in 1 .. r - 1 : run[q] # Absent
  /\ run' = [run EXCEPT ![r].status = "draft"]
  /\ Begin(r, <<"approval">>)
  /\ UNCHANGED <<queue, gw, flight, starts, charged, counters>>

WriteApproval ==
  /\ Doing("approval")
  /\ SetRun([Here EXCEPT !.approval = "pending"]) /\ Continue
  /\ UNCHANGED <<queue, gw, flight, starts, charged, counters>>

-----------------------------------------------------------------------------
(* approveAndQueueRun, reconcileQueueCompensation *)

Compensation == <<"comp_cancel", "release", "mark", "comp_clear">>
Binding == <<"clear", "reserve", "bind", "enqueue", "queue">>

Approve(r) ==
  /\ Idle /\ run[r].status \in {"draft", "approved"} /\ run[r].approval # "none"
  /\ Begin(r, <<"decide", "approve">>)
  /\ UNCHANGED <<run, queue, gw, flight, starts, charged, counters>>

Decide ==
  /\ Doing("decide")
  /\ SetRun([Here EXCEPT !.approval = "approved"]) /\ Continue
  /\ UNCHANGED <<queue, gw, flight, starts, charged, counters>>

ApproveRevision ==
  /\ Doing("approve")
  /\ SetRun([Here EXCEPT !.status = "approved"])
  /\ Then(IF Here.comp /\ Here.task # 0 THEN Compensation \o Binding ELSE Binding)
  /\ UNCHANGED <<queue, gw, flight, starts, charged, counters>>

CompCancel ==
  /\ Doing("comp_cancel") /\ Continue
  /\ IF TaskOpen(pc.run) THEN SetTask("cancelled") ELSE UNCHANGED queue
  /\ UNCHANGED <<run, gw, flight, starts, charged, counters>>

\* The reservation goes in the gateway first and then in the run (here, when a dispatch
\* failed, was refused or went over its budget).
Release ==
  /\ Doing("release") /\ Continue
  /\ IF Here.res = "active" THEN ReleaseTokens ELSE UNCHANGED gw
  /\ UNCHANGED <<run, queue, flight, starts, charged, counters>>

MarkReleased ==
  /\ Doing("mark") /\ Continue
  /\ SetRun([Here EXCEPT !.res = IF @ = "active" THEN "released" ELSE @])
  /\ UNCHANGED <<queue, gw, flight, starts, charged, counters>>

Unbound(record) == [record EXCEPT !.task = 0, !.res = "none", !.comp = FALSE]

\* The binding is cleared once nothing of it is left; an earlier error is thrown.
CompClear ==
  /\ Doing("comp_clear")
  /\ IF pc.err THEN Stop /\ UNCHANGED run
     ELSE /\ Continue
          /\ SetRun(IF ~TaskOpen(pc.run) /\ Here.res = "released" THEN Unbound(Here) ELSE Here)
  /\ UNCHANGED <<queue, gw, flight, starts, charged, counters>>

ClearReleased ==
  /\ Doing("clear") /\ Continue
  /\ SetRun(IF Here.res = "released" THEN Unbound(Here) ELSE Here)
  /\ UNCHANGED <<queue, gw, flight, starts, charged, counters>>

\* reserve() returns the open reservation of the same handoff.
Reserve ==
  /\ Doing("reserve") /\ Continue
  /\ gw' = IF Here.task = 0 THEN [gw EXCEPT ![pc.run] = "active"] ELSE gw
  /\ UNCHANGED <<run, queue, flight, starts, charged, counters>>

\* The task's id is new.
Bind ==
  /\ Doing("bind") /\ Continue
  /\ SetRun(IF Here.task # 0 THEN Here
            ELSE [Here EXCEPT !.res = "active",
                   !.task = Cardinality({i \in DOMAIN queue : queue[i].run = pc.run}) + 1])
  /\ UNCHANGED <<queue, gw, flight, starts, charged, counters>>

NewTask(r) == [run |-> r, task |-> run[r].task, status |-> "queued", attempt |-> 0, due |-> TRUE]

\* A full queue starts the compensation, whose errors are swallowed; the approval fails.
Enqueue ==
  /\ Doing("enqueue")
  /\ IF TaskAt(pc.run) # 0 THEN Continue /\ UNCHANGED queue
     ELSE IF Len(queue) < MaxTasks
            THEN Continue /\ queue' = Append(queue, NewTask(pc.run))
            ELSE Then(<<"compensate">> \o Compensation) /\ UNCHANGED queue
  /\ UNCHANGED <<run, gw, flight, starts, charged, counters>>

Compensate ==
  /\ Doing("compensate") /\ Continue
  /\ SetRun([Here EXCEPT !.comp = TRUE])
  /\ UNCHANGED <<queue, gw, flight, starts, charged, counters>>

Queue ==
  /\ Doing("queue") /\ Continue
  /\ SetRun([Here EXCEPT !.status = "queued"])
  /\ UNCHANGED <<queue, gw, flight, starts, charged, counters>>

-----------------------------------------------------------------------------
(* cancelRun, called by the operator and by the poll *)

Cancelling == <<"request", "orphan", "cancel_task", "cancel_release", "cancel_mark",
                "cancel_ack", "cancelled">>

Cancel(r) ==
  /\ Idle /\ run[r].status \notin Terminal \cup {"absent"}
  /\ cancels < MaxCancels /\ cancels' = cancels + 1
  /\ Begin(r, Cancelling)
  /\ UNCHANGED <<run, queue, gw, flight, starts, charged, throws, restarts>>

\* Mutant: a running run is cancelled under its worker.
RequestStraight ==
  /\ Doing("request") /\ Continue
  /\ SetRun([Here EXCEPT !.cancel = TRUE])
  /\ UNCHANGED <<queue, gw, flight, starts, charged, counters>>

\* A run whose task is running (or is not in the list) only keeps the request.
Request ==
  /\ Doing("request")
  /\ SetRun([Here EXCEPT !.cancel = TRUE])
  /\ IF Here.status = "running" /\ TaskStatus(pc.run) \in {"running", "missing"}
       THEN Stop ELSE Continue
  /\ UNCHANGED <<queue, gw, flight, starts, charged, counters>>

\* findActiveReservation: reserved, but never bound.
CancelOrphan ==
  /\ Doing("orphan") /\ Continue
  /\ IF Here.task = 0 THEN ReleaseTokens ELSE UNCHANGED gw
  /\ UNCHANGED <<run, queue, flight, starts, charged, counters>>

\* A bound task that is not in the list is cancelled too, which throws; the error is
\* kept for the end.
CancelTask ==
  /\ Doing("cancel_task")
  /\ IF Here.task = 0 \/ TaskStatus(pc.run) \in Terminal THEN Continue /\ UNCHANGED queue
     ELSE IF TaskOpen(pc.run) THEN SetTask("cancelled") /\ Continue
     ELSE /\ pc' = [pc EXCEPT !.todo = Tail(@), !.err = TRUE] /\ UNCHANGED queue
  /\ UNCHANGED <<run, gw, flight, starts, charged, counters>>

CancelRelease ==
  /\ Doing("cancel_release")
  /\ IF Here.res = "active" THEN ReleaseTokens /\ Continue
     ELSE UNCHANGED gw /\ Then(<<"cancelled">>)
  /\ UNCHANGED <<run, queue, flight, starts, charged, counters>>

CancelMark ==
  /\ Doing("cancel_mark") /\ Continue
  /\ SetRun([Here EXCEPT !.res = "released"])
  /\ UNCHANGED <<queue, gw, flight, starts, charged, counters>>

CancelAck ==
  /\ Doing("cancel_ack") /\ Continue /\ Acknowledge(pc.run)
  /\ UNCHANGED <<run, queue, flight, starts, charged, counters>>

\* Throws for a run that ended otherwise.
Cancelled ==
  /\ Doing("cancelled") /\ Stop
  /\ SetRun(IF pc.err \/ Here.status \in Terminal THEN Here
            ELSE [Here EXCEPT !.status = "cancelled"])
  /\ UNCHANGED <<queue, gw, flight, starts, charged, counters>>

-----------------------------------------------------------------------------
(* runSupervisorOnce up to the dispatch *)

Poll ==
  /\ Idle /\ flight = 0
  /\ Begin(0, <<"ack", "look">>)
  /\ UNCHANGED <<run, queue, gw, flight, starts, charged, counters>>

\* The reservations of the ended runs are acknowledged, one write each.
AckTerminal ==
  LET over == {r \in Runs : /\ run[r].status \in Terminal /\ run[r].task # 0
                            /\ run[r].res # "active" /\ gw[r] \in {"released", "settled"}}
  IN /\ Doing("ack")
     /\ IF over = {} THEN Continue /\ UNCHANGED gw
        ELSE Acknowledge(FirstIn(over)) /\ UNCHANGED pc
     /\ UNCHANGED <<run, queue, flight, starts, charged, counters>>

\* Mutant: the run ends and keeps its tokens.
FailedRunUnreleased == <<"fail_run", "ack_run">>

FailedRun == <<"release", "mark", "fail_run", "ack_run">>   \* finishDispatchFailure

\* A cancellation that is asked for goes first, then a dispatch failure; the failure
\* of a task that was requeued is forgotten.
Look ==
  /\ Doing("look")
  /\ LET f == FailurePending IN
     IF CancelPending # 0 THEN Begin(CancelPending, Cancelling) /\ UNCHANGED run
     ELSE IF f # 0 /\ TaskStatus(f) = "failed" THEN Begin(f, FailedRun) /\ UNCHANGED run
     ELSE /\ Begin(0, <<"pending">>)
          /\ IF f # 0 /\ TaskStatus(f) = "queued"
               THEN run' = [run EXCEPT ![f].dfail = FALSE] ELSE UNCHANGED run
  /\ UNCHANGED <<queue, gw, flight, starts, charged, counters>>

\* A stored result is worked off before anything else is claimed.
Pending ==
  /\ Doing("pending")
  /\ IF ResultPending # 0 /\ TaskAt(ResultPending) # 0
       THEN Begin(ResultPending, <<"finish">>)
       ELSE Begin(0, <<"reconcile", "claim">>)
  /\ UNCHANGED <<run, queue, gw, flight, starts, charged, counters>>

\* The supervisor's end of an attempt: requeued with a delay, or failed after the last.
Ended(t) ==
  IF t.attempt >= MaxAttempts THEN [t EXCEPT !.status = "failed"]
  ELSE [t EXCEPT !.status = "queued", !.due = FALSE]

\* Mutant: timeouts are not looked for.
ReconcileNothing ==
  /\ Doing("reconcile") /\ Continue
  /\ UNCHANGED <<run, queue, gw, flight, starts, charged, counters>>

\* Running tasks whose timeout is over end their attempt.
Reconcile ==
  /\ Doing("reconcile") /\ Continue
  /\ queue' = [i \in DOMAIN queue |->
       IF queue[i].status = "running" /\ queue[i].due THEN Ended(queue[i]) ELSE queue[i]]
  /\ UNCHANGED <<run, gw, flight, starts, charged, counters>>

\* The first queued task whose retry delay is over; throws when no run is bound to it.
Claim ==
  /\ Doing("claim")
  /\ LET i == FirstIn({j \in DOMAIN queue : queue[j].status = "queued" /\ queue[j].due}) IN
     IF i = 0 \/ run[queue[i].run].task # queue[i].task THEN Stop /\ UNCHANGED queue
     ELSE /\ Begin(queue[i].run, <<"start">>)
          /\ queue' = [queue EXCEPT ![i].status = "running", ![i].attempt = @ + 1,
                                    ![i].due = FALSE]
  /\ UNCHANGED <<run, gw, flight, starts, charged, counters>>

\* Mutant: the stored result of a run that was requeued is not looked at.
StartAgain ==
  /\ Doing("start") /\ Stop
  /\ flight' = pc.run /\ starts' = [starts EXCEPT ![pc.run] = @ + 1]
  /\ SetRun([Here EXCEPT !.status = "running"])
  /\ UNCHANGED <<queue, gw, charged, counters>>

\* A run with a stored result is not dispatched again.
Start ==
  /\ Doing("start")
  /\ IF Here.result # "none" THEN Then(<<"finish">>) /\ UNCHANGED <<run, flight, starts>>
     ELSE /\ Stop /\ flight' = pc.run /\ starts' = [starts EXCEPT ![pc.run] = @ + 1]
          /\ SetRun([Here EXCEPT !.status = IF @ = "queued" THEN "running" ELSE @])
  /\ UNCHANGED <<queue, gw, charged, counters>>


-----------------------------------------------------------------------------
(* runSupervisorOnce after the await; finishProviderResult *)

Failed(answer) == answer \in {"failed", "failed_over_budget"}
OverBudget(answer) == answer \in {"ok_over_budget", "failed_over_budget"}

Returns(answer) ==
  /\ flight # 0 /\ Idle /\ answer # "rejected"
  /\ flight' = 0
  /\ pc' = [Nobody EXCEPT !.run = flight, !.todo = <<"record">>, !.answer = answer]
  /\ UNCHANGED <<run, queue, gw, starts, charged, counters>>

Rejects ==
  /\ flight # 0 /\ Idle /\ "rejected" \in Answers
  /\ flight' = 0 /\ Begin(flight, <<"record_failure", "fail_dispatch">>)
  /\ UNCHANGED <<run, queue, gw, starts, charged, counters>>

InProgress(r) == run[r].status \in {"queued", "running"}

\* Throws, and the result is lost, when the run is not in progress.
RecordResult ==
  /\ Doing("record")
  /\ IF ~InProgress(pc.run) THEN Stop /\ UNCHANGED run
     ELSE /\ Then(<<"finish">>)
          /\ SetRun([Here EXCEPT !.result = IF @ = "none" THEN pc.answer ELSE @])
  /\ UNCHANGED <<queue, gw, flight, starts, charged, counters>>

RecordFailure ==
  /\ Doing("record_failure")
  /\ IF ~Here.dfail /\ ~InProgress(pc.run) THEN Stop /\ UNCHANGED run
     ELSE Continue /\ SetRun([Here EXCEPT !.dfail = TRUE])
  /\ UNCHANGED <<queue, gw, flight, starts, charged, counters>>

\* supervisor.fail without an attempt delta: it throws while attempts are left.
FailDispatch ==
  /\ Doing("fail_dispatch")
  /\ LET spent == TaskStatus(pc.run) = "running" /\ queue[TaskAt(pc.run)].attempt >= MaxAttempts IN
     /\ IF spent THEN SetTask("failed") ELSE UNCHANGED queue
     /\ IF spent \/ TaskStatus(pc.run) = "failed" THEN Then(FailedRun) ELSE Stop
  /\ UNCHANGED <<run, gw, flight, starts, charged, counters>>

\* What is left to do for a result, given that the run is cancelled.  The task comes
\* first, then the reservation, then the run.
Finishing(result, cancelled) ==
  LET task == IF cancelled THEN <<"cancel_worker">>
              ELSE IF Failed(result) THEN <<"fail_task">> ELSE <<>>
      done == IF cancelled \/ Failed(result) THEN <<>> ELSE <<"complete">>
      end  == IF cancelled THEN "end_cancelled"
              ELSE IF Failed(result) THEN "fail_run" ELSE "complete_run"
  IN IF result = "refused"
       THEN <<"release", "mark", "drop_task", "fail_run", "ack_run">>
     ELSE IF OverBudget(result)
       THEN task \o <<"drop_task", "release", "mark", "fail_run", "ack_run">>
     ELSE task \o done \o <<"settle", "mark_settled", "artifact", end, "ack_run">>

Finish ==
  /\ Doing("finish") /\ Then(Finishing(Here.result, Here.cancel))
  /\ UNCHANGED <<run, queue, gw, flight, starts, charged, counters>>

\* supervisor.cancel; throws for a task that is over.
CancelWorker ==
  /\ Doing("cancel_worker")
  /\ IF TaskOpen(pc.run) THEN SetTask("cancelled") /\ Continue ELSE Stop /\ UNCHANGED queue
  /\ UNCHANGED <<run, gw, flight, starts, charged, counters>>

\* supervisor.fail; throws for a task that is not running.  With attempts left the
\* result is dropped and the run tried again, unless its tokens are used up.
FailTask ==
  /\ Doing("fail_task")
  /\ IF TaskStatus(pc.run) # "running" THEN Stop /\ UNCHANGED queue
     ELSE LET ended == Ended(queue[TaskAt(pc.run)]) IN
       /\ queue' = [queue EXCEPT ![TaskAt(pc.run)] = ended]
       /\ IF ended.status = "queued" /\ ~OverBudget(Here.result)
            THEN Then(<<"clear_result">>) ELSE Continue
  /\ UNCHANGED <<run, gw, flight, starts, charged, counters>>

\* The task of a refused run, or of one over its budget, is cancelled if it is open.
DropTask ==
  /\ Doing("drop_task")
  /\ IF TaskStatus(pc.run) = "missing" THEN Stop /\ UNCHANGED queue
     ELSE Continue /\ IF TaskOpen(pc.run) THEN SetTask("cancelled") ELSE UNCHANGED queue
  /\ UNCHANGED <<run, gw, flight, starts, charged, counters>>

ClearResult ==
  /\ Doing("clear_result") /\ Continue
  /\ SetRun([Here EXCEPT !.result = "none"])
  /\ UNCHANGED <<queue, gw, flight, starts, charged, counters>>

CompleteTask ==
  /\ Doing("complete")
  /\ IF TaskStatus(pc.run) = "missing" THEN Stop /\ UNCHANGED queue
     ELSE Continue /\ IF TaskStatus(pc.run) = "running" THEN SetTask("completed") ELSE UNCHANGED queue
  /\ UNCHANGED <<run, gw, flight, starts, charged, counters>>


\* Mutant: the settlement is not looked up among the terminal records.
SettleTwice ==
  /\ Doing("settle")
  /\ IF Here.res # "active" THEN Continue /\ UNCHANGED <<gw, charged>>
     ELSE /\ Continue /\ gw' = [gw EXCEPT ![pc.run] = "settled"]
          /\ charged' = [charged EXCEPT ![pc.run] = @ + 1]
  /\ UNCHANGED <<run, queue, flight, starts, counters>>

\* TokenGateway.settle: answers a repeated settlement from its terminal record, and
\* throws for a reservation it does not hold.
Settle ==
  /\ Doing("settle")
  /\ IF Here.res = "active" /\ gw[pc.run] \notin {"active", "settled"} THEN Stop ELSE Continue
  /\ IF Here.res = "active" /\ gw[pc.run] = "active"
       THEN /\ gw' = [gw EXCEPT ![pc.run] = "settled"]
            /\ charged' = [charged EXCEPT ![pc.run] = @ + 1]
       ELSE UNCHANGED <<gw, charged>>
  /\ UNCHANGED <<run, queue, flight, starts, counters>>

MarkSettled ==
  /\ Doing("mark_settled") /\ Continue
  /\ SetRun([Here EXCEPT !.res = IF @ = "active" THEN "settled" ELSE @])
  /\ UNCHANGED <<queue, gw, flight, starts, charged, counters>>

AppendArtifact ==
  /\ Doing("artifact") /\ Continue
  /\ SetRun([Here EXCEPT !.artifact = TRUE])
  /\ UNCHANGED <<queue, gw, flight, starts, charged, counters>>

EndCancelled ==
  /\ Doing("end_cancelled")
  /\ IF Here.status \in Terminal THEN Stop /\ UNCHANGED run
     ELSE Continue /\ SetRun([Here EXCEPT !.status = "cancelled"])
  /\ UNCHANGED <<queue, gw, flight, starts, charged, counters>>

\* finalizeRun: a queued run becomes running first, in a write of its own.
Finalize(write, status) ==
  /\ Doing(write)
  /\ IF Here.status = status THEN Continue /\ UNCHANGED run
     ELSE IF Here.status = "queued" THEN UNCHANGED pc /\ SetRun([Here EXCEPT !.status = "running"])
     ELSE IF Here.status = "running" THEN Continue /\ SetRun([Here EXCEPT !.status = status])
     ELSE Stop /\ UNCHANGED run
  /\ UNCHANGED <<queue, gw, flight, starts, charged, counters>>

CompleteRun == Finalize("complete_run", "completed")
FailRun == Finalize("fail_run", "failed")

AckRun ==
  /\ Doing("ack_run") /\ Continue /\ Acknowledge(pc.run)
  /\ UNCHANGED <<run, queue, flight, starts, charged, counters>>

-----------------------------------------------------------------------------
(* Time, failing writes, process death *)

\* A timeout or a retry delay is over.
TimePasses(i) ==
  /\ i \in DOMAIN queue /\ ~queue[i].due /\ queue[i].status \notin Terminal
  /\ queue' = [queue EXCEPT ![i].due = TRUE]
  /\ UNCHANGED <<run, gw, pc, flight, starts, charged, counters>>

\* A write throws.  Cancelling a task keeps the error for the end, a failed enqueue is
\* compensated, everything else leaves the rest of the handler undone.
Throw ==
  /\ ~Idle /\ throws < MaxThrows /\ throws' = throws + 1
  /\ pc' = CASE Head(pc.todo) \in {"comp_cancel", "cancel_task"} ->
                   [pc EXCEPT !.todo = Tail(@), !.err = TRUE]
              [] Head(pc.todo) = "enqueue" -> [pc EXCEPT !.todo = <<"compensate">> \o Compensation]
              [] OTHER -> Nobody
  /\ UNCHANGED <<run, queue, gw, flight, starts, charged, cancels, restarts>>

\* The process dies, with its dispatch, and a new one calls supervisor.recover().
Restart ==
  /\ restarts < MaxRestarts /\ restarts' = restarts + 1
  /\ pc' = Nobody /\ flight' = 0
  /\ queue' = [i \in DOMAIN queue |->
       IF queue[i].status = "running" THEN Ended(queue[i]) ELSE queue[i]]
  /\ UNCHANGED <<run, gw, starts, charged, cancels, throws>>

-----------------------------------------------------------------------------
Writes ==
  \/ WriteApproval \/ Decide \/ ApproveRevision
  \/ CompCancel \/ Release \/ MarkReleased \/ CompClear \/ ClearReleased
  \/ Reserve \/ Bind \/ Enqueue \/ Compensate \/ Queue
  \/ Request \/ CancelOrphan \/ CancelTask \/ CancelRelease \/ CancelMark
  \/ CancelAck \/ Cancelled
  \/ AckTerminal \/ Look \/ Pending \/ Reconcile \/ Claim \/ Start
  \/ RecordResult \/ RecordFailure \/ FailDispatch \/ Finish
  \/ CancelWorker \/ FailTask \/ DropTask \/ ClearResult \/ CompleteTask
  \/ Settle \/ MarkSettled \/ AppendArtifact \/ EndCancelled
  \/ CompleteRun \/ FailRun \/ AckRun

DispatchEnds == Rejects \/ \E answer \in Answers : Returns(answer)

Next ==
  \/ \E r \in Runs : Prepare(r) \/ Approve(r) \/ Cancel(r)
  \/ Poll \/ Writes \/ DispatchEnds
  \/ \E i \in 1 .. MaxTasks : TimePasses(i)
  \/ Throw \/ Restart

Spec == Init /\ [][Next]_vars

\* A handler does not stop by itself; the event loop gets round to the poll's timer and
\* to the ended dispatch between the requests it serves (SF: those come in between); a
\* dispatch ends (the worker has a timeout); time passes.
Fairness ==
  /\ WF_vars(Writes) /\ SF_vars(Poll) /\ SF_vars(DispatchEnds)
  /\ \A i \in 1 .. MaxTasks : WF_vars(TimePasses(i))

FairSpec == Spec /\ Fairness

-----------------------------------------------------------------------------
(* Properties *)

Statuses == {"absent", "draft", "approved", "queued", "running"} \cup Terminal
TaskStatuses == {"queued", "running"} \cup Terminal
RunState ==
  [status : Statuses, approval : {"none", "pending", "approved"}, task : 0 .. MaxTasks + 1,
   res : {"none", "active", "released", "settled"}, result : AllAnswers \cup {"none"},
   dfail : BOOLEAN, cancel : BOOLEAN, comp : BOOLEAN, artifact : BOOLEAN]

\* The variables keep their types (RunRecord, SupervisorTask).
TypeOK ==
  /\ run \in [Runs -> RunState]
  /\ \A i \in DOMAIN queue : /\ queue[i].run \in Runs /\ queue[i].status \in TaskStatuses
                             /\ queue[i].attempt \in 0 .. MaxAttempts
  /\ gw \in [Runs -> {"none", "active", "released", "settled", "dismissed"}]
  /\ pc.run \in 0 .. NRuns /\ flight \in 0 .. NRuns
  /\ Len(queue) <= MaxTasks

\* A running dispatch is paid for: its tokens stay reserved until the answer is in,
\* whatever the operator or an earlier failure does meanwhile (runOrchestrator.ts:456).
FundedDispatch == flight # 0 /\ run[flight].status = "running" => gw[flight] = "active"

\* A run that ended holds no tokens (TokenGateway.release and settle come before the
\* run's end in every handler).
TerminalHoldsNothing == \A r \in Runs : run[r].status \in Terminal => gw[r] # "active"

\* Repeated settlements charge a run once; a completed run is charged and has its
\* artifact (runOrchestrator.ts:342-358).
ChargedOnce == \A r \in Runs :
  /\ charged[r] <= 1
  /\ run[r].status = "completed" => charged[r] = 1 /\ run[r].res = "settled" /\ run[r].artifact

\* A run whose result is stored is not dispatched: the result is worked off instead
\* (runOrchestrator.ts:390, 412).
NoDispatchOverResult ==
  [][\A r \in Runs : run[r].result # "none" => starts'[r] = starts[r]]_vars

\* A run that ended stays as it ended and is never dispatched again.
RunEndIsFinal ==
  [][\A r \in Runs : run[r].status \in Terminal =>
       run'[r].status = run[r].status /\ starts'[r] = starts[r]]_vars

\* Without deaths, throwing writes and cancellations a queued run ends: through refusals,
\* rejections, failed attempts and budgets that are overrun (runOrchestrator.ts:429-448).
EveryRunEnds ==
  [](cancels = 0 /\ throws = 0 /\ restarts = 0) =>
    \A r \in Runs : run[r].status = "queued" ~> run[r].status \in Terminal

\* What the abstract specification sees of the runs and of the gateway.
Stage == [r \in Runs |-> run[r].status]
Held == {r \in Runs : gw[r] = "active"}

Promise == INSTANCE GovernedRun WITH
  stage <- Stage, held <- Held, charges <- charged, worker <- flight, calls <- starts

\* The four files, written one after the other, keep the promise of one: tokens are reserved
\* for an approved run, stay under its worker, go once, and are gone when the run ends
\* (runOrchestrator.ts:228-476).
ImplementsPromise == Promise!Spec

\* A run whose cancellation was asked for ends. The code does not keep this.
CancellationEnds == \A r \in Runs : run[r].cancel ~> run[r].status \in Terminal
=============================================================================
