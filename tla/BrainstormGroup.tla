--------------------------- MODULE BrainstormGroup ---------------------------
(***************************************************************************)
(* A brainstorm: one prompt to several providers, a consolidation of their *)
(* answers and, on a material conflict, an arbitration                     *)
(* (src/data/delivery-system/brainstormCoordinator.ts with                 *)
(* RunOrchestrator.ensureGroupRun and the gateway's group slots).          *)
(*                                                                         *)
(* Every stage is a run of its own in a slot of one token group, whose     *)
(* holds are reserved at the approval.  The brainstorm's record, the runs, *)
(* the approvals, the supervisor queue and the gateway are files written   *)
(* one by one: pc.todo holds the writes the running handler has still to   *)
(* make, and between any two the process may die or a write may throw.     *)
(* The poll drives the queue first, waits for the dispatch it started, and *)
(* then ticks the brainstorm.                                              *)
(*                                                                         *)
(* The run of a slot is followed as far as the coordinator can tell: a     *)
(* dispatch stands for all its attempts, and the writes of cancelRun and   *)
(* of the settlement are one step (RunLifecycle has them one by one).      *)
(***************************************************************************)
EXTENDS Naturals, Sequences

CONSTANTS
  NRoutes,      \* number of fan-out routes
  MaxRequests,  \* bound on the operator's requests
  MaxFaults     \* bound on deaths and throwing writes together

ASSUME BrainstormConstants == {NRoutes, MaxRequests, MaxFaults} \subseteq Nat

Fanout == 1 .. NRoutes
Consolidation == NRoutes + 1
Arbitration == NRoutes + 2
Slots == 1 .. Arbitration

VARIABLES
  rec,      \* the brainstorm's record
  run,      \* run[s]: the run of slot s, its approval and its task
  gw,       \* gw[s]: the slot in the gateway's group
  pc,       \* the handler that is running
  turn,     \* what the poll does next
  flight,   \* the slot whose dispatch the poll awaits, or 0
  requests, faults

vars == <<rec, run, gw, pc, turn, flight, requests, faults>>

\* bound: task and reservation are in the run; cancel: cancellation_requested; stored:
\* a result that could not be settled.
Absent == [status |-> "absent", approval |-> "none", bound |-> FALSE, task |-> "none",
           cancel |-> FALSE, text |-> "none", stored |-> FALSE]

Nobody == [op |-> "none", todo |-> <<>>]

\* slots: the slots with a run_id; arbiter: the draft has an arbitration_route.
Init ==
  /\ rec \in [status : {"draft"}, approval : {"none"}, slots : {{}}, arbiter : BOOLEAN]
  /\ run = [s \in Slots |-> Absent] /\ gw = [s \in Slots |-> "none"]
  /\ pc = Nobody /\ turn = "supervisor" /\ flight = 0
  /\ requests = 0 /\ faults = 0

-----------------------------------------------------------------------------
Terminal == {"completed", "failed", "cancelled"}
Mine == Slots \ (IF rec.arbiter THEN {} ELSE {Arbitration})

\* What an answer says to the stage that reads it.  The consolidation reports a conflict
\* between providers other than the arbiter's ("conflict") or with it ("own_conflict");
\* the text of an arbitration that leaves something unresolved is as good as invalid.
Texts(s) ==
  CASE s \in Fanout -> {"clean"}
    [] s = Consolidation -> {"clean", "conflict", "own_conflict", "invalid"}
    [] s = Arbitration -> {"clean", "invalid"}
Material(text) == text \in {"conflict", "own_conflict"}

Ended(s) == run[s].status \in {"failed", "cancelled"}
Done(s) == run[s].status = "completed"

-----------------------------------------------------------------------------
(* The running handler: todo is a sequence of steps, each on a slot (0: none) *)

Idle == pc.todo = <<>>
Slot == Head(pc.todo)[2]
Doing(step) == pc.todo # <<>> /\ Head(pc.todo)[1] = step

Then(todo) == pc' = IF todo = <<>> THEN Nobody ELSE [pc EXCEPT !.todo = todo]
Continue == Then(Tail(pc.todo))
Stop == pc' = Nobody                       \* return, or throw
Begin(op, todo) == pc' = [op |-> op, todo |-> todo]

SetRun(record) == run' = [run EXCEPT ![Slot] = record]
SetSlot(state) == gw' = [gw EXCEPT ![Slot] = state]
Others == <<turn, flight, requests, faults>>

\* Mutant: the runs are cancelled and the holds are left.
CleanupRunsOnly == [s \in Slots |-> <<"cancel_run", s>>]

Cleanup == [s \in Slots |-> <<"cancel_run", s>>] \o << <<"release", 0>> >>
MarkFailed == << <<"failed", 0>> >> \o Cleanup

\* ensureGroupRun and bindSlot, for n slots from the first on.
EnsureSteps ==
  <<"create", "approval", "decide", "approve", "claim", "bind", "enqueue", "queue", "slot">>
EnsureRuns(first, n) ==
  LET k == Len(EnsureSteps)
  IN [i \in 1 .. k * n |-> <<EnsureSteps[((i - 1) % k) + 1], first + ((i - 1) \div k)>>]

\* The first of the slots, 0 when there is none.
FirstIn(S) == IF S = {} THEN 0 ELSE CHOOSE s \in S : \A t \in S : s <= t

-----------------------------------------------------------------------------
(* approve *)

Request == requests < MaxRequests /\ requests' = requests + 1

\* The approval can be repeated until the answers are in.
Approve ==
  /\ Idle /\ rec.status \in {"draft", "approved", "fanout_running"} /\ Request
  /\ Begin("approve", (IF rec.approval = "none" THEN << <<"pending", 0>> >> ELSE <<>>)
                      \o << <<"group", 0>>, <<"reserved", 0>> >>
                      \o EnsureRuns(1, NRoutes) \o << <<"fanout_running", 0>> >>)
  /\ UNCHANGED <<rec, run, gw, turn, flight, faults>>

MarkPending ==
  /\ Doing("pending") /\ Continue
  /\ rec' = [rec EXCEPT !.status = "approved", !.approval = "pending"]
  /\ UNCHANGED <<run, gw, Others>>

\* TokenGateway.reserveGroup: all holds at once; answers a repeated call.
ReserveGroup ==
  /\ Doing("group") /\ Continue
  /\ gw' = [s \in Slots |-> IF gw[s] = "none" /\ s \in Mine THEN "held" ELSE gw[s]]
  /\ UNCHANGED <<rec, run, Others>>

MarkReserved ==
  /\ Doing("reserved") /\ Continue
  /\ rec' = [rec EXCEPT !.approval = "reserved"]
  /\ UNCHANGED <<run, gw, Others>>

-----------------------------------------------------------------------------
(* ensureGroupRun; bindSlot *)

CreateRun ==
  /\ Doing("create") /\ Continue
  /\ SetRun(IF run[Slot] = Absent THEN [Absent EXCEPT !.status = "draft"] ELSE run[Slot])
  /\ UNCHANGED <<rec, gw, Others>>

\* The route or the budget is not good enough: the brainstorm fails, but for an arbitration,
\* which the operator may ask for again.
RefuseRun ==
  /\ Doing("create") /\ (pc.op = "approve" \/ run[Slot] = Absent)
  /\ IF pc.op = "arbitrate" THEN Stop ELSE Then(MarkFailed)
  /\ UNCHANGED <<rec, run, gw, Others>>

WriteApproval ==
  /\ Doing("approval") /\ Continue
  /\ SetRun([run[Slot] EXCEPT !.approval = IF @ = "none" THEN "pending" ELSE @])
  /\ UNCHANGED <<rec, gw, Others>>

\* A queued run is returned as it is; one that went further is a run_revision_conflict.
Decide ==
  /\ Doing("decide")
  /\ CASE run[Slot].status = "draft" -> /\ Continue
                                        /\ SetRun([run[Slot] EXCEPT !.approval = "approved"])
       [] run[Slot].status = "approved" -> Continue /\ UNCHANGED run
       [] run[Slot].status = "queued" -> Then(SubSeq(pc.todo, 7, Len(pc.todo))) /\ UNCHANGED run
       [] OTHER -> Stop /\ UNCHANGED run
  /\ UNCHANGED <<rec, gw, Others>>

ApproveRun ==
  /\ Doing("approve") /\ Continue
  /\ SetRun([run[Slot] EXCEPT !.status = "approved"])
  /\ UNCHANGED <<rec, gw, Others>>

\* TokenGateway.claimGroupSlot: returns the reservation of the slot if it ever had one, and
\* makes one otherwise, for a slot released unused too.
ClaimSlot ==
  /\ Doing("claim") /\ Continue
  /\ SetSlot(IF ~run[Slot].bound /\ gw[Slot] \in {"held", "unused"} THEN "claimed" ELSE gw[Slot])
  /\ UNCHANGED <<rec, run, Others>>

BindRun ==
  /\ Doing("bind") /\ Continue
  /\ SetRun([run[Slot] EXCEPT !.bound = TRUE])
  /\ UNCHANGED <<rec, gw, Others>>

Enqueue ==
  /\ Doing("enqueue") /\ Continue
  /\ SetRun([run[Slot] EXCEPT !.task = IF @ = "none" THEN "queued" ELSE @])
  /\ UNCHANGED <<rec, gw, Others>>

QueueRun ==
  /\ Doing("queue") /\ Continue
  /\ SetRun([run[Slot] EXCEPT !.status = "queued"])
  /\ UNCHANGED <<rec, gw, Others>>

BindSlot ==
  /\ Doing("slot") /\ Continue
  /\ rec' = [rec EXCEPT !.slots = @ \cup {Slot}]
  /\ UNCHANGED <<run, gw, Others>>

-----------------------------------------------------------------------------
(* A new status; cleanupGroup *)

Statuses == {"draft", "approved", "fanout_running", "consolidating", "needs_arbitration",
             "arbitrating"} \cup Terminal

EnterStatus ==
  /\ \E status \in Statuses : Doing(status) /\ rec' = [rec EXCEPT !.status = status]
  /\ Continue
  /\ UNCHANGED <<run, gw, Others>>

\* RunOrchestrator.cancelRun: a run whose worker is alive keeps the request, any other is
\* cancelled and gives its tokens back.  A bound task that is not in the queue throws.
CancelRun ==
  /\ Doing("cancel_run")
  /\ LET r == run[Slot]
         alive == r.status = "running" /\ r.task \in {"running", "none"}
         lost == r.bound /\ r.task = "none"
     IN IF r.status \in Terminal \cup {"absent"} THEN Continue /\ UNCHANGED <<run, gw>>
        ELSE IF alive THEN Continue /\ SetRun([r EXCEPT !.cancel = TRUE]) /\ UNCHANGED gw
        ELSE /\ SetSlot(IF gw[Slot] = "claimed" THEN "released" ELSE gw[Slot])
             /\ IF lost THEN Stop /\ SetRun([r EXCEPT !.cancel = TRUE])
                ELSE Continue /\ SetRun([r EXCEPT !.cancel = TRUE, !.status = "cancelled",
                                           !.task = IF @ = "none" THEN @ ELSE "over"])
  /\ UNCHANGED <<rec, Others>>

\* Mutant: the slot of a running child is released too.
ReleaseAllSlots ==
  /\ Doing("release") /\ Continue
  /\ gw' = [s \in Slots |-> CASE gw[s] = "held" -> "unused" [] gw[s] = "claimed" -> "released"
                              [] OTHER -> gw[s]]
  /\ UNCHANGED <<rec, run, Others>>

\* TokenGateway.releaseGroupSlots, but for the slots whose run is at work; without effect
\* (token_group_missing) when the group was never reserved.
ReleaseSlots ==
  /\ Doing("release") /\ Continue
  /\ LET atWork(s) == s \in rec.slots /\ run[s].status = "running"
     IN gw' = [s \in Slots |-> CASE atWork(s) -> gw[s]
                                 [] ~atWork(s) /\ gw[s] = "held" -> "unused"
                                 [] ~atWork(s) /\ gw[s] = "claimed" -> "released"
                                 [] OTHER -> gw[s]]
  /\ UNCHANGED <<rec, run, Others>>

-----------------------------------------------------------------------------
(* requestArbitration, cancel; the operator's cancellation of a single run *)

\* An arbiter that is a party to the conflict fails the brainstorm.
RequestArbitration ==
  /\ Idle /\ rec.status = "needs_arbitration" /\ Request
  /\ IF run[Consolidation].text = "own_conflict" THEN Begin("arbitrate", MarkFailed)
     ELSE Begin("arbitrate", EnsureRuns(Arbitration, 1) \o << <<"arbitrating", 0>> >>)
  /\ UNCHANGED <<rec, run, gw, turn, flight, faults>>

Cancel ==
  /\ Idle /\ Request
  /\ rec.status \notin {"completed", "failed", "needs_arbitration", "arbitrating"}
  /\ Begin("cancel", << <<"cancelled", 0>> >> \o (IF rec.approval = "none" THEN <<>> ELSE Cleanup))
  /\ UNCHANGED <<rec, run, gw, turn, flight, faults>>

CancelChild(s) ==
  /\ Idle /\ run[s].status \notin Terminal \cup {"absent"} /\ Request
  /\ Begin("cancel_run", << <<"cancel_run", s>> >>)
  /\ UNCHANGED <<rec, run, gw, turn, flight, faults>>

-----------------------------------------------------------------------------
(* The poll: runSupervisorOnce ... *)

\* A cancelled run goes first, then a result that is stored; then a task is claimed and
\* the poll awaits its dispatch.
Supervise ==
  /\ Idle /\ flight = 0 /\ turn = "supervisor" /\ turn' = "tick"
  /\ LET cancelled == {s \in Slots : run[s].cancel /\ run[s].status # "cancelled"}
         next == FirstIn({s \in Slots : run[s].task = "queued"})
     IN IF cancelled # {}
          THEN /\ Begin("cancel_run", << <<"cancel_run", FirstIn(cancelled)>> >>)
               /\ UNCHANGED <<run, flight>>
        ELSE IF next = 0 \/ \E s \in Slots : run[s].status = "running" /\ run[s].stored
          THEN UNCHANGED <<run, pc, flight>>
        ELSE /\ flight' = next /\ UNCHANGED pc
             /\ run' = [run EXCEPT ![next].task = "running",
                                   ![next].status = IF @ = "queued" THEN "running" ELSE @]
  /\ UNCHANGED <<rec, gw, requests, faults>>

\* The answer is settled and the run ends; without its slot the result stays unsettled.
Answers(text) ==
  /\ Idle /\ flight # 0 /\ text \in Texts(flight) /\ run[flight].status = "running"
  /\ flight' = 0
  /\ IF gw[flight] = "claimed"
       THEN /\ gw' = [gw EXCEPT ![flight] = "settled"]
            /\ run' = [run EXCEPT ![flight].task = "over", ![flight].text = text,
                 ![flight].status = IF run[flight].cancel THEN "cancelled" ELSE "completed"]
       ELSE /\ UNCHANGED gw
            /\ run' = [run EXCEPT ![flight].task = "over", ![flight].stored = TRUE]
  /\ UNCHANGED <<rec, pc, turn, requests, faults>>

\* Refused, over the budget, or no attempt is left.
Fails ==
  /\ Idle /\ flight # 0 /\ run[flight].status = "running" /\ flight' = 0
  /\ \E status \in {"failed"} \cup (IF run[flight].cancel THEN {"cancelled"} ELSE {}) :
       run' = [run EXCEPT ![flight].task = "over", ![flight].status = status]
  /\ gw' = [gw EXCEPT ![flight] = IF @ = "claimed" THEN "released" ELSE @]
  /\ UNCHANGED <<rec, pc, turn, requests, faults>>

\* The run is not in progress (recordRunProviderResult throws): the answer is lost and the
\* task, if it is still there, runs into its timeout.
AnswerLost ==
  /\ Idle /\ flight # 0 /\ run[flight].status # "running" /\ flight' = 0
  /\ run' = [run EXCEPT ![flight].task = IF @ = "running" THEN "queued" ELSE @]
  /\ UNCHANGED <<rec, gw, pc, turn, requests, faults>>

-----------------------------------------------------------------------------
(* ... and tick *)

\* Mutant: only the first answer is waited for.
FanoutDoneEarly == Done(1)

FanoutDone == \A s \in Fanout : Done(s)

\* Mutant: a failed child is not noticed.
FanoutFailedNever == FALSE

FanoutFailed == \E s \in Fanout : Ended(s)

TickFanout ==
  IF ~(Fanout \subseteq rec.slots) THEN UNCHANGED pc
  ELSE IF FanoutFailed THEN Begin("tick", MarkFailed)
  ELSE IF FanoutDone
         THEN Begin("tick", EnsureRuns(Consolidation, 1) \o << <<"consolidating", 0>> >>)
  ELSE UNCHANGED pc

\* Without an arbiter a material conflict fails the brainstorm.
Consolidated(text) ==
  CASE text = "invalid" -> MarkFailed
    [] Material(text) /\ rec.arbiter -> << <<"needs_arbitration", 0>> >>
    [] Material(text) /\ ~rec.arbiter -> MarkFailed
    [] OTHER -> << <<"completed", 0>> >> \o Cleanup

TickConsolidation ==
  IF Ended(Consolidation) THEN Begin("tick", MarkFailed)
  ELSE IF Done(Consolidation) THEN Begin("tick", Consolidated(run[Consolidation].text))
  ELSE UNCHANGED pc

TickArbitration ==
  IF Ended(Arbitration) \/ (Done(Arbitration) /\ run[Arbitration].text = "invalid")
    THEN Begin("tick", MarkFailed)
  ELSE IF Done(Arbitration) THEN Begin("tick", << <<"completed", 0>> >> \o Cleanup)
  ELSE UNCHANGED pc

\* The poll leaves out brainstorms that ended or wait for the operator.
Tick ==
  /\ Idle /\ flight = 0 /\ turn = "tick" /\ turn' = "supervisor"
  /\ CASE rec.status = "fanout_running" -> TickFanout
       [] rec.status = "consolidating" -> TickConsolidation
       [] rec.status = "arbitrating" -> TickArbitration
       [] OTHER -> UNCHANGED pc
  /\ UNCHANGED <<rec, run, gw, flight, requests, faults>>

-----------------------------------------------------------------------------
(* Faults *)

\* A write throws: the rest of the handler is not done.
Throw ==
  /\ ~Idle /\ faults < MaxFaults /\ faults' = faults + 1
  /\ pc' = Nobody
  /\ UNCHANGED <<rec, run, gw, turn, flight, requests>>

\* The process dies, with its dispatch; the next one calls supervisor.recover().
Restart ==
  /\ faults < MaxFaults /\ faults' = faults + 1
  /\ pc' = Nobody /\ flight' = 0 /\ turn' = "supervisor"
  /\ run' = [s \in Slots |-> [run[s] EXCEPT !.task = IF @ = "running" THEN "queued" ELSE @]]
  /\ UNCHANGED <<rec, gw, requests>>

-----------------------------------------------------------------------------
Writes ==
  \/ MarkPending \/ ReserveGroup \/ MarkReserved
  \/ CreateRun \/ RefuseRun \/ WriteApproval \/ Decide \/ ApproveRun \/ ClaimSlot
  \/ BindRun \/ Enqueue \/ QueueRun \/ BindSlot
  \/ EnterStatus \/ CancelRun \/ ReleaseSlots

Polls == Supervise \/ Tick
DispatchEnds == (\E text \in Texts(Consolidation) : Answers(text)) \/ Fails \/ AnswerLost

Next ==
  \/ Approve \/ RequestArbitration \/ Cancel \/ (\E s \in Slots : CancelChild(s))
  \/ Writes \/ Polls \/ DispatchEnds
  \/ Throw \/ Restart

Spec == Init /\ [][Next]_vars

\* A handler does not stop by itself, the poll comes round, a dispatch ends (it has a
\* timeout).
FairSpec == Spec /\ WF_vars(Writes) /\ WF_vars(Polls) /\ WF_vars(DispatchEnds)

-----------------------------------------------------------------------------
(* Properties *)

RunState ==
  [status : {"absent", "draft", "approved", "queued", "running"} \cup Terminal,
   approval : {"none", "pending", "approved"}, bound : BOOLEAN,
   task : {"none", "queued", "running", "over"}, cancel : BOOLEAN,
   text : {"none"} \cup Texts(Consolidation), stored : BOOLEAN]

\* The record, the runs and the group's slots keep their types (BrainstormRecord, RunRecord,
\* TokenGroupReservation).
TypeOK ==
  /\ rec \in [status : Statuses, approval : {"none", "pending", "reserved"},
              slots : SUBSET Slots, arbiter : BOOLEAN]
  /\ run \in [Slots -> RunState]
  /\ gw \in [Slots -> {"none", "held", "claimed", "unused", "released", "settled"}]
  /\ turn \in {"supervisor", "tick"} /\ flight \in 0 .. Arbitration
  /\ requests \in 0 .. MaxRequests /\ faults \in 0 .. MaxFaults

\* A child that is at work keeps its slot, whatever ends the brainstorm meanwhile: cleanupGroup
\* leaves out the slots of running runs (brainstormCoordinator.ts:181-184).
RunningChildKeepsSlot ==
  \A s \in rec.slots : run[s].status = "running" => gw[s] = "claimed"

\* The stages come one after the other: the consolidation's run exists only when every answer
\* is in, the arbitration's only for a material conflict the arbiter has no part in.
StagesInOrder ==
  /\ run[Consolidation].status # "absent" => \A s \in Fanout : Done(s)
  /\ run[Arbitration].status # "absent" =>
       Done(Consolidation) /\ run[Consolidation].text = "conflict"

\* A brainstorm completes on its providers' agreement or on a clean arbitration, never over a
\* material conflict.
CompletesOnAgreement ==
  rec.status = "completed" =>
    /\ Done(Consolidation)
    /\ \/ run[Consolidation].text = "clean"
       \/ (Done(Arbitration) /\ run[Arbitration].text = "clean")

\* If nothing failed half-way, a brainstorm that ended has left nothing behind but children at
\* work that are told to stop: no hold, no claimed slot, no open run.
NothingLeftBehind ==
  rec.status \in Terminal /\ Idle /\ faults = 0 =>
    \A s \in Slots :
      \/ run[s].status = "running" /\ run[s].cancel
      \/ run[s].status \in Terminal \cup {"absent"} /\ gw[s] \notin {"held", "claimed"}

\* A slot that gave its tokens back, or settled them, stays so, whatever is repeated.
SlotEndIsFinal ==
  [][\A s \in Slots : gw[s] \in {"unused", "released", "settled"} => gw'[s] = gw[s]]_vars

\* A brainstorm that ended stays as it ended, and no further run is made for it.
EndIsFinal ==
  [][rec.status \in Terminal =>
       /\ rec'.status = rec.status
       /\ \A s \in Slots : run[s].status = "absent" => run'[s].status = "absent"]_vars

\* If nothing fails half-way, every stage ends: the brainstorm ends or waits for the operator.
StagesEnd ==
  [](faults = 0) =>
    (rec.status \in {"fanout_running", "consolidating", "arbitrating"}
       ~> rec.status \in Terminal \cup {"needs_arbitration"})

\* "Retrying approve, letting tick re-run, or restarting the control-plane process mid-transition
\* converges on [...] the same per-slot runs" (docs/autopilot/brainstorm-mode.md:74-76): once all
\* answers are in, a tick that is repeated gets past the fan-out.
TickConverges ==
  (rec.status = "fanout_running" /\ FanoutDone) ~> rec.status # "fanout_running"
=============================================================================
