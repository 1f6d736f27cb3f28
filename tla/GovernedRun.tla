---------------------------- MODULE GovernedRun ----------------------------
(***************************************************************************)
(* What the control plane promises of its runs                             *)
(* (src/data/delivery-system/runOrchestrator.ts over the run store, the    *)
(* supervisor queue and the token gateway), without the files, handlers    *)
(* and tasks that make it so.  A run is drafted, approved, paid for,       *)
(* queued, worked for and ended; one worker is awaited at a time.          *)
(* RunLifecycle implements it, whichever of its writes throws, is repeated *)
(* or is the last one of its process.                                      *)
(***************************************************************************)
EXTENDS Naturals

CONSTANT Runs

VARIABLES
  stage,   \* stage[r]: the status of run r
  held,    \* the runs for which tokens are reserved
  charges, \* charges[r]: how often tokens were charged to run r
  worker,  \* the run whose worker is awaited, or 0
  calls    \* calls[r]: how often a worker was started for run r

vars == <<stage, held, charges, worker, calls>>

Over == {"completed", "failed", "cancelled"}

Init ==
  /\ stage = [r \in Runs |-> "absent"] /\ held = {}
  /\ charges = [r \in Runs |-> 0] /\ worker = 0 /\ calls = [r \in Runs |-> 0]

Goes(r, s) == stage' = [stage EXCEPT ![r] = s] /\ UNCHANGED <<held, charges, worker, calls>>

Working(r) == worker = r /\ stage[r] = "running"

Draft(r) == stage[r] = "absent" /\ Goes(r, "draft")
Approve(r) == stage[r] = "draft" /\ Goes(r, "approved")

\* Tokens are reserved for an approved run.  A run may be queued without them (its
\* cancellation gave them back, its approval was repeated), but not started.
Reserve(r) ==
  /\ stage[r] = "approved" /\ held' = held \cup {r}
  /\ UNCHANGED <<stage, charges, worker, calls>>
Queue(r) == stage[r] = "approved" /\ Goes(r, "queued")

\* A worker is started for a run that is not over, with its tokens once it was queued.
Start(r) ==
  /\ worker = 0 /\ stage[r] \in {"approved", "queued", "running"}
  /\ stage[r] # "approved" => r \in held
  /\ worker' = r /\ calls' = [calls EXCEPT ![r] = @ + 1]
  /\ stage' = [stage EXCEPT ![r] = IF @ = "queued" THEN "running" ELSE @]
  /\ UNCHANGED <<held, charges>>

\* The worker's answer is in, or the worker is lost with the process.
Answer == worker' = 0 /\ UNCHANGED <<stage, held, charges, calls>>

\* The tokens go once, to the charge or back, and not under a worker.
Charge(r) ==
  /\ stage[r] \in {"queued", "running"} /\ r \in held /\ worker # r /\ charges[r] = 0
  /\ held' = held \ {r} /\ charges' = [charges EXCEPT ![r] = 1]
  /\ UNCHANGED <<stage, worker, calls>>
GiveBack(r) ==
  /\ ~Working(r) /\ held' = held \ {r}
  /\ UNCHANGED <<stage, charges, worker, calls>>

\* A run that waits in the queue with its result is taken out of it before it ends.
Resume(r) == stage[r] = "queued" /\ worker # r /\ Goes(r, "running")

\* The end, without tokens and without a worker.
Ends(r, s) == ~Working(r) /\ r \notin held /\ Goes(r, s)
Complete(r) == stage[r] = "running" /\ charges[r] = 1 /\ Ends(r, "completed")
Fail(r) == stage[r] = "running" /\ Ends(r, "failed")
Cancel(r) == stage[r] \notin Over \cup {"absent"} /\ Ends(r, "cancelled")

Next ==
  \/ Answer
  \/ \E r \in Runs : \/ Draft(r) \/ Approve(r) \/ Reserve(r) \/ Queue(r) \/ Start(r)
                     \/ Charge(r) \/ GiveBack(r) \/ Resume(r)
                     \/ Complete(r) \/ Fail(r) \/ Cancel(r)

Spec == Init /\ [][Next]_vars

=============================================================================
