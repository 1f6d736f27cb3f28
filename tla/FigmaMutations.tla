--------------------------- MODULE FigmaMutations ---------------------------
(***************************************************************************)
(* The governed write path to Figma: the store of proposed mutations       *)
(* (src/data/delivery-system/figmaMutationStore.ts), its HTTP routes       *)
(* (figmaMutationRoutes.ts), and the plugin that executes what was         *)
(* approved (figma-plugin/ui.html and code.js).                            *)
(*                                                                         *)
(* A worker submits a batch of ops for a file; the owner approves it and   *)
(* gets a lease, once; the operator pastes the lease into the plugin, in a *)
(* window of some file; the plugin claims the batch, applies its ops one   *)
(* by one and reports.  Requests and replies may be lost and windows       *)
(* closed at any step.  The server handles a request in one synchronous    *)
(* stretch; its death before or after the write is the loss of the request *)
(* or of the reply.                                                        *)
(***************************************************************************)
EXTENDS Naturals

CONSTANTS
  Ids,        \* proposed batches
  Files,      \* Figma files
  Windows,    \* plugin windows
  NoWindow,   \* who waits for the reply to a window that was closed
  NOps,       \* ops of a batch
  Ttl,        \* LEASE_TTL_MS
  MaxLost,    \* bound: requests and replies that are lost
  MaxCloses   \* bound: windows that are closed

ASSUME FigmaConstants ==
  /\ NoWindow \notin Windows
  /\ NOps \in Nat \ {0} /\ Ttl \in Nat \ {0}
  /\ MaxLost \in Nat /\ MaxCloses \in Nat

VARIABLES
  rec,      \* rec[i]: the record of batch i; lease is the time its lease is still good for
  leases,   \* the batches whose lease the operator has got to see
  win,      \* win[w]: what the plugin's window w is doing, for which batch, at which op
  net,      \* requests and replies under way
  doc,      \* doc[f][i][n]: how often op n of batch i was applied to file f
  skipped,  \* skipped[i]: ops of i that the plugin passed over (code.js: deferred, skipped)
  lost, closes

vars == <<rec, leases, win, net, doc, skipped, lost, closes>>

Ops == 1 .. NOps
Requests == {"claim", "result"}
Reported == {"executed", "failed", "verified", "drift"}

NoRecord(f) == [status |-> "absent", file |-> f, lease |-> 0, used |-> FALSE]
Closed(f) == [at |-> "closed", file |-> f]
Idle(w) == [at |-> "idle", file |-> win[w].file]

Init ==
  /\ \E f \in Files : rec = [i \in Ids |-> NoRecord(f)] /\ win = [w \in Windows |-> Closed(f)]
  /\ leases = {} /\ net = {} /\ skipped = [i \in Ids |-> {}]
  /\ doc = [f \in Files |-> [i \in Ids |-> [n \in Ops |-> 0]]]
  /\ lost = 0 /\ closes = 0

-----------------------------------------------------------------------------
(* Proposal and decision *)

\* submit
Submit(i, f) ==
  /\ rec[i].status = "absent"
  /\ rec' = [rec EXCEPT ![i].status = "pending", ![i].file = f]
  /\ UNCHANGED <<leases, win, net, doc, skipped, lost, closes>>

\* approve: the lease is in the reply and nowhere else.
Approve(i) ==
  /\ rec[i].status = "pending"
  /\ rec' = [rec EXCEPT ![i].status = "approved", ![i].lease = Ttl]
  /\ \/ leases' = leases \cup {i} /\ UNCHANGED lost
     \/ lost < MaxLost /\ lost' = lost + 1 /\ UNCHANGED leases
  /\ UNCHANGED <<win, net, doc, skipped, closes>>

\* reject
Reject(i) ==
  /\ rec[i].status = "pending"
  /\ rec' = [rec EXCEPT ![i].status = "rejected"]
  /\ UNCHANGED <<leases, win, net, doc, skipped, lost, closes>>

\* verify: the verdict of an independent look at the file.
Verify(i) ==
  /\ rec[i].status = "executed"
  /\ \E verdict \in {"verified", "drift"} : rec' = [rec EXCEPT ![i].status = verdict]
  /\ UNCHANGED <<leases, win, net, doc, skipped, lost, closes>>

-----------------------------------------------------------------------------
(* The server's side of a claim and of a result *)

\* A reply goes to the window that asked, while it is there.
Reply(m, reply) == (net \ {m}) \cup (IF m.win = NoWindow THEN {} ELSE {reply})

Claimable(m) ==
  /\ rec[m.id].status = "approved" /\ rec[m.id].file = m.file
  /\ ~rec[m.id].used /\ rec[m.id].lease > 0

\* Mutant: the lease is looked at and not used up.
ClaimReusable(m) ==
  /\ m.type = "claim" /\ Claimable(m)
  /\ net' = Reply(m, [type |-> "granted", win |-> m.win, id |-> m.id])
  /\ UNCHANGED <<rec, leases, win, doc, skipped, lost, closes>>

\* claim
Claim(m) ==
  /\ m.type = "claim" /\ Claimable(m)
  /\ rec' = [rec EXCEPT ![m.id].used = TRUE]
  /\ net' = Reply(m, [type |-> "granted", win |-> m.win, id |-> m.id])
  /\ UNCHANGED <<leases, win, doc, skipped, lost, closes>>

\* invalid_or_expired_lease
RefuseClaim(m) ==
  /\ m.type = "claim" /\ ~Claimable(m)
  /\ net' = Reply(m, [type |-> "refused", win |-> m.win])
  /\ UNCHANGED <<rec, leases, win, doc, skipped, lost, closes>>

\* Mutant: a result is taken only while the lease is good.
RecordResultInTime(m) ==
  /\ m.type = "result"
  /\ net' = Reply(m, [type |-> "recorded", win |-> m.win])
  /\ rec' = IF rec[m.id].status = "approved" /\ rec[m.id].lease > 0
            THEN [rec EXCEPT ![m.id].status = IF m.error THEN "failed" ELSE "executed"]
            ELSE rec
  /\ UNCHANGED <<leases, win, doc, skipped, lost, closes>>

\* recordResult; the plugin shows either reply and goes on.
RecordResult(m) ==
  /\ m.type = "result"
  /\ net' = Reply(m, [type |-> "recorded", win |-> m.win])
  /\ rec' = IF rec[m.id].status = "approved"
            THEN [rec EXCEPT ![m.id].status = IF m.error THEN "failed" ELSE "executed"]
            ELSE rec
  /\ UNCHANGED <<leases, win, doc, skipped, lost, closes>>

Handles(m) == Claim(m) \/ RefuseClaim(m) \/ RecordResult(m)

-----------------------------------------------------------------------------
(* The plugin *)

\* The operator starts the plugin in a file; the window takes its key from there.
Open(w, f) ==
  /\ win[w].at = "closed"
  /\ win' = [win EXCEPT ![w] = [at |-> "idle", file |-> f]]
  /\ UNCHANGED <<rec, leases, net, doc, skipped, lost, closes>>

\* Claim & Apply, with any lease the operator has.
PressRun(w) == \E i \in leases :
  /\ win[w].at = "idle"
  /\ win' = [win EXCEPT ![w] = [at |-> "claiming", file |-> @.file]]
  /\ net' = net \cup {[type |-> "claim", win |-> w, file |-> win[w].file, id |-> i]}
  /\ UNCHANGED <<rec, leases, doc, skipped, lost, closes>>

\* The claim's reply.
Granted(w) == \E m \in net :
  /\ m.win = w /\ m.type = "granted" /\ net' = net \ {m}
  /\ win' = [win EXCEPT ![w] = [at |-> "applying", file |-> @.file, id |-> m.id, op |-> 1]]
  /\ UNCHANGED <<rec, leases, doc, skipped, lost, closes>>

\* The claim was refused, or the report has its reply: the button works again.
Answered(w) == \E m \in net :
  /\ m.win = w /\ m.type \in {"refused", "recorded"} /\ net' = net \ {m}
  /\ win' = [win EXCEPT ![w] = Idle(w)]
  /\ UNCHANGED <<rec, leases, doc, skipped, lost, closes>>

\* applyOp: the op is applied, or passed over with a note among the results.
ApplyOp(w) ==
  /\ win[w].at = "applying" /\ win[w].op <= NOps
  /\ win' = [win EXCEPT ![w].op = @ + 1]
  /\ LET f == win[w].file i == win[w].id n == win[w].op IN
     \/ doc' = [doc EXCEPT ![f][i][n] = @ + 1] /\ UNCHANGED skipped
     \/ skipped' = [skipped EXCEPT ![i] = @ \cup {n}] /\ UNCHANGED doc
  /\ UNCHANGED <<rec, leases, net, lost, closes>>

Reports(w, error) ==
  /\ net' = net \cup {[type |-> "result", win |-> w, id |-> win[w].id, error |-> error]}
  /\ win' = [win EXCEPT ![w] = [at |-> "reporting", file |-> @.file]]
  /\ UNCHANGED <<rec, leases, lost, closes>>

\* Mutant: the error is not passed on to the window.
OpThrowsUnnoticed(w) ==
  win[w].at = "applying" /\ win[w].op <= NOps /\ Reports(w, FALSE) /\ UNCHANGED <<doc, skipped>>

\* An op throws, before or after it has changed the file; the ops before it stay applied, and
\* the report has the error.
OpThrows(w) ==
  /\ win[w].at = "applying" /\ win[w].op <= NOps
  /\ Reports(w, TRUE) /\ UNCHANGED skipped
  /\ \/ UNCHANGED doc
     \/ doc' = [doc EXCEPT ![win[w].file][win[w].id][win[w].op] = @ + 1]

AllApplied(w) ==
  win[w].at = "applying" /\ win[w].op > NOps /\ Reports(w, FALSE) /\ UNCHANGED <<doc, skipped>>

\* A request or reply is lost; the window that waits for it gives up the batch.
Lose(m) ==
  /\ lost < MaxLost /\ lost' = lost + 1
  /\ net' = net \ {m}
  /\ win' = IF m.win = NoWindow THEN win ELSE [win EXCEPT ![m.win] = Idle(m.win)]
  /\ UNCHANGED <<rec, leases, doc, skipped, closes>>

\* A window is closed, whatever it was doing; what it has sent may still arrive.
Close(w) ==
  /\ win[w].at # "closed" /\ closes < MaxCloses /\ closes' = closes + 1
  /\ win' = [win EXCEPT ![w] = Closed(@.file)]
  /\ net' = {m \in net : m.win # w}
             \cup {[m EXCEPT !.win = NoWindow] : m \in {r \in net : r.win = w /\ r.type \in Requests}}
  /\ UNCHANGED <<rec, leases, doc, skipped, lost>>

-----------------------------------------------------------------------------
Tick ==
  /\ \E i \in Ids : rec[i].lease > 0
  /\ rec' = [i \in Ids |-> [rec[i] EXCEPT !.lease = IF @ > 0 THEN @ - 1 ELSE 0]]
  /\ UNCHANGED <<leases, win, net, doc, skipped, lost, closes>>

Decides == \E i \in Ids : (\E f \in Files : Submit(i, f)) \/ Approve(i) \/ Reject(i) \/ Verify(i)
WindowGoesOn(w) == Granted(w) \/ Answered(w) \/ ApplyOp(w) \/ OpThrows(w) \/ AllApplied(w)
Operates(w) == (\E f \in Files : Open(w, f)) \/ PressRun(w) \/ Close(w)

Next ==
  \/ Decides \/ Tick
  \/ \E m \in net : Handles(m) \/ Lose(m)
  \/ \E w \in Windows : Operates(w) \/ WindowGoesOn(w)

Spec == Init /\ [][Next]_vars

\* What a window has begun goes on, and the server handles what reaches it.
Fairness == \A w \in Windows :
  WF_vars(WindowGoesOn(w)) /\ WF_vars(\E m \in net : m.win = w /\ Handles(m))

FairSpec == Spec /\ Fairness

-----------------------------------------------------------------------------
(* Properties *)

Messages ==
  [type : {"claim"}, win : Windows \cup {NoWindow}, file : Files, id : Ids]
    \cup [type : {"granted"}, win : Windows, id : Ids]
    \cup [type : {"refused", "recorded"}, win : Windows]
    \cup [type : {"result"}, win : Windows \cup {NoWindow}, id : Ids, error : BOOLEAN]

Records == [status : {"absent", "pending", "approved", "rejected"} \cup Reported,
            file : Files, lease : 0 .. Ttl, used : BOOLEAN]
WindowStates == [at : {"closed", "idle", "claiming", "reporting"}, file : Files]
                  \cup [at : {"applying"}, file : Files, id : Ids, op : 1 .. NOps + 1]

\* The variables keep their types (MutationRecord, MutationLease).
TypeOK ==
  /\ rec \in [Ids -> Records] /\ win \in [Windows -> WindowStates]
  /\ leases \subseteq Ids /\ net \subseteq Messages
  /\ doc \in [Files -> [Ids -> [Ops -> Nat]]] /\ skipped \in [Ids -> SUBSET Ops]
  /\ lost \in Nat /\ closes \in Nat

\* Nothing is applied but what the owner approved, in the file it was approved for, and no
\* op more than once, whatever is lost, closed or tried again with the same lease in another
\* window ("the lease is single-use, short-lived, and bound to the file key",
\* figma-plugin/README.md:29).
AppliedAsApproved == \A f \in Files, i \in Ids, n \in Ops :
  doc[f][i][n] > 0 =>
    doc[f][i][n] = 1 /\ rec[i].file = f /\ rec[i].status \in {"approved"} \cup Reported

\* A batch is reported executed only when every op of it was applied or passed over by
\* name; one that broke off is not (figma-plugin/code.js:76-84).
ExecutedIsComplete == \A i \in Ids :
  rec[i].status \in {"executed", "verified", "drift"} =>
    \A n \in Ops : doc[rec[i].file][i][n] = 1 \/ n \in skipped[i]

\* If nothing is lost and no window is closed, a batch that was claimed is reported, however
\* long the plugin takes (recordResult does not ask for the lease).
BatchIsReported ==
  [](lost = 0 /\ closes = 0) => \A i \in Ids : rec[i].used ~> rec[i].status \in Reported

=============================================================================
