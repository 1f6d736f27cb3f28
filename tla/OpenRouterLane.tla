--------------------------- MODULE OpenRouterLane ---------------------------
(***************************************************************************)
(* The OpenRouter lane of a worker: the migration of the legacy ledgers    *)
(* (src/data/delivery-system/openRouterLedgerMigration.ts), the budget of  *)
(* attempts and of spend, and the request itself (cliWorkerCapture.ts).    *)
(*                                                                         *)
(* Two ledgers, of attempts and of spend, lie in the state directory       *)
(* ("managed").  An older generation of the service kept them beside it    *)
(* ("legacy").  Before every request the worker migrates what is not yet   *)
(* migrated, then counts the attempts and sums the spend of the day.  The  *)
(* worker lock keeps other workers away until it goes stale; of a worker   *)
(* that waits for the body of an answer, which no timer bounds, or whose   *)
(* process is suspended or gone, another may replace the lock at any step. *)
(*                                                                         *)
(* A record is the minute it is stamped with, what it cost, and a serial   *)
(* number in place of the rest of its bytes.  Ledgers are equal exactly    *)
(* when their bytes are.                                                   *)
(***************************************************************************)
EXTENDS Integers, Sequences, FiniteSets, SequencesExt, FiniteSetsExt

CONSTANTS
  Workers,
  NoWorker,        \* holder of the worker lock when nobody holds it
  Legacy,          \* the legacy ledgers there may be at first
  MinuteLimit,     \* OPENROUTER_FREE_MINUTE_ATTEMPT_LIMIT
  DayLimit,        \* OPENROUTER_FREE_DAILY_ATTEMPT_LIMIT
  Cap,             \* OPENROUTER_DAILY_SPEND_CAP_USD
  Costs,           \* what an answer may cost
  MinutesPerDay,
  MaxNow,          \* bound: the last minute
  MaxCalls,        \* bound: requests of the lane
  MaxLegacyWrites, \* bound: appends of the older generation
  MaxFaults,       \* bound: appends that throw
  MaxTakeovers     \* bound: stale locks replaced

Files == [there : BOOLEAN, recs : Seq([at : Nat, cost : Nat, serial : Nat])]

ASSUME LaneConstants ==
  /\ NoWorker \notin Workers
  /\ {MinuteLimit, DayLimit, Cap, MinutesPerDay} \subseteq Nat \ {0}
  /\ {MaxNow, MaxCalls, MaxLegacyWrites, MaxFaults, MaxTakeovers} \subseteq Nat
  /\ IsFiniteSet(Workers) /\ Costs \subseteq Nat /\ 0 \in Costs
  /\ Legacy \subseteq Files /\ \A f \in Legacy : f.recs # <<>> => f.there

VARIABLES
  pc,       \* pc[w]: where the worker is
  job,      \* job[w]: the plan of its migration and the stamp of its attempt
  holder,   \* the worker whose lock it is, NoWorker without one
  legacy,   \* legacy[k]: the older generation's ledger
  managed,  \* managed[k]: the ledger in the state directory
  now, serial, calls, writes, faults, takeovers,
  first,    \* history: the legacy ledgers of the start
  sends,    \* history: the stamps of the requests that were sent
  charged,  \* history: charged[d] on day d, as far as a line had to be written for it
  unlined,  \* history: unlined[d] the part of it whose line was not written
  conflicts \* history: whether a migration has been refused as a conflict

vars == <<pc, job, holder, legacy, managed, now, serial, calls, writes, faults, takeovers,
          first, sends, charged, unlined, conflicts>>

Kinds == {"attempt", "spend"}
Absent == [there |-> FALSE, recs |-> <<>>]
NoJob == [source |-> [k \in Kinds |-> Absent], todo |-> {}, stamp |-> 0]

Day(m) == m \div MinutesPerDay
Days == 0 .. Day(MaxNow)

Init ==
  /\ pc = [w \in Workers |-> "idle"] /\ job = [w \in Workers |-> NoJob]
  /\ holder = NoWorker
  /\ legacy \in [Kinds -> Legacy] /\ first = legacy
  /\ managed = [k \in Kinds |-> Absent]
  /\ now = 0 /\ serial = 100 /\ calls = 0 /\ writes = 0 /\ faults = 0 /\ takeovers = 0
  /\ sends = <<>> /\ conflicts = FALSE
  /\ charged = [d \in Days |-> 0] /\ unlined = [d \in Days |-> 0]

-----------------------------------------------------------------------------
(* Helpers *)

Record(at, cost) == [at |-> at, cost |-> cost, serial |-> serial]

\* appendStateFile: the file is created when there is none.
Appended(k, r) == [managed EXCEPT ![k] = [there |-> TRUE, recs |-> Append(@.recs, r)]]

\* countOpenRouterAttempts
Attempts(minutes) == Cardinality({n \in DOMAIN managed["attempt"].recs :
                                    managed["attempt"].recs[n].at \in minutes})
DayOf(d) == {n \in Nat : Day(n) = d}

\* sumOpenRouterSpendForDay
SpendOf(d) == FoldSeq(LAMBDA r, sum : IF Day(r.at) = d THEN sum + r.cost ELSE sum, 0,
                      managed["spend"].recs)

\* The call ends; releaseWorkerLock.
Ends(w) ==
  /\ pc' = [pc EXCEPT ![w] = "idle"] /\ job' = [job EXCEPT ![w] = NoJob]
  /\ holder' = IF holder = w THEN NoWorker ELSE holder

Refused(w, why) == Ends(w) /\ conflicts' = (conflicts \/ why = "conflict")

Goto(w, where) == pc' = [pc EXCEPT ![w] = where] /\ UNCHANGED <<holder, conflicts>>

ledgers == <<legacy, managed>>
env == <<now, calls, writes, faults, takeovers, first>>
money == <<sends, charged, unlined>>

\* acquireWorkerLock.  A stale lock is replaced wherever its worker has stopped.
Begin(w) ==
  /\ pc[w] = "idle" /\ calls < MaxCalls
  /\ \/ holder = NoWorker /\ UNCHANGED takeovers
     \/ /\ holder # NoWorker /\ takeovers < MaxTakeovers
        /\ takeovers' = takeovers + 1
  /\ holder' = w /\ calls' = calls + 1
  /\ pc' = [pc EXCEPT ![w] = "plan"]
  /\ UNCHANGED <<job, ledgers, now, writes, faults, first, serial, money, conflicts>>

-----------------------------------------------------------------------------
(* ensureOpenRouterLedgersMigrated *)

Differ(k) == legacy[k].there /\ managed[k].there /\ legacy[k] # managed[k]

\* buildMigrationPlan and the check for conflicts.  The four ledgers are read in one
\* stretch, each by a read that is checked to be stable.
Plan(w) ==
  /\ pc[w] = "plan"
  /\ \/ /\ \E k \in Kinds : Differ(k)
        /\ Refused(w, "conflict")
     \/ /\ \A k \in Kinds : ~Differ(k)
        /\ job' = [job EXCEPT ![w].source = legacy,
             ![w].todo = {k \in Kinds : legacy[k].there /\ ~managed[k].there}]
        /\ Goto(w, "publish")
  /\ UNCHANGED <<ledgers, env, serial, money>>

\* The attempts first, as in LEDGER_SPECS.
NextKind(w) == IF "attempt" \in job[w].todo THEN "attempt" ELSE "spend"

\* Mutant: the copy is renamed over what lies there.
PublishOver(w) ==
  /\ pc[w] = "publish" /\ job[w].todo # {}
  /\ LET k == NextKind(w) IN managed' = [managed EXCEPT ![k] = job[w].source[k]]
  /\ Goto(w, "verify")
  /\ UNCHANGED <<job, legacy, env, serial, money>>

\* publishLedgerWithoutOverwrite up to linkSync: what another worker has published in the
\* meantime must have the same bytes.
Publish(w) ==
  /\ pc[w] = "publish" /\ job[w].todo # {}
  /\ LET k == NextKind(w) IN
     \/ /\ ~managed[k].there
        /\ managed' = [managed EXCEPT ![k] = job[w].source[k]]
        /\ Goto(w, "verify") /\ UNCHANGED job
     \/ /\ managed[k] = job[w].source[k]
        /\ job' = [job EXCEPT ![w].todo = @ \ {k}]
        /\ Goto(w, "publish") /\ UNCHANGED managed
     \/ /\ managed[k].there /\ managed[k] # job[w].source[k]
        /\ Refused(w, "conflict") /\ UNCHANGED managed
  /\ UNCHANGED <<legacy, env, serial, money>>

\* The published ledger is read back.
Verify(w) ==
  /\ pc[w] = "verify"
  /\ LET k == NextKind(w) IN
     \/ /\ managed[k] = job[w].source[k]
        /\ job' = [job EXCEPT ![w].todo = @ \ {k}]
        /\ Goto(w, "publish")
     \/ managed[k] # job[w].source[k] /\ Refused(w, "verification_failed")
  /\ UNCHANGED <<ledgers, env, serial, money>>

\* Mutant: the sources are not looked at again.
RecheckNothing(w) ==
  /\ pc[w] = "publish" /\ job[w].todo = {}
  /\ Goto(w, "check") /\ UNCHANGED job
  /\ UNCHANGED <<ledgers, env, serial, money>>

\* assertRetainedLegacySourcesUnchanged
Recheck(w) ==
  /\ pc[w] = "publish" /\ job[w].todo = {}
  /\ LET same == \A k \in Kinds : job[w].source[k].there => legacy[k] = job[w].source[k] IN
     \/ same /\ Goto(w, "check") /\ UNCHANGED job
     \/ ~same /\ Refused(w, "source_changed")
  /\ UNCHANGED <<ledgers, env, serial, money>>

-----------------------------------------------------------------------------
(* recordAttempt and the request *)

\* assertOpenRouterDailySpendBudgetAvailable, then the stamp of the attempt.  Without an
\* API key the call ends here as MISSING.
Check(w) ==
  /\ pc[w] = "check"
  /\ \/ SpendOf(Day(now)) >= Cap /\ Refused(w, "spend")
     \/ Refused(w, "missing")
     \/ /\ SpendOf(Day(now)) < Cap
        /\ job' = [job EXCEPT ![w].stamp = now]
        /\ Goto(w, "attempt")
  /\ UNCHANGED <<ledgers, env, serial, money>>

\* incrementOpenRouterAttemptBudget appends before it counts.
RecordAttempt(w) ==
  /\ pc[w] = "attempt"
  /\ \/ /\ managed' = Appended("attempt", Record(job[w].stamp, 0)) /\ serial' = serial + 1
        /\ Goto(w, "count") /\ UNCHANGED <<job, faults>>
     \/ /\ faults < MaxFaults /\ faults' = faults + 1
        /\ Refused(w, "state") /\ UNCHANGED <<managed, serial>>
  /\ UNCHANGED <<legacy, now, calls, writes, takeovers, first, money>>

\* Mutant: the count that has reached the limit is refused only when it is beyond by one.
OverLimitByTwo(w) ==
  \/ Attempts(DayOf(Day(job[w].stamp))) > DayLimit + 1
  \/ Attempts({job[w].stamp}) > MinuteLimit

OverLimit(w) ==
  \/ Attempts(DayOf(Day(job[w].stamp))) > DayLimit
  \/ Attempts({job[w].stamp}) > MinuteLimit

\* The attempts of the stamp's day and minute are counted; then the request is sent.
Send(w) ==
  /\ pc[w] = "count"
  /\ \/ OverLimit(w) /\ Refused(w, "attempts") /\ UNCHANGED sends
     \/ /\ ~OverLimit(w)
        /\ sends' = Append(sends, job[w].stamp)
        /\ Goto(w, "await") /\ UNCHANGED job
  /\ UNCHANGED <<ledgers, env, serial, charged, unlined>>

\* The request fails, times out, or the answer is refused before its cost is looked at:
\* an error status, an error envelope, another model.
AnswerRefused(w) ==
  /\ pc[w] = "await" /\ Ends(w)
  /\ UNCHANGED <<ledgers, env, serial, money, conflicts>>

\* The answer's cost, when it states one, goes to the spend ledger, best effort; a cost that
\* is not zero then refuses the answer.
AnswerCharged(w) ==
  /\ pc[w] = "await"
  /\ \E c \in Costs :
       /\ charged' = [charged EXCEPT ![Day(now)] = @ + c]
       /\ \/ /\ managed' = Appended("spend", Record(now, c)) /\ serial' = serial + 1
             /\ UNCHANGED <<faults, unlined>>
          \/ /\ faults < MaxFaults /\ faults' = faults + 1
             /\ unlined' = [unlined EXCEPT ![Day(now)] = @ + c]
             /\ UNCHANGED <<managed, serial>>
  /\ Ends(w)
  /\ UNCHANGED <<legacy, now, calls, writes, takeovers, first, sends, conflicts>>

-----------------------------------------------------------------------------
(* The environment *)

\* The older generation still runs and appends to its ledger.
LegacyWrite(k) ==
  /\ writes < MaxLegacyWrites /\ writes' = writes + 1
  /\ legacy' = [legacy EXCEPT ![k] = [there |-> TRUE, recs |-> Append(@.recs, Record(now, 0))]]
  /\ serial' = serial + 1
  /\ UNCHANGED <<pc, job, holder, managed, now, calls, faults, takeovers, first, money, conflicts>>

Minute ==
  /\ now < MaxNow /\ now' = now + 1
  /\ UNCHANGED <<pc, job, holder, ledgers, calls, writes, faults, takeovers, first, serial,
                 money, conflicts>>

Next ==
  \/ \E w \in Workers :
       \/ Begin(w) \/ Plan(w) \/ Publish(w) \/ Verify(w) \/ Recheck(w) \/ Check(w)
       \/ RecordAttempt(w) \/ Send(w) \/ AnswerRefused(w) \/ AnswerCharged(w)
  \/ \E k \in Kinds : LegacyWrite(k)
  \/ Minute

Spec == Init /\ [][Next]_vars

-----------------------------------------------------------------------------
(* Properties *)

\* The state is what the code's types allow (ValidatedLedger, OpenRouterAttemptCounts).
TypeOK ==
  /\ pc \in [Workers -> {"idle", "plan", "publish", "verify", "check", "attempt", "count", "await"}]
  /\ job \in [Workers -> [source : [Kinds -> Files], todo : SUBSET Kinds, stamp : Nat]]
  /\ holder \in Workers \cup {NoWorker}
  /\ legacy \in [Kinds -> Files] /\ managed \in [Kinds -> Files]
  /\ \A k \in Kinds : managed[k].recs # <<>> => managed[k].there
  /\ conflicts \in BOOLEAN /\ sends \in Seq(0 .. MaxNow)
  /\ charged \in [Days -> Nat] /\ unlined \in [Days -> Nat]

Sent(minutes) == Cardinality({n \in DOMAIN sends : sends[n] \in minutes})
Before(minutes) == Cardinality({n \in DOMAIN first["attempt"].recs :
                                  first["attempt"].recs[n].at \in minutes})
Within(minutes, limit) == Sent(minutes) = 0 \/ Sent(minutes) + Before(minutes) <= limit

\* The requests of a day, together with the attempts the older generation had made on it,
\* stay within the daily limit, and those of a minute within the minute's, whatever workers
\* overtake one another: each appends its attempt, over a migrated ledger, before it counts
\* (incrementOpenRouterAttemptBudget).
SendsWithinLimits ==
  /\ \A d \in Days : Within(DayOf(d), DayLimit)
  /\ \A t \in 0 .. MaxNow : Within({t}, MinuteLimit)

\* What a day's answers cost exceeds the cap by less than the last answer of each worker
\* that ran beside another, apart from costs whose line could not be written: the line is
\* there before the next worker looks (captureOpenRouterResponse).
SpendCapped == \A d \in Days :
  charged[d] - unlined[d] < Cap + Max(Costs) * (1 + takeovers)

\* A managed ledger only grows; no publication takes the place of lines that are there
\* (publishLedgerWithoutOverwrite).
ManagedOnlyGrows == [][\A k \in Kinds :
  IsPrefix(managed[k].recs, managed'[k].recs)]_vars

\* A worker leaves the migration only when every line of a legacy ledger it began with lies
\* in the managed one, those included that the older generation appended meanwhile
\* (assertRetainedLegacySourcesUnchanged).
MigrationComplete == [][\A w \in Workers : pc[w] = "publish" /\ pc'[w] = "check" =>
  \A k \in Kinds : job[w].source[k].there => IsPrefix(legacy[k].recs, managed'[k].recs)]_vars

\* Ledgers that were migrated once stay usable while nobody else writes the retained
\* source (docs/operations/state-and-recovery.md:121).
MigratedOnce == conflicts => writes > 0

=============================================================================
