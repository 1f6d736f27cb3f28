------------------------ MODULE OpenRouterLaneProofs ------------------------
(***************************************************************************)
(* Proofs about the ledgers of the OpenRouter lane: for any workers, that  *)
(* may all overtake one another, any legacy ledgers and any appends of the *)
(* older generation.                                                       *)
(***************************************************************************)
EXTENDS OpenRouterLane, FiniteSetTheorems, TLAPS

Rec == [at : Nat, cost : Nat, serial : Nat]
Jobs == [source : [Kinds -> Files], todo : SUBSET Kinds, stamp : Nat]
Places == {"idle", "plan", "publish", "verify", "check", "attempt", "count", "await"}

Types ==
  /\ managed \in [Kinds -> Files] /\ legacy \in [Kinds -> Files]
  /\ job \in [Workers -> Jobs] /\ pc \in [Workers -> Places]
  /\ now \in Nat /\ serial \in Nat

\* A ledger that is not there has no lines.
NoFileNoLines == \A k \in Kinds : ~managed[k].there => managed[k].recs = <<>>

\* What a migration has still to publish was there when it began.
TodoWasThere == \A w \in Workers : \A k \in job[w].todo : job[w].source[k].there

\* What it need not publish any more lies in the managed ledger.
Migrated == \A w \in Workers : pc[w] \in {"publish", "verify"} =>
  \A k \in Kinds \ job[w].todo :
    job[w].source[k].there => IsPrefix(job[w].source[k].recs, managed[k].recs)

IInv == Types /\ NoFileNoLines /\ TodoWasThere /\ Migrated

Grows == \A k \in Kinds : IsPrefix(managed[k].recs, managed'[k].recs)

-----------------------------------------------------------------------------
(* Prefixes *)

LEMMA Prefix ==
  ASSUME NEW S, NEW s \in Seq(S), NEW t \in Seq(S)
  PROVE  IsPrefix(s, t) <=> Len(s) <= Len(t) /\ \A n \in 1 .. Len(s) : s[n] = t[n]
<1>1. CASE Len(s) <= Len(t)
  <2>1. /\ SubSeq(s, 1, Len(s)) \in Seq(S) /\ Len(SubSeq(s, 1, Len(s))) = Len(s)
        /\ \A n \in 1 .. Len(s) : SubSeq(s, 1, Len(s))[n] = s[n]
    OBVIOUS
  <2>2. /\ SubSeq(t, 1, Len(s)) \in Seq(S) /\ Len(SubSeq(t, 1, Len(s))) = Len(s)
        /\ \A n \in 1 .. Len(s) : SubSeq(t, 1, Len(s))[n] = t[n]
    BY <1>1
  <2>3. SubSeq(s, 1, Len(s)) = SubSeq(t, 1, Len(s)) <=> \A n \in 1 .. Len(s) : s[n] = t[n]
    BY <2>1, <2>2
  <2>4. QED
    BY <1>1, <2>3 DEF IsPrefix
<1>2. CASE ~(Len(s) <= Len(t))
  BY <1>2 DEF IsPrefix
<1>3. QED
  BY <1>1, <1>2

LEMMA PrefixOfItself == ASSUME NEW S, NEW s \in Seq(S) PROVE IsPrefix(s, s)
BY Prefix

LEMMA PrefixOfAll == ASSUME NEW S, NEW s \in Seq(S) PROVE IsPrefix(<<>>, s)
<1>1. <<>> \in Seq(S)
  OBVIOUS
<1>2. PICK e \in Seq(S) : e = <<>>
  BY <1>1
<1>3. Len(e) = 0 /\ Len(s) \in Nat
  BY <1>2
<1>4. Len(e) <= Len(s) /\ \A n \in 1 .. Len(e) : e[n] = s[n]
  BY <1>3
<1>5. IsPrefix(e, s)
  BY <1>4, Prefix
<1>6. QED
  BY <1>2, <1>5

LEMMA PrefixOfAppend ==
  ASSUME NEW S, NEW s \in Seq(S), NEW e \in S
  PROVE  Append(s, e) \in Seq(S) /\ IsPrefix(s, Append(s, e))
<1>1. /\ Append(s, e) \in Seq(S) /\ Len(s) <= Len(Append(s, e))
      /\ \A n \in 1 .. Len(s) : s[n] = Append(s, e)[n]
  OBVIOUS
<1>2. QED
  BY <1>1, Prefix

LEMMA PrefixOfPrefix ==
  ASSUME NEW S, NEW s \in Seq(S), NEW t \in Seq(S), NEW u \in Seq(S),
         IsPrefix(s, t), IsPrefix(t, u)
  PROVE  IsPrefix(s, u)
<1>1. Len(s) <= Len(t) /\ Len(t) <= Len(u) /\ Len(s) <= Len(u)
  BY Prefix
<1>2. \A n \in 1 .. Len(s) : s[n] = t[n] /\ n \in 1 .. Len(t) /\ t[n] = u[n]
  BY <1>1, Prefix
<1>3. QED
  BY <1>1, <1>2, Prefix

-----------------------------------------------------------------------------
(* The steps *)

LEMMA NoFile == Absent \in Files /\ Absent.recs = <<>> /\ NoJob \in Jobs /\ NoJob.todo = {}
<1>1. Absent \in Files /\ Absent.recs = <<>>
  BY DEF Absent, Files
<1>2. [k \in Kinds |-> Absent] \in [Kinds -> Files]
  BY <1>1
<1>3. NoJob \in Jobs /\ NoJob.todo = {}
  BY <1>2 DEF NoJob, Jobs
<1>4. QED
  BY <1>1, <1>3

\* Managed ledgers that did not change, or grew, keep what was migrated to them; the worker
\* that made the step may have become idle.
LEMMA GrowthKeeps ==
  ASSUME IInv, Types', NoFileNoLines', Grows,
         \A w \in Workers :
           \/ /\ job'[w] = job[w]
              /\ pc'[w] \in {"publish", "verify"} => pc[w] \in {"publish", "verify"}
           \/ job'[w] = NoJob /\ pc'[w] = "idle"
  PROVE  IInv'
<1>1. TodoWasThere'
  BY NoFile DEF IInv, TodoWasThere
<1>2. ASSUME NEW w \in Workers, pc'[w] \in {"publish", "verify"},
             NEW k \in Kinds \ job'[w].todo, job'[w].source[k].there
      PROVE  IsPrefix(job'[w].source[k].recs, managed'[k].recs)
  <2>1. job'[w] = job[w] /\ pc[w] \in {"publish", "verify"}
    BY <1>2
  <2>2. IsPrefix(job[w].source[k].recs, managed[k].recs)
    BY <1>2, <2>1 DEF IInv, Migrated
  <2>3. /\ job[w].source[k].recs \in Seq(Rec) /\ managed[k].recs \in Seq(Rec)
        /\ managed'[k].recs \in Seq(Rec)
    BY DEF IInv, Types, Jobs, Files, Rec
  <2>4. IsPrefix(managed[k].recs, managed'[k].recs)
    BY DEF Grows
  <2>5. QED
    BY <2>1, <2>2, <2>3, <2>4, PrefixOfPrefix
<1>3. Migrated'
  BY <1>2 DEF Migrated
<1>4. QED
  BY <1>1, <1>3 DEF IInv

LEMMA SameGrows == ASSUME Types, UNCHANGED managed PROVE Grows
<1>1. \A k \in Kinds : managed[k].recs \in Seq(Rec) /\ managed'[k] = managed[k]
  BY DEF Types, Files, Rec
<1>2. QED
  BY <1>1, PrefixOfItself DEF Grows

\* An appended line: the ledger is there, has the lines it had and one more.
LEMMA AppendGrows ==
  ASSUME Types, NoFileNoLines, NEW k \in Kinds, NEW r \in Rec, managed' = Appended(k, r)
  PROVE  Grows /\ managed' \in [Kinds -> Files] /\ NoFileNoLines'
<1> DEFINE file == [there |-> TRUE, recs |-> Append(managed[k].recs, r)]
<1>1. \A j \in Kinds : managed[j] \in Files /\ managed[j].recs \in Seq(Rec)
  BY DEF Types, Files, Rec
<1>2. Append(managed[k].recs, r) \in Seq(Rec) /\ IsPrefix(managed[k].recs, Append(managed[k].recs, r))
  BY <1>1, PrefixOfAppend
<1>3. file \in Files /\ file.there /\ file.recs = Append(managed[k].recs, r)
  BY <1>2 DEF Files, Rec
<1>4. managed' = [managed EXCEPT ![k] = file]
  BY DEF Appended
<1> HIDE DEF file
<1>5. /\ managed' \in [Kinds -> Files] /\ managed'[k] = file
      /\ \A j \in Kinds \ {k} : managed'[j] = managed[j]
  BY <1>3, <1>4 DEF Types
<1>6. Grows
  BY <1>1, <1>2, <1>3, <1>5, PrefixOfItself DEF Grows
<1>7. NoFileNoLines'
  BY <1>3, <1>5 DEF NoFileNoLines
<1>8. QED
  BY <1>5, <1>6, <1>7

\* One worker changes its job and its place.
LEMMA StepOf ==
  ASSUME Types, NEW w \in Workers, NEW j \in Jobs, NEW where \in Places,
         job' = [job EXCEPT ![w] = j], pc' = [pc EXCEPT ![w] = where]
  PROVE  /\ job' \in [Workers -> Jobs] /\ job'[w] = j
         /\ pc' \in [Workers -> Places] /\ pc'[w] = where
         /\ \A v \in Workers \ {w} : job'[v] = job[v] /\ pc'[v] = pc[v]
<1>1. job' \in [Workers -> Jobs] /\ job'[w] = j
  BY DEF Types
<1>2. pc' \in [Workers -> Places] /\ pc'[w] = where
  BY DEF Types
<1>3. \A v \in Workers \ {w} : job'[v] = job[v] /\ pc'[v] = pc[v]
  BY DEF Types
<1>4. QED
  BY <1>1, <1>2, <1>3

\* The call of w ends: nobody else is disturbed.
LEMMA EndIsQuiet ==
  ASSUME Types, NEW w \in Workers, Ends(w)
  PROVE  /\ job' \in [Workers -> Jobs] /\ pc' \in [Workers -> Places]
         /\ \A v \in Workers :
              \/ job'[v] = job[v] /\ (pc'[v] = pc[v] \/ pc'[v] \notin {"publish", "verify"})
              \/ job'[v] = NoJob /\ pc'[v] = "idle"
<1>1. job' \in [Workers -> Jobs] /\ job'[w] = NoJob
  BY NoFile DEF Types, Ends
<1>2. pc' \in [Workers -> Places] /\ pc'[w] = "idle"
  BY DEF Types, Ends, Places
<1>3. \A v \in Workers \ {w} : job'[v] = job[v] /\ pc'[v] = pc[v]
  BY DEF Types, Ends
<1>4. QED
  BY <1>1, <1>2, <1>3

\* A worker goes on with the job it has, and not to the publications.
LEMMA GoIsQuiet ==
  ASSUME Types, NEW w \in Workers, NEW where \in Places \ {"publish", "verify"},
         pc' = [pc EXCEPT ![w] = where], UNCHANGED job
  PROVE  /\ job' \in [Workers -> Jobs] /\ pc' \in [Workers -> Places]
         /\ \A v \in Workers :
              job'[v] = job[v] /\ (pc'[v] = pc[v] \/ pc'[v] \notin {"publish", "verify"})
BY DEF Types

\* A step that leaves the ledgers as they are and is quiet.
LEMMA QuietKeeps ==
  ASSUME IInv, UNCHANGED <<managed, legacy, now, serial>>,
         job' \in [Workers -> Jobs], pc' \in [Workers -> Places],
         \A w \in Workers :
           \/ job'[w] = job[w] /\ (pc'[w] = pc[w] \/ pc'[w] \notin {"publish", "verify"})
           \/ job'[w] = NoJob /\ pc'[w] = "idle"
  PROVE  IInv'
<1>1. Types' /\ NoFileNoLines' /\ Grows
  BY SameGrows DEF IInv, Types, NoFileNoLines
<1>2. QED
  BY <1>1, GrowthKeeps

LEMMA EndKeeps ==
  ASSUME IInv, NEW w \in Workers, Ends(w), UNCHANGED <<managed, legacy, now, serial>>
  PROVE  IInv'
BY EndIsQuiet, QuietKeeps DEF IInv

LEMMA GoKeeps ==
  ASSUME IInv, NEW w \in Workers, NEW where \in Places \ {"publish", "verify"},
         pc' = [pc EXCEPT ![w] = where], UNCHANGED <<job, managed, legacy, now, serial>>
  PROVE  IInv'
BY GoIsQuiet, QuietKeeps DEF IInv

LEMMA BeginKeeps == ASSUME IInv, NEW w \in Workers, Begin(w) PROVE IInv'
<1>1. "plan" \in Places \ {"publish", "verify"}
  BY DEF Places
<1>2. pc' = [pc EXCEPT ![w] = "plan"] /\ UNCHANGED <<job, managed, legacy, now, serial>>
  BY DEF Begin, ledgers
<1>3. QED
  BY <1>1, <1>2, GoKeeps

\* A plan leaves out only what is in the managed ledger as it is in the legacy one.
LEMMA PlanKeeps == ASSUME IInv, NEW w \in Workers, Plan(w) PROVE IInv'
<1>1. CASE Refused(w, "conflict")
  BY <1>1, EndKeeps DEF Plan, Refused, ledgers, env
<1>2. CASE ~Refused(w, "conflict")
  <2> DEFINE plan == [job[w] EXCEPT !.source = legacy,
                        !.todo = {k \in Kinds : legacy[k].there /\ ~managed[k].there}]
  <2>1. /\ \A k \in Kinds : ~Differ(k)
        /\ job' = [job EXCEPT ![w] = plan] /\ pc' = [pc EXCEPT ![w] = "publish"]
        /\ UNCHANGED <<managed, legacy, now, serial>>
    BY <1>2 DEF Plan, Goto, ledgers, env, IInv, Types
  <2>2. job[w] \in Jobs /\ legacy \in [Kinds -> Files]
    BY DEF IInv, Types
  <2>3. /\ plan \in Jobs /\ plan.source = legacy
        /\ plan.todo = {k \in Kinds : legacy[k].there /\ ~managed[k].there}
    BY <2>2 DEF Jobs
  <2> HIDE DEF plan
  <2>p. "publish" \in Places
    BY DEF Places
  <2>4. /\ job' \in [Workers -> Jobs] /\ job'[w] = plan
        /\ \A v \in Workers \ {w} : job'[v] = job[v] /\ pc'[v] = pc[v]
        /\ pc' \in [Workers -> Places]
    BY <2>1, <2>3, <2>p, StepOf DEF IInv
  <2>5. Types' /\ NoFileNoLines'
    BY <2>1, <2>4 DEF IInv, Types, NoFileNoLines
  <2>6. TodoWasThere'
    BY <2>3, <2>4 DEF IInv, TodoWasThere
  <2>7. ASSUME NEW k \in Kinds \ plan.todo, plan.source[k].there
        PROVE  IsPrefix(plan.source[k].recs, managed[k].recs)
    <3>1. legacy[k] = managed[k]
      BY <2>1, <2>3, <2>7 DEF Differ
    <3>2. managed[k].recs \in Seq(Rec)
      BY DEF IInv, Types, Files, Rec
    <3>3. QED
      BY <2>3, <3>1, <3>2, PrefixOfItself
  <2>8. Migrated'
    BY <2>1, <2>4, <2>7 DEF IInv, Migrated
  <2>9. QED
    BY <2>5, <2>6, <2>8 DEF IInv
<1>3. QED
  BY <1>1, <1>2

\* One ledger less to publish, because the managed one is what it should be.
LEMMA DoneKeeps ==
  ASSUME IInv, NEW w \in Workers, NEW k \in Kinds, managed[k] = job[w].source[k],
         job' = [job EXCEPT ![w].todo = @ \ {k}], pc' = [pc EXCEPT ![w] = "publish"],
         pc[w] \in {"publish", "verify"}, UNCHANGED <<managed, legacy, now, serial>>
  PROVE  IInv'
<1> DEFINE less == [job[w] EXCEPT !.todo = job[w].todo \ {k}]
<1>1. job[w] \in Jobs /\ job' = [job EXCEPT ![w] = less]
  BY DEF IInv, Types
<1>2. less \in Jobs /\ less.source = job[w].source /\ less.todo = job[w].todo \ {k}
  BY <1>1 DEF Jobs
<1> HIDE DEF less
<1>p. "publish" \in Places
  BY DEF Places
<1>3. /\ job' \in [Workers -> Jobs] /\ job'[w] = less
      /\ \A v \in Workers \ {w} : job'[v] = job[v] /\ pc'[v] = pc[v]
      /\ pc' \in [Workers -> Places]
  BY <1>1, <1>2, <1>p, StepOf DEF IInv
<1>4. Types' /\ NoFileNoLines'
  BY <1>3 DEF IInv, Types, NoFileNoLines
<1>5. TodoWasThere'
  BY <1>2, <1>3 DEF IInv, TodoWasThere
<1>6. ASSUME NEW j \in Kinds \ less.todo, less.source[j].there
      PROVE  IsPrefix(less.source[j].recs, managed[j].recs)
  <2>1. CASE j = k
    <3>1. managed[k].recs \in Seq(Rec)
      BY DEF IInv, Types, Files, Rec
    <3>2. QED
      BY <1>2, <2>1, <3>1, PrefixOfItself
  <2>2. CASE j # k
    BY <1>2, <1>6, <2>2 DEF IInv, Migrated
  <2>3. QED
    BY <2>1, <2>2
<1>7. Migrated'
  BY <1>2, <1>3, <1>6 DEF IInv, Migrated
<1>8. QED
  BY <1>4, <1>5, <1>7 DEF IInv

LEMMA VerifyKeeps == ASSUME IInv, NEW w \in Workers, Verify(w) PROVE IInv'
<1>1. CASE Refused(w, "verification_failed")
  BY <1>1, EndKeeps DEF Verify, Refused, ledgers, env
<1>2. CASE ~Refused(w, "verification_failed")
  BY <1>2, DoneKeeps DEF Verify, Goto, ledgers, env, NextKind, Kinds
<1>3. QED
  BY <1>1, <1>2

\* What w publishes takes the place of nothing.
LEMMA PublishKeeps == ASSUME IInv, NEW w \in Workers, Publish(w) PROVE IInv' /\ Grows
<1> DEFINE k == NextKind(w)
           published == managed' = [managed EXCEPT ![k] = job[w].source[k]]
<1>1. pc[w] = "publish" /\ k \in job[w].todo /\ k \in Kinds /\ job[w].source[k].there
  BY DEF Publish, NextKind, Kinds, IInv, Types, Jobs, TodoWasThere
<1>2. UNCHANGED <<legacy, now, serial>>
  BY DEF Publish, env
<1>3. job[w].source \in [Kinds -> Files] /\ job[w].source[k] \in Files
  BY <1>1 DEF IInv, Types, Jobs
<1>4. \A j \in Kinds : managed[j].recs \in Seq(Rec) /\ job[w].source[j].recs \in Seq(Rec)
  BY <1>3 DEF IInv, Types, Files, Rec
<1> HIDE DEF k
<1>5. CASE ~managed[k].there /\ published /\ Goto(w, "verify") /\ UNCHANGED job
  <2>1. /\ managed' \in [Kinds -> Files] /\ managed'[k] = job[w].source[k]
        /\ \A j \in Kinds \ {k} : managed'[j] = managed[j]
    BY <1>1, <1>3, <1>5 DEF IInv, Types
  <2>2. managed[k].recs = <<>>
    BY <1>1, <1>5 DEF IInv, NoFileNoLines
  <2>3. Grows
    BY <1>4, <2>1, <2>2, PrefixOfItself, PrefixOfAll DEF Grows
  <2>4. NoFileNoLines'
    BY <1>1, <2>1 DEF IInv, NoFileNoLines
  <2>5. pc' \in [Workers -> Places] /\ \A v \in Workers \ {w} : pc'[v] = pc[v]
    BY <1>5 DEF IInv, Types, Goto, Places
  <2>6. Types'
    BY <1>2, <1>5, <2>1, <2>5 DEF IInv, Types
  <2>7. QED
    BY <1>1, <1>5, <2>3, <2>4, <2>5, <2>6, GrowthKeeps
<1>6. CASE /\ managed[k] = job[w].source[k]
           /\ job' = [job EXCEPT ![w].todo = @ \ {k}]
           /\ Goto(w, "publish") /\ UNCHANGED managed
  <2>1. IInv'
    BY <1>1, <1>2, <1>6, DoneKeeps DEF Goto
  <2>2. QED
    BY <1>6, <2>1, SameGrows DEF IInv
<1>7. CASE Refused(w, "conflict") /\ UNCHANGED managed
  BY <1>2, <1>7, EndKeeps, SameGrows DEF Refused, IInv
<1>8. QED
  BY <1>5, <1>6, <1>7 DEF Publish, k

LEMMA RecheckKeeps == ASSUME IInv, NEW w \in Workers, Recheck(w) PROVE IInv'
<1>1. UNCHANGED <<managed, legacy, now, serial>>
  BY DEF Recheck, ledgers, env
<1>2. CASE Refused(w, "source_changed")
  BY <1>1, <1>2, EndKeeps DEF Refused
<1>3. CASE Goto(w, "check") /\ UNCHANGED job
  <2>1. "check" \in Places \ {"publish", "verify"}
    BY DEF Places
  <2>2. QED
    BY <1>1, <1>3, <2>1, GoKeeps DEF Goto
<1>4. QED
  BY <1>2, <1>3 DEF Recheck

\* The stamp of the attempt.
LEMMA CheckKeeps == ASSUME IInv, NEW w \in Workers, Check(w) PROVE IInv'
<1>1. UNCHANGED <<managed, legacy, now, serial>>
  BY DEF Check, ledgers, env
<1>2. CASE Ends(w)
  BY <1>1, <1>2, EndKeeps
<1>3. CASE job' = [job EXCEPT ![w].stamp = now] /\ Goto(w, "attempt")
  <2> DEFINE stamped == [job[w] EXCEPT !.stamp = now]
  <2>1. job[w] \in Jobs /\ now \in Nat /\ job' = [job EXCEPT ![w] = stamped]
    BY <1>3 DEF IInv, Types
  <2>2. stamped \in Jobs /\ stamped.source = job[w].source /\ stamped.todo = job[w].todo
    BY <2>1 DEF Jobs
  <2> HIDE DEF stamped
  <2>3. "attempt" \in Places /\ pc' = [pc EXCEPT ![w] = "attempt"]
    BY <1>3 DEF Goto, Places
  <2>4. /\ job' \in [Workers -> Jobs] /\ job'[w] = stamped
        /\ pc' \in [Workers -> Places] /\ pc'[w] = "attempt"
        /\ \A v \in Workers \ {w} : job'[v] = job[v] /\ pc'[v] = pc[v]
    BY <2>1, <2>2, <2>3, StepOf DEF IInv
  <2>5. Types' /\ NoFileNoLines'
    BY <1>1, <2>4 DEF IInv, Types, NoFileNoLines
  <2>6. TodoWasThere' /\ Migrated'
    BY <1>1, <2>2, <2>4 DEF IInv, TodoWasThere, Migrated
  <2>7. QED
    BY <2>5, <2>6 DEF IInv
<1>4. QED
  BY <1>2, <1>3 DEF Check, Refused

\* A line of w's is appended, or not, and its call goes on or ends.
LEMMA RecordAttemptKeeps ==
  ASSUME IInv, NEW w \in Workers, RecordAttempt(w)
  PROVE  IInv' /\ Grows
<1>1. UNCHANGED <<legacy, now>>
  BY DEF RecordAttempt
<1>2. CASE /\ managed' = Appended("attempt", Record(job[w].stamp, 0))
           /\ serial' = serial + 1 /\ Goto(w, "count") /\ UNCHANGED job
  <2>1. Record(job[w].stamp, 0) \in Rec /\ "attempt" \in Kinds
    BY DEF IInv, Types, Jobs, Record, Rec, Kinds
  <2>2. Grows /\ managed' \in [Kinds -> Files] /\ NoFileNoLines'
    BY <1>2, <2>1, AppendGrows DEF IInv
  <2>3. "count" \in Places \ {"publish", "verify"} /\ pc' = [pc EXCEPT ![w] = "count"]
    BY <1>2 DEF Places, Goto
  <2>4. pc' \in [Workers -> Places] /\ \A v \in Workers :
          job'[v] = job[v] /\ (pc'[v] = pc[v] \/ pc'[v] \notin {"publish", "verify"})
    BY <1>2, <2>3, GoIsQuiet DEF IInv
  <2>5. Types'
    BY <1>1, <1>2, <2>2, <2>4 DEF IInv, Types
  <2>6. QED
    BY <2>2, <2>4, <2>5, GrowthKeeps
<1>3. CASE Refused(w, "state") /\ UNCHANGED <<managed, serial>>
  BY <1>1, <1>3, EndKeeps, SameGrows DEF Refused, IInv
<1>4. QED
  BY <1>2, <1>3 DEF RecordAttempt

LEMMA SendKeeps == ASSUME IInv, NEW w \in Workers, Send(w) PROVE IInv'
<1>1. UNCHANGED <<managed, legacy, now, serial>>
  BY DEF Send, ledgers, env
<1>2. CASE Refused(w, "attempts")
  BY <1>1, <1>2, EndKeeps DEF Refused
<1>3. CASE Goto(w, "await") /\ UNCHANGED job
  <2>1. "await" \in Places \ {"publish", "verify"}
    BY DEF Places
  <2>2. QED
    BY <1>1, <1>3, <2>1, GoKeeps DEF Goto
<1>4. QED
  BY <1>2, <1>3 DEF Send

LEMMA AnswerChargedKeeps ==
  ASSUME IInv, NEW w \in Workers, AnswerCharged(w)
  PROVE  IInv' /\ Grows
<1>1. UNCHANGED <<legacy, now>> /\ Ends(w)
  BY DEF AnswerCharged
<1>2. ASSUME NEW c \in Costs, managed' = Appended("spend", Record(now, c)),
             serial' = serial + 1
      PROVE  IInv' /\ Grows
  <2>1. Record(now, c) \in Rec /\ "spend" \in Kinds
    BY LaneConstants DEF IInv, Types, Record, Rec, Kinds
  <2>2. Grows /\ managed' \in [Kinds -> Files] /\ NoFileNoLines'
    BY <1>2, <2>1, AppendGrows DEF IInv
  <2>3. /\ job' \in [Workers -> Jobs] /\ pc' \in [Workers -> Places]
        /\ \A v \in Workers :
             \/ job'[v] = job[v] /\ (pc'[v] = pc[v] \/ pc'[v] \notin {"publish", "verify"})
             \/ job'[v] = NoJob /\ pc'[v] = "idle"
    BY <1>1, EndIsQuiet DEF IInv
  <2>4. Types'
    BY <1>1, <1>2, <2>2, <2>3 DEF IInv, Types
  <2>5. QED
    BY <2>2, <2>3, <2>4, GrowthKeeps
<1>3. CASE UNCHANGED <<managed, serial>>
  BY <1>1, <1>3, EndKeeps, SameGrows DEF IInv
<1>4. QED
  BY <1>2, <1>3 DEF AnswerCharged

\* The older generation writes; time passes; the lane is left as it is.
LEMMA LegacyWriteKeeps == ASSUME IInv, NEW k \in Kinds, LegacyWrite(k) PROVE IInv'
<1> DEFINE file == [there |-> TRUE, recs |-> Append(legacy[k].recs, Record(now, 0))]
<1>1. Record(now, 0) \in Rec /\ legacy[k].recs \in Seq(Rec)
  BY DEF IInv, Types, Record, Rec, Files
<1>2. file \in Files
  BY <1>1, PrefixOfAppend DEF Files, Rec
<1>3. legacy' = [legacy EXCEPT ![k] = file]
  BY DEF LegacyWrite
<1> HIDE DEF file
<1>4. legacy' \in [Kinds -> Files]
  BY <1>2, <1>3 DEF IInv, Types
<1>5. serial' \in Nat /\ UNCHANGED <<pc, job, managed, now>>
  BY DEF IInv, Types, LegacyWrite
<1>6. QED
  BY <1>4, <1>5 DEF IInv, Types, NoFileNoLines, TodoWasThere, Migrated

LEMMA IdleKeeps ==
  ASSUME IInv, UNCHANGED <<pc, job, managed, legacy, serial>>, now' \in Nat
  PROVE  IInv'
BY DEF IInv, Types, NoFileNoLines, TodoWasThere, Migrated

-----------------------------------------------------------------------------
(* The theorems *)

LEMMA InitIInv == Init => IInv
<1> SUFFICES ASSUME Init PROVE IInv
  OBVIOUS
<1>1. managed \in [Kinds -> Files] /\ \A k \in Kinds : managed[k].recs = <<>>
  BY NoFile DEF Init
<1>2. legacy \in [Kinds -> Files]
  BY LaneConstants DEF Init
<1>3. /\ job \in [Workers -> Jobs] /\ pc \in [Workers -> Places]
      /\ \A w \in Workers : pc[w] = "idle" /\ job[w].todo = {}
  BY NoFile DEF Init, Places
<1>4. now \in Nat /\ serial \in Nat
  BY DEF Init
<1>5. QED
  BY <1>1, <1>2, <1>3, <1>4 DEF IInv, Types, NoFileNoLines, TodoWasThere, Migrated

LEMMA StepIInv == IInv /\ [Next]_vars => IInv' /\ Grows
<1> SUFFICES ASSUME IInv, [Next]_vars PROVE IInv' /\ Grows
  OBVIOUS
<1> USE SameGrows
<1>1. ASSUME NEW w \in Workers, Begin(w) PROVE IInv' /\ Grows
  BY <1>1, BeginKeeps DEF Begin, ledgers, IInv
<1>2. ASSUME NEW w \in Workers, Plan(w) PROVE IInv' /\ Grows
  BY <1>2, PlanKeeps DEF Plan, ledgers, IInv
<1>3. ASSUME NEW w \in Workers, Publish(w) PROVE IInv' /\ Grows
  BY <1>3, PublishKeeps
<1>4. ASSUME NEW w \in Workers, Verify(w) PROVE IInv' /\ Grows
  BY <1>4, VerifyKeeps DEF Verify, ledgers, IInv
<1>5. ASSUME NEW w \in Workers, Recheck(w) PROVE IInv' /\ Grows
  BY <1>5, RecheckKeeps DEF Recheck, ledgers, IInv
<1>6. ASSUME NEW w \in Workers, Check(w) PROVE IInv' /\ Grows
  BY <1>6, CheckKeeps DEF Check, ledgers, IInv
<1>7. ASSUME NEW w \in Workers, RecordAttempt(w) PROVE IInv' /\ Grows
  BY <1>7, RecordAttemptKeeps
<1>8. ASSUME NEW w \in Workers, Send(w) PROVE IInv' /\ Grows
  BY <1>8, SendKeeps DEF Send, ledgers, IInv
<1>9. ASSUME NEW w \in Workers, AnswerRefused(w) PROVE IInv' /\ Grows
  BY <1>9, EndKeeps DEF AnswerRefused, ledgers, env, IInv
<1>10. ASSUME NEW w \in Workers, AnswerCharged(w) PROVE IInv' /\ Grows
  BY <1>10, AnswerChargedKeeps
<1>11. ASSUME NEW k \in Kinds, LegacyWrite(k) PROVE IInv' /\ Grows
  BY <1>11, LegacyWriteKeeps DEF LegacyWrite, IInv
<1>12. CASE Minute
  BY <1>12, IdleKeeps DEF Minute, ledgers, IInv, Types
<1>13. CASE UNCHANGED vars
  BY <1>13, IdleKeeps DEF vars, IInv, Types
<1>14. QED
  BY <1>1, <1>2, <1>3, <1>4, <1>5, <1>6, <1>7, <1>8, <1>9, <1>10, <1>11, <1>12, <1>13 DEF Next

\* What a migration need not publish any more lies in the managed ledger, through every
\* step of every worker and of the older generation.
THEOREM Inductive == Spec => []IInv
<1>1. IInv /\ [Next]_vars => IInv'
  BY StepIInv
<1>2. QED
  BY <1>1, InitIInv, PTL DEF Spec

\* The managed ledgers only grow, however many workers publish and append side by side.
THEOREM OnlyGrows == Spec => ManagedOnlyGrows
<1>1. IInv /\ [Next]_vars => [Grows]_vars
  BY StepIInv
<1>2. Spec => [][Grows]_vars
  BY <1>1, Inductive, PTL DEF Spec
<1>3. QED
  BY <1>2 DEF ManagedOnlyGrows, Grows

\* A step of v moves nobody else.
Steps(v) ==
  \/ Begin(v) \/ Plan(v) \/ Publish(v) \/ Verify(v) \/ Recheck(v) \/ Check(v)
  \/ RecordAttempt(v) \/ Send(v) \/ AnswerRefused(v) \/ AnswerCharged(v)

LEMMA OthersStay ==
  ASSUME Types, NEW v \in Workers, NEW w \in Workers \ {v}, Steps(v)
  PROVE  pc'[w] = pc[w] /\ job'[w] = job[w]
<1>1. ASSUME NEW where, pc' = [pc EXCEPT ![v] = where] PROVE pc'[w] = pc[w]
  BY <1>1 DEF Types
<1>2. ASSUME NEW j, job' = [job EXCEPT ![v] = j] PROVE job'[w] = job[w]
  BY <1>2 DEF Types
<1>3. Ends(v) => pc'[w] = pc[w] /\ job'[w] = job[w]
  BY <1>1, <1>2 DEF Ends
<1>4. \A where : Goto(v, where) => pc'[w] = pc[w]
  BY <1>1 DEF Goto
<1>5. \A why : Refused(v, why) => pc'[w] = pc[w] /\ job'[w] = job[w]
  BY <1>3 DEF Refused
<1>6. CASE Begin(v)
  BY <1>1, <1>6 DEF Begin
<1>7. CASE Plan(v) \/ Publish(v) \/ Verify(v) \/ Recheck(v)
  BY <1>2, <1>4, <1>5, <1>7 DEF Plan, Publish, Verify, Recheck
<1>8. CASE Check(v) \/ RecordAttempt(v) \/ Send(v)
  BY <1>2, <1>4, <1>5, <1>8 DEF Check, RecordAttempt, Send
<1>9. CASE AnswerRefused(v) \/ AnswerCharged(v)
  BY <1>3, <1>9 DEF AnswerRefused, AnswerCharged
<1>10. QED
  BY <1>6, <1>7, <1>8, <1>9 DEF Steps

\* Whoever leaves the migration has every line of the legacy ledgers it began with in the
\* managed ones, for any ledgers and any writes of the older generation.
THEOREM Complete == Spec => MigrationComplete
<1> DEFINE Completes == \A w \in Workers : pc[w] = "publish" /\ pc'[w] = "check" =>
             \A k \in Kinds : job[w].source[k].there => IsPrefix(legacy[k].recs, managed'[k].recs)
<1>1. ASSUME IInv, [Next]_vars, NEW w \in Workers, pc[w] = "publish", pc'[w] = "check",
             NEW k \in Kinds, job[w].source[k].there
      PROVE  IsPrefix(legacy[k].recs, managed'[k].recs)
  <2>1. Recheck(w) \/ UNCHANGED pc
    <3>1. ASSUME NEW v \in Workers, v # w, Steps(v)
          PROVE  pc'[w] = pc[w]
      BY <1>1, <3>1, OthersStay DEF IInv
    <3>2. ~Begin(w) /\ ~Plan(w) /\ ~Verify(w) /\ ~Check(w) /\ ~RecordAttempt(w)
          /\ ~Send(w) /\ ~AnswerRefused(w) /\ ~AnswerCharged(w)
      BY <1>1 DEF Begin, Plan, Verify, Check, RecordAttempt, Send, AnswerRefused,
                  AnswerCharged
    <3>3. ~Publish(w)
      BY <1>1 DEF Publish, Goto, Refused, Ends, IInv, Types
    <3>4. CASE UNCHANGED vars \/ Minute \/ \E j \in Kinds : LegacyWrite(j)
      BY <3>4 DEF vars, Minute, LegacyWrite
    <3>5. QED
      BY <1>1, <3>1, <3>2, <3>3, <3>4 DEF Next, Steps
  <2>2. Recheck(w) /\ UNCHANGED managed
    BY <1>1, <2>1 DEF Recheck, ledgers
  <2>3. job[w].todo = {} /\ legacy[k] = job[w].source[k]
    BY <1>1, <2>2 DEF Recheck, Refused, Ends, IInv, Types
  <2>4. IsPrefix(job[w].source[k].recs, managed[k].recs)
    BY <1>1, <2>3 DEF IInv, Migrated
  <2>5. QED
    BY <2>2, <2>3, <2>4
<1>2. IInv /\ [Next]_vars => [Completes]_vars
  BY <1>1
<1>3. Spec => [][Completes]_vars
  BY <1>2, Inductive, PTL DEF Spec
<1>4. QED
  BY <1>3 DEF MigrationComplete

-----------------------------------------------------------------------------
(***************************************************************************)
(* The limits of attempts.  Older are the lines the older generation had   *)
(* written at the start, Lines those of the managed ledger now.            *)
(***************************************************************************)

Older == first["attempt"].recs
Lines == managed["attempt"].recs
Migrating == {"publish", "verify"}
Later == {"check", "attempt", "count", "await"}

\* A ledger that has the lines of the start.
Retained(file) == (first["attempt"].there => file.there) /\ IsPrefix(Older, file.recs)

\* The older lines lie at the start of the legacy ledger, of what a migration read, and of
\* the managed ledger as soon as a worker has left the migration.
Origin ==
  /\ first \in [Kinds -> Files] /\ sends \in Seq(Nat)
  /\ ~first["attempt"].there => Older = <<>>
  /\ Retained(legacy["attempt"])
  /\ \A w \in Workers : pc[w] \in Migrating => Retained(job[w].source["attempt"])
  /\ \A w \in Workers : pc[w] \in Later => IsPrefix(Older, Lines)

SentIn(D) == {n \in DOMAIN sends : sends[n] \in D}
Waiting(D) == {w \in Workers : pc[w] = "count" /\ job[w].stamp \in D}
Added(D) == {n \in DOMAIN Lines : n > Len(Older) /\ Lines[n].at \in D}

\* Every request that was sent, and every worker about to count, has a line of its own
\* after the older ones.
Counting == \A D \in SUBSET Nat :
  Cardinality(SentIn(D)) + Cardinality(Waiting(D)) <= Cardinality(Added(D))

\* What a step may do to the place and the job of w.
Moves(w) ==
  /\ pc'[w] \in Migrating =>
       \/ pc[w] \in Migrating /\ job'[w].source = job[w].source
       \/ job'[w].source = legacy
  /\ pc'[w] \in Later => pc[w] \in Later \/ (pc[w] = "publish" /\ job[w].todo = {})

\* Nobody begins to count and nothing is sent.
Quiet ==
  /\ sends' = sends
  /\ \A w \in Workers : pc'[w] = "count" => pc[w] = "count" /\ job'[w] = job[w]

LEMMA LineTypes ==
  ASSUME Types, Origin
  PROVE  Lines \in Seq(Rec) /\ Older \in Seq(Rec) /\ legacy["attempt"].recs \in Seq(Rec)
BY DEF Types, Origin, Files, Rec, Lines, Older, Kinds

Countable(D) ==
  /\ IsFiniteSet(SentIn(D)) /\ IsFiniteSet(Waiting(D)) /\ IsFiniteSet(Added(D))
  /\ Cardinality(SentIn(D)) \in Nat /\ Cardinality(Waiting(D)) \in Nat
  /\ Cardinality(Added(D)) \in Nat

LEMMA FiniteCounts == Types /\ Origin => \A D \in SUBSET Nat : Countable(D)
<1> SUFFICES ASSUME Types, Origin, NEW D \in SUBSET Nat PROVE Countable(D)
  OBVIOUS
<1>1. IsFiniteSet(Workers)
  BY LaneConstants
<1>2. Waiting(D) \in SUBSET Workers
  BY DEF Waiting
<1>3. DOMAIN sends = 1 .. Len(sends) /\ Len(sends) \in Int
  BY DEF Origin
<1>4. DOMAIN Lines = 1 .. Len(Lines) /\ Len(Lines) \in Int
  BY LineTypes
<1>5. IsFiniteSet(DOMAIN sends) /\ IsFiniteSet(DOMAIN Lines)
  BY <1>3, <1>4, FS_Interval
<1>6. SentIn(D) \in SUBSET DOMAIN sends /\ Added(D) \in SUBSET DOMAIN Lines
  BY DEF SentIn, Added
<1>7. IsFiniteSet(SentIn(D)) /\ IsFiniteSet(Waiting(D)) /\ IsFiniteSet(Added(D))
  BY <1>1, <1>2, <1>5, <1>6, FS_Subset
<1>8. QED
  BY <1>7, FS_CardinalityType DEF Countable

LEMMA FiniteCountsAfter == (Types /\ Origin => \A D \in SUBSET Nat : Countable(D))'
BY FiniteCounts, PTL

\* A ledger that has the lines of the start keeps them while it grows.
LEMMA RetainedGrows ==
  ASSUME Origin, first' = first, NEW f \in Files, NEW g \in Files,
         Retained(f), f.there => g.there, IsPrefix(f.recs, g.recs)
  PROVE  Retained(g)'
<1>1. f.recs \in Seq(Rec) /\ g.recs \in Seq(Rec) /\ Older \in Seq(Rec) /\ Older' = Older
  BY DEF Files, Rec, Origin, Older, Kinds
<1>2. IsPrefix(Older, g.recs)
  BY <1>1, PrefixOfPrefix DEF Retained
<1>3. QED
  BY <1>1, <1>2 DEF Retained

LEMMA OriginKeeps ==
  ASSUME IInv, IInv', Grows, Origin, first' = first, sends' \in Seq(Nat),
         legacy["attempt"].there => legacy'["attempt"].there,
         IsPrefix(legacy["attempt"].recs, legacy'["attempt"].recs),
         \A w \in Workers : Moves(w)
  PROVE  Origin'
<1>1. /\ "attempt" \in Kinds /\ legacy["attempt"] \in Files /\ legacy'["attempt"] \in Files
      /\ Older' = Older /\ Lines \in Seq(Rec) /\ Older \in Seq(Rec) /\ Lines' \in Seq(Rec)
      /\ IsPrefix(Lines, Lines')
  BY LineTypes DEF IInv, Types, Older, Kinds, Lines, Files, Rec, Grows
<1>2. Retained(legacy["attempt"])'
  BY <1>1, RetainedGrows DEF Origin, Retained
<1>3. ASSUME NEW w \in Workers, pc'[w] \in Migrating
      PROVE  Retained(job[w].source["attempt"])'
  <2>1. CASE pc[w] \in Migrating /\ job'[w].source = job[w].source
    BY <1>1, <2>1 DEF Origin, Retained
  <2>2. CASE job'[w].source = legacy
    BY <1>1, <2>2 DEF Origin, Retained
  <2>3. QED
    BY <1>3, <2>1, <2>2 DEF Moves
<1>4. ASSUME NEW w \in Workers, pc'[w] \in Later PROVE IsPrefix(Older, Lines)'
  <2>1. CASE pc[w] \in Later
    BY <1>1, <2>1, PrefixOfPrefix DEF Origin
  <2>2. CASE pc[w] = "publish" /\ job[w].todo = {}
    <3>1. Retained(job[w].source["attempt"])
      BY <2>2 DEF Origin, Migrating
    <3>2. job[w].source["attempt"].recs \in Seq(Rec)
      BY <1>1 DEF IInv, Types, Jobs, Files, Rec
    <3>3. CASE first["attempt"].there
      <4>1. IsPrefix(job[w].source["attempt"].recs, Lines)
        BY <1>1, <2>2, <3>1, <3>3 DEF IInv, Migrated, Retained, Lines
      <4>2. IsPrefix(Older, Lines)
        BY <1>1, <3>1, <3>2, <4>1, PrefixOfPrefix DEF Retained
      <4>3. QED
        BY <1>1, <4>2, PrefixOfPrefix
    <3>4. CASE ~first["attempt"].there
      BY <1>1, <3>4, PrefixOfAll DEF Origin
    <3>5. QED
      BY <3>3, <3>4
  <2>3. QED
    BY <1>4, <2>1, <2>2 DEF Moves
<1>5. QED
  BY <1>1, <1>2, <1>3, <1>4 DEF Origin

\* A managed ledger that grows keeps the lines that were added.
LEMMA AddedGrows ==
  ASSUME IInv, IInv', Grows, Origin, first' = first, NEW D
  PROVE  Added(D) \subseteq Added(D)'
<1>1. /\ Lines \in Seq(Rec) /\ Lines' \in Seq(Rec) /\ IsPrefix(Lines, Lines')
      /\ Older' = Older
  BY LineTypes DEF IInv, Types, Older, Kinds, Lines, Files, Rec, Grows
<1>2. Len(Lines) <= Len(Lines') /\ \A n \in 1 .. Len(Lines) : Lines[n] = Lines'[n]
  BY <1>1, Prefix
<1>3. /\ DOMAIN Lines = 1 .. Len(Lines) /\ DOMAIN Lines' = 1 .. Len(Lines')
      /\ Len(Lines) \in Nat /\ Len(Lines') \in Nat
  BY <1>1
<1>4. DOMAIN Lines \subseteq DOMAIN Lines'
  BY <1>2, <1>3
<1>5. ASSUME NEW n \in Added(D) PROVE n \in Added(D)'
  BY <1>1, <1>2, <1>3, <1>4 DEF Added
<1>6. QED
  BY <1>5

LEMMA QuietCounts ==
  ASSUME IInv, IInv', Grows, Origin, Origin', Counting, first' = first, Quiet
  PROVE  Counting'
<1> SUFFICES ASSUME NEW D \in SUBSET Nat
             PROVE  Cardinality(SentIn(D)') + Cardinality(Waiting(D)') <= Cardinality(Added(D)')
  BY DEF Counting
<1>1. SentIn(D)' = SentIn(D)
  BY DEF Quiet, SentIn
<1>2. Waiting(D)' \in SUBSET Waiting(D)
  BY DEF Quiet, Waiting
<1>3. Added(D) \in SUBSET Added(D)'
  BY AddedGrows
<1>4. Countable(D)
  BY FiniteCounts DEF IInv
<1>5. Countable(D)'
  BY FiniteCountsAfter DEF IInv
<1>6. Cardinality(Waiting(D)') <= Cardinality(Waiting(D))
  BY <1>2, <1>4, FS_Subset DEF Countable
<1>7. Cardinality(Added(D)) <= Cardinality(Added(D)')
  BY <1>3, <1>5, FS_Subset DEF Countable
<1>8. Cardinality(SentIn(D)) + Cardinality(Waiting(D)) <= Cardinality(Added(D))
  BY DEF Counting
<1>9. QED
  BY <1>1, <1>4, <1>5, <1>6, <1>7, <1>8 DEF Countable

\* The attempt's line is there before its worker counts.
LEMMA RecordAttemptCounts ==
  ASSUME IInv, IInv', Grows, Origin, Origin', Counting, NEW w \in Workers, RecordAttempt(w),
         managed' = Appended("attempt", Record(job[w].stamp, 0)), Goto(w, "count"),
         UNCHANGED job
  PROVE  Counting'
<1> DEFINE n == Len(Lines) + 1
           stamp == job[w].stamp
<1> SUFFICES ASSUME NEW D \in SUBSET Nat
             PROVE  Cardinality(SentIn(D)') + Cardinality(Waiting(D)') <= Cardinality(Added(D)')
  BY DEF Counting
<1>1. SentIn(D)' = SentIn(D) /\ Older' = Older
  BY DEF RecordAttempt, money, SentIn, Older
<1>2. Waiting(D)' = IF stamp \in D THEN Waiting(D) \cup {w} ELSE Waiting(D)
  BY DEF RecordAttempt, Goto, IInv, Types, Waiting
<1>3. w \notin Waiting(D)
  BY DEF RecordAttempt, Waiting
<1>4. Added(D) \in SUBSET Added(D)'
  BY AddedGrows DEF RecordAttempt
<1>5. Countable(D) /\ Countable(D)'
  BY FiniteCounts, FiniteCountsAfter DEF IInv
<1>6. Cardinality(SentIn(D)) + Cardinality(Waiting(D)) <= Cardinality(Added(D))
  BY DEF Counting
<1>7. n \notin Added(D)
  BY LineTypes DEF Added, IInv
<1>8. stamp \in D => n \in Added(D)'
  <2>1. Lines \in Seq(Rec) /\ Older \in Seq(Rec) /\ IsPrefix(Older, Lines)
    BY LineTypes DEF IInv, Origin, RecordAttempt, Later
  <2>2. Len(Older) < n
    BY <2>1, Prefix
  <2>3. Record(stamp, 0).at = stamp /\ Record(stamp, 0) \in Rec
    BY DEF Record, Rec, IInv, Types, Jobs
  <2>4. Lines' = Append(Lines, Record(stamp, 0))
    BY DEF Appended, Lines, IInv, Types, Kinds
  <2>5. n \in DOMAIN Lines' /\ Lines'[n] = Record(stamp, 0)
    BY <2>1, <2>3, <2>4
  <2>6. QED
    BY <1>1, <2>2, <2>3, <2>5 DEF Added
<1> HIDE DEF n, stamp
<1>9. CASE stamp \in D
  <2>1. Cardinality(Waiting(D)') = Cardinality(Waiting(D)) + 1
    BY <1>2, <1>3, <1>5, <1>9, FS_AddElement DEF Countable
  <2>2. IsFiniteSet(Added(D) \cup {n}) /\ Cardinality(Added(D) \cup {n}) = Cardinality(Added(D)) + 1
    BY <1>5, <1>7, FS_AddElement DEF Countable
  <2>3. Added(D) \cup {n} \in SUBSET Added(D)'
    BY <1>4, <1>8, <1>9
  <2>4. Cardinality(Added(D) \cup {n}) <= Cardinality(Added(D)')
    BY <1>5, <2>3, FS_Subset DEF Countable
  <2>5. QED
    BY <1>1, <1>5, <1>6, <2>1, <2>2, <2>4 DEF Countable
<1>10. CASE stamp \notin D
  <2>1. Cardinality(Added(D)) <= Cardinality(Added(D)')
    BY <1>4, <1>5, FS_Subset DEF Countable
  <2>2. QED
    BY <1>1, <1>2, <1>5, <1>6, <1>10, <2>1 DEF Countable
<1>11. QED
  BY <1>9, <1>10

\* A request goes out: its worker is no longer one that waits.
LEMMA SendCounts ==
  ASSUME IInv, Origin, Counting, NEW w \in Workers, pc[w] = "count",
         sends' = Append(sends, job[w].stamp), pc' = [pc EXCEPT ![w] = "await"],
         UNCHANGED <<job, managed, first>>, NEW D \in SUBSET Nat
  PROVE  /\ Cardinality(SentIn(D)') + Cardinality(Waiting(D)') <= Cardinality(Added(D)')
         /\ job[w].stamp \notin D => SentIn(D)' = SentIn(D)
         /\ job[w].stamp \in D => Cardinality(SentIn(D)') <= Cardinality(Added(D))
<1> DEFINE n == Len(sends) + 1
           stamp == job[w].stamp
<1>1. Added(D)' = Added(D)
  BY DEF Added, Lines, Older
<1>2. stamp \in Nat /\ sends \in Seq(Nat) /\ sends' = Append(sends, stamp)
  BY DEF IInv, Types, Jobs, Origin
<1>3. n \notin SentIn(D)
  BY <1>2 DEF SentIn
<1>4. SentIn(D)' = IF stamp \in D THEN SentIn(D) \cup {n} ELSE SentIn(D)
  <2>1. DOMAIN sends' = DOMAIN sends \cup {n} /\ n \notin DOMAIN sends /\ sends'[n] = stamp
    BY <1>2
  <2>2. \A i \in DOMAIN sends : sends'[i] = sends[i]
    BY <1>2
  <2> HIDE DEF n, stamp
  <2>3. QED
    BY <2>1, <2>2 DEF SentIn
<1>5. Waiting(D)' = IF stamp \in D THEN Waiting(D) \ {w} ELSE Waiting(D)
  BY DEF Waiting, IInv, Types
<1>6. stamp \in D => w \in Waiting(D)
  BY DEF Waiting
<1>7. Countable(D)
  BY FiniteCounts DEF IInv
<1>8. Cardinality(SentIn(D)) + Cardinality(Waiting(D)) <= Cardinality(Added(D))
  BY DEF Counting
<1> HIDE DEF n, stamp
<1>9. CASE stamp \in D
  <2>1. Cardinality(SentIn(D)') = Cardinality(SentIn(D)) + 1
    BY <1>3, <1>4, <1>7, <1>9, FS_AddElement DEF Countable
  <2>2. Cardinality(Waiting(D)') = Cardinality(Waiting(D)) - 1
    BY <1>5, <1>6, <1>7, <1>9, FS_RemoveElement DEF Countable
  <2>3. IsFiniteSet(Waiting(D) \ {w}) /\ Cardinality(Waiting(D)') \in Nat
    BY <1>5, <1>7, <1>9, FS_RemoveElement, FS_CardinalityType DEF Countable
  <2>4. QED
    BY <1>1, <1>7, <1>8, <1>9, <2>1, <2>2, <2>3 DEF Countable, stamp
<1>10. CASE stamp \notin D
  BY <1>1, <1>4, <1>5, <1>8, <1>10 DEF stamp
<1>11. QED
  BY <1>9, <1>10

\* The lines of the managed ledger are the older ones and those that were added.
LEMMA CountedLines ==
  ASSUME IInv, Origin, IsPrefix(Older, Lines), NEW D \in SUBSET Nat
  PROVE  /\ Attempts(D) = Before(D) + Cardinality(Added(D))
         /\ Before(D) \in Nat
<1> DEFINE old == {n \in DOMAIN Older : Older[n].at \in D}
           all == {n \in DOMAIN Lines : Lines[n].at \in D}
<1>1. Lines \in Seq(Rec) /\ Older \in Seq(Rec)
  BY LineTypes DEF IInv
<1>2. /\ DOMAIN Lines = 1 .. Len(Lines) /\ DOMAIN Older = 1 .. Len(Older)
      /\ Len(Older) \in Nat /\ Len(Lines) \in Nat
  BY <1>1
<1>3. Len(Older) <= Len(Lines) /\ \A n \in 1 .. Len(Older) : Older[n] = Lines[n]
  BY <1>1, Prefix
<1>4. all = old \cup Added(D) /\ old \cap Added(D) = {}
  BY <1>2, <1>3 DEF Added
<1>5. IsFiniteSet(DOMAIN Older)
  BY <1>2, FS_Interval
<1>6. old \in SUBSET DOMAIN Older
  OBVIOUS
<1>7. Attempts(D) = Cardinality(all) /\ Before(D) = Cardinality(old)
  BY DEF Attempts, Before, Lines, Older
<1>8. Countable(D)
  BY FiniteCounts DEF IInv
<1> HIDE DEF old, all
<1>9. IsFiniteSet(old) /\ Cardinality(old) \in Nat
  BY <1>5, <1>6, FS_Subset, FS_CardinalityType
<1>10. Cardinality(all) = Cardinality(old) + Cardinality(Added(D)) - Cardinality(old \cap Added(D))
  BY <1>4, <1>8, <1>9, FS_Union DEF Countable
<1>11. Cardinality(old \cap Added(D)) = 0
  BY <1>4, FS_EmptySet
<1>12. QED
  BY <1>7, <1>8, <1>9, <1>10, <1>11 DEF Countable

\* Where a call may go from each place.
LEMMA OwnMoves ==
  ASSUME IInv, NEW w \in Workers, Steps(w)
  PROVE  /\ Moves(w)
         /\ pc'[w] = "count" => pc[w] = "attempt" /\ RecordAttempt(w)
<1>1. ASSUME NEW where, pc' = [pc EXCEPT ![w] = where] PROVE pc'[w] = where
  BY <1>1 DEF IInv, Types
<1>2. ASSUME NEW j, job' = [job EXCEPT ![w] = j] PROVE job'[w] = j
  BY <1>2 DEF IInv, Types
<1>3. Ends(w) => pc'[w] = "idle"
  BY <1>1 DEF Ends
<1>4. \A where : Goto(w, where) => pc'[w] = where
  BY <1>1 DEF Goto
<1>5. \A why : Refused(w, why) => pc'[w] = "idle"
  BY <1>3 DEF Refused
<1>6. CASE Begin(w)
  BY <1>1, <1>6 DEF Begin, Moves, Migrating, Later
<1>7. CASE Plan(w)
  <2>1. CASE Refused(w, "conflict")
    BY <1>5, <2>1 DEF Moves, Migrating, Later
  <2>2. CASE ~Refused(w, "conflict")
    <3>1. pc'[w] = "publish"
      BY <1>4, <1>7, <2>2 DEF Plan
    <3>2. job[w] \in Jobs /\ job'[w].source = legacy
      BY <1>7, <2>2 DEF Plan, IInv, Types, Jobs
    <3>3. QED
      BY <3>1, <3>2 DEF Moves, Migrating, Later
  <2>3. QED
    BY <2>1, <2>2
<1>8. CASE Publish(w) \/ Verify(w)
  <2>1. pc[w] \in Migrating /\ job[w] \in Jobs
    BY <1>8 DEF Publish, Verify, Migrating, IInv, Types
  <2>2. \/ pc'[w] = "idle"
        \/ pc'[w] = "verify" /\ UNCHANGED job
        \/ pc'[w] = "publish" /\ \E k : job' = [job EXCEPT ![w].todo = @ \ {k}]
    BY <1>4, <1>5, <1>8 DEF Publish, Verify, NextKind, Kinds
  <2>3. pc'[w] = "idle" \/ (pc'[w] \in Migrating /\ job'[w].source = job[w].source)
    BY <2>1, <2>2 DEF IInv, Types, Jobs, Migrating
  <2>4. QED
    BY <2>1, <2>3 DEF Moves, Migrating, Later
<1>9. CASE Recheck(w)
  <2>1. pc[w] = "publish" /\ job[w].todo = {} /\ pc'[w] \in {"idle", "check"}
    BY <1>4, <1>5, <1>9 DEF Recheck
  <2>2. QED
    BY <2>1 DEF Moves, Migrating, Later
<1>10. CASE Check(w)
  <2>1. pc[w] = "check" /\ pc'[w] \in {"idle", "attempt"}
    BY <1>4, <1>5, <1>10 DEF Check
  <2>2. QED
    BY <2>1 DEF Moves, Migrating, Later
<1>11. CASE RecordAttempt(w)
  <2>1. pc[w] = "attempt" /\ pc'[w] \in {"idle", "count"}
    BY <1>4, <1>5, <1>11 DEF RecordAttempt
  <2>2. QED
    BY <1>11, <2>1 DEF Moves, Migrating, Later
<1>12. CASE Send(w)
  <2>1. pc[w] = "count" /\ pc'[w] \in {"idle", "await"}
    BY <1>4, <1>5, <1>12 DEF Send
  <2>2. QED
    BY <2>1 DEF Moves, Migrating, Later
<1>13. CASE AnswerRefused(w) \/ AnswerCharged(w)
  BY <1>3, <1>13 DEF AnswerRefused, AnswerCharged, Moves, Migrating, Later
<1>14. QED
  BY <1>6, <1>7, <1>8, <1>9, <1>10, <1>11, <1>12, <1>13 DEF Steps

LEMMA AllMove ==
  ASSUME IInv, NEW v \in Workers, Steps(v)
  PROVE  /\ \A w \in Workers : Moves(w)
         /\ \/ RecordAttempt(v) /\ pc'[v] = "count"
            \/ \A w \in Workers : pc'[w] = "count" => pc[w] = "count" /\ job'[w] = job[w]
<1>1. \A w \in Workers \ {v} : pc'[w] = pc[w] /\ job'[w] = job[w]
  BY OthersStay DEF IInv
<1>2. \A w \in Workers \ {v} : Moves(w)
  BY <1>1 DEF Moves
<1>3. Moves(v) /\ (pc'[v] = "count" => RecordAttempt(v))
  BY OwnMoves
<1>4. QED
  BY <1>1, <1>2, <1>3

LEMMA LegacyGrows ==
  ASSUME IInv, NEW k \in Kinds, LegacyWrite(k)
  PROVE  /\ legacy["attempt"].there => legacy'["attempt"].there
         /\ IsPrefix(legacy["attempt"].recs, legacy'["attempt"].recs)
<1>1. Record(now, 0) \in Rec /\ \A j \in Kinds : legacy[j].recs \in Seq(Rec)
  BY DEF IInv, Types, Record, Rec, Files
<1>2. "attempt" \in Kinds
  BY DEF Kinds
<1>3. CASE k = "attempt"
  <2>1. /\ legacy'["attempt"].there
        /\ legacy'["attempt"].recs = Append(legacy["attempt"].recs, Record(now, 0))
    BY <1>2, <1>3 DEF LegacyWrite, IInv, Types
  <2>2. QED
    BY <1>1, <1>2, <2>1, PrefixOfAppend
<1>4. CASE k # "attempt"
  BY <1>1, <1>2, <1>4, PrefixOfItself DEF LegacyWrite, IInv, Types
<1>5. QED
  BY <1>3, <1>4

\* Every step keeps the origin of the lines.
LEMMA StepOrigin ==
  ASSUME IInv, IInv', Grows, Origin, [Next]_vars
  PROVE  Origin' /\ first' = first
<1>1. legacy["attempt"].recs \in Seq(Rec)
  BY LineTypes DEF IInv
<1>2. ASSUME NEW v \in Workers, Steps(v) PROVE Origin' /\ first' = first
  <2>1. UNCHANGED <<legacy, first>>
    BY <1>2 DEF Steps, Begin, Plan, Publish, Verify, Recheck, Check, RecordAttempt, Send,
                AnswerRefused, AnswerCharged, ledgers, env
  <2>2. sends' = sends \/ sends' = Append(sends, job[v].stamp)
    BY <1>2 DEF Steps, Begin, Plan, Publish, Verify, Recheck, Check, RecordAttempt, Send,
                AnswerRefused, AnswerCharged, money
  <2>3. sends' \in Seq(Nat)
    <3>1. job[v].stamp \in Nat /\ sends \in Seq(Nat)
      BY DEF Origin, IInv, Types, Jobs
    <3>2. QED
      BY <2>2, <3>1
  <2>4. \A w \in Workers : Moves(w)
    BY <1>2, AllMove
  <2>5. QED
    BY <1>1, <2>1, <2>3, <2>4, PrefixOfItself, OriginKeeps
<1>3. ASSUME UNCHANGED <<pc, job, first, sends>>,
             legacy["attempt"].there => legacy'["attempt"].there,
             IsPrefix(legacy["attempt"].recs, legacy'["attempt"].recs)
      PROVE  Origin' /\ first' = first
  <2>1. \A w \in Workers : Moves(w)
    BY <1>3 DEF Moves
  <2>2. QED
    BY <1>3, <2>1, OriginKeeps DEF Origin
<1>4. ASSUME NEW k \in Kinds, LegacyWrite(k) PROVE Origin' /\ first' = first
  BY <1>3, <1>4, LegacyGrows DEF LegacyWrite, money
<1>5. CASE Minute \/ UNCHANGED vars
  BY <1>1, <1>3, <1>5, PrefixOfItself DEF Minute, vars, ledgers, money
<1>6. QED
  BY <1>2, <1>4, <1>5 DEF Next, Steps

LEMMA StepCounting ==
  ASSUME IInv, IInv', Grows, Origin, Origin', Counting, first' = first, [Next]_vars
  PROVE  Counting'
<1>1. ASSUME NEW v \in Workers, Steps(v) PROVE Counting'
  <2>1. CASE Send(v)
    <3>1. CASE sends' = Append(sends, job[v].stamp) /\ Goto(v, "await") /\ UNCHANGED job
      BY <2>1, <3>1, SendCounts DEF Send, Goto, ledgers, env, Counting
    <3>2. CASE UNCHANGED sends /\ Refused(v, "attempts")
      <4>1. pc'[v] = "idle"
        BY <3>2 DEF Refused, Ends, IInv, Types
      <4>2. ~(RecordAttempt(v) /\ pc'[v] = "count")
        BY <4>1
      <4>3. Quiet
        BY <1>1, <3>2, <4>2, AllMove DEF Quiet
      <4>4. QED
        BY <4>3, QuietCounts
    <3>3. QED
      BY <2>1, <3>1, <3>2 DEF Send
  <2>2. CASE ~Send(v)
    <3>1. sends' = sends
      BY <1>1, <2>2 DEF Steps, Begin, Plan, Publish, Verify, Recheck, Check, RecordAttempt,
                        AnswerRefused, AnswerCharged, money
    <3>2. CASE RecordAttempt(v) /\ pc'[v] = "count"
      <4>1. /\ managed' = Appended("attempt", Record(job[v].stamp, 0)) /\ Goto(v, "count")
            /\ UNCHANGED job
        BY <3>2 DEF RecordAttempt, Refused, Ends, IInv, Types
      <4>2. QED
        BY <3>2, <4>1, RecordAttemptCounts
    <3>3. CASE ~(RecordAttempt(v) /\ pc'[v] = "count")
      <4>1. Quiet
        BY <1>1, <3>1, <3>3, AllMove DEF Quiet
      <4>2. QED
        BY <4>1, QuietCounts
    <3>4. QED
      BY <3>2, <3>3
  <2>3. QED
    BY <2>1, <2>2
<1>2. CASE Minute \/ UNCHANGED vars \/ \E k \in Kinds : LegacyWrite(k)
  <2>1. Quiet
    BY <1>2 DEF Quiet, Minute, LegacyWrite, vars, money
  <2>2. QED
    BY <2>1, QuietCounts
<1>3. QED
  BY <1>1, <1>2 DEF Next, Steps

\* What goes out is within a limit that was counted, and what did not go out disturbs none.
LEMMA SendWithin ==
  ASSUME IInv, Origin, Counting, first' = first, NEW w \in Workers, pc[w] = "count",
         sends' = Append(sends, job[w].stamp), pc' = [pc EXCEPT ![w] = "await"],
         UNCHANGED <<job, managed>>, NEW D \in SUBSET Nat, NEW limit \in Nat,
         Within(D, limit), job[w].stamp \in D => Attempts(D) <= limit
  PROVE  Within(D, limit)'
<1>1. /\ job[w].stamp \notin D => SentIn(D)' = SentIn(D)
      /\ job[w].stamp \in D => Cardinality(SentIn(D)') <= Cardinality(Added(D))
  BY SendCounts
<1>2. Sent(D) = Cardinality(SentIn(D)) /\ Sent(D)' = Cardinality(SentIn(D)')
  BY DEF Sent, SentIn
<1>3. Before(D)' = Before(D)
  BY DEF Before
<1>4. CASE job[w].stamp \notin D
  BY <1>1, <1>2, <1>3, <1>4 DEF Within
<1>5. CASE job[w].stamp \in D
  <2>1. Attempts(D) = Before(D) + Cardinality(Added(D)) /\ Before(D) \in Nat
    BY CountedLines DEF Origin, Later
  <2>2. Cardinality(Added(D)) \in Nat /\ Countable(D)
    BY FiniteCounts DEF IInv, Countable
  <2>3. Cardinality(SentIn(D)') \in Nat
    <3>1. sends' \in Seq(Nat)
      BY DEF IInv, Types, Jobs, Origin
    <3>2. DOMAIN sends' = 1 .. Len(sends') /\ Len(sends') \in Int
      BY <3>1
    <3>3. IsFiniteSet(DOMAIN sends') /\ SentIn(D)' \in SUBSET DOMAIN sends'
      BY <3>2, FS_Interval DEF SentIn
    <3>4. QED
      BY <3>3, FS_Subset, FS_CardinalityType
  <2>4. QED
    BY <1>1, <1>2, <1>3, <1>5, <2>1, <2>2, <2>3 DEF Within
<1>6. QED
  BY <1>4, <1>5

LEMMA StepLimits ==
  ASSUME IInv, Origin, Counting, SendsWithinLimits, first' = first, [Next]_vars
  PROVE  SendsWithinLimits'
<1>1. CASE sends' = sends
  BY <1>1 DEF SendsWithinLimits, Within, Sent, Before
<1>2. ASSUME NEW w \in Workers, Send(w), sends' # sends PROVE SendsWithinLimits'
  <2> DEFINE stamp == job[w].stamp
  <2>1. /\ pc[w] = "count" /\ ~OverLimit(w) /\ sends' = Append(sends, stamp)
        /\ pc' = [pc EXCEPT ![w] = "await"] /\ UNCHANGED <<job, managed>>
    BY <1>2 DEF Send, Goto, ledgers
  <2>2. stamp \in Nat /\ DayLimit \in Nat /\ MinuteLimit \in Nat
    BY LaneConstants DEF IInv, Types, Jobs
  <2>3. \A D \in SUBSET Nat : Attempts(D) \in Nat
    <3>1. \A D \in SUBSET Nat : Countable(D)
      BY FiniteCounts DEF IInv
    <3>2. IsPrefix(Older, Lines)
      BY <2>1 DEF Origin, Later
    <3>3. QED
      BY <3>1, <3>2, CountedLines DEF Countable
  <2>4. /\ Attempts(DayOf(Day(stamp))) <= DayLimit
        /\ Attempts({stamp}) <= MinuteLimit
    <3>1. DayOf(Day(stamp)) \in SUBSET Nat /\ {stamp} \in SUBSET Nat
      BY <2>2 DEF DayOf
    <3>2. QED
      BY <2>1, <2>2, <2>3, <3>1 DEF OverLimit
  <2>5. ASSUME NEW d \in Days PROVE Within(DayOf(d), DayLimit)'
    <3>1. DayOf(d) \in SUBSET Nat /\ (stamp \in DayOf(d) => d = Day(stamp))
      BY DEF DayOf
    <3>2. Within(DayOf(d), DayLimit)
      BY DEF SendsWithinLimits
    <3>3. stamp \in DayOf(d) => Attempts(DayOf(d)) <= DayLimit
      BY <2>4, <3>1
    <3>4. QED
      BY <2>1, <2>2, <3>1, <3>2, <3>3, SendWithin
  <2>6. ASSUME NEW t \in 0 .. MaxNow PROVE Within({t}, MinuteLimit)'
    <3>1. {t} \in SUBSET Nat
      BY LaneConstants
    <3>2. Within({t}, MinuteLimit)
      BY DEF SendsWithinLimits
    <3>3. stamp \in {t} => Attempts({t}) <= MinuteLimit
      BY <2>4
    <3>4. QED
      BY <2>1, <2>2, <3>1, <3>2, <3>3, SendWithin
  <2>7. QED
    BY <2>5, <2>6 DEF SendsWithinLimits
<1>3. sends' = sends \/ \E w \in Workers : Send(w)
  BY DEF Next, Begin, Plan, Publish, Verify, Recheck, Check, RecordAttempt, AnswerRefused,
         AnswerCharged, Minute, LegacyWrite, money, vars
<1>4. QED
  BY <1>1, <1>2, <1>3

LEMMA InitLimits == Init => Origin /\ Counting /\ SendsWithinLimits
<1> SUFFICES ASSUME Init PROVE Origin /\ Counting /\ SendsWithinLimits
  OBVIOUS
<1>1. Types
  BY InitIInv DEF IInv
<1>2. Origin
  <2>1. first = legacy /\ legacy["attempt"] \in Legacy /\ legacy \in [Kinds -> Files]
    BY LaneConstants DEF Init, Kinds
  <2>2. ~first["attempt"].there => Older = <<>>
    BY <2>1, LaneConstants DEF Older
  <2>3. Older \in Seq(Rec)
    BY <2>1 DEF Files, Rec, Older, Kinds
  <2>4. Retained(legacy["attempt"])
    BY <2>1, <2>3, PrefixOfItself DEF Retained, Older
  <2>5. sends \in Seq(Nat) /\ \A w \in Workers : pc[w] = "idle"
    BY DEF Init
  <2>6. QED
    BY <2>1, <2>2, <2>4, <2>5 DEF Origin, Migrating, Later
<1>3. \A D : SentIn(D) = {} /\ Waiting(D) = {}
  BY DEF Init, SentIn, Waiting
<1>4. Counting
  <2>1. ASSUME NEW D \in SUBSET Nat
        PROVE  Cardinality(SentIn(D)) + Cardinality(Waiting(D)) <= Cardinality(Added(D))
    <3>1. Cardinality(SentIn(D)) = 0 /\ Cardinality(Waiting(D)) = 0
      BY <1>3, FS_EmptySet
    <3>2. Countable(D)
      BY <1>1, <1>2, FiniteCounts
    <3>3. QED
      BY <3>1, <3>2 DEF Countable
  <2>2. QED
    BY <2>1 DEF Counting
<1>5. SendsWithinLimits
  <2>1. \A D : Sent(D) = 0
    BY <1>3, FS_EmptySet DEF Sent, SentIn
  <2>2. QED
    BY <2>1 DEF SendsWithinLimits, Within
<1>6. QED
  BY <1>2, <1>4, <1>5

\* The requests of a day and of a minute stay within the limits, whatever workers overtake
\* one another, for any older lines, any limits and any legacy writes: each has appended its
\* attempt, over a migrated ledger, before it counts.
THEOREM WithinLimits == Spec => []SendsWithinLimits
<1> DEFINE Inv == IInv /\ Origin /\ Counting /\ SendsWithinLimits
<1>1. Init => Inv
  BY InitIInv, InitLimits
<1>2. Inv /\ [Next]_vars => Inv'
  BY StepIInv, StepOrigin, StepCounting, StepLimits
<1>3. Inv => SendsWithinLimits
  OBVIOUS
<1> HIDE DEF Inv
<1>4. QED
  BY <1>1, <1>2, <1>3, PTL DEF Spec
=============================================================================
