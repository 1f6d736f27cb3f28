------------------------ MODULE BrainstormGroupProofs ------------------------
(***************************************************************************)
(* Proofs about the brainstorm for any number of providers, any requests   *)
(* of the operator, and deaths and throwing writes between any two writes. *)
(***************************************************************************)
EXTENDS BrainstormGroup, WellFoundedInduction, TLAPS

EnsureNames == {"create", "approval", "decide", "approve", "claim", "bind", "enqueue", "queue",
                "slot"}
Between == {"fanout_running", "consolidating", "needs_arbitration", "arbitrating"}
OwnNames == EnsureNames \cup {"cancel_run"}
WholeNames == {"pending", "group", "reserved", "release"} \cup Between \cup Terminal
Steps == (OwnNames \X Slots) \cup (WholeNames \X {0})
Ops == {"none", "approve", "arbitrate", "cancel", "cancel_run", "tick"}

\* The steps of ensureGroupRun on one slot.
Pairs == {<<"create", "approval">>, <<"approval", "decide">>, <<"decide", "approve">>,
          <<"approve", "claim">>, <<"claim", "bind">>, <<"bind", "enqueue">>,
          <<"enqueue", "queue">>, <<"queue", "slot">>}

Follows(e, f) ==
  \/ e[1] = "pending" /\ f[1] = "group"
  \/ e[1] = "group" /\ f[1] = "reserved"
  \/ e[1] \in {"reserved", "slot"} /\ f[1] \in {"create"} \cup Between
  \/ <<e[1], f[1]>> \in Pairs /\ f[2] = e[2]
  \/ e[1] \in Terminal /\ f = <<"cancel_run", 1>>
  \/ e[1] = "cancel_run" /\ e[2] < Arbitration /\ f = <<"cancel_run", e[2] + 1>>
  \/ e[1] = "cancel_run" /\ e[2] = Arbitration /\ f[1] = "release"

Later(e, f) ==
  /\ e[1] \in Terminal \cup {"cancel_run", "release"} => f[1] \in {"cancel_run", "release"}
  /\ f[1] # "pending"

\* Where a handler may be through.
Ends == Between \cup {"release", "slot", "cancelled"}

Chain(t) ==
  /\ \A i \in 1 .. Len(t) - 1 : Follows(t[i], t[i + 1])
  /\ \A i \in 1 .. Len(t), j \in 1 .. Len(t) : i < j => Later(t[i], t[j])
  /\ Len(t) # 0 => t[Len(t)][1] \in Ends

Handler ==
  /\ pc.op = "cancel_run" => Len(pc.todo) = 1 /\ Doing("cancel_run")
  /\ pc.op # "cancel_run" => Chain(pc.todo)

Conflict == Done(Consolidation) /\ run[Consolidation].text = "conflict" /\ rec.arbiter
Disputed == Done(Consolidation) /\ Material(run[Consolidation].text) /\ rec.arbiter
Agreed ==
  /\ Done(Consolidation)
  /\ \/ run[Consolidation].text = "clean"
     \/ Done(Arbitration) /\ run[Arbitration].text = "clean"
Stage(s) == (s = Consolidation => FanoutDone) /\ (s = Arbitration => Conflict)
Reserved == \A s \in Mine : gw[s] # "none"

\* What every step that is still to be done relies on.
Fits(e) ==
  /\ e[1] \in EnsureNames => Stage(e[2])
  /\ e[1] \in EnsureNames \cup Between \cup {"pending", "group", "reserved", "failed", "completed"}
       => rec.status \notin Terminal
  /\ e[1] = "needs_arbitration" => Disputed
  /\ e[1] = "completed" => Agreed
  /\ e[1] = "cancelled" => rec.status \notin {"completed", "failed"}

Todo == \A i \in 1 .. Len(pc.todo) : Fits(pc.todo[i])

\* What the next step relies on.
Ready(e) ==
  /\ e[1] = "pending" => rec.approval = "none"
  /\ e[1] \in (WholeNames \cup OwnNames) \ {"pending", "cancelled"} => rec.approval # "none"
  /\ e[1] = "reserved" => Reserved
  /\ e[1] \in EnsureNames \cup Between \cup {"completed"} => rec.approval = "reserved"
  /\ e[1] \in {"approval", "decide"} => run[e[2]].status # "absent"
  /\ e[1] = "approve" => run[e[2]].status \in {"draft", "approved"}
  /\ e[1] \in {"claim", "bind", "enqueue", "queue"} => run[e[2]].status = "approved"
  /\ e[1] = "bind" => /\ gw[e[2]] \in {"claimed", "released", "settled"}
                      /\ run[e[2]].bound \/ gw[e[2]] = "claimed"
  /\ e[1] \in {"enqueue", "queue"} => run[e[2]].bound
  /\ e[1] = "queue" => run[e[2]].task # "none"
  /\ e[1] = "slot" => run[e[2]].status = "queued"

H == Head(pc.todo)
NextUp ==
  /\ ~Idle => Ready(H)
  /\ Doing("cancelled") => (Len(pc.todo) = 1 <=> rec.approval = "none")

Sound(s) ==
  /\ run[s].status = "absent" => run[s] = Absent /\ gw[s] \in {"none", "held", "unused"}
  /\ run[s].status = "draft" => ~run[s].bound
  /\ run[s].status \in {"queued", "running"} => run[s].bound /\ run[s].task # "none"
  /\ run[s].bound => gw[s] \in {"claimed", "released", "settled"}
  /\ ~run[s].bound /\ run[s].status \notin Terminal => gw[s] \notin {"released", "settled"}
  /\ run[s].bound /\ ~run[s].cancel /\ run[s].status \in {"approved", "queued"} => gw[s] = "claimed"
  /\ run[s].status = "running" /\ s \in rec.slots => gw[s] = "claimed"
  /\ gw[s] = "unused" => rec.status \in Terminal
  /\ Done(s) => run[s].text \in Texts(s)

Group ==
  /\ rec.approval = "none" => /\ rec.status \in {"draft", "cancelled"}
                              /\ \A s \in Slots : run[s] = Absent /\ gw[s] = "none"
  /\ rec.status \in Between \cup {"completed"} => rec.approval = "reserved"
  /\ rec.approval = "reserved" => Reserved
  /\ rec.status = "needs_arbitration" => Disputed
  /\ rec.status = "completed" => Agreed
  /\ run[Consolidation].status # "absent" => FanoutDone
  /\ run[Arbitration].status # "absent" => Conflict

Over(s) ==
  \/ run[s].status \in Terminal \cup {"absent"}
  \/ run[s].status = "running" /\ run[s].cancel
Left(s) ==
  \/ run[s].status = "running" /\ run[s].cancel
  \/ run[s].status \in Terminal \cup {"absent"} /\ gw[s] \notin {"held", "claimed"}

Cleaning ==
  /\ pc.op # "cancel_run" /\ Doing("cancel_run") =>
       rec.status \in Terminal /\ \A t \in Slots : t < Slot => Over(t)
  /\ Doing("release") => rec.status \in Terminal /\ \A t \in Slots : Over(t)
  /\ faults = 0 /\ rec.status \in Terminal /\ (Idle \/ pc.op = "cancel_run") => \A s \in Slots : Left(s)
  /\ faults = 0 => \A s \in Slots : run[s].bound /\ run[s].task = "none" =>
       Doing("enqueue") /\ Slot = s

Types ==
  /\ rec \in [status : Statuses, approval : {"none", "pending", "reserved"},
              slots : SUBSET Slots, arbiter : BOOLEAN]
  /\ run \in [Slots -> RunState]
  /\ gw \in [Slots -> {"none", "held", "claimed", "unused", "released", "settled"}]
  /\ pc \in [op : Ops, todo : Seq(Steps)]
  /\ turn \in {"supervisor", "tick"} /\ flight \in 0 .. Arbitration
  /\ requests \in 0 .. MaxRequests /\ faults \in 0 .. MaxFaults

IInv ==
  /\ Types /\ Handler /\ Todo /\ NextUp
  /\ (\A s \in Slots : Sound(s)) /\ Group /\ Cleaning

-----------------------------------------------------------------------------
(* Slots and steps *)

LEMMA SlotNumbers ==
  /\ Arbitration \in Nat /\ Consolidation \in Nat /\ NRoutes \in Nat
  /\ Arbitration \in Slots /\ Consolidation \in Slots /\ Fanout \subseteq Slots
  /\ Arbitration # Consolidation /\ Arbitration \notin Fanout /\ Consolidation \notin Fanout
  /\ 1 \in Slots /\ 0 \notin Slots
  /\ \A s \in Slots : s \in Nat /\ s <= Arbitration
BY BrainstormConstants DEF Arbitration, Consolidation, Slots, Fanout

LEMMA StepNames ==
  /\ OwnNames \cap WholeNames = {}
  /\ \A e \in Steps : e = <<e[1], e[2]>> /\ e[1] \in OwnNames \cup WholeNames
  /\ \A e \in Steps : e[1] \in OwnNames => e[2] \in Slots
  /\ \A e \in Steps : e[1] \in WholeNames => e[2] = 0
<1>1. OwnNames \cap WholeNames = {}
  BY DEF OwnNames, WholeNames, EnsureNames, Between, Terminal
<1>2. QED
  BY <1>1 DEF Steps

LEMMA FirstFound ==
  ASSUME NEW S \in SUBSET Slots
  PROVE  IF S = {} THEN FirstIn(S) = 0 ELSE FirstIn(S) \in S
<1>1. CASE S = {}
  BY <1>1 DEF FirstIn
<1>2. CASE S # {}
  <2>1. S \subseteq Nat
    BY SlotNumbers
  <2>2. \E s \in S : \A t \in S : s <= t
    <3>1. PICK s \in S : \A t \in S : ~(<<t, s>> \in OpToRel(<, Nat))
      BY <1>2, <2>1, NatLessThanWellFounded, WFMin
    <3>2. \A t \in S : ~(t < s)
      BY <2>1, <3>1 DEF OpToRel
    <3>3. QED
      BY <2>1, <3>2
  <2>3. QED
    BY <1>2, <2>2 DEF FirstIn
<1>3. QED
  BY <1>1, <1>2

LEMMA TailOf ==
  ASSUME NEW S, NEW t \in Seq(S), t # <<>>
  PROVE  /\ Len(t) \in Nat \ {0} /\ Head(t) = t[1] /\ Head(t) \in S
         /\ Tail(t) \in Seq(S) /\ Len(Tail(t)) = Len(t) - 1
         /\ \A i \in 1 .. Len(t) - 1 : Tail(t)[i] = t[i + 1]
         /\ \A i \in 1 .. Len(t) : t[i] \in S
         /\ Tail(t) = <<>> <=> Len(t) = 1
<1>1. Len(t) \in Nat \ {0} /\ Head(t) = t[1] /\ \A i \in 1 .. Len(t) : t[i] \in S
  OBVIOUS
<1>2. Tail(t) \in Seq(S) /\ Len(Tail(t)) = Len(t) - 1
  OBVIOUS
<1>3. \A i \in 1 .. Len(t) - 1 : Tail(t)[i] = t[i + 1]
  OBVIOUS
<1>4. Tail(t) = <<>> <=> Len(Tail(t)) = 0
  <2>1. PICK u \in Seq(S) : u = Tail(t)
    BY <1>2
  <2>2. u = <<>> <=> Len(u) = 0
    OBVIOUS
  <2>3. QED
    BY <2>1, <2>2
<1>5. QED
  BY <1>1, <1>2, <1>3, <1>4

-----------------------------------------------------------------------------
(* The programs of the handlers *)

Program(t) == t \in Seq(Steps) /\ Chain(t)

LEMMA One ==
  ASSUME NEW e \in Steps, e[1] \in Ends
  PROVE  Program(<<e>>) /\ <<e>> # <<>> /\ Len(<<e>>) = 1 /\ <<e>>[1] = e
<1>1. Len(<<e>>) = 1 /\ <<e>>[1] = e /\ <<e>> \in Seq(Steps)
  OBVIOUS
<1>2. QED
  BY <1>1 DEF Program, Chain

\* One step before a program.
LEMMA Before ==
  ASSUME NEW e \in Steps, NEW t \in Seq(Steps), Chain(t), t # <<>>, Follows(e, t[1]),
         \A i \in 1 .. Len(t) : Later(e, t[i])
  PROVE  LET u == <<e>> \o t
         IN  /\ Program(u) /\ Len(u) = Len(t) + 1 /\ u[1] = e
             /\ \A i \in 1 .. Len(t) : u[i + 1] = t[i]
<1> DEFINE u == <<e>> \o t
<1>1. u \in Seq(Steps) /\ Len(u) = Len(t) + 1 /\ u[1] = e
  OBVIOUS
<1>2. \A i \in 2 .. Len(t) + 1 : u[i] = t[i - 1]
  OBVIOUS
<1>3. Len(t) \in Nat \ {0}
  OBVIOUS
<1> HIDE DEF u
<1>4. ASSUME NEW i \in 1 .. Len(u) - 1 PROVE Follows(u[i], u[i + 1])
  <2>1. CASE i = 1
    <3>1. u[i + 1] = t[1]
      BY <1>2, <1>3, <2>1
    <3>2. QED
      BY <1>1, <2>1, <3>1
  <2>2. CASE i # 1
    <3>1. i \in Nat /\ i - 1 \in 1 .. Len(t) - 1 /\ u[i] = t[i - 1] /\ u[i + 1] = t[i]
      BY <1>1, <1>2, <1>3, <2>2
    <3>2. Follows(t[i - 1], t[(i - 1) + 1])
      BY <3>1 DEF Chain
    <3>3. (i - 1) + 1 = i
      BY <3>1
    <3>4. QED
      BY <3>1, <3>2, <3>3
  <2>3. QED
    BY <2>1, <2>2
<1>5. ASSUME NEW i \in 1 .. Len(u), NEW j \in 1 .. Len(u), i < j PROVE Later(u[i], u[j])
  <2>1. j - 1 \in 1 .. Len(t) /\ u[j] = t[j - 1]
    BY <1>1, <1>2, <1>3, <1>5
  <2>2. CASE i = 1
    BY <1>1, <2>1, <2>2
  <2>3. CASE i # 1
    <3>1. i - 1 \in 1 .. Len(t) /\ i - 1 < j - 1 /\ u[i] = t[i - 1]
      BY <1>1, <1>2, <1>3, <1>5, <2>3
    <3>2. QED
      BY <2>1, <3>1 DEF Chain
  <2>4. QED
    BY <2>2, <2>3
<1>6. u[Len(u)] = t[Len(t)]
  BY <1>1, <1>2, <1>3
<1>7. Chain(u)
  BY <1>1, <1>3, <1>4, <1>5, <1>6 DEF Chain
<1>8. \A i \in 1 .. Len(t) : u[i + 1] = t[i]
  BY <1>2, <1>3
<1>9. QED
  BY <1>1, <1>7, <1>8 DEF Program, u

LEMMA NoSteps == Program(<<>>)
<1>1. <<>> \in Seq(Steps)
  OBVIOUS
<1>2. PICK t \in Seq(Steps) : t = <<>>
  BY <1>1
<1>3. Len(t) = 0
  BY <1>2
<1>4. Chain(t)
  BY <1>3 DEF Chain
<1>5. QED
  BY <1>2, <1>4 DEF Program

LEMMA EnsureNumbers ==
  /\ Len(EnsureSteps) = 9
  /\ \A r \in 0 .. 8 : EnsureSteps[r + 1] \in EnsureNames
  /\ \A r \in 0 .. 7 : <<EnsureSteps[r + 1], EnsureSteps[r + 2]>> \in Pairs
  /\ EnsureSteps[1] = "create" /\ EnsureSteps[9] = "slot"
<1>1. Len(EnsureSteps) = 9 /\ EnsureSteps[1] = "create" /\ EnsureSteps[9] = "slot"
  BY DEF EnsureSteps
<1>2. ASSUME NEW r \in 0 .. 8 PROVE EnsureSteps[r + 1] \in EnsureNames
  <2>1. r = 0 \/ r = 1 \/ r = 2 \/ r = 3 \/ r = 4 \/ r = 5 \/ r = 6 \/ r = 7 \/ r = 8
    OBVIOUS
  <2>2. QED
    BY <2>1 DEF EnsureSteps, EnsureNames
<1>3. ASSUME NEW r \in 0 .. 7 PROVE <<EnsureSteps[r + 1], EnsureSteps[r + 2]>> \in Pairs
  <2>1. r = 0 \/ r = 1 \/ r = 2 \/ r = 3 \/ r = 4 \/ r = 5 \/ r = 6 \/ r = 7
    OBVIOUS
  <2>2. QED
    BY <2>1 DEF EnsureSteps, Pairs
<1>4. QED
  BY <1>1, <1>2, <1>3

LEMMA Nines ==
  ASSUME NEW n \in Nat, NEW i \in 1 .. 9 * n
  PROVE  /\ (i - 1) % 9 \in 0 .. 8 /\ (i - 1) \div 9 \in 0 .. n - 1
         /\ (i - 1) % 9 < 8 => /\ i % 9 = ((i - 1) % 9) + 1 /\ i \div 9 = (i - 1) \div 9
                               /\ (i - 1) % 9 \in 0 .. 7 /\ i # 9 * n
         /\ (i - 1) % 9 = 8 => i % 9 = 0
         /\ (i + 1) - 1 = i /\ (i # 9 * n => i + 1 \in 1 .. 9 * n)
<1>1. (i - 1) % 9 \in 0 .. 8 /\ (i - 1) \div 9 \in 0 .. n - 1
  OBVIOUS
<1>2. CASE (i - 1) % 9 < 8
  <2>1. i % 9 = ((i - 1) % 9) + 1
    BY <1>2
  <2>2. i \div 9 = (i - 1) \div 9
    BY <1>2
  <2>3. (i - 1) % 9 \in 0 .. 7
    BY <1>1, <1>2
  <2>4. i # 9 * n
    BY <1>2
  <2>5. QED
    BY <1>1, <1>2, <2>1, <2>2, <2>3, <2>4
<1>3. CASE (i - 1) % 9 = 8
  <2>1. i % 9 = 0
    BY <1>3
  <2>2. QED
    BY <1>1, <1>3, <2>1
<1>4. QED
  BY <1>1, <1>2, <1>3

\* The steps of ensureGroupRun on n slots, and the record's new status after them.
LEMMA EnsureChain ==
  ASSUME NEW first \in Nat, NEW n \in Nat, n # 0, \A i \in 0 .. n - 1 : first + i \in Slots,
         NEW status \in Between, NEW u \in Seq(Steps), Len(u) = 9 * n + 1,
         u[9 * n + 1] = <<status, 0>>,
         \A i \in 1 .. 9 * n :
           u[i] = <<EnsureSteps[((i - 1) % 9) + 1], first + ((i - 1) \div 9)>>
  PROVE  /\ Chain(u) /\ u # <<>> /\ u[1] = <<"create", first>>
         /\ \A i \in 1 .. Len(u) :
              \/ u[i] = <<status, 0>>
              \/ u[i][1] \in EnsureNames /\ \E k \in 0 .. n - 1 : u[i][2] = first + k
<1> DEFINE e(i) == <<EnsureSteps[((i - 1) % 9) + 1], first + ((i - 1) \div 9)>>
<1>1. \A i \in 1 .. 9 * n : u[i] = e(i)
  OBVIOUS
<1>2. \A i \in 1 .. 9 * n : (i - 1) % 9 \in 0 .. 8 /\ (i - 1) \div 9 \in 0 .. n - 1
  OBVIOUS
<1>3. \A i \in 1 .. 9 * n : e(i) \in EnsureNames \X Slots
  BY <1>2, EnsureNumbers
<1>5. 9 * n \in Nat \ {0}
  OBVIOUS
<1> HIDE DEF e
<1>10. Len(u) = 9 * n + 1 /\ u[9 * n + 1] = <<status, 0>> /\ \A i \in 1 .. 9 * n : u[i] = e(i)
  BY <1>1
<1>11. ASSUME NEW i \in 1 .. Len(u) - 1 PROVE Follows(u[i], u[i + 1])
  <2>1. u[i] = e(i) /\ i \in 1 .. 9 * n
    BY <1>5, <1>10
  <2>2. CASE (i - 1) % 9 < 8
    <3>1. i % 9 = ((i - 1) % 9) + 1 /\ i \div 9 = (i - 1) \div 9 /\ (i - 1) % 9 \in 0 .. 7
      BY <2>1, <2>2, Nines
    <3>2. i # 9 * n
      BY <2>1, <2>2, Nines
    <3>3. u[i + 1] = e(i + 1) /\ (i + 1) - 1 = i
      BY <1>10, <2>1, <3>2
    <3>4. /\ e(i)[1] = EnsureSteps[((i - 1) % 9) + 1] /\ e(i + 1)[1] = EnsureSteps[((i - 1) % 9) + 2]
          /\ e(i)[2] = e(i + 1)[2]
      BY <3>1, <3>3 DEF e
    <3>5. QED
      BY <2>1, <3>1, <3>3, <3>4, EnsureNumbers DEF Follows
  <2>3. CASE ~((i - 1) % 9 < 8)
    <3>1. (i - 1) % 9 = 8
      BY <1>2, <2>1, <2>3
    <3>2. e(i)[1] = "slot"
      BY <3>1, EnsureNumbers DEF e
    <3>3. CASE i = 9 * n
      BY <1>10, <2>1, <3>2, <3>3 DEF Follows
    <3>4. CASE i # 9 * n
      <4>1. i % 9 = 0 /\ (i + 1) - 1 = i
        BY <2>1, <3>1, Nines
      <4>2. i + 1 \in 1 .. 9 * n
        BY <2>1, <3>4, Nines
      <4>3. u[i + 1] = e(i + 1)
        BY <1>10, <4>2
      <4>4. e(i + 1)[1] = "create"
        BY <4>1, EnsureNumbers DEF e
      <4>5. QED
        BY <2>1, <3>2, <4>3, <4>4 DEF Follows
    <3>5. QED
      BY <3>3, <3>4
  <2>4. QED
    BY <2>2, <2>3
<1>12. ASSUME NEW i \in 1 .. Len(u)
       PROVE  \/ u[i] = <<status, 0>>
              \/ u[i][1] \in EnsureNames /\ \E k \in 0 .. n - 1 : u[i][2] = first + k
  <2>1. CASE i = 9 * n + 1
    BY <1>10, <2>1
  <2>2. CASE i # 9 * n + 1
    <3>1. i \in 1 .. 9 * n /\ u[i] = e(i)
      BY <1>10, <2>2
    <3>2. e(i)[1] \in EnsureNames
      BY <1>3, <3>1
    <3>3. e(i)[2] = first + ((i - 1) \div 9)
      BY DEF e
    <3>4. QED
      BY <1>2, <3>1, <3>2, <3>3
  <2>3. QED
    BY <2>1, <2>2
<1>13. ASSUME NEW i \in 1 .. Len(u) PROVE u[i][1] \in EnsureNames \cup Between
  BY <1>12
<1>14. ASSUME NEW i \in 1 .. Len(u), NEW j \in 1 .. Len(u), i < j PROVE Later(u[i], u[j])
  <2>1. u[i][1] \in EnsureNames \cup Between /\ u[j][1] \in EnsureNames \cup Between
    BY <1>13
  <2>2. QED
    BY <2>1 DEF Later, EnsureNames, Between, Terminal
<1>15. u[Len(u)][1] \in Ends
  BY <1>10 DEF Ends
<1>16. Chain(u)
  BY <1>11, <1>14, <1>15 DEF Chain
<1>17. u # <<>> /\ u[1] = <<"create", first>>
  <2>1. e(1) = <<"create", first>>
    BY EnsureNumbers DEF e
  <2>2. QED
    BY <1>5, <1>10, <2>1
<1>18. QED
  BY <1>12, <1>16, <1>17

\* A slot for every n of them, from the first on.
Spans(first, n) == n # 0 /\ \A i \in 0 .. n - 1 : first + i \in Slots
Ensured(first, n, status, u) ==
  /\ Program(u) /\ u # <<>> /\ u[1] = <<"create", first>>
  /\ \A i \in 1 .. Len(u) :
       \/ u[i] = <<status, 0>>
       \/ u[i][1] \in EnsureNames /\ \E k \in 0 .. n - 1 : u[i][2] = first + k

LEMMA EnsureProgram ==
  ASSUME NEW first \in Nat, NEW n \in Nat, NEW status \in Between, Spans(first, n)
  PROVE  Ensured(first, n, status, EnsureRuns(first, n) \o << <<status, 0>> >>)
<1>a. n # 0 /\ \A i \in 0 .. n - 1 : first + i \in Slots
  BY DEF Spans
<1>b. PICK u : u = EnsureRuns(first, n) \o << <<status, 0>> >>
  OBVIOUS
<1> DEFINE e(i) == <<EnsureSteps[((i - 1) % 9) + 1], first + ((i - 1) \div 9)>>
<1>1. EnsureRuns(first, n) = [i \in 1 .. 9 * n |-> e(i)]
  BY EnsureNumbers DEF EnsureRuns
<1>2. \A i \in 1 .. 9 * n : (i - 1) % 9 \in 0 .. 8 /\ (i - 1) \div 9 \in 0 .. n - 1
  BY Nines
<1>3. \A i \in 1 .. 9 * n : e(i) \in EnsureNames \X Slots
  BY <1>a, <1>2, EnsureNumbers
<1>4. EnsureNames \X Slots \subseteq Steps /\ <<status, 0>> \in Steps
  BY DEF Steps, OwnNames, WholeNames
<1>5. 9 * n \in Nat \ {0}
  BY <1>a
<1> HIDE DEF e
<1>6. [i \in 1 .. 9 * n |-> e(i)] \in Seq(Steps) /\ Len([i \in 1 .. 9 * n |-> e(i)]) = 9 * n
  BY <1>3, <1>4, <1>5
<1>7. PICK r \in Seq(Steps) : r = [i \in 1 .. 9 * n |-> e(i)]
  BY <1>6
<1>8. Len(r) = 9 * n /\ \A i \in 1 .. 9 * n : r[i] = e(i)
  BY <1>5, <1>6, <1>7
<1>9. PICK end \in Steps : end = <<status, 0>>
  BY <1>4
<1>10. u = r \o <<end>>
  BY <1>1, <1>7, <1>9, <1>b
<1>11. PICK v \in Seq(Steps) : v = r \o <<end>>
  <2>1. r \o <<end>> \in Seq(Steps)
    OBVIOUS
  <2>2. QED
    BY <2>1
<1>12. Len(v) = Len(r) + 1 /\ v[Len(r) + 1] = end /\ \A i \in 1 .. Len(r) : v[i] = r[i]
  BY <1>11
<1>13. /\ Len(v) = 9 * n + 1 /\ v[9 * n + 1] = <<status, 0>>
       /\ \A i \in 1 .. 9 * n : v[i] = e(i)
  BY <1>8, <1>9, <1>12
<1>14. /\ Chain(v) /\ v # <<>> /\ v[1] = <<"create", first>>
       /\ \A i \in 1 .. Len(v) :
            \/ v[i] = <<status, 0>>
            \/ v[i][1] \in EnsureNames /\ \E k \in 0 .. n - 1 : v[i][2] = first + k
  <2>1. \A i \in 1 .. 9 * n :
          v[i] = <<EnsureSteps[((i - 1) % 9) + 1], first + ((i - 1) \div 9)>>
    BY <1>13 DEF e
  <2>2. QED
    BY <1>a, <1>13, <2>1, EnsureChain, ZenonT(60)
<1>15. u = v
  BY <1>10, <1>11
<1>16. QED
  BY <1>14, <1>15, <1>b DEF Program, Ensured

LEMMA CleanupProgram ==
  /\ Program(Cleanup) /\ Cleanup # <<>> /\ Cleanup[1] = <<"cancel_run", 1>>
  /\ \A i \in 1 .. Len(Cleanup) : Cleanup[i][1] \in {"cancel_run", "release"}
<1> DEFINE e(i) == <<"cancel_run", i>>
           last == <<"release", 0>>
<1>1. Cleanup = [s \in 1 .. Arbitration |-> e(s)] \o << last >>
  BY DEF Cleanup, Slots
<1>2. last \in Steps /\ \A s \in 1 .. Arbitration : e(s) \in Steps
  BY DEF Steps, OwnNames, WholeNames, Slots
<1>3. Arbitration \in Nat \ {0}
  BY BrainstormConstants DEF Arbitration
<1> HIDE DEF e, last
<1>4. [s \in 1 .. Arbitration |-> e(s)] \in Seq(Steps) /\ Len([s \in 1 .. Arbitration |-> e(s)]) = Arbitration
  BY <1>2, <1>3
<1>5. PICK r \in Seq(Steps) : r = [s \in 1 .. Arbitration |-> e(s)]
  BY <1>4
<1>6. Len(r) = Arbitration /\ \A i \in 1 .. Arbitration : r[i] = e(i)
  BY <1>4, <1>5
<1>7. PICK u : u = Cleanup
  OBVIOUS
<1>8. /\ u \in Seq(Steps) /\ Len(u) = Arbitration + 1 /\ u[Arbitration + 1] = last
      /\ \A i \in 1 .. Arbitration : u[i] = e(i)
  BY <1>1, <1>2, <1>3, <1>5, <1>6, <1>7
<1>9. /\ last[1] = "release"
      /\ \A i \in 1 .. Arbitration : e(i)[1] = "cancel_run" /\ e(i)[2] = i /\ e(i) = <<"cancel_run", i>>
  BY DEF e, last
<1>10. ASSUME NEW i \in 1 .. Len(u) - 1 PROVE Follows(u[i], u[i + 1])
  <2>1. i \in 1 .. Arbitration /\ u[i] = e(i)
    BY <1>3, <1>8
  <2>2. CASE i = Arbitration
    BY <1>8, <1>9, <2>1, <2>2 DEF Follows
  <2>3. CASE i # Arbitration
    <3>1. i < Arbitration /\ i + 1 \in 1 .. Arbitration
      BY <1>3, <2>1, <2>3
    <3>2. u[i + 1] = e(i + 1)
      BY <1>8, <3>1
    <3>3. u[i + 1] = <<"cancel_run", i + 1>>
      BY <1>9, <3>1, <3>2
    <3>4. QED
      BY <1>9, <2>1, <3>1, <3>3 DEF Follows
  <2>4. QED
    BY <2>2, <2>3
<1>11. ASSUME NEW i \in 1 .. Len(u) PROVE u[i][1] \in {"cancel_run", "release"}
  BY <1>3, <1>8, <1>9
<1>12. ASSUME NEW i \in 1 .. Len(u), NEW j \in 1 .. Len(u), i < j PROVE Later(u[i], u[j])
  BY <1>11 DEF Later
<1>13. u[Len(u)][1] \in Ends
  BY <1>3, <1>8, <1>9 DEF Ends
<1>14. Chain(u)
  BY <1>10, <1>12, <1>13 DEF Chain
<1>15. u # <<>> /\ u[1] = <<"cancel_run", 1>>
  BY <1>3, <1>8, <1>9
<1>16. QED
  BY <1>7, <1>8, <1>11, <1>14, <1>15 DEF Program

\* A new status that ends the brainstorm, and the cleanup.
LEMMA EndProgram ==
  ASSUME NEW status \in Terminal, NEW u, u = << <<status, 0>> >> \o Cleanup
  PROVE  /\ Program(u) /\ u # <<>> /\ u[1] = <<status, 0>> /\ Len(u) > 1
         /\ \A i \in 1 .. Len(u) : u[i] = <<status, 0>> \/ u[i][1] \in {"cancel_run", "release"}
<1> DEFINE e == <<status, 0>>
<1>1. PICK t \in Seq(Steps) : t = Cleanup
  BY CleanupProgram DEF Program
<1>2. Chain(t) /\ t # <<>> /\ t[1] = <<"cancel_run", 1>>
  BY <1>1, CleanupProgram DEF Program
<1>3. \A i \in 1 .. Len(t) : t[i][1] \in {"cancel_run", "release"}
  BY <1>1, CleanupProgram
<1>4. e \in Steps
  BY DEF Steps, WholeNames
<1>5. Follows(e, t[1])
  BY <1>2 DEF Follows
<1>6. \A i \in 1 .. Len(t) : Later(e, t[i])
  BY <1>3 DEF Later
<1> HIDE DEF e
<1>7. /\ Program(<<e>> \o t) /\ Len(<<e>> \o t) = Len(t) + 1 /\ (<<e>> \o t)[1] = e
      /\ \A i \in 1 .. Len(t) : (<<e>> \o t)[i + 1] = t[i]
  BY <1>1, <1>2, <1>4, <1>5, <1>6, Before
<1>8. u = <<e>> \o t
  BY <1>1 DEF e
<1>9. /\ Program(u) /\ Len(u) = Len(t) + 1 /\ u[1] = e
      /\ \A i \in 1 .. Len(t) : u[i + 1] = t[i]
  BY <1>7, <1>8
<1>10. Len(t) \in Nat \ {0} /\ u # <<>>
  BY <1>1, <1>2, <1>9 DEF Program
<1>11. ASSUME NEW i \in 1 .. Len(u) PROVE u[i] = e \/ u[i][1] \in {"cancel_run", "release"}
  <2>1. CASE i = 1
    BY <1>9, <2>1
  <2>2. CASE i # 1
    <3>1. i - 1 \in 1 .. Len(t) /\ (i - 1) + 1 = i
      BY <1>9, <1>10, <2>2
    <3>2. QED
      BY <1>3, <1>9, <3>1
  <2>3. QED
    BY <2>1, <2>2
<1>12. QED
  <2>1. Len(u) > 1 /\ Program(u) /\ u # <<>>
    BY <1>9, <1>10
  <2>2. u[1] = <<status, 0>>
    BY <1>9 DEF e
  <2>3. \A i \in 1 .. Len(u) : u[i] = <<status, 0>> \/ u[i][1] \in {"cancel_run", "release"}
    BY <1>11 DEF e
  <2>4. QED
    BY <2>1, <2>2, <2>3

-----------------------------------------------------------------------------
(* The running handler *)

LEMMA HeadStep ==
  ASSUME Types, ~Idle
  PROVE  /\ H \in Steps /\ H = pc.todo[1] /\ Len(pc.todo) \in Nat \ {0}
         /\ H = <<H[1], H[2]>> /\ Slot = H[2]
         /\ \A step : Doing(step) <=> H[1] = step
<1>1. pc.todo \in Seq(Steps) /\ pc.todo # <<>>
  BY DEF Types, Idle
<1>2. H \in Steps /\ H = pc.todo[1] /\ Len(pc.todo) \in Nat \ {0}
  BY <1>1, TailOf DEF H
<1>3. QED
  BY <1>1, <1>2, StepNames DEF Slot, Doing, H

LEMMA DoingStep ==
  ASSUME Types, NEW step, Doing(step)
  PROVE  /\ ~Idle /\ H \in Steps /\ H = pc.todo[1] /\ H[1] = step /\ Slot = H[2]
         /\ H = <<step, Slot>> /\ (step \in OwnNames => Slot \in Slots)
         /\ \A other : Doing(other) <=> other = step
<1>1. ~Idle /\ H[1] = step
  BY DEF Doing, Idle, H
<1>2. QED
  BY <1>1, HeadStep, StepNames

\* The handler goes on: what it has still to do follows what it did.
LEMMA Continues ==
  ASSUME Types, Handler, ~Idle, Continue
  PROVE  /\ pc' \in [op : Ops, todo : Seq(Steps)] /\ Handler'
         /\ \A i \in 1 .. Len(pc'.todo) :
              i + 1 \in 2 .. Len(pc.todo) /\ pc'.todo[i] = pc.todo[i + 1]
         /\ \/ Idle' /\ pc' = Nobody /\ (H[1] \in Ends \/ pc.op = "cancel_run")
            \/ ~Idle' /\ pc'.op = pc.op /\ pc.op # "cancel_run" /\ Follows(H, H')
<1> DEFINE t == pc.todo
<1>1. t \in Seq(Steps) /\ t # <<>> /\ pc.op \in Ops
  BY DEF Types, Idle
<1>2. /\ Len(t) \in Nat \ {0} /\ H = t[1] /\ Tail(t) \in Seq(Steps) /\ Len(Tail(t)) = Len(t) - 1
      /\ \A i \in 1 .. Len(t) - 1 : Tail(t)[i] = t[i + 1]
      /\ Tail(t) = <<>> <=> Len(t) = 1
  BY <1>1, TailOf DEF H
<1>3. CASE Tail(t) = <<>>
  <2>1. pc' = Nobody
    BY <1>3 DEF Continue, Then
  <2>2. pc' \in [op : Ops, todo : Seq(Steps)] /\ pc'.op = "none" /\ pc'.todo = <<>>
    BY <2>1 DEF Nobody, Ops
  <2>3. Idle' /\ Len(pc'.todo) = 0
    BY <1>2, <1>3, <2>2 DEF Idle
  <2>4. Handler'
    BY <2>2, NoSteps DEF Handler, Program
  <2>5. H[1] \in Ends \/ pc.op = "cancel_run"
    BY <1>2, <1>3 DEF Handler, Chain
  <2>6. QED
    BY <2>1, <2>2, <2>3, <2>4, <2>5
<1>4. CASE Tail(t) # <<>>
  <2>1. pc' = [pc EXCEPT !.todo = Tail(t)]
    BY <1>4 DEF Continue, Then
  <2>2. pc' \in [op : Ops, todo : Seq(Steps)] /\ pc'.op = pc.op /\ pc'.todo = Tail(t)
    BY <1>2, <2>1 DEF Types
  <2>3. PICK u \in Seq(Steps) : u = pc'.todo
    BY <2>2
  <2>4. /\ u # <<>> /\ Len(u) = Len(t) - 1 /\ \A i \in 1 .. Len(t) - 1 : u[i] = t[i + 1]
    BY <1>2, <1>4, <2>2, <2>3
  <2>5. pc.op # "cancel_run" /\ Chain(t)
    BY <1>2, <1>4 DEF Handler
  <2>6. Len(u) \in Nat \ {0} /\ Head(u) = u[1]
    BY <2>4, TailOf
  <2> HIDE DEF t
  <2>7. \A i \in 1 .. Len(u) : i + 1 \in 2 .. Len(t) /\ u[i] = t[i + 1]
    BY <1>2, <2>4
  <2>8. ASSUME NEW i \in 1 .. Len(u) - 1 PROVE Follows(u[i], u[i + 1])
    <3>1. u[i] = t[i + 1] /\ u[i + 1] = t[(i + 1) + 1] /\ i + 1 \in 1 .. Len(t) - 1
      BY <1>2, <2>4
    <3>2. QED
      BY <2>5, <3>1 DEF Chain
  <2>9. ASSUME NEW i \in 1 .. Len(u), NEW j \in 1 .. Len(u), i < j PROVE Later(u[i], u[j])
    <3>1. /\ u[i] = t[i + 1] /\ u[j] = t[j + 1] /\ i + 1 \in 1 .. Len(t) /\ j + 1 \in 1 .. Len(t)
          /\ i + 1 < j + 1
      BY <1>2, <2>4, <2>9
    <3>2. QED
      BY <2>5, <3>1 DEF Chain
  <2>10. u[Len(u)][1] \in Ends
    <3>1. u[Len(u)] = t[Len(t)]
      BY <1>2, <2>4, <2>6
    <3>2. QED
      BY <1>2, <2>5, <3>1 DEF Chain
  <2>11. Chain(u)
    BY <2>8, <2>9, <2>10 DEF Chain
  <2>12. Handler'
    BY <2>2, <2>3, <2>5, <2>11 DEF Handler
  <2>13. Follows(H, H')
    <3>1. Follows(t[1], t[1 + 1]) /\ u[1] = t[1 + 1]
      BY <1>2, <2>4, <2>5, <2>6 DEF Chain
    <3>2. H' = u[1]
      BY <2>3, <2>6 DEF H
    <3>3. QED
      BY <1>2, <3>1, <3>2
  <2>14. ~Idle'
    BY <2>3, <2>4 DEF Idle
  <2>15. QED
    BY <2>2, <2>3, <2>5, <2>7, <2>12, <2>13, <2>14 DEF t
<1>5. QED
  BY <1>3, <1>4

\* The answers that are in stay, and with them what the later stages rely on.
AnswersStay ==
  /\ rec'.arbiter = rec.arbiter
  /\ \A s \in Slots : Done(s) => Done(s)' /\ run'[s].text = run[s].text

LEMMA StagesStay ==
  ASSUME AnswersStay
  PROVE  /\ FanoutDone => FanoutDone'
         /\ Conflict => Conflict'
         /\ Disputed => Disputed'
         /\ Agreed => Agreed'
         /\ \A s : Stage(s) => Stage(s)'
<1>1. /\ Done(Consolidation) => /\ Done(Consolidation)'
                                /\ run'[Consolidation].text = run[Consolidation].text
      /\ Done(Arbitration) => Done(Arbitration)' /\ run'[Arbitration].text = run[Arbitration].text
      /\ \A s \in Fanout : Done(s) => Done(s)'
  BY SlotNumbers DEF AnswersStay
<1>2. (FanoutDone => FanoutDone') /\ (Conflict => Conflict') /\ (Disputed => Disputed')
  BY <1>1 DEF FanoutDone, Conflict, Disputed, Material, AnswersStay
<1>3. (Agreed => Agreed')
  BY <1>1 DEF Agreed
<1>4. QED
  BY <1>2, <1>3 DEF Stage

\* In Doing's terms.
LEMMA At ==
  Types => /\ ~Idle => /\ H[1] \in OwnNames \cup WholeNames /\ Slot = H[2] /\ H = <<H[1], H[2]>>
                       /\ (H[1] \in OwnNames => Slot \in Slots)
                       /\ \A step : Doing(step) <=> H[1] = step
           /\ Idle => \A step : ~Doing(step)
<1>1. ASSUME Types, ~Idle
      PROVE  /\ H[1] \in OwnNames \cup WholeNames /\ Slot = H[2] /\ H = <<H[1], H[2]>>
             /\ (H[1] \in OwnNames => Slot \in Slots)
             /\ \A step : Doing(step) <=> H[1] = step
  BY <1>1, HeadStep, StepNames
<1>2. Idle => \A step : ~Doing(step)
  BY DEF Idle, Doing
<1>3. QED
  BY <1>1, <1>2

\* A handler that is through, or threw.
LEMMA Stopped ==
  ASSUME pc' = Nobody
  PROVE  /\ pc' \in [op : Ops, todo : Seq(Steps)] /\ Handler' /\ Todo' /\ NextUp'
         /\ Idle' /\ pc'.op = "none" /\ \A step : ~Doing(step)'
<1>1. pc' \in [op : Ops, todo : Seq(Steps)] /\ pc'.op = "none" /\ pc'.todo = <<>>
  BY DEF Nobody, Ops
<1>2. Idle' /\ \A step : ~Doing(step)'
  BY <1>1 DEF Idle, Doing
<1>3. PICK t \in Seq(Steps) : t = pc'.todo /\ t = <<>>
  BY <1>1
<1>4. Len(pc'.todo) = 0
  BY <1>3
<1>5. Handler' /\ Todo'
  BY <1>1, <1>4, NoSteps DEF Handler, Program, Todo
<1>6. NextUp'
  BY <1>2 DEF NextUp
<1>7. QED
  BY <1>1, <1>2, <1>5, <1>6

\* What a step that is still to be done relies on stays, when the record does not end.
LEMMA FitsStays ==
  ASSUME AnswersStay, rec'.status = rec.status \/ rec'.status \notin Terminal, NEW e, Fits(e)
  PROVE  Fits(e)'
<1>1. \A s : Stage(s) => Stage(s)'
  BY StagesStay
<1>2. (Disputed => Disputed') /\ (Agreed => Agreed')
  BY StagesStay
<1>3. QED
  BY <1>1, <1>2 DEF Fits, Terminal

LEMMA TodoStays ==
  ASSUME Types, Handler, Todo, ~Idle, Continue, AnswersStay,
         rec'.status = rec.status \/ rec'.status \notin Terminal
  PROVE  Todo'
<1>1. ASSUME NEW i \in 1 .. Len(pc'.todo), NEW e, e = pc'.todo[i] PROVE Fits(e)'
  <2>1. i + 1 \in 2 .. Len(pc.todo) /\ pc'.todo[i] = pc.todo[i + 1]
    BY Continues
  <2>2. Len(pc.todo) \in Nat
    BY HeadStep
  <2>3. Fits(pc.todo[i + 1])
    BY <2>1, <2>2 DEF Todo
  <2>4. Fits(e)
    BY <1>1, <2>1, <2>3
  <2>5. QED
    BY <2>4, FitsStays
<1>2. QED
  BY <1>1 DEF Todo, Fits

-----------------------------------------------------------------------------
(* The steps of ensureGroupRun: each changes one slot *)

GwStates == {"none", "held", "claimed", "unused", "released", "settled"}

\* The handler goes on to a step that does not clean up.
LEMMA EnsureGoesOn ==
  ASSUME IInv, ~Idle, H[1] \in EnsureNames, Continue, AnswersStay,
         rec'.status = rec.status
  PROVE  /\ pc' \in [op : Ops, todo : Seq(Steps)] /\ Handler' /\ Todo'
         /\ rec.status \notin Terminal /\ rec.approval = "reserved" /\ Slot \in Slots
         /\ pc.op # "cancel_run"
         /\ H[1] = "slot" => (Idle' \/ H'[1] \in {"create"} \cup Between)
         /\ H[1] # "slot" => ~Idle' /\ <<H[1], H'[1]>> \in Pairs /\ H'[2] = Slot
<1>1. Types /\ Handler /\ Todo /\ NextUp
  BY DEF IInv
<1>2. /\ pc' \in [op : Ops, todo : Seq(Steps)] /\ Handler'
      /\ \/ Idle' /\ pc' = Nobody /\ (H[1] \in Ends \/ pc.op = "cancel_run")
         \/ ~Idle' /\ pc'.op = pc.op /\ pc.op # "cancel_run" /\ Follows(H, H')
  BY <1>1, Continues
<1>3. Todo'
  BY <1>1, TodoStays
<1>4. Slot \in Slots /\ H = pc.todo[1] /\ Len(pc.todo) \in Nat \ {0} /\ Slot = H[2] /\ ~Doing("cancel_run")
  BY <1>1, HeadStep, StepNames DEF EnsureNames, OwnNames
<1>5. Fits(H)
  BY <1>1, <1>4 DEF Todo
<1>6. rec.status \notin Terminal
  BY <1>5 DEF Fits
<1>7. rec.approval = "reserved"
  BY <1>1 DEF NextUp, Ready
<1>8. pc.op # "cancel_run"
  BY <1>1, <1>4 DEF Handler
<1>9. H[1] = "slot" => (Idle' \/ H'[1] \in {"create"} \cup Between)
  BY <1>2, <1>8 DEF Follows, Pairs, Terminal
<1>10. H[1] # "slot" => ~Idle' /\ <<H[1], H'[1]>> \in Pairs /\ H'[2] = Slot
  <2>1. H[1] # "slot" => H[1] \notin Ends
    BY DEF Ends, EnsureNames, Between
  <2>2. Follows(H, H') /\ H[1] # "slot" => <<H[1], H'[1]>> \in Pairs /\ H'[2] = H[2]
    BY DEF Follows, EnsureNames, Terminal
  <2>3. QED
    BY <1>2, <1>4, <1>8, <2>1, <2>2
<1>11. QED
  BY <1>2, <1>3, <1>4, <1>6, <1>7, <1>8, <1>9, <1>10

\* The run or the gateway's slot of Slot changes.
LEMMA EnsureStep ==
  ASSUME IInv, ~Idle, H[1] \in EnsureNames, NEW o \in Slots, o = Slot, NEW r \in RunState, NEW g \in GwStates,
         run' = [run EXCEPT ![o] = r], gw' = [gw EXCEPT ![o] = g],
         rec' \in [status : Statuses, approval : {"none", "pending", "reserved"},
                   slots : SUBSET Slots, arbiter : BOOLEAN],
         rec'.status = rec.status, rec'.approval = rec.approval, rec'.arbiter = rec.arbiter,
         rec'.slots \subseteq rec.slots \cup {o}, UNCHANGED Others,
         gw[o] # "none" => g # "none",
         Done(o) => r.status = "completed" /\ r.text = run[o].text,
         Sound(o)'
  PROVE  /\ AnswersStay /\ (\A s \in Slots : Sound(s)') /\ Group'
         /\ run' \in [Slots -> RunState] /\ gw' \in [Slots -> GwStates]
         /\ turn' \in {"supervisor", "tick"} /\ flight' \in 0 .. Arbitration
         /\ requests' \in 0 .. MaxRequests /\ faults' \in 0 .. MaxFaults
         /\ run'[o] = r /\ gw'[o] = g
         /\ \A t \in Slots : t # o => run'[t] = run[t] /\ gw'[t] = gw[t]
<1>1. Types /\ Handler /\ Todo /\ NextUp /\ Group /\ \A s \in Slots : Sound(s)
  BY DEF IInv
<1>2. o \in Slots /\ H = pc.todo[1] /\ Len(pc.todo) \in Nat \ {0} /\ o = H[2]
  BY <1>1, HeadStep, StepNames DEF EnsureNames, OwnNames
<1>3. run' \in [Slots -> RunState] /\ gw' \in [Slots -> GwStates]
  BY <1>1, <1>2 DEF Types, GwStates
<1>4. /\ run'[o] = r /\ gw'[o] = g
      /\ \A t \in Slots : t # o => run'[t] = run[t] /\ gw'[t] = gw[t]
  BY <1>1, <1>2 DEF Types, GwStates
<1>5. AnswersStay
  <2>1. ASSUME NEW s \in Slots, Done(s) PROVE Done(s)' /\ run'[s].text = run[s].text
    <3>1. CASE s = o
      <4>1. r.status = "completed" /\ r.text = run[o].text
        BY <2>1, <3>1
      <4>2. QED
        BY <1>4, <3>1, <4>1 DEF Done
    <3>2. CASE s # o
      BY <1>4, <2>1, <3>2 DEF Done
    <3>3. QED
      BY <3>1, <3>2
  <2>2. QED
    BY <2>1 DEF AnswersStay, Done
<1>6. ASSUME NEW s \in Slots PROVE Sound(s)'
  <2>1. CASE s = o
    BY <2>1
  <2>2. CASE s # o
    <3>1. run'[s] = run[s] /\ gw'[s] = gw[s] /\ (s \in rec'.slots => s \in rec.slots)
      BY <1>4, <2>2
    <3>2. Sound(s)
      BY <1>1
    <3>3. QED
      BY <3>1, <3>2 DEF Sound, Done
  <2>3. QED
    BY <2>1, <2>2
<1>7. Stage(o) /\ rec.approval = "reserved"
  <2>1. Fits(H)
    BY <1>1, <1>2 DEF Todo
  <2>2. QED
    BY <1>1, <1>2, <2>1 DEF Fits, NextUp, Ready
<1>8. (FanoutDone => FanoutDone') /\ (Conflict => Conflict') /\ (Disputed => Disputed') /\ (Agreed => Agreed')
  BY <1>5, StagesStay
<1>9. Group'
  <2>1. Reserved'
    <3>1. Reserved
      BY <1>1, <1>7 DEF Group
    <3>2. Mine' = Mine
      BY DEF Mine
    <3>3. QED
      BY <1>4, <3>1, <3>2 DEF Reserved, Mine
  <2>2. run'[Consolidation].status # "absent" => FanoutDone'
    <3>1. CASE o = Consolidation
      BY <1>7, <1>8, <3>1 DEF Stage
    <3>2. CASE o # Consolidation
      BY <1>1, <1>4, <1>8, <3>2, SlotNumbers DEF Group
    <3>3. QED
      BY <3>1, <3>2
  <2>3. run'[Arbitration].status # "absent" => Conflict'
    <3>1. CASE o = Arbitration
      BY <1>7, <1>8, <3>1 DEF Stage
    <3>2. CASE o # Arbitration
      BY <1>1, <1>4, <1>8, <3>2, SlotNumbers DEF Group
    <3>3. QED
      BY <3>1, <3>2
  <2>4. /\ rec'.status \in Between \cup {"completed"} => rec'.approval = "reserved"
        /\ rec'.status = "needs_arbitration" => Disputed'
        /\ rec'.status = "completed" => Agreed'
        /\ rec'.approval # "none"
    BY <1>1, <1>7, <1>8 DEF Group
  <2>5. QED
    BY <2>1, <2>2, <2>3, <2>4 DEF Group
<1>10. /\ turn' \in {"supervisor", "tick"} /\ flight' \in 0 .. Arbitration
       /\ requests' \in 0 .. MaxRequests /\ faults' \in 0 .. MaxFaults
  BY <1>1 DEF Types, Others
<1>11. QED
  BY <1>3, <1>4, <1>5, <1>6, <1>9, <1>10

\* The handler goes on and the invariant stays.
LEMMA EnsureKeeps ==
  ASSUME IInv, ~Idle, H[1] \in EnsureNames, NEW o \in Slots, o = Slot, Continue,
         AnswersStay, \A s \in Slots : Sound(s)', Group',
         run' \in [Slots -> RunState], gw' \in [Slots -> GwStates],
         turn' \in {"supervisor", "tick"}, flight' \in 0 .. Arbitration,
         requests' \in 0 .. MaxRequests, faults' \in 0 .. MaxFaults, faults' = faults,
         rec' \in [status : Statuses, approval : {"none", "pending", "reserved"},
                   slots : SUBSET Slots, arbiter : BOOLEAN],
         rec'.status = rec.status, rec'.approval = rec.approval,
         \A t \in Slots : t # o => run'[t] = run[t],
         \A f : f[2] = o /\ <<H[1], f[1]>> \in Pairs => Ready(f)',
         run'[o].bound /\ run'[o].task = "none" /\ faults = 0 => H[1] = "bind"
  PROVE  IInv'
<1>1. Types /\ Cleaning
  BY DEF IInv
<1>2. /\ pc' \in [op : Ops, todo : Seq(Steps)] /\ Handler' /\ Todo'
      /\ rec.status \notin Terminal /\ rec.approval = "reserved"
      /\ H[1] = "slot" => (Idle' \/ H'[1] \in {"create"} \cup Between)
      /\ H[1] # "slot" => ~Idle' /\ <<H[1], H'[1]>> \in Pairs /\ H'[2] = Slot
  BY EnsureGoesOn
<1>3. Types'
  BY <1>2 DEF Types, GwStates
<1>4. /\ ~Idle' => Slot' = H'[2] /\ \A step : Doing(step)' <=> H'[1] = step
      /\ Idle' => \A step : ~Doing(step)'
  <2>1. (Types => /\ ~Idle => Slot = H[2] /\ \A step : Doing(step) <=> H[1] = step
                  /\ Idle => \A step : ~Doing(step))'
    BY At, PTL
  <2>2. QED
    BY <1>3, <2>1
<1>5. ~Idle' => H'[1] \in EnsureNames \cup Between
  BY <1>2 DEF Pairs, EnsureNames
<1>6. ~Doing("cancelled")' /\ ~Doing("cancel_run")' /\ ~Doing("release")'
  BY <1>4, <1>5 DEF EnsureNames, Between
<1>7. NextUp'
  <2>1. ASSUME ~Idle', NEW f, f = H' PROVE Ready(f)'
    <3>1. CASE H[1] = "slot"
      BY <1>2, <2>1, <3>1 DEF Ready, EnsureNames, Between, WholeNames, OwnNames
    <3>2. CASE H[1] # "slot"
      BY <1>2, <2>1, <3>2
    <3>3. QED
      BY <3>1, <3>2
  <2>2. ~Idle' => Ready(H)'
    BY <2>1 DEF Ready
  <2>3. QED
    BY <1>6, <2>2 DEF NextUp
<1>8. Cleaning'
  <2>1. ASSUME faults = 0, NEW t \in Slots, run'[t].bound, run'[t].task = "none"
        PROVE  Doing("enqueue")' /\ Slot' = t
    <3>1. CASE t = o
      <4>1. H[1] = "bind"
        BY <2>1, <3>1
      <4>2. H'[1] = "enqueue" /\ H'[2] = o /\ ~Idle'
        BY <1>2, <4>1 DEF Pairs
      <4>3. QED
        BY <1>4, <3>1, <4>2
    <3>2. CASE t # o
      BY <1>1, <2>1, <3>2 DEF Cleaning
    <3>3. QED
      BY <3>1, <3>2
  <2>2. QED
    BY <1>2, <1>6, <2>1 DEF Cleaning
<1>9. QED
  BY <1>2, <1>3, <1>7, <1>8 DEF IInv

LEMMA EnsureAction ==
  ASSUME IInv, ~Idle, H[1] \in EnsureNames, NEW o \in Slots, o = Slot, Continue,
         NEW r \in RunState, NEW g \in GwStates,
         run' = [run EXCEPT ![o] = r], gw' = [gw EXCEPT ![o] = g],
         rec' \in [status : Statuses, approval : {"none", "pending", "reserved"},
                   slots : SUBSET Slots, arbiter : BOOLEAN],
         rec'.status = rec.status, rec'.approval = rec.approval, rec'.arbiter = rec.arbiter,
         rec'.slots \subseteq rec.slots \cup {o}, UNCHANGED Others,
         gw[o] # "none" => g # "none",
         Done(o) => r.status = "completed" /\ r.text = run[o].text,
         Sound(o)',
         \A f : f[2] = o /\ <<H[1], f[1]>> \in Pairs => Ready(f)',
         r.bound /\ r.task = "none" /\ faults = 0 => H[1] = "bind"
  PROVE  IInv'
<1>1. /\ AnswersStay /\ (\A s \in Slots : Sound(s)') /\ Group'
      /\ run' \in [Slots -> RunState] /\ gw' \in [Slots -> GwStates]
      /\ turn' \in {"supervisor", "tick"} /\ flight' \in 0 .. Arbitration
      /\ requests' \in 0 .. MaxRequests /\ faults' \in 0 .. MaxFaults
      /\ run'[o] = r
      /\ \A t \in Slots : t # o => run'[t] = run[t]
  BY EnsureStep
<1>2. faults' = faults
  BY DEF Others
<1>3. run'[o].bound /\ run'[o].task = "none" /\ faults = 0 => H[1] = "bind"
  BY <1>1
<1>4. QED
  BY <1>1, <1>2, <1>3, EnsureKeeps

\* What the head of the todo list relies on.
LEMMA EnsureHead ==
  ASSUME IInv, NEW step \in EnsureNames, Doing(step), NEW o, o = Slot
  PROVE  /\ Types /\ ~Idle /\ H[1] = step /\ o \in Slots /\ Sound(o) /\ Ready(H) /\ H[2] = o
         /\ run \in [Slots -> RunState] /\ gw \in [Slots -> GwStates]
         /\ run[o] \in RunState /\ gw[o] \in GwStates /\ gw = [gw EXCEPT ![o] = gw[o]]
         /\ run = [run EXCEPT ![o] = run[o]]
         /\ rec \in [status : Statuses, approval : {"none", "pending", "reserved"},
                     slots : SUBSET Slots, arbiter : BOOLEAN]
         /\ rec.status \notin Terminal /\ gw[o] # "none"
         /\ (step # "enqueue" /\ faults = 0 => ~(run[o].bound /\ run[o].task = "none"))
<1>1. Types /\ Todo /\ NextUp /\ Group /\ Cleaning
  BY DEF IInv
<1>2. ~Idle /\ H[1] = step /\ o \in Slots /\ H = pc.todo[1] /\ Len(pc.todo) \in Nat \ {0} /\ H[2] = o
      /\ \A other : Doing(other) <=> other = step
  BY <1>1, DoingStep, HeadStep DEF OwnNames
<1>3. Sound(o)
  BY <1>2 DEF IInv
<1>4. Ready(H)
  BY <1>1, <1>2 DEF NextUp
<1>5. run \in [Slots -> RunState] /\ gw \in [Slots -> GwStates]
      /\ rec \in [status : Statuses, approval : {"none", "pending", "reserved"},
                  slots : SUBSET Slots, arbiter : BOOLEAN]
  BY <1>1 DEF Types, GwStates
<1>6. run[o] \in RunState /\ gw[o] \in GwStates /\ gw = [gw EXCEPT ![o] = gw[o]]
      /\ run = [run EXCEPT ![o] = run[o]]
  BY <1>2, <1>5
<1>7. Fits(H)
  BY <1>1, <1>2 DEF Todo
<1>8. rec.status \notin Terminal /\ Stage(o)
  BY <1>2, <1>7 DEF Fits
<1>9. gw[o] # "none"
  <2>1. Reserved
    BY <1>1, <1>2, <1>4 DEF Ready, Group
  <2>2. o \in Mine
    BY <1>2, <1>8 DEF Mine, Stage, Conflict
  <2>3. QED
    BY <2>1, <2>2 DEF Reserved
<1>10. (step # "enqueue" /\ faults = 0 => ~(run[o].bound /\ run[o].task = "none"))
  BY <1>1, <1>2 DEF Cleaning
<1>11. QED
  BY <1>1, <1>2, <1>3, <1>4, <1>5, <1>6, <1>8, <1>9, <1>10

LEMMA CreateRunKeeps == IInv /\ CreateRun => IInv'
<1> SUFFICES ASSUME IInv, CreateRun PROVE IInv'
  OBVIOUS
<1>1. PICK o : o = Slot
  OBVIOUS
<1>2. Doing("create") /\ "create" \in EnsureNames /\ Continue /\ UNCHANGED <<rec, gw, Others>>
  BY DEF CreateRun, EnsureNames
<1>3. /\ Types /\ ~Idle /\ H[1] = "create" /\ o \in Slots /\ Sound(o) /\ Ready(H) /\ H[2] = o
      /\ run \in [Slots -> RunState] /\ gw \in [Slots -> GwStates]
      /\ run[o] \in RunState /\ gw[o] \in GwStates /\ gw = [gw EXCEPT ![o] = gw[o]]
      /\ rec \in [status : Statuses, approval : {"none", "pending", "reserved"},
                  slots : SUBSET Slots, arbiter : BOOLEAN]
      /\ rec.status \notin Terminal /\ gw[o] # "none"
      /\ (faults = 0 => ~(run[o].bound /\ run[o].task = "none"))
  BY <1>1, <1>2, EnsureHead
<1>4. PICK r : r = IF run[o] = Absent THEN [Absent EXCEPT !.status = "draft"] ELSE run[o]
  OBVIOUS
<1>5. run' = [run EXCEPT ![o] = r]
  BY <1>1, <1>4 DEF CreateRun, SetRun
<1>6. [Absent EXCEPT !.status = "draft"] \in RunState
  BY DEF Absent, RunState
<1>7. r \in RunState /\ run'[o] = r /\ rec' = rec /\ gw' = gw
  BY <1>2, <1>3, <1>4, <1>5, <1>6
<1>8. CASE run[o] = Absent
  <2>1. /\ r.status = "draft" /\ ~r.bound /\ r.task = "none" /\ ~r.cancel /\ r.text = "none"
    BY <1>4, <1>8 DEF Absent
  <2>2. gw[o] \notin {"released", "settled", "unused"}
    BY <1>3, <1>8 DEF Sound, Absent
  <2>3. Sound(o)'
    BY <1>7, <2>1, <2>2 DEF Sound, Done, Terminal
  <2>4. \A f : f[2] = o /\ <<H[1], f[1]>> \in Pairs => Ready(f)'
    <3>1. Pairs' = Pairs /\ rec'.approval = "reserved"
      BY <1>3, <1>7 DEF Ready, EnsureNames
    <3>2. \A f : <<H[1], f[1]>> \in Pairs => f[1] = "approval"
      BY <1>3 DEF Pairs
    <3>3. QED
      BY <1>7, <2>1, <3>1, <3>2 DEF Ready, EnsureNames, Between, WholeNames, OwnNames
  <2>5. ~Done(o)
    BY <1>8 DEF Done, Absent
  <2>6. QED
    BY <1>1, <1>2, <1>3, <1>5, <1>7, <2>1, <2>3, <2>4, <2>5, EnsureAction
<1>9. CASE run[o] # Absent
  <2>1. r = run[o]
    BY <1>4, <1>9
  <2>2. r.status # "absent"
    BY <1>3, <1>9, <2>1 DEF Sound
  <2>3. Sound(o)'
    BY <1>3, <1>7, <2>1 DEF Sound, Done
  <2>4. \A f : f[2] = o /\ <<H[1], f[1]>> \in Pairs => Ready(f)'
    <3>1. rec'.approval = "reserved"
      BY <1>3, <1>7 DEF Ready, EnsureNames
    <3>2. \A f : <<H[1], f[1]>> \in Pairs => f[1] = "approval"
      BY <1>3 DEF Pairs
    <3>3. QED
      BY <1>7, <2>2, <3>1, <3>2 DEF Ready, EnsureNames, Between, WholeNames, OwnNames
  <2>5. Done(o) => r.status = "completed" /\ r.text = run[o].text
    BY <2>1 DEF Done
  <2>6. QED
    BY <1>1, <1>2, <1>3, <1>5, <1>7, <2>1, <2>3, <2>4, <2>5, EnsureAction
<1>10. QED
  BY <1>8, <1>9

LEMMA ApproveRunKeeps == IInv /\ ApproveRun => IInv'
<1> SUFFICES ASSUME IInv, ApproveRun PROVE IInv'
  OBVIOUS
<1>1. PICK o : o = Slot
  OBVIOUS
<1>2. Doing("approve") /\ "approve" \in EnsureNames /\ Continue /\ UNCHANGED <<rec, gw, Others>>
  BY DEF ApproveRun, EnsureNames
<1>3. /\ Types /\ ~Idle /\ H[1] = "approve" /\ o \in Slots /\ Sound(o) /\ Ready(H) /\ H[2] = o
      /\ run \in [Slots -> RunState] /\ gw \in [Slots -> GwStates]
      /\ run[o] \in RunState /\ gw[o] \in GwStates /\ gw = [gw EXCEPT ![o] = gw[o]]
      /\ run = [run EXCEPT ![o] = run[o]]
      /\ rec \in [status : Statuses, approval : {"none", "pending", "reserved"},
                  slots : SUBSET Slots, arbiter : BOOLEAN]
      /\ rec.status \notin Terminal /\ gw[o] # "none"
      /\ ("approve" # "enqueue" /\ faults = 0 => ~(run[o].bound /\ run[o].task = "none"))
  BY <1>1, <1>2, EnsureHead
<1>4. PICK r : r = [run[o] EXCEPT !.status = "approved"]
  OBVIOUS
<1>5. run' = [run EXCEPT ![o] = r]
  BY <1>1, <1>4 DEF ApproveRun, SetRun
<1>6. r \in RunState
  BY <1>3, <1>4 DEF RunState
<1>7. run'[o] = r /\ rec' = rec /\ gw' = gw
  BY <1>2, <1>3, <1>5, <1>6
<1>8. /\ r.status = "approved"
      /\ r.approval = run[o].approval /\ r.bound = run[o].bound /\ r.task = run[o].task
      /\ r.cancel = run[o].cancel /\ r.text = run[o].text /\ r.stored = run[o].stored
  BY <1>3, <1>4 DEF RunState
<1>9. run[o].status \in {"draft", "approved"}
  BY <1>1, <1>3 DEF Ready
<1>10. Sound(o)'
  BY <1>3, <1>7, <1>8, <1>9 DEF Sound, Done, Terminal
<1>11. \A f : f[2] = o /\ <<H[1], f[1]>> \in Pairs => Ready(f)'
  <2>1. rec'.approval = "reserved"
    BY <1>3, <1>7 DEF Ready, EnsureNames
  <2>2. \A f : <<H[1], f[1]>> \in Pairs => f[1] = "claim"
    BY <1>3 DEF Pairs
  <2>3. QED
    BY <1>3, <1>7, <1>8, <1>9, <2>1, <2>2 DEF Ready, EnsureNames, Between, WholeNames, OwnNames
<1>12. ~Done(o)
  BY <1>9 DEF Done
<1>13. /\ gw' = [gw EXCEPT ![o] = gw[o]] /\ H[1] \in EnsureNames
       /\ rec' \in [status : Statuses, approval : {"none", "pending", "reserved"},
                   slots : SUBSET Slots, arbiter : BOOLEAN]
       /\ rec'.status = rec.status /\ rec'.approval = rec.approval /\ rec'.arbiter = rec.arbiter
       /\ rec'.slots \subseteq rec.slots \cup {o}
  BY <1>2, <1>3, <1>7
<1>14. r.bound /\ r.task = "none" /\ faults = 0 => H[1] = "bind"
  BY <1>3, <1>8
<1>15. UNCHANGED Others
  BY <1>2
<1>16. Done(o) => r.status = "completed" /\ r.text = run[o].text
  BY <1>12
<1>17. QED
  BY <1>1, <1>2, <1>3, <1>5, <1>6, <1>10, <1>11, <1>13, <1>14, <1>15, <1>16, EnsureAction, ZenonT(60)

LEMMA BindRunKeeps == IInv /\ BindRun => IInv'
<1> SUFFICES ASSUME IInv, BindRun PROVE IInv'
  OBVIOUS
<1>1. PICK o : o = Slot
  OBVIOUS
<1>2. Doing("bind") /\ "bind" \in EnsureNames /\ Continue /\ UNCHANGED <<rec, gw, Others>>
  BY DEF BindRun, EnsureNames
<1>3. /\ Types /\ ~Idle /\ H[1] = "bind" /\ o \in Slots /\ Sound(o) /\ Ready(H) /\ H[2] = o
      /\ run \in [Slots -> RunState] /\ gw \in [Slots -> GwStates]
      /\ run[o] \in RunState /\ gw[o] \in GwStates /\ gw = [gw EXCEPT ![o] = gw[o]]
      /\ run = [run EXCEPT ![o] = run[o]]
      /\ rec \in [status : Statuses, approval : {"none", "pending", "reserved"},
                  slots : SUBSET Slots, arbiter : BOOLEAN]
      /\ rec.status \notin Terminal /\ gw[o] # "none"
      /\ ("bind" # "enqueue" /\ faults = 0 => ~(run[o].bound /\ run[o].task = "none"))
  BY <1>1, <1>2, EnsureHead
<1>4. PICK r : r = [run[o] EXCEPT !.bound = TRUE]
  OBVIOUS
<1>5. run' = [run EXCEPT ![o] = r]
  BY <1>1, <1>4 DEF BindRun, SetRun
<1>6. r \in RunState
  BY <1>3, <1>4 DEF RunState
<1>7. run'[o] = r /\ rec' = rec /\ gw' = gw
  BY <1>2, <1>3, <1>5, <1>6
<1>8. /\ r.bound
      /\ r.status = run[o].status /\ r.approval = run[o].approval /\ r.task = run[o].task
      /\ r.cancel = run[o].cancel /\ r.text = run[o].text /\ r.stored = run[o].stored
  BY <1>3, <1>4 DEF RunState
<1>9. run[o].status = "approved" /\ gw[o] \in {"claimed", "released", "settled"} /\ (run[o].bound \/ gw[o] = "claimed")
  BY <1>1, <1>3 DEF Ready
<1>10. Sound(o)'
  BY <1>3, <1>7, <1>8, <1>9 DEF Sound, Done, Terminal
<1>11. \A f : f[2] = o /\ <<H[1], f[1]>> \in Pairs => Ready(f)'
  <2>1. rec'.approval = "reserved"
    BY <1>3, <1>7 DEF Ready, EnsureNames
  <2>2. \A f : <<H[1], f[1]>> \in Pairs => f[1] = "enqueue"
    BY <1>3 DEF Pairs
  <2>3. QED
    BY <1>3, <1>7, <1>8, <1>9, <2>1, <2>2 DEF Ready, EnsureNames, Between, WholeNames, OwnNames
<1>12. ~Done(o)
  BY <1>9 DEF Done
<1>13. /\ gw' = [gw EXCEPT ![o] = gw[o]] /\ H[1] \in EnsureNames
       /\ rec' \in [status : Statuses, approval : {"none", "pending", "reserved"},
                   slots : SUBSET Slots, arbiter : BOOLEAN]
       /\ rec'.status = rec.status /\ rec'.approval = rec.approval /\ rec'.arbiter = rec.arbiter
       /\ rec'.slots \subseteq rec.slots \cup {o}
  BY <1>2, <1>3, <1>7
<1>14. r.bound /\ r.task = "none" /\ faults = 0 => H[1] = "bind"
  BY <1>3, <1>8
<1>15. UNCHANGED Others
  BY <1>2
<1>16. Done(o) => r.status = "completed" /\ r.text = run[o].text
  BY <1>12
<1>17. QED
  BY <1>1, <1>2, <1>3, <1>5, <1>6, <1>10, <1>11, <1>13, <1>14, <1>15, <1>16, EnsureAction, ZenonT(60)

LEMMA EnqueueKeeps == IInv /\ Enqueue => IInv'
<1> SUFFICES ASSUME IInv, Enqueue PROVE IInv'
  OBVIOUS
<1>1. PICK o : o = Slot
  OBVIOUS
<1>2. Doing("enqueue") /\ "enqueue" \in EnsureNames /\ Continue /\ UNCHANGED <<rec, gw, Others>>
  BY DEF Enqueue, EnsureNames
<1>3. /\ Types /\ ~Idle /\ H[1] = "enqueue" /\ o \in Slots /\ Sound(o) /\ Ready(H) /\ H[2] = o
      /\ run \in [Slots -> RunState] /\ gw \in [Slots -> GwStates]
      /\ run[o] \in RunState /\ gw[o] \in GwStates /\ gw = [gw EXCEPT ![o] = gw[o]]
      /\ run = [run EXCEPT ![o] = run[o]]
      /\ rec \in [status : Statuses, approval : {"none", "pending", "reserved"},
                  slots : SUBSET Slots, arbiter : BOOLEAN]
      /\ rec.status \notin Terminal /\ gw[o] # "none"
      /\ ("enqueue" # "enqueue" /\ faults = 0 => ~(run[o].bound /\ run[o].task = "none"))
  BY <1>1, <1>2, EnsureHead
<1>4. PICK r : r = [run[o] EXCEPT !.task = IF @ = "none" THEN "queued" ELSE @]
  OBVIOUS
<1>5. run' = [run EXCEPT ![o] = r]
  BY <1>1, <1>4 DEF Enqueue, SetRun
<1>6. r \in RunState
  BY <1>3, <1>4 DEF RunState
<1>7. run'[o] = r /\ rec' = rec /\ gw' = gw
  BY <1>2, <1>3, <1>5, <1>6
<1>8. /\ r.task # "none"
      /\ r.status = run[o].status /\ r.approval = run[o].approval /\ r.bound = run[o].bound
      /\ r.cancel = run[o].cancel /\ r.text = run[o].text /\ r.stored = run[o].stored
  BY <1>3, <1>4 DEF RunState
<1>9. run[o].status = "approved" /\ run[o].bound
  BY <1>1, <1>3 DEF Ready
<1>10. Sound(o)'
  BY <1>3, <1>7, <1>8, <1>9 DEF Sound, Done, Terminal
<1>11. \A f : f[2] = o /\ <<H[1], f[1]>> \in Pairs => Ready(f)'
  <2>1. rec'.approval = "reserved"
    BY <1>3, <1>7 DEF Ready, EnsureNames
  <2>2. \A f : <<H[1], f[1]>> \in Pairs => f[1] = "queue"
    BY <1>3 DEF Pairs
  <2>3. QED
    BY <1>3, <1>7, <1>8, <1>9, <2>1, <2>2 DEF Ready, EnsureNames, Between, WholeNames, OwnNames
<1>12. ~Done(o)
  BY <1>9 DEF Done
<1>13. /\ gw' = [gw EXCEPT ![o] = gw[o]] /\ H[1] \in EnsureNames
       /\ rec' \in [status : Statuses, approval : {"none", "pending", "reserved"},
                   slots : SUBSET Slots, arbiter : BOOLEAN]
       /\ rec'.status = rec.status /\ rec'.approval = rec.approval /\ rec'.arbiter = rec.arbiter
       /\ rec'.slots \subseteq rec.slots \cup {o}
  BY <1>2, <1>3, <1>7
<1>14. r.bound /\ r.task = "none" /\ faults = 0 => H[1] = "bind"
  BY <1>3, <1>8
<1>15. UNCHANGED Others
  BY <1>2
<1>16. Done(o) => r.status = "completed" /\ r.text = run[o].text
  BY <1>12
<1>17. QED
  BY <1>1, <1>2, <1>3, <1>5, <1>6, <1>10, <1>11, <1>13, <1>14, <1>15, <1>16, EnsureAction, ZenonT(60)

LEMMA QueueRunKeeps == IInv /\ QueueRun => IInv'
<1> SUFFICES ASSUME IInv, QueueRun PROVE IInv'
  OBVIOUS
<1>1. PICK o : o = Slot
  OBVIOUS
<1>2. Doing("queue") /\ "queue" \in EnsureNames /\ Continue /\ UNCHANGED <<rec, gw, Others>>
  BY DEF QueueRun, EnsureNames
<1>3. /\ Types /\ ~Idle /\ H[1] = "queue" /\ o \in Slots /\ Sound(o) /\ Ready(H) /\ H[2] = o
      /\ run \in [Slots -> RunState] /\ gw \in [Slots -> GwStates]
      /\ run[o] \in RunState /\ gw[o] \in GwStates /\ gw = [gw EXCEPT ![o] = gw[o]]
      /\ run = [run EXCEPT ![o] = run[o]]
      /\ rec \in [status : Statuses, approval : {"none", "pending", "reserved"},
                  slots : SUBSET Slots, arbiter : BOOLEAN]
      /\ rec.status \notin Terminal /\ gw[o] # "none"
      /\ ("queue" # "enqueue" /\ faults = 0 => ~(run[o].bound /\ run[o].task = "none"))
  BY <1>1, <1>2, EnsureHead
<1>4. PICK r : r = [run[o] EXCEPT !.status = "queued"]
  OBVIOUS
<1>5. run' = [run EXCEPT ![o] = r]
  BY <1>1, <1>4 DEF QueueRun, SetRun
<1>6. r \in RunState
  BY <1>3, <1>4 DEF RunState
<1>7. run'[o] = r /\ rec' = rec /\ gw' = gw
  BY <1>2, <1>3, <1>5, <1>6
<1>8. /\ r.status = "queued"
      /\ r.approval = run[o].approval /\ r.bound = run[o].bound /\ r.task = run[o].task
      /\ r.cancel = run[o].cancel /\ r.text = run[o].text /\ r.stored = run[o].stored
  BY <1>3, <1>4 DEF RunState
<1>9. run[o].status = "approved" /\ run[o].bound /\ run[o].task # "none"
  BY <1>1, <1>3 DEF Ready
<1>10. Sound(o)'
  BY <1>3, <1>7, <1>8, <1>9 DEF Sound, Done, Terminal
<1>11. \A f : f[2] = o /\ <<H[1], f[1]>> \in Pairs => Ready(f)'
  <2>1. rec'.approval = "reserved"
    BY <1>3, <1>7 DEF Ready, EnsureNames
  <2>2. \A f : <<H[1], f[1]>> \in Pairs => f[1] = "slot"
    BY <1>3 DEF Pairs
  <2>3. QED
    BY <1>3, <1>7, <1>8, <1>9, <2>1, <2>2 DEF Ready, EnsureNames, Between, WholeNames, OwnNames
<1>12. ~Done(o)
  BY <1>9 DEF Done
<1>13. /\ gw' = [gw EXCEPT ![o] = gw[o]] /\ H[1] \in EnsureNames
       /\ rec' \in [status : Statuses, approval : {"none", "pending", "reserved"},
                   slots : SUBSET Slots, arbiter : BOOLEAN]
       /\ rec'.status = rec.status /\ rec'.approval = rec.approval /\ rec'.arbiter = rec.arbiter
       /\ rec'.slots \subseteq rec.slots \cup {o}
  BY <1>2, <1>3, <1>7
<1>14. r.bound /\ r.task = "none" /\ faults = 0 => H[1] = "bind"
  BY <1>3, <1>8
<1>15. UNCHANGED Others
  BY <1>2
<1>16. Done(o) => r.status = "completed" /\ r.text = run[o].text
  BY <1>12
<1>17. QED
  BY <1>1, <1>2, <1>3, <1>5, <1>6, <1>10, <1>11, <1>13, <1>14, <1>15, <1>16, EnsureAction, ZenonT(60)

LEMMA WriteApprovalKeeps == IInv /\ WriteApproval => IInv'
<1> SUFFICES ASSUME IInv, WriteApproval PROVE IInv'
  OBVIOUS
<1>1. PICK o : o = Slot
  OBVIOUS
<1>2. Doing("approval") /\ "approval" \in EnsureNames /\ Continue /\ UNCHANGED <<rec, gw, Others>>
  BY DEF WriteApproval, EnsureNames
<1>3. /\ Types /\ ~Idle /\ H[1] = "approval" /\ o \in Slots /\ Sound(o) /\ Ready(H) /\ H[2] = o
      /\ run \in [Slots -> RunState] /\ gw \in [Slots -> GwStates]
      /\ run[o] \in RunState /\ gw[o] \in GwStates /\ gw = [gw EXCEPT ![o] = gw[o]]
      /\ run = [run EXCEPT ![o] = run[o]]
      /\ rec \in [status : Statuses, approval : {"none", "pending", "reserved"},
                  slots : SUBSET Slots, arbiter : BOOLEAN]
      /\ rec.status \notin Terminal /\ gw[o] # "none"
      /\ ("approval" # "enqueue" /\ faults = 0 => ~(run[o].bound /\ run[o].task = "none"))
  BY <1>1, <1>2, EnsureHead
<1>4. PICK r : r = [run[o] EXCEPT !.approval = IF @ = "none" THEN "pending" ELSE @]
  OBVIOUS
<1>5. run' = [run EXCEPT ![o] = r]
  BY <1>1, <1>4 DEF WriteApproval, SetRun
<1>6. r \in RunState
  BY <1>3, <1>4 DEF RunState
<1>7. run'[o] = r /\ rec' = rec /\ gw' = gw
  BY <1>2, <1>3, <1>5, <1>6
<1>8. /\ r.status = run[o].status /\ r.bound = run[o].bound /\ r.task = run[o].task
      /\ r.cancel = run[o].cancel /\ r.text = run[o].text /\ r.stored = run[o].stored
  BY <1>3, <1>4 DEF RunState
<1>9. run[o].status # "absent"
  BY <1>3 DEF Ready
<1>10. Sound(o)'
  BY <1>3, <1>7, <1>8, <1>9 DEF Sound, Done, Terminal
<1>11. \A f : f[2] = o /\ <<H[1], f[1]>> \in Pairs => Ready(f)'
  <2>1. rec'.approval = "reserved"
    BY <1>3, <1>7 DEF Ready, EnsureNames
  <2>2. \A f : <<H[1], f[1]>> \in Pairs => f[1] = "decide"
    BY <1>3 DEF Pairs
  <2>3. QED
    BY <1>3, <1>7, <1>8, <1>9, <2>1, <2>2 DEF Ready, EnsureNames, Between, WholeNames, OwnNames
<1>13. /\ H[1] \in EnsureNames
       /\ rec' \in [status : Statuses, approval : {"none", "pending", "reserved"},
                   slots : SUBSET Slots, arbiter : BOOLEAN]
       /\ rec'.status = rec.status /\ rec'.approval = rec.approval /\ rec'.arbiter = rec.arbiter
       /\ rec'.slots \subseteq rec.slots \cup {o}
  BY <1>2, <1>3, <1>7
<1>14. r.bound /\ r.task = "none" /\ faults = 0 => H[1] = "bind"
  BY <1>3, <1>8
<1>15. UNCHANGED Others
  BY <1>2
<1>16. Done(o) => r.status = "completed" /\ r.text = run[o].text
  BY <1>8 DEF Done
<1>17. gw' = [gw EXCEPT ![o] = gw[o]]
  BY <1>3, <1>7
<1>18. QED
  BY <1>1, <1>2, <1>3, <1>5, <1>6, <1>10, <1>11, <1>13, <1>14, <1>15, <1>16, <1>17, EnsureAction, ZenonT(60)

LEMMA ClaimSlotKeeps == IInv /\ ClaimSlot => IInv'
<1> SUFFICES ASSUME IInv, ClaimSlot PROVE IInv'
  OBVIOUS
<1>1. PICK o : o = Slot
  OBVIOUS
<1>2. Doing("claim") /\ "claim" \in EnsureNames /\ Continue /\ UNCHANGED <<rec, run, Others>>
  BY DEF ClaimSlot, EnsureNames
<1>3. /\ Types /\ ~Idle /\ H[1] = "claim" /\ o \in Slots /\ Sound(o) /\ Ready(H) /\ H[2] = o
      /\ run \in [Slots -> RunState] /\ gw \in [Slots -> GwStates]
      /\ run[o] \in RunState /\ gw[o] \in GwStates /\ gw = [gw EXCEPT ![o] = gw[o]]
      /\ run = [run EXCEPT ![o] = run[o]]
      /\ rec \in [status : Statuses, approval : {"none", "pending", "reserved"},
                  slots : SUBSET Slots, arbiter : BOOLEAN]
      /\ rec.status \notin Terminal /\ gw[o] # "none"
      /\ ("claim" # "enqueue" /\ faults = 0 => ~(run[o].bound /\ run[o].task = "none"))
  BY <1>1, <1>2, EnsureHead
<1>4. PICK g : g = IF ~run[o].bound /\ gw[o] \in {"held", "unused"} THEN "claimed" ELSE gw[o]
  OBVIOUS
<1>5. gw' = [gw EXCEPT ![o] = g]
  BY <1>1, <1>4 DEF ClaimSlot, SetSlot
<1>6. g \in GwStates /\ g # "none"
  BY <1>3, <1>4 DEF GwStates
<1>7. gw'[o] = g /\ rec' = rec /\ run' = run
  BY <1>2, <1>3, <1>5, <1>6
<1>8. PICK r \in RunState : r = run[o]
  BY <1>3
<1>9. run[o].status = "approved"
  BY <1>3 DEF Ready
<1>10. Sound(o)' /\ g \in {"claimed", "released", "settled"} /\ (run[o].bound \/ g = "claimed")
  <2>1. CASE run[o].bound
    <3>1. g = gw[o] /\ g \in {"claimed", "released", "settled"}
      BY <1>3, <1>4, <2>1 DEF Sound
    <3>2. QED
      BY <1>3, <1>7, <2>1, <3>1 DEF Sound, Done
  <2>2. CASE ~run[o].bound
    <3>1. g = "claimed"
      BY <1>3, <1>4, <1>9, <2>2 DEF Sound, GwStates, Terminal
    <3>2. QED
      BY <1>3, <1>7, <1>9, <2>2, <3>1 DEF Sound, Done
  <2>3. QED
    BY <2>1, <2>2
<1>11. \A f : f[2] = o /\ <<H[1], f[1]>> \in Pairs => Ready(f)'
  <2>1. rec'.approval = "reserved"
    BY <1>3, <1>7 DEF Ready, EnsureNames
  <2>2. \A f : <<H[1], f[1]>> \in Pairs => f[1] = "bind"
    BY <1>3 DEF Pairs
  <2>3. QED
    BY <1>3, <1>7, <1>9, <1>10, <2>1, <2>2 DEF Ready, EnsureNames, Between, WholeNames, OwnNames
<1>13. /\ H[1] \in EnsureNames
       /\ rec' \in [status : Statuses, approval : {"none", "pending", "reserved"},
                   slots : SUBSET Slots, arbiter : BOOLEAN]
       /\ rec'.status = rec.status /\ rec'.approval = rec.approval /\ rec'.arbiter = rec.arbiter
       /\ rec'.slots \subseteq rec.slots \cup {o}
  BY <1>2, <1>3, <1>7
<1>14. r.bound /\ r.task = "none" /\ faults = 0 => H[1] = "bind"
  BY <1>3, <1>8
<1>15. UNCHANGED Others
  BY <1>2
<1>16. Done(o) => r.status = "completed" /\ r.text = run[o].text
  BY <1>8 DEF Done
<1>17. run' = [run EXCEPT ![o] = r]
  BY <1>3, <1>7, <1>8
<1>18. QED
  BY <1>1, <1>2, <1>3, <1>5, <1>6, <1>10, <1>11, <1>13, <1>14, <1>15, <1>16, <1>17, EnsureAction, ZenonT(60)

LEMMA BindSlotKeeps == IInv /\ BindSlot => IInv'
<1> SUFFICES ASSUME IInv, BindSlot PROVE IInv'
  OBVIOUS
<1>1. PICK o : o = Slot
  OBVIOUS
<1>2. Doing("slot") /\ "slot" \in EnsureNames /\ Continue /\ UNCHANGED <<run, gw, Others>>
  BY DEF BindSlot, EnsureNames
<1>3. /\ Types /\ ~Idle /\ H[1] = "slot" /\ o \in Slots /\ Sound(o) /\ Ready(H) /\ H[2] = o
      /\ run \in [Slots -> RunState] /\ gw \in [Slots -> GwStates]
      /\ run[o] \in RunState /\ gw[o] \in GwStates /\ gw = [gw EXCEPT ![o] = gw[o]]
      /\ run = [run EXCEPT ![o] = run[o]]
      /\ rec \in [status : Statuses, approval : {"none", "pending", "reserved"},
                  slots : SUBSET Slots, arbiter : BOOLEAN]
      /\ rec.status \notin Terminal /\ gw[o] # "none"
      /\ ("slot" # "enqueue" /\ faults = 0 => ~(run[o].bound /\ run[o].task = "none"))
  BY <1>1, <1>2, EnsureHead
<1>4. rec' = [rec EXCEPT !.slots = @ \cup {o}]
  BY <1>1 DEF BindSlot
<1>5. PICK r \in RunState : r = run[o]
  BY <1>3
<1>6. /\ rec' \in [status : Statuses, approval : {"none", "pending", "reserved"},
                  slots : SUBSET Slots, arbiter : BOOLEAN]
      /\ rec'.status = rec.status /\ rec'.approval = rec.approval /\ rec'.arbiter = rec.arbiter
      /\ rec'.slots = rec.slots \cup {o}
  BY <1>3, <1>4
<1>7. run' = run /\ gw' = gw
  BY <1>2
<1>8. run[o].status = "queued"
  BY <1>3 DEF Ready
<1>9. Sound(o)'
  BY <1>3, <1>6, <1>7, <1>8 DEF Sound, Done
<1>10. \A f : <<H[1], f[1]>> \notin Pairs
  BY <1>3 DEF Pairs
<1>11. gw' = [gw EXCEPT ![o] = gw[o]] /\ run' = [run EXCEPT ![o] = r]
  BY <1>3, <1>5, <1>7
<1>12. H[1] \in EnsureNames
  BY <1>2, <1>3
<1>13. r.bound /\ r.task = "none" /\ faults = 0 => H[1] = "bind"
  BY <1>3, <1>5
<1>14. UNCHANGED Others
  BY <1>2
<1>15. Done(o) => r.status = "completed" /\ r.text = run[o].text
  BY <1>5 DEF Done
<1>16. rec'.slots \subseteq rec.slots \cup {o}
  BY <1>6
<1>17. \A f : f[2] = o /\ <<H[1], f[1]>> \in Pairs => Ready(f)'
  BY <1>10
<1>18. QED
  BY <1>1, <1>2, <1>3, <1>6, <1>9, <1>11, <1>12, <1>13, <1>14, <1>15, <1>16, <1>17, EnsureAction, ZenonT(60)

-----------------------------------------------------------------------------
(* Steps that move only the handler *)

Unmoved ==
  /\ UNCHANGED <<rec, run, gw, faults>>
  /\ turn' \in {"supervisor", "tick"} /\ flight' \in 0 .. Arbitration
  /\ requests' \in 0 .. MaxRequests

LEMMA UnmovedState ==
  ASSUME IInv, Unmoved
  PROVE  /\ AnswersStay /\ Group' /\ (\A s \in Slots : Sound(s)')
         /\ (\A e : Fits(e) <=> Fits(e)') /\ (\A e : Ready(e) <=> Ready(e)')
         /\ (\A s : Over(s) <=> Over(s)') /\ (\A s : Left(s) <=> Left(s)')
         /\ (pc' \in [op : Ops, todo : Seq(Steps)] => Types')
<1>1. rec' = rec /\ run' = run /\ gw' = gw /\ faults' = faults
  BY DEF Unmoved
<1>2. AnswersStay
  BY <1>1 DEF AnswersStay, Done
<1>3. \A e : Fits(e) <=> Fits(e)'
  BY <1>1 DEF Fits, Stage, FanoutDone, Conflict, Disputed, Agreed, Done, Material
<1>4. \A e : Ready(e) <=> Ready(e)'
  BY <1>1 DEF Ready, Reserved, Mine
<1>5. (\A s : Over(s) <=> Over(s)') /\ (\A s : Left(s) <=> Left(s)')
  BY <1>1 DEF Over, Left
<1>6. Group'
  <2>1. Group
    BY DEF IInv
  <2>2. QED
    BY <1>1, <2>1 DEF Group, Reserved, Mine, Conflict, Disputed, Agreed, FanoutDone, Done, Material
<1>7. \A s \in Slots : Sound(s)'
  <2>1. \A s \in Slots : Sound(s)
    BY DEF IInv
  <2>2. QED
    BY <1>1, <2>1 DEF Sound, Done
<1>8. pc' \in [op : Ops, todo : Seq(Steps)] => Types'
  <2>1. Types
    BY DEF IInv
  <2>2. QED
    BY <1>1, <2>1 DEF Types, Unmoved
<1>9. QED
  BY <1>2, <1>3, <1>4, <1>5, <1>6, <1>7, <1>8

\* A handler stops before the brainstorm ended.
LEMMA StopKeeps ==
  ASSUME IInv, Unmoved, pc' = Nobody, rec.status \notin Terminal, ~Doing("enqueue")
  PROVE  IInv'
<1>1. /\ AnswersStay /\ Group' /\ (\A s \in Slots : Sound(s)')
      /\ (pc' \in [op : Ops, todo : Seq(Steps)] => Types')
  BY UnmovedState
<1>2. /\ pc' \in [op : Ops, todo : Seq(Steps)] /\ Handler' /\ Todo' /\ NextUp'
      /\ Idle' /\ pc'.op = "none" /\ \A step : ~Doing(step)'
  BY Stopped
<1>3. rec' = rec /\ run' = run /\ faults' = faults
  BY DEF Unmoved
<1>4. Cleaning'
  <2>1. faults' = 0 => \A s \in Slots : ~(run'[s].bound /\ run'[s].task = "none")
    BY <1>3 DEF IInv, Cleaning
  <2>2. QED
    BY <1>2, <1>3, <2>1 DEF Cleaning
<1>5. QED
  BY <1>1, <1>2, <1>4 DEF IInv

\* The queued run of a slot is returned: the step that binds the slot is the next one.
LEMMA QueuedRun ==
  ASSUME IInv, Doing("decide"), NEW o \in Slots, o = Slot, NEW t \in Seq(Steps), t = pc.todo
  PROVE  /\ Len(t) \in Nat /\ 7 <= Len(t) /\ t[7] = <<"slot", o>> /\ Chain(t)
<1>1. Types /\ Handler
  BY DEF IInv
<1>2. H = t[1] /\ H[1] = "decide" /\ Len(t) \in Nat \ {0} /\ H[2] = o /\ ~Doing("cancel_run")
  BY <1>1, DoingStep, HeadStep
<1>3. Chain(t)
  BY <1>1, <1>2 DEF Handler
<1>4. ASSUME NEW i \in 1 .. Len(t), t[i][2] = o, t[i][1] \in EnsureNames \ {"slot"}
      PROVE  /\ i + 1 \in 1 .. Len(t) /\ t[i + 1][2] = o /\ <<t[i][1], t[i + 1][1]>> \in Pairs
  <2>1. i # Len(t)
    BY <1>3, <1>4 DEF Chain, Ends, EnsureNames, Between
  <2>2. Follows(t[i], t[i + 1])
    BY <1>2, <1>3, <2>1 DEF Chain
  <2>3. QED
    BY <1>2, <1>4, <2>1, <2>2 DEF Follows, EnsureNames, Terminal
<1>5. ASSUME NEW i \in 1 .. Len(t), t[i][2] = o
      PROVE  /\ t[i][1] = "decide" => i + 1 \in 1 .. Len(t) /\ t[i + 1][2] = o /\ t[i + 1][1] = "approve"
             /\ t[i][1] = "approve" => i + 1 \in 1 .. Len(t) /\ t[i + 1][2] = o /\ t[i + 1][1] = "claim"
             /\ t[i][1] = "claim" => i + 1 \in 1 .. Len(t) /\ t[i + 1][2] = o /\ t[i + 1][1] = "bind"
             /\ t[i][1] = "bind" => i + 1 \in 1 .. Len(t) /\ t[i + 1][2] = o /\ t[i + 1][1] = "enqueue"
             /\ t[i][1] = "enqueue" => i + 1 \in 1 .. Len(t) /\ t[i + 1][2] = o /\ t[i + 1][1] = "queue"
             /\ t[i][1] = "queue" => i + 1 \in 1 .. Len(t) /\ t[i + 1][2] = o /\ t[i + 1][1] = "slot"
  BY <1>4, <1>5 DEF EnsureNames, Pairs
<1>6. 1 \in 1 .. Len(t) /\ t[1][2] = o /\ t[1][1] = "decide"
  BY <1>2
<1>7. 2 \in 1 .. Len(t) /\ t[2][2] = o /\ t[2][1] = "approve"
  BY <1>5, <1>6
<1>8. 3 \in 1 .. Len(t) /\ t[3][2] = o /\ t[3][1] = "claim"
  BY <1>5, <1>7
<1>9. 4 \in 1 .. Len(t) /\ t[4][2] = o /\ t[4][1] = "bind"
  BY <1>5, <1>8
<1>10. 5 \in 1 .. Len(t) /\ t[5][2] = o /\ t[5][1] = "enqueue"
  BY <1>5, <1>9
<1>11. 6 \in 1 .. Len(t) /\ t[6][2] = o /\ t[6][1] = "queue"
  BY <1>5, <1>10
<1>12. 7 \in 1 .. Len(t) /\ t[7][2] = o /\ t[7][1] = "slot"
  BY <1>5, <1>11
<1>13. t[7] \in Steps
  BY <1>12
<1>14. QED
  BY <1>2, <1>3, <1>12, <1>13, StepNames

LEMMA Rest ==
  ASSUME NEW t \in Seq(Steps), Chain(t), 7 <= Len(t), NEW u, u = SubSeq(t, 7, Len(t))
  PROVE  /\ u \in Seq(Steps) /\ u # <<>> /\ Chain(u) /\ u[1] = t[7] /\ Head(u) = t[7]
         /\ \A i \in 1 .. Len(u) : i + 6 \in 1 .. Len(t) /\ u[i] = t[i + 6]
<1>1. Len(t) \in Nat
  OBVIOUS
<1>2. u \in Seq(Steps) /\ Len(u) = Len(t) - 6
  BY <1>1
<1>3. \A i \in 1 .. Len(t) - 6 : u[i] = t[i + 6]
  BY <1>1
<1>4. u # <<>>
  BY <1>1, <1>2
<1>5. Len(u) \in Nat \ {0} /\ Head(u) = u[1]
  BY <1>2, <1>4, TailOf
<1>6. u[1] = t[7]
  BY <1>2, <1>3, <1>5
<1>7. \A i \in 1 .. Len(u) : i + 6 \in 1 .. Len(t) /\ u[i] = t[i + 6]
  BY <1>1, <1>2, <1>3
<1>8. ASSUME NEW i \in 1 .. Len(u) - 1 PROVE Follows(u[i], u[i + 1])
  <2>1. i + 6 \in 1 .. Len(t) - 1 /\ u[i] = t[i + 6] /\ u[i + 1] = t[(i + 6) + 1]
    BY <1>1, <1>2, <1>3
  <2>2. QED
    BY <2>1 DEF Chain
<1>9. ASSUME NEW i \in 1 .. Len(u), NEW j \in 1 .. Len(u), i < j PROVE Later(u[i], u[j])
  <2>1. /\ u[i] = t[i + 6] /\ u[j] = t[j + 6] /\ i + 6 \in 1 .. Len(t) /\ j + 6 \in 1 .. Len(t)
        /\ i + 6 < j + 6
    BY <1>1, <1>7, <1>9
  <2>2. QED
    BY <2>1 DEF Chain
<1>10. u[Len(u)] = t[Len(t)]
  BY <1>1, <1>2, <1>3, <1>5
<1>11. Chain(u)
  BY <1>1, <1>8, <1>9, <1>10 DEF Chain
<1>12. QED
  BY <1>2, <1>4, <1>5, <1>6, <1>7, <1>11

\* The handler goes on with other steps, or a handler begins.
LEMMA StartKeeps ==
  ASSUME IInv, Unmoved, ~Doing("enqueue"), NEW op \in Ops \ {"cancel_run"}, NEW u,
         Program(u), u # <<>>, pc' = [op |-> op, todo |-> u],
         \A i \in 1 .. Len(u) : Fits(u[i]), Ready(u[1]),
         u[1][1] = "cancelled" => (Len(u) = 1 <=> rec.approval = "none"),
         u[1][1] \notin {"cancel_run", "release", "enqueue"}
  PROVE  IInv'
<1>1. /\ Group' /\ (\A s \in Slots : Sound(s)')
      /\ (\A e : Fits(e) <=> Fits(e)') /\ (\A e : Ready(e) <=> Ready(e)')
      /\ (pc' \in [op : Ops, todo : Seq(Steps)] => Types')
  BY UnmovedState
<1>2. PICK t \in Seq(Steps) : t = u
  BY DEF Program
<1>3. Chain(t) /\ t # <<>> /\ pc'.op = op /\ pc'.todo = t
  BY <1>2 DEF Program
<1>4. pc' \in [op : Ops, todo : Seq(Steps)]
  BY <1>2
<1>5. Types' /\ Handler'
  BY <1>1, <1>3, <1>4 DEF Handler
<1>6. ASSUME NEW i \in 1 .. Len(pc'.todo), NEW e, e = pc'.todo[i] PROVE Fits(e)'
  BY <1>1, <1>2, <1>3, <1>6
<1>7. Todo'
  BY <1>6 DEF Todo, Fits
<1>8. Head(t) = t[1]
  BY <1>3, TailOf
<1>9. ~Idle' /\ H' = t[1]
  BY <1>3, <1>8 DEF Idle, H
<1>10. /\ \A step : Doing(step)' <=> t[1][1] = step
  BY <1>3, <1>8 DEF Doing
<1>11. NextUp'
  <2>1. PICK e : e = t[1]
    OBVIOUS
  <2>2. Ready(e)'
    BY <1>1, <1>2, <2>1
  <2>3. Ready(H)'
    BY <1>9, <2>1, <2>2 DEF Ready
  <2>4. rec' = rec
    BY DEF Unmoved
  <2>5. Doing("cancelled")' => (Len(pc'.todo) = 1 <=> rec'.approval = "none")
    BY <1>2, <1>3, <1>10, <2>4
  <2>6. QED
    BY <2>3, <2>5 DEF NextUp
<1>12. Cleaning'
  <2>1. rec' = rec /\ run' = run /\ faults' = faults
    BY DEF Unmoved
  <2>2. faults' = 0 => \A s \in Slots : ~(run'[s].bound /\ run'[s].task = "none")
    BY <2>1 DEF IInv, Cleaning
  <2>3. ~Doing("cancel_run")' /\ ~Doing("release")'
    BY <1>2, <1>10
  <2>4. QED
    BY <1>3, <1>9, <2>2, <2>3 DEF Cleaning
<1>13. QED
  BY <1>1, <1>5, <1>7, <1>11, <1>12 DEF IInv

\* The brainstorm fails: the record first, then the cleanup.
LEMMA FailKeeps ==
  ASSUME IInv, Unmoved, ~Doing("enqueue"), NEW op \in Ops \ {"cancel_run"},
         pc' = [op |-> op, todo |-> MarkFailed], rec.status \notin Terminal, rec.approval # "none"
  PROVE  IInv'
<1>1. PICK u : u = MarkFailed
  OBVIOUS
<1>2. /\ Program(u) /\ u # <<>> /\ u[1] = <<"failed", 0>> /\ Len(u) > 1
      /\ \A i \in 1 .. Len(u) : u[i] = <<"failed", 0>> \/ u[i][1] \in {"cancel_run", "release"}
  BY <1>1, EndProgram DEF MarkFailed, Terminal
<1>3. ASSUME NEW i \in 1 .. Len(u) PROVE Fits(u[i])
  <2>1. u[i][1] \in {"failed", "cancel_run", "release"}
    BY <1>2
  <2>2. QED
    BY <2>1 DEF Fits, EnsureNames, Between
<1>4. Ready(u[1])
  <2>1. u[1][1] = "failed"
    BY <1>2
  <2>2. QED
    BY <2>1 DEF Ready, EnsureNames, Between
<1>5. u[1][1] \notin {"cancel_run", "release", "enqueue", "cancelled"}
  BY <1>2
<1>6. QED
  BY <1>1, <1>2, <1>3, <1>4, <1>5, StartKeeps

LEMMA RefuseRunKeeps == IInv /\ RefuseRun => IInv'
<1> SUFFICES ASSUME IInv, RefuseRun PROVE IInv'
  OBVIOUS
<1>1. Doing("create") /\ "create" \in EnsureNames /\ UNCHANGED <<rec, run, gw, Others>>
  BY DEF RefuseRun, EnsureNames
<1>2. PICK o : o = Slot
  OBVIOUS
<1>3. Types /\ rec.status \notin Terminal /\ Ready(H) /\ H[1] = "create"
  BY <1>1, <1>2, EnsureHead
<1>4. \A other : Doing(other) <=> other = "create"
  BY <1>1, <1>3, DoingStep
<1>5. ~Doing("enqueue") /\ ~Doing("cancel_run")
  BY <1>4
<1>6. Unmoved
  BY <1>1, <1>3 DEF Unmoved, Others, Types
<1>7. CASE pc.op = "arbitrate"
  <2>1. pc' = Nobody
    BY <1>7 DEF RefuseRun, Stop
  <2>2. QED
    BY <1>3, <1>5, <1>6, <2>1, StopKeeps
<1>8. CASE pc.op # "arbitrate"
  <2>1. MarkFailed # <<>>
    <3>1. PICK u : u = MarkFailed
      OBVIOUS
    <3>2. u # <<>>
      BY <3>1, EndProgram DEF MarkFailed, Terminal
    <3>3. QED
      BY <3>1, <3>2
  <2>2. pc' = [pc EXCEPT !.todo = MarkFailed]
    BY <1>8, <2>1 DEF RefuseRun, Then
  <2>3. pc.op \in Ops \ {"cancel_run"}
    <3>1. Handler
      BY DEF IInv
    <3>2. QED
      BY <1>3, <1>5, <3>1 DEF Types, Handler
  <2>4. pc' = [op |-> pc.op, todo |-> MarkFailed]
    BY <1>3, <2>2 DEF Types
  <2>5. rec.approval # "none"
    BY <1>3 DEF Ready, EnsureNames
  <2>6. QED
    BY <1>3, <1>5, <1>6, <2>3, <2>4, <2>5, FailKeeps
<1>9. QED
  BY <1>7, <1>8

\* The decision of a run that was not yet approved.
LEMMA DecideDraft ==
  ASSUME IInv, Doing("decide"), NEW o \in Slots, o = Slot, Continue, NEW r,
         r = [run[o] EXCEPT !.approval = "approved"] \/ r = run[o],
         run' = [run EXCEPT ![o] = r], run[o].status \in {"draft", "approved"},
         UNCHANGED <<rec, gw, Others>>
  PROVE  IInv'
<1>1. "decide" \in EnsureNames
  BY DEF EnsureNames
<1>3. /\ Types /\ ~Idle /\ H[1] = "decide" /\ o \in Slots /\ Sound(o) /\ Ready(H) /\ H[2] = o
      /\ run \in [Slots -> RunState] /\ gw \in [Slots -> GwStates]
      /\ run[o] \in RunState /\ gw[o] \in GwStates /\ gw = [gw EXCEPT ![o] = gw[o]]
      /\ rec \in [status : Statuses, approval : {"none", "pending", "reserved"},
                  slots : SUBSET Slots, arbiter : BOOLEAN]
      /\ rec.status \notin Terminal /\ gw[o] # "none"
      /\ ("decide" # "enqueue" /\ faults = 0 => ~(run[o].bound /\ run[o].task = "none"))
  BY <1>1, EnsureHead
<1>6. r \in RunState
  BY <1>3 DEF RunState
<1>7. run'[o] = r /\ rec' = rec /\ gw' = gw
  BY <1>3, <1>6
<1>8. /\ r.status = run[o].status /\ r.bound = run[o].bound /\ r.task = run[o].task
      /\ r.cancel = run[o].cancel /\ r.text = run[o].text /\ r.stored = run[o].stored
  BY <1>3 DEF RunState
<1>10. Sound(o)'
  BY <1>3, <1>7, <1>8 DEF Sound, Done, Terminal
<1>11. \A f : f[2] = o /\ <<H[1], f[1]>> \in Pairs => Ready(f)'
  <2>1. rec'.approval = "reserved"
    BY <1>3, <1>7 DEF Ready, EnsureNames
  <2>2. \A f : <<H[1], f[1]>> \in Pairs => f[1] = "approve"
    BY <1>3 DEF Pairs
  <2>3. QED
    BY <1>3, <1>7, <1>8, <2>1, <2>2 DEF Ready, EnsureNames, Between, WholeNames, OwnNames
<1>13. /\ H[1] \in EnsureNames
       /\ rec' \in [status : Statuses, approval : {"none", "pending", "reserved"},
                   slots : SUBSET Slots, arbiter : BOOLEAN]
       /\ rec'.status = rec.status /\ rec'.approval = rec.approval /\ rec'.arbiter = rec.arbiter
       /\ rec'.slots \subseteq rec.slots \cup {o}
  BY <1>1, <1>3, <1>7
<1>14. r.bound /\ r.task = "none" /\ faults = 0 => H[1] = "bind"
  BY <1>3, <1>8
<1>16. Done(o) => r.status = "completed" /\ r.text = run[o].text
  BY <1>8 DEF Done
<1>17. gw' = [gw EXCEPT ![o] = gw[o]]
  BY <1>3, <1>7
<1>18. UNCHANGED Others
  OBVIOUS
<1>19. QED
  BY <1>3, <1>6, <1>10, <1>11, <1>13, <1>14, <1>16, <1>17, <1>18, EnsureAction, ZenonT(60)

LEMMA DecideKeeps == IInv /\ Decide => IInv'
<1> SUFFICES ASSUME IInv, Decide PROVE IInv'
  OBVIOUS
<1>1. Doing("decide") /\ "decide" \in EnsureNames /\ UNCHANGED <<rec, gw, Others>>
  BY DEF Decide, EnsureNames
<1>2. PICK o : o = Slot
  OBVIOUS
<1>3. /\ Types /\ rec.status \notin Terminal /\ Ready(H) /\ H[1] = "decide" /\ o \in Slots
      /\ H[2] = o /\ run = [run EXCEPT ![o] = run[o]]
  BY <1>1, <1>2, EnsureHead
<1>4. \A other : Doing(other) <=> other = "decide"
  BY <1>1, <1>3, DoingStep
<1>5. ~Doing("enqueue") /\ ~Doing("cancel_run")
  BY <1>4
<1>6. CASE run[o].status = "draft"
  <2>1. Continue /\ run' = [run EXCEPT ![o] = [run[o] EXCEPT !.approval = "approved"]]
    BY <1>2, <1>6 DEF Decide, SetRun
  <2>2. PICK r : r = [run[o] EXCEPT !.approval = "approved"]
    OBVIOUS
  <2>3. QED
    BY <1>1, <1>2, <1>3, <1>6, <2>1, <2>2, DecideDraft
<1>7. CASE run[o].status = "approved"
  <2>1. Continue /\ run' = run
    BY <1>2, <1>7 DEF Decide
  <2>2. PICK r : r = run[o]
    OBVIOUS
  <2>3. QED
    BY <1>1, <1>2, <1>3, <1>7, <2>1, <2>2, DecideDraft
<1>8. CASE run[o].status = "queued"
  <2>1. Then(SubSeq(pc.todo, 7, Len(pc.todo))) /\ run' = run
    BY <1>2, <1>8 DEF Decide
  <2>2. PICK t \in Seq(Steps) : t = pc.todo
    BY <1>3 DEF Types
  <2>3. Len(t) \in Nat /\ 7 <= Len(t) /\ t[7] = <<"slot", o>> /\ Chain(t)
    BY <1>1, <1>2, <1>3, <2>2, QueuedRun
  <2>4. PICK u : u = SubSeq(t, 7, Len(t))
    OBVIOUS
  <2>5. /\ u \in Seq(Steps) /\ u # <<>> /\ Chain(u) /\ u[1] = t[7]
        /\ \A i \in 1 .. Len(u) : i + 6 \in 1 .. Len(t) /\ u[i] = t[i + 6]
    BY <2>3, <2>4, Rest
  <2>6. pc' = [pc EXCEPT !.todo = u]
    BY <2>1, <2>2, <2>4, <2>5 DEF Then
  <2>7. pc' = [op |-> pc.op, todo |-> u] /\ pc.op \in Ops \ {"cancel_run"}
    <3>1. Handler
      BY DEF IInv
    <3>2. pc.op \in Ops \ {"cancel_run"}
      BY <1>3, <1>5, <3>1 DEF Types, Handler
    <3>3. QED
      BY <1>3, <2>6, <3>2 DEF Types
  <2>8. \A i \in 1 .. Len(u) : Fits(u[i])
    BY <2>2, <2>5 DEF IInv, Todo
  <2>9. Ready(u[1]) /\ u[1][1] = "slot"
    <3>1. u[1][1] = "slot" /\ u[1][2] = o
      BY <2>3, <2>5
    <3>2. rec.approval = "reserved"
      BY <1>3 DEF Ready, EnsureNames
    <3>3. QED
      BY <1>8, <3>1, <3>2 DEF Ready
  <2>10. Unmoved
    BY <1>1, <1>3, <2>1 DEF Unmoved, Others, Types
  <2>11. Program(u)
    BY <2>5 DEF Program
  <2>12. QED
    BY <1>5, <2>5, <2>7, <2>8, <2>9, <2>10, <2>11, StartKeeps
<1>9. CASE run[o].status \notin {"draft", "approved", "queued"}
  <2>1. pc' = Nobody /\ run' = run
    BY <1>2, <1>9 DEF Decide, Stop
  <2>2. Unmoved
    BY <1>1, <1>3, <2>1 DEF Unmoved, Others, Types
  <2>3. QED
    BY <1>3, <1>5, <2>1, <2>2, StopKeeps
<1>10. QED
  BY <1>6, <1>7, <1>8, <1>9

-----------------------------------------------------------------------------
(* The record and the group *)

\* What a step that is not one of ensureGroupRun's has done when it is through.
LEMMA RecordHead ==
  ASSUME IInv, NEW step \in WholeNames \cup {"cancel_run"}, Doing(step), Continue
  PROVE  /\ Types /\ Handler /\ Todo /\ Group /\ Cleaning /\ ~Idle /\ H[1] = step /\ Ready(H) /\ Fits(H)
         /\ (step # "cancel_run" => pc.op # "cancel_run") /\ pc.op \in Ops
         /\ pc' \in [op : Ops, todo : Seq(Steps)] /\ Handler'
         /\ \/ Idle' /\ pc' = Nobody /\ Len(pc.todo) = 1 /\ (step \in Ends \/ pc.op = "cancel_run")
            \/ ~Idle' /\ pc'.op = pc.op /\ pc.op # "cancel_run" /\ Follows(H, H') /\ Len(pc.todo) # 1
         /\ (faults = 0 => \A s \in Slots : ~(run[s].bound /\ run[s].task = "none"))
         /\ (\A other : Doing(other) <=> other = step)
<1>1. Types /\ Handler /\ Todo /\ NextUp /\ Group /\ Cleaning
  BY DEF IInv
<1>2. /\ ~Idle /\ H[1] = step /\ H = pc.todo[1] /\ Len(pc.todo) \in Nat \ {0}
      /\ (\A other : Doing(other) <=> other = step)
  BY <1>1, DoingStep, HeadStep
<1>3. Ready(H) /\ Fits(H)
  BY <1>1, <1>2 DEF NextUp, Todo
<1>4. step # "cancel_run" => pc.op # "cancel_run"
  BY <1>1, <1>2 DEF Handler
<1>5. /\ pc' \in [op : Ops, todo : Seq(Steps)] /\ Handler'
      /\ \/ Idle' /\ pc' = Nobody /\ (step \in Ends \/ pc.op = "cancel_run")
         \/ ~Idle' /\ pc'.op = pc.op /\ pc.op # "cancel_run" /\ Follows(H, H')
  BY <1>1, <1>2, Continues
<1>6. Idle' <=> Len(pc.todo) = 1
  <2>1. pc.todo \in Seq(Steps) /\ pc.todo # <<>>
    BY <1>1, <1>2 DEF Types, Idle
  <2>2. Tail(pc.todo) = <<>> <=> Len(pc.todo) = 1
    BY <2>1, TailOf
  <2>3. PICK u : u = Tail(pc.todo)
    OBVIOUS
  <2>4. pc' = IF u = <<>> THEN Nobody ELSE [pc EXCEPT !.todo = u]
    BY <2>3 DEF Continue, Then
  <2>5. Idle' <=> u = <<>>
    BY <1>1, <2>4 DEF Idle, Nobody, Types
  <2>6. QED
    BY <2>2, <2>3, <2>5
<1>7. (faults = 0 => \A s \in Slots : ~(run[s].bound /\ run[s].task = "none"))
  <2>1. step # "enqueue"
    BY DEF WholeNames, Between, Terminal
  <2>2. ~Doing("enqueue")
    BY <1>2, <2>1
  <2>3. QED
    BY <1>1, <2>2 DEF Cleaning
<1>8. pc.op \in Ops
  BY <1>1 DEF Types
<1>9. QED
  BY <1>1, <1>2, <1>3, <1>4, <1>5, <1>6, <1>7, <1>8

\* The runs stay as they are.
LEMMA RunsStay ==
  ASSUME IInv, run' = run, rec'.arbiter = rec.arbiter
  PROVE  /\ AnswersStay /\ (FanoutDone' <=> FanoutDone) /\ (Conflict' <=> Conflict)
         /\ (Disputed' <=> Disputed) /\ (Agreed' <=> Agreed)
         /\ \A s : (Over(s)' <=> Over(s))
<1>1. AnswersStay
  BY DEF AnswersStay, Done
<1>2. /\ (FanoutDone' <=> FanoutDone) /\ (Conflict' <=> Conflict)
      /\ (Disputed' <=> Disputed) /\ (Agreed' <=> Agreed)
      /\ \A s : (Over(s)' <=> Over(s))
  BY DEF FanoutDone, Conflict, Disputed, Agreed, Over, Done, Material
<1>3. QED
  BY <1>1, <1>2

\* Only the record changes.
LEMMA RecordStays ==
  ASSUME IInv, run' = run, gw' = gw, rec'.slots = rec.slots,
         rec.status \in Terminal => rec'.status \in Terminal
  PROVE  \A s \in Slots : Sound(s)'
<1>1. ASSUME NEW s \in Slots PROVE Sound(s)'
  <2>1. Sound(s)
    BY DEF IInv
  <2>2. QED
    BY <2>1 DEF Sound, Done
<1>2. QED
  BY <1>1

LEMMA MarkPendingKeeps == IInv /\ MarkPending => IInv'
<1> SUFFICES ASSUME IInv, MarkPending PROVE IInv'
  OBVIOUS
<1>1. /\ Doing("pending") /\ Continue /\ UNCHANGED <<run, gw, Others>>
      /\ "pending" \in WholeNames \cup {"cancel_run"}
      /\ rec' = [rec EXCEPT !.status = "approved", !.approval = "pending"]
  BY DEF MarkPending, WholeNames
<1>2. /\ Types /\ Handler /\ Todo /\ Group /\ Cleaning /\ ~Idle /\ H[1] = "pending" /\ Ready(H) /\ Fits(H)
      /\ pc.op # "cancel_run"
      /\ pc' \in [op : Ops, todo : Seq(Steps)] /\ Handler'
      /\ \/ Idle' /\ pc' = Nobody /\ ("pending" \in Ends \/ pc.op = "cancel_run")
         \/ ~Idle' /\ pc'.op = pc.op /\ Follows(H, H')
      /\ (faults = 0 => \A s \in Slots : ~(run[s].bound /\ run[s].task = "none"))
  BY <1>1, RecordHead
<1>3. ~Idle' /\ H'[1] = "group"
  BY <1>2 DEF Ends, Between, Follows, Terminal, Pairs
<1>4. /\ rec' \in [status : Statuses, approval : {"none", "pending", "reserved"},
                   slots : SUBSET Slots, arbiter : BOOLEAN]
      /\ rec'.status = "approved" /\ rec'.approval = "pending" /\ rec'.slots = rec.slots
      /\ rec'.arbiter = rec.arbiter
  BY <1>1, <1>2 DEF Types, Statuses
<1>5. Types'
  BY <1>1, <1>2, <1>4 DEF Types, Others
<1>6. \A step : Doing(step)' <=> H'[1] = step
  BY <1>3 DEF Doing, Idle, H
<1>7. rec.status \notin Terminal /\ rec.approval = "none"
  BY <1>2 DEF Fits, Ready
<1>8. /\ AnswersStay /\ (FanoutDone' <=> FanoutDone) /\ (Conflict' <=> Conflict)
  BY <1>1, <1>4, RunsStay
<1>9. Todo'
  BY <1>1, <1>2, <1>4, <1>8, TodoStays DEF Terminal
<1>10. NextUp'
  <2>1. ASSUME NEW f, f = H' PROVE Ready(f)'
    BY <1>3, <1>4, <2>1 DEF Ready, EnsureNames, Between
  <2>2. Ready(H)'
    BY <2>1 DEF Ready
  <2>3. ~Doing("cancelled")'
    BY <1>3, <1>6
  <2>4. QED
    BY <2>2, <2>3 DEF NextUp
<1>11. \A s \in Slots : Sound(s)'
  BY <1>1, <1>4, <1>7, RecordStays
<1>12. Group'
  BY <1>1, <1>2, <1>4, <1>8 DEF Group, Between
<1>13. Cleaning'
  <2>1. ~Doing("cancel_run")' /\ ~Doing("release")' /\ rec'.status \notin Terminal
    BY <1>3, <1>4, <1>6 DEF Terminal
  <2>2. faults' = 0 => \A s \in Slots : ~(run'[s].bound /\ run'[s].task = "none")
    BY <1>1, <1>2 DEF Others
  <2>3. QED
    BY <2>1, <2>2 DEF Cleaning
<1>14. QED
  BY <1>2, <1>5, <1>9, <1>10, <1>11, <1>12, <1>13 DEF IInv

LEMMA ReserveGroupKeeps == IInv /\ ReserveGroup => IInv'
<1> SUFFICES ASSUME IInv, ReserveGroup PROVE IInv'
  OBVIOUS
<1>1. /\ Doing("group") /\ Continue /\ UNCHANGED <<rec, run, Others>>
      /\ "group" \in WholeNames \cup {"cancel_run"}
  BY DEF ReserveGroup, WholeNames
<1>2. /\ Types /\ Handler /\ Todo /\ Group /\ Cleaning /\ ~Idle /\ H[1] = "group" /\ Ready(H) /\ Fits(H)
      /\ pc.op # "cancel_run"
      /\ pc' \in [op : Ops, todo : Seq(Steps)] /\ Handler'
      /\ \/ Idle' /\ pc' = Nobody /\ ("group" \in Ends \/ pc.op = "cancel_run")
         \/ ~Idle' /\ pc'.op = pc.op /\ Follows(H, H')
      /\ (faults = 0 => \A s \in Slots : ~(run[s].bound /\ run[s].task = "none"))
  BY <1>1, RecordHead
<1>3. ~Idle' /\ H'[1] = "reserved"
  BY <1>2 DEF Ends, Between, Follows, Terminal, Pairs
<1>4. /\ gw' \in [Slots -> GwStates]
      /\ \A s \in Slots : gw'[s] = IF gw[s] = "none" /\ s \in Mine THEN "held" ELSE gw[s]
  BY <1>1, <1>2 DEF ReserveGroup, Types, GwStates
<1>5. Types'
  BY <1>1, <1>2, <1>4 DEF Types, Others, GwStates
<1>6. \A step : Doing(step)' <=> H'[1] = step
  BY <1>3 DEF Doing, Idle, H
<1>7. rec.status \notin Terminal /\ rec.approval # "none" /\ rec' = rec /\ run' = run
  BY <1>1, <1>2 DEF Fits, Ready, WholeNames
<1>8. /\ AnswersStay /\ (FanoutDone' <=> FanoutDone) /\ (Conflict' <=> Conflict)
      /\ (Disputed' <=> Disputed) /\ (Agreed' <=> Agreed)
  BY <1>7, RunsStay
<1>9. Todo'
  BY <1>1, <1>2, <1>7, <1>8, TodoStays
<1>10. Reserved'
  BY <1>4, <1>7 DEF Reserved, Mine
<1>11. NextUp'
  <2>1. ASSUME NEW f, f = H' PROVE Ready(f)'
    BY <1>3, <1>7, <1>10, <2>1 DEF Ready, EnsureNames, Between
  <2>2. Ready(H)'
    BY <2>1 DEF Ready
  <2>3. ~Doing("cancelled")'
    BY <1>3, <1>6
  <2>4. QED
    BY <2>2, <2>3 DEF NextUp
<1>12. ASSUME NEW s \in Slots PROVE Sound(s)'
  <2>1. Sound(s)
    BY DEF IInv
  <2>2. \/ gw'[s] = gw[s]
        \/ gw[s] = "none" /\ gw'[s] = "held"
    BY <1>4
  <2>3. CASE gw'[s] = gw[s]
    BY <1>7, <2>1, <2>3 DEF Sound, Done
  <2>4. CASE gw[s] = "none" /\ gw'[s] = "held"
    <3>1. ~run[s].bound /\ (run[s].status = "running" => s \notin rec.slots)
      BY <2>1, <2>4 DEF Sound
    <3>2. QED
      BY <1>7, <2>1, <2>4, <3>1 DEF Sound, Done
  <2>5. QED
    BY <2>2, <2>3, <2>4
<1>13. Group'
  BY <1>2, <1>7, <1>8, <1>10 DEF Group
<1>14. Cleaning'
  <2>1. ~Doing("cancel_run")' /\ ~Doing("release")' /\ rec'.status \notin Terminal
    BY <1>3, <1>6, <1>7
  <2>2. faults' = 0 => \A s \in Slots : ~(run'[s].bound /\ run'[s].task = "none")
    BY <1>1, <1>2 DEF Others
  <2>3. QED
    BY <2>1, <2>2 DEF Cleaning
<1>15. QED
  BY <1>2, <1>5, <1>9, <1>11, <1>12, <1>13, <1>14 DEF IInv

LEMMA MarkReservedKeeps == IInv /\ MarkReserved => IInv'
<1> SUFFICES ASSUME IInv, MarkReserved PROVE IInv'
  OBVIOUS
<1>1. /\ Doing("reserved") /\ Continue /\ UNCHANGED <<run, gw, Others>>
      /\ "reserved" \in WholeNames \cup {"cancel_run"}
      /\ rec' = [rec EXCEPT !.approval = "reserved"]
  BY DEF MarkReserved, WholeNames
<1>2. /\ Types /\ Handler /\ Todo /\ Group /\ Cleaning /\ ~Idle /\ H[1] = "reserved" /\ Ready(H) /\ Fits(H)
      /\ pc.op # "cancel_run"
      /\ pc' \in [op : Ops, todo : Seq(Steps)] /\ Handler'
      /\ \/ Idle' /\ pc' = Nobody /\ ("reserved" \in Ends \/ pc.op = "cancel_run")
         \/ ~Idle' /\ pc'.op = pc.op /\ Follows(H, H')
      /\ (faults = 0 => \A s \in Slots : ~(run[s].bound /\ run[s].task = "none"))
  BY <1>1, RecordHead
<1>3. ~Idle' /\ H'[1] \in {"create"} \cup Between
  BY <1>2 DEF Ends, Between, Follows, Terminal, Pairs
<1>4. /\ rec' \in [status : Statuses, approval : {"none", "pending", "reserved"},
                   slots : SUBSET Slots, arbiter : BOOLEAN]
      /\ rec'.status = rec.status /\ rec'.approval = "reserved" /\ rec'.slots = rec.slots
      /\ rec'.arbiter = rec.arbiter
  BY <1>1, <1>2 DEF Types
<1>5. Types'
  BY <1>1, <1>2, <1>4 DEF Types, Others
<1>6. \A step : Doing(step)' <=> H'[1] = step
  BY <1>3 DEF Doing, Idle, H
<1>7. rec.status \notin Terminal /\ rec.approval # "none" /\ Reserved
  BY <1>2 DEF Fits, Ready, WholeNames
<1>8. /\ AnswersStay /\ (FanoutDone' <=> FanoutDone) /\ (Conflict' <=> Conflict)
      /\ (Disputed' <=> Disputed) /\ (Agreed' <=> Agreed)
  BY <1>1, <1>4, RunsStay
<1>9. Todo'
  BY <1>1, <1>2, <1>4, <1>8, TodoStays
<1>10. Reserved'
  BY <1>1, <1>4, <1>7 DEF Reserved, Mine
<1>11. NextUp'
  <2>1. ASSUME NEW f, f = H' PROVE Ready(f)'
    BY <1>3, <1>4, <2>1 DEF Ready, EnsureNames, Between
  <2>2. Ready(H)'
    BY <2>1 DEF Ready
  <2>3. ~Doing("cancelled")'
    BY <1>3, <1>6 DEF Between
  <2>4. QED
    BY <2>2, <2>3 DEF NextUp
<1>12. \A s \in Slots : Sound(s)'
  BY <1>1, <1>4, RecordStays
<1>13. Group'
  BY <1>1, <1>2, <1>4, <1>7, <1>8, <1>10 DEF Group
<1>14. Cleaning'
  <2>1. ~Doing("cancel_run")' /\ ~Doing("release")' /\ rec'.status \notin Terminal
    BY <1>3, <1>4, <1>6, <1>7 DEF Between
  <2>2. faults' = 0 => \A s \in Slots : ~(run'[s].bound /\ run'[s].task = "none")
    BY <1>1, <1>2 DEF Others
  <2>3. QED
    BY <2>1, <2>2 DEF Cleaning
<1>15. QED
  BY <1>2, <1>5, <1>9, <1>11, <1>12, <1>13, <1>14 DEF IInv

\* After a status that ends the brainstorm only the cleanup is to be done.
LEMMA CleanupOnly ==
  ASSUME Types, Handler, ~Idle, Continue, pc.op # "cancel_run",
         H[1] \in Terminal \cup {"cancel_run", "release"}
  PROVE  Todo'
<1>1. H = pc.todo[1] /\ Len(pc.todo) \in Nat \ {0} /\ Chain(pc.todo)
  BY HeadStep DEF Handler
<1>2. ASSUME NEW i \in 1 .. Len(pc'.todo), NEW e, e = pc'.todo[i] PROVE Fits(e)'
  <2>1. i + 1 \in 2 .. Len(pc.todo) /\ e = pc.todo[i + 1]
    BY <1>2, Continues
  <2>2. Later(pc.todo[1], pc.todo[i + 1])
    BY <1>1, <2>1 DEF Chain
  <2>3. e[1] \in {"cancel_run", "release"}
    BY <1>1, <2>1, <2>2 DEF Later
  <2>4. QED
    BY <2>3 DEF Fits, EnsureNames, Between
<1>3. QED
  BY <1>2 DEF Todo, Fits

LEMMA EnterBetween ==
  ASSUME IInv, NEW status \in Between, Doing(status), Continue, UNCHANGED <<run, gw, Others>>,
         rec' = [rec EXCEPT !.status = status]
  PROVE  IInv'
<1>1. /\ Types /\ Group /\ Cleaning /\ Ready(H) /\ Fits(H) /\ H[1] = status
      /\ \/ pc' = Nobody
         \/ Follows(H, H')
      /\ (faults = 0 => \A s \in Slots : ~(run[s].bound /\ run[s].task = "none"))
  BY RecordHead DEF WholeNames
<1>2. pc' = Nobody
  BY <1>1 DEF Follows, Between, Terminal, Pairs
<1>3. /\ pc' \in [op : Ops, todo : Seq(Steps)] /\ Handler' /\ Todo' /\ NextUp'
      /\ Idle' /\ \A step : ~Doing(step)'
  BY <1>2, Stopped
<1>4. /\ rec' \in [status : Statuses, approval : {"none", "pending", "reserved"},
                   slots : SUBSET Slots, arbiter : BOOLEAN]
      /\ rec'.status = status /\ rec'.approval = rec.approval /\ rec'.slots = rec.slots
      /\ rec'.arbiter = rec.arbiter
  BY <1>1 DEF Types, Statuses, Between
<1>5. Types'
  BY <1>1, <1>3, <1>4 DEF Types, Others
<1>6. rec.status \notin Terminal /\ rec.approval = "reserved" /\ status \notin Terminal
      /\ (status = "needs_arbitration" => Disputed)
  BY <1>1 DEF Fits, Ready, Between, Terminal
<1>7. /\ (FanoutDone' <=> FanoutDone) /\ (Conflict' <=> Conflict)
      /\ (Disputed' <=> Disputed) /\ (Agreed' <=> Agreed)
  BY <1>4, RunsStay
<1>8. \A s \in Slots : Sound(s)'
  BY <1>4, <1>6, RecordStays
<1>9. Reserved'
  <2>1. Reserved
    BY <1>1, <1>6 DEF Group
  <2>2. QED
    BY <1>4, <2>1 DEF Reserved, Mine
<1>10. Group'
  BY <1>1, <1>4, <1>6, <1>7, <1>9 DEF Group, Terminal
<1>11. Cleaning'
  BY <1>1, <1>3, <1>4, <1>6 DEF Cleaning, Others
<1>12. QED
  BY <1>3, <1>5, <1>8, <1>10, <1>11 DEF IInv

LEMMA EnterTerminal ==
  ASSUME IInv, NEW status \in Terminal, Doing(status), Continue, UNCHANGED <<run, gw, Others>>,
         rec' = [rec EXCEPT !.status = status]
  PROVE  IInv'
<1>1. /\ Types /\ Handler /\ Group /\ Cleaning /\ ~Idle /\ Ready(H) /\ Fits(H) /\ H[1] = status
      /\ pc.op # "cancel_run" /\ pc' \in [op : Ops, todo : Seq(Steps)] /\ Handler'
      /\ \/ Idle' /\ pc' = Nobody /\ Len(pc.todo) = 1 /\ status \in Ends
         \/ ~Idle' /\ pc'.op = pc.op /\ Follows(H, H') /\ Len(pc.todo) # 1
      /\ (faults = 0 => \A s \in Slots : ~(run[s].bound /\ run[s].task = "none"))
      /\ NextUp
  BY RecordHead DEF WholeNames, Terminal, IInv
<1>2. Todo'
  BY <1>1, CleanupOnly
<1>3. /\ rec' \in [status : Statuses, approval : {"none", "pending", "reserved"},
                   slots : SUBSET Slots, arbiter : BOOLEAN]
      /\ rec'.status = status /\ rec'.approval = rec.approval /\ rec'.slots = rec.slots
      /\ rec'.arbiter = rec.arbiter
  BY <1>1 DEF Types, Statuses
<1>4. Types'
  BY <1>1, <1>3 DEF Types, Others
<1>5. /\ (FanoutDone' <=> FanoutDone) /\ (Conflict' <=> Conflict)
      /\ (Disputed' <=> Disputed) /\ (Agreed' <=> Agreed)
  BY <1>3, RunsStay
<1>6. \A s \in Slots : Sound(s)'
  BY <1>3, RecordStays
<1>7. rec.approval = "none" => Idle' /\ status = "cancelled"
  <2>1. rec.approval = "none" => status = "cancelled"
    BY <1>1 DEF Ready, WholeNames, Terminal
  <2>2. Doing("cancelled") => (Len(pc.todo) = 1 <=> rec.approval = "none")
    BY <1>1 DEF NextUp
  <2>3. QED
    BY <1>1, <2>1, <2>2
<1>8. Idle' => rec.approval = "none"
  <2>1. Idle' => status = "cancelled" /\ Len(pc.todo) = 1
    BY <1>1 DEF Ends, Between, Terminal
  <2>2. QED
    BY <1>1, <2>1 DEF NextUp
<1>9. ~Idle' => H' = <<"cancel_run", 1>>
  BY <1>1 DEF Follows, Terminal, Pairs
<1>10. Idle' => \A step : ~Doing(step)'
  BY DEF Idle, Doing
<1>11. ~Idle' => Slot' = 1 /\ \A step : Doing(step)' <=> step = "cancel_run"
  BY <1>9 DEF Idle, Doing, H, Slot
<1>12. NextUp'
  <2>1. ASSUME ~Idle', NEW f, f = H' PROVE Ready(f)'
    BY <1>3, <1>7, <1>9, <2>1 DEF Ready, EnsureNames, Between
  <2>2. ~Idle' => Ready(H)'
    BY <2>1 DEF Ready
  <2>3. ~Doing("cancelled")'
    BY <1>10, <1>11
  <2>4. QED
    BY <2>2, <2>3 DEF NextUp
<1>13. Group'
  <2>1. rec.approval = "reserved" => Reserved'
    <3>1. rec.approval = "reserved" => Reserved
      BY <1>1 DEF Group
    <3>2. QED
      BY <1>3, <3>1 DEF Reserved, Mine
  <2>2. status = "completed" => Agreed /\ rec.approval = "reserved"
    BY <1>1 DEF Fits, Ready
  <2>3. rec'.approval = "none" => /\ rec'.status \in {"draft", "cancelled"}
                                  /\ \A s \in Slots : run'[s] = Absent /\ gw'[s] = "none"
    BY <1>1, <1>3, <1>7 DEF Group
  <2>4. status \notin Between /\ status # "needs_arbitration"
    BY DEF Terminal, Between
  <2>5. (run[Consolidation].status # "absent" => FanoutDone) /\ (run[Arbitration].status # "absent" => Conflict)
    BY <1>1 DEF Group
  <2>6. QED
    BY <1>3, <1>5, <2>1, <2>2, <2>3, <2>4, <2>5 DEF Group
<1>14. Cleaning'
  <2>1. pc'.op # "cancel_run"
    BY <1>1 DEF Nobody
  <2>2. Doing("cancel_run")' => rec'.status \in Terminal /\ \A t \in Slots : ~(t < Slot')
    BY <1>3, <1>10, <1>11, SlotNumbers DEF Slots
  <2>3. ~Doing("release")'
    BY <1>10, <1>11
  <2>4. Idle' => \A s \in Slots : Left(s)'
    <3>1. Idle' => \A s \in Slots : run[s] = Absent /\ gw[s] = "none"
      BY <1>1, <1>8 DEF Group
    <3>2. QED
      BY <3>1 DEF Left, Absent
  <2>5. faults' = 0 => \A s \in Slots : ~(run'[s].bound /\ run'[s].task = "none")
    BY <1>1 DEF Others
  <2>6. QED
    BY <2>1, <2>2, <2>3, <2>4, <2>5 DEF Cleaning
<1>15. QED
  BY <1>1, <1>2, <1>4, <1>6, <1>12, <1>13, <1>14 DEF IInv

LEMMA EnterStatusKeeps == IInv /\ EnterStatus => IInv'
<1> SUFFICES ASSUME IInv, EnterStatus PROVE IInv'
  OBVIOUS
<1>1. PICK status \in Statuses : Doing(status) /\ rec' = [rec EXCEPT !.status = status]
  BY DEF EnterStatus
<1>2. Continue /\ UNCHANGED <<run, gw, Others>>
  BY DEF EnterStatus
<1>3. status \in Between \cup Terminal
  <2>1. Types
    BY DEF IInv
  <2>2. status \in OwnNames \cup WholeNames
    BY <1>1, <2>1, At
  <2>3. QED
    BY <2>2 DEF Statuses, OwnNames, WholeNames, EnsureNames, Between
<1>4. QED
  BY <1>1, <1>2, <1>3, EnterBetween, EnterTerminal

-----------------------------------------------------------------------------
(* cancelRun and the cleanup *)

\* A run that is not changed, and its slot.
LEMMA SlotStays ==
  ASSUME NEW s \in Slots, run'[s] = run[s], gw'[s] = gw[s], rec' = rec, Sound(s)
  PROVE  Sound(s)' /\ (Over(s) => Over(s)') /\ (Left(s) => Left(s)')
         /\ (Done(s) => Done(s)' /\ run'[s].text = run[s].text)
<1>1. Sound(s)'
  BY DEF Sound, Done
<1>2. (Over(s) => Over(s)') /\ (Left(s) => Left(s)')
  BY DEF Over, Left
<1>3. Done(s) => Done(s)' /\ run'[s].text = run[s].text
  BY DEF Done
<1>4. QED
  BY <1>1, <1>2, <1>3

\* What cancelRun makes of the run of a slot.
Cancelled(o, r, g) ==
  \/ /\ run[o].status \in Terminal \cup {"absent"} /\ r = run[o] /\ g = gw[o]
  \/ /\ run[o].status = "running" /\ run[o].task \in {"running", "none"}
     /\ r = [run[o] EXCEPT !.cancel = TRUE] /\ g = gw[o]
  \/ /\ run[o].status \notin Terminal \cup {"absent"}
     /\ ~(run[o].status = "running" /\ run[o].task \in {"running", "none"})
     /\ g = IF gw[o] = "claimed" THEN "released" ELSE gw[o]
     /\ r = IF run[o].bound /\ run[o].task = "none" THEN [run[o] EXCEPT !.cancel = TRUE]
            ELSE [run[o] EXCEPT !.cancel = TRUE, !.status = "cancelled",
                                !.task = IF @ = "none" THEN @ ELSE "over"]

LEMMA CancelParts ==
  ASSUME IInv, CancelRun, NEW o, o = Slot
  PROVE  /\ o \in Slots /\ H[1] = "cancel_run" /\ H[2] = o /\ UNCHANGED <<rec, Others>>
         /\ (faults = 0 => \A s \in Slots : ~(run[s].bound /\ run[s].task = "none"))
         /\ \E r, g : /\ Cancelled(o, r, g)
                      /\ run' = [run EXCEPT ![o] = r] /\ gw' = [gw EXCEPT ![o] = g]
                      /\ IF run[o].bound /\ run[o].task = "none" /\ run[o].status \notin Terminal \cup {"absent", "running"}
                           THEN pc' = Nobody ELSE Continue
<1>1. Types /\ Cleaning
  BY DEF IInv
<1>2. Doing("cancel_run") /\ UNCHANGED <<rec, Others>>
  BY DEF CancelRun
<1>3. o \in Slots /\ H[1] = "cancel_run" /\ H[2] = o /\ ~Doing("enqueue")
  BY <1>1, <1>2, DoingStep DEF OwnNames
<1>4. faults = 0 => \A s \in Slots : ~(run[s].bound /\ run[s].task = "none")
  BY <1>1, <1>3 DEF Cleaning
<1>5. run = [run EXCEPT ![o] = run[o]] /\ gw = [gw EXCEPT ![o] = gw[o]]
  BY <1>1, <1>3 DEF Types
<1>6. CASE run[o].status \in Terminal \cup {"absent"}
  <2>1. Continue /\ run' = run /\ gw' = gw
    BY <1>6 DEF CancelRun
  <2>2. Cancelled(o, run[o], gw[o])
    BY <1>6 DEF Cancelled
  <2>3. QED
    BY <1>2, <1>3, <1>4, <1>5, <1>6, <2>1, <2>2
<1>7. CASE run[o].status = "running" /\ run[o].task \in {"running", "none"}
  <2>1. run[o].status \notin Terminal \cup {"absent"}
    BY <1>7 DEF Terminal
  <2>2. Continue /\ run' = [run EXCEPT ![o] = [run[o] EXCEPT !.cancel = TRUE]] /\ gw' = gw
    BY <1>7, <2>1 DEF CancelRun, SetRun
  <2>3. Cancelled(o, [run[o] EXCEPT !.cancel = TRUE], gw[o])
    BY <1>7 DEF Cancelled
  <2>4. QED
    BY <1>2, <1>3, <1>4, <1>5, <1>7, <2>2, <2>3
<1>8. CASE /\ run[o].status \notin Terminal \cup {"absent"}
           /\ ~(run[o].status = "running" /\ run[o].task \in {"running", "none"})
  <2>1. PICK g : g = IF gw[o] = "claimed" THEN "released" ELSE gw[o]
    OBVIOUS
  <2>2. gw' = [gw EXCEPT ![o] = g]
    BY <1>8, <2>1 DEF CancelRun, SetSlot
  <2>3. CASE run[o].bound /\ run[o].task = "none"
    <3>1. pc' = Nobody /\ run' = [run EXCEPT ![o] = [run[o] EXCEPT !.cancel = TRUE]]
      BY <1>8, <2>3 DEF CancelRun, SetRun, Stop
    <3>2. Cancelled(o, [run[o] EXCEPT !.cancel = TRUE], g)
      BY <1>8, <2>1, <2>3 DEF Cancelled
    <3>3. run[o].status \notin Terminal \cup {"absent", "running"}
      BY <1>8, <2>3
    <3>4. QED
      BY <1>2, <1>3, <1>4, <2>2, <2>3, <3>1, <3>2, <3>3
  <2>4. CASE ~(run[o].bound /\ run[o].task = "none")
    <3>1. PICK r : r = [run[o] EXCEPT !.cancel = TRUE, !.status = "cancelled",
                                      !.task = IF @ = "none" THEN @ ELSE "over"]
      OBVIOUS
    <3>2. Continue /\ run' = [run EXCEPT ![o] = r]
      BY <1>8, <2>4, <3>1 DEF CancelRun, SetRun
    <3>3. Cancelled(o, r, g)
      BY <1>8, <2>1, <2>4, <3>1 DEF Cancelled
    <3>4. QED
      BY <1>2, <1>3, <1>4, <2>2, <2>4, <3>2, <3>3
  <2>5. QED
    BY <2>3, <2>4
<1>9. QED
  BY <1>6, <1>7, <1>8

LEMMA CancelEffect ==
  ASSUME IInv, CancelRun, NEW o, o = Slot
  PROVE  /\ run' \in [Slots -> RunState] /\ gw' \in [Slots -> GwStates]
         /\ AnswersStay /\ (\A s \in Slots : Sound(s)') /\ Group'
         /\ (\A s \in Slots : (Over(s) => Over(s)') /\ (faults = 0 /\ Left(s) => Left(s)'))
         /\ (faults = 0 => \A s \in Slots : ~(run'[s].bound /\ run'[s].task = "none"))
         /\ \/ Continue /\ Over(o)'
            \/ pc' = Nobody /\ faults # 0
<1>1. Types /\ Group /\ \A s \in Slots : Sound(s)
  BY DEF IInv
<1>2. /\ o \in Slots /\ UNCHANGED <<rec, Others>>
      /\ (faults = 0 => \A s \in Slots : ~(run[s].bound /\ run[s].task = "none"))
  BY CancelParts
<1>3. PICK r, g : /\ Cancelled(o, r, g)
                  /\ run' = [run EXCEPT ![o] = r] /\ gw' = [gw EXCEPT ![o] = g]
                  /\ IF run[o].bound /\ run[o].task = "none" /\ run[o].status \notin Terminal \cup {"absent", "running"}
                       THEN pc' = Nobody ELSE Continue
  BY CancelParts
<1>4. run[o] \in RunState /\ gw[o] \in GwStates /\ run \in [Slots -> RunState] /\ gw \in [Slots -> GwStates]
  BY <1>1, <1>2 DEF Types, GwStates
<1>5. /\ r \in RunState /\ g \in GwStates
      /\ r.bound = run[o].bound /\ r.text = run[o].text
  <2>1. g \in GwStates
    BY <1>3, <1>4 DEF Cancelled, GwStates
  <2>2. CASE r = run[o]
    BY <1>4, <2>1, <2>2
  <2>3. CASE r = [run[o] EXCEPT !.cancel = TRUE]
    BY <1>4, <2>1, <2>3 DEF RunState
  <2>4. CASE r = [run[o] EXCEPT !.cancel = TRUE, !.status = "cancelled",
                                !.task = IF @ = "none" THEN @ ELSE "over"]
    <3>1. PICK task \in {"none", "queued", "running", "over"} :
            task = IF run[o].task = "none" THEN run[o].task ELSE "over"
      BY <1>4 DEF RunState
    <3>2. r = [run[o] EXCEPT !.cancel = TRUE, !.status = "cancelled", !.task = task]
      BY <2>4, <3>1
    <3>3. QED
      BY <1>4, <2>1, <3>2 DEF RunState, Terminal
  <2>5. QED
    BY <1>3, <2>2, <2>3, <2>4 DEF Cancelled
<1>6. /\ run' \in [Slots -> RunState] /\ gw' \in [Slots -> GwStates] /\ run'[o] = r /\ gw'[o] = g
      /\ \A t \in Slots : t # o => run'[t] = run[t] /\ gw'[t] = gw[t]
  BY <1>2, <1>3, <1>4, <1>5
<1>7. rec' = rec
  BY <1>2
<1>8. Sound(o)' /\ (Over(o) => Over(o)') /\ (faults = 0 /\ Left(o) => Left(o)')
      /\ (Done(o) => Done(o)' /\ run'[o].text = run[o].text)
      /\ (run[o].status = "absent" <=> run'[o].status = "absent")
      /\ (gw[o] = "none" <=> gw'[o] = "none")
      /\ (run[o].status = "absent" => run'[o] = run[o] /\ gw'[o] = gw[o])
      /\ (faults = 0 => ~(run'[o].bound /\ run'[o].task = "none"))
      /\ \/ Continue /\ Over(o)'
         \/ pc' = Nobody /\ faults # 0
  <2>1. CASE run[o].status \in Terminal \cup {"absent"}
    <3>1. r = run[o] /\ g = gw[o]
      BY <1>3, <2>1 DEF Cancelled, Terminal
    <3>2. Sound(o)' /\ (Over(o) => Over(o)') /\ (Left(o) => Left(o)')
          /\ (Done(o) => Done(o)' /\ run'[o].text = run[o].text)
      BY <1>1, <1>2, <1>6, <1>7, <3>1, SlotStays
    <3>3. Over(o)'
      BY <1>6, <2>1, <3>1 DEF Over
    <3>4. Continue
      BY <1>3, <2>1
    <3>5. /\ (run[o].status = "absent" <=> run'[o].status = "absent")
          /\ (gw[o] = "none" <=> gw'[o] = "none")
          /\ (run[o].status = "absent" => run'[o] = run[o] /\ gw'[o] = gw[o])
          /\ (faults = 0 => ~(run'[o].bound /\ run'[o].task = "none"))
      <4>1. run'[o] = run[o] /\ gw'[o] = gw[o]
        BY <1>6, <3>1
      <4>2. QED
        BY <1>2, <4>1, Zenon
    <3>6. QED
      BY <3>2, <3>3, <3>4, <3>5
  <2>2. CASE run[o].status = "running" /\ run[o].task \in {"running", "none"}
    <3>1. g = gw[o] /\ r = [run[o] EXCEPT !.cancel = TRUE]
      BY <1>3, <2>2 DEF Cancelled, Terminal
    <3>2. r.status = "running" /\ r.cancel /\ r.task = run[o].task
      BY <1>4, <2>2, <3>1 DEF RunState
    <3>3. Sound(o)
      BY <1>1, <1>2
    <3>4. Sound(o)'
      BY <1>5, <1>6, <1>7, <2>2, <3>1, <3>2, <3>3 DEF Sound, Done, Terminal
    <3>5. Over(o)' /\ Left(o)'
      BY <1>6, <3>2 DEF Over, Left
    <3>6. ~Done(o) /\ Continue
      BY <1>3, <2>2 DEF Done
    <3>7. /\ (run[o].status = "absent" <=> run'[o].status = "absent")
          /\ (gw[o] = "none" <=> gw'[o] = "none")
          /\ (run[o].status = "absent" => run'[o] = run[o] /\ gw'[o] = gw[o])
          /\ (faults = 0 => ~(run'[o].bound /\ run'[o].task = "none"))
      <4>1. run'[o].bound = run[o].bound /\ run'[o].task = run[o].task /\ gw'[o] = gw[o]
        BY <1>5, <1>6, <3>1, <3>2
      <4>2. run[o].status # "absent" /\ run'[o].status # "absent"
        BY <1>6, <2>2, <3>2
      <4>3. QED
        BY <1>2, <4>1, <4>2, Zenon
    <3>8. QED
      BY <3>4, <3>5, <3>6, <3>7
  <2>3. CASE /\ run[o].status \notin Terminal \cup {"absent"}
             /\ ~(run[o].status = "running" /\ run[o].task \in {"running", "none"})
    <3>1. g = IF gw[o] = "claimed" THEN "released" ELSE gw[o]
      BY <1>3, <2>3 DEF Cancelled
    <3>2. Sound(o)
      BY <1>1, <1>2
    <3>3. ~Done(o)
      BY <2>3 DEF Done, Terminal
    <3>4. CASE run[o].bound /\ run[o].task = "none"
      <4>1. r = [run[o] EXCEPT !.cancel = TRUE]
        BY <1>3, <2>3, <3>4 DEF Cancelled
      <4>2. r.status = run[o].status /\ r.cancel /\ r.task = "none"
        BY <1>4, <3>4, <4>1 DEF RunState
      <4>3. run[o].status # "running" /\ faults # 0
        BY <1>2, <2>3, <3>4
      <4>4. pc' = Nobody
        BY <1>3, <2>3, <3>4, <4>3
      <4>5. Sound(o)'
        BY <1>5, <1>6, <1>7, <2>3, <3>1, <3>2, <3>4, <4>2, <4>3 DEF Sound, Done
      <4>6. Over(o) => Over(o)'
        BY <2>3, <4>3 DEF Over
      <4>7. /\ (run[o].status = "absent" <=> run'[o].status = "absent")
            /\ (gw[o] = "none" <=> gw'[o] = "none")
            /\ (run[o].status = "absent" => run'[o] = run[o] /\ gw'[o] = gw[o])
        BY <1>6, <2>3, <3>1, <4>2
      <4>8. QED
        BY <3>3, <4>3, <4>4, <4>5, <4>6, <4>7
    <3>5. CASE ~(run[o].bound /\ run[o].task = "none")
      <4>1. r = [run[o] EXCEPT !.cancel = TRUE, !.status = "cancelled",
                               !.task = IF @ = "none" THEN @ ELSE "over"]
        BY <1>3, <2>3, <3>5 DEF Cancelled
      <4>2. r.status = "cancelled" /\ r.cancel /\ r.task = IF run[o].task = "none" THEN "none" ELSE "over"
        BY <1>4, <4>1 DEF RunState
      <4>3. Continue
        BY <1>3, <3>5
      <4>4. Sound(o)'
        BY <1>5, <1>6, <1>7, <2>3, <3>1, <3>2, <4>2 DEF Sound, Done, Terminal
      <4>5. Over(o)'
        BY <1>6, <4>2 DEF Over, Terminal
      <4>6. Left(o) => Left(o)'
        BY <1>6, <2>3, <3>1, <3>2, <4>2 DEF Left, Terminal, Sound
      <4>7. ~(run'[o].bound /\ run'[o].task = "none")
        BY <1>5, <1>6, <3>5, <4>2
      <4>8. /\ (run[o].status = "absent" <=> run'[o].status = "absent")
            /\ (gw[o] = "none" <=> gw'[o] = "none")
            /\ (run[o].status = "absent" => run'[o] = run[o] /\ gw'[o] = gw[o])
        <5>1. run[o].status # "absent" /\ run'[o].status # "absent"
          BY <1>6, <2>3, <4>2
        <5>2. gw[o] = "none" <=> gw'[o] = "none"
          BY <1>6, <3>1
        <5>3. QED
          BY <5>1, <5>2
      <4>9. QED
        BY <3>3, <4>3, <4>4, <4>5, <4>6, <4>7, <4>8
    <3>6. QED
      BY <3>4, <3>5
  <2>4. QED
    BY <2>1, <2>2, <2>3
<1>9. ASSUME NEW s \in Slots
      PROVE  /\ Sound(s)' /\ (Over(s) => Over(s)') /\ (faults = 0 /\ Left(s) => Left(s)')
             /\ (Done(s) => Done(s)' /\ run'[s].text = run[s].text)
             /\ (run[s].status = "absent" <=> run'[s].status = "absent")
             /\ (gw[s] = "none" <=> gw'[s] = "none")
             /\ (run[s].status = "absent" => run'[s] = run[s] /\ gw'[s] = gw[s])
             /\ (faults = 0 => ~(run'[s].bound /\ run'[s].task = "none"))
  <2>1. CASE s = o
    BY <1>8, <2>1
  <2>2. CASE s # o
    <3>1. run'[s] = run[s] /\ gw'[s] = gw[s] /\ Sound(s)
      BY <1>1, <1>6, <2>2
    <3>2. Sound(s)' /\ (Over(s) => Over(s)') /\ (Left(s) => Left(s)')
          /\ (Done(s) => Done(s)' /\ run'[s].text = run[s].text)
      BY <1>7, <3>1, SlotStays
    <3>3. QED
      BY <1>2, <3>1, <3>2
  <2>3. QED
    BY <2>1, <2>2
<1>10. AnswersStay
  BY <1>7, <1>9 DEF AnswersStay, Done
<1>11. (FanoutDone => FanoutDone') /\ (Conflict => Conflict') /\ (Disputed => Disputed') /\ (Agreed => Agreed')
  BY <1>10, StagesStay
<1>12. Group'
  <2>1. rec.approval = "none" => \A s \in Slots : run'[s] = Absent /\ gw'[s] = "none"
    <3>1. rec.approval = "none" => \A s \in Slots : run[s] = Absent /\ gw[s] = "none"
      BY <1>1 DEF Group
    <3>2. Absent.status = "absent"
      BY DEF Absent
    <3>3. QED
      BY <1>9, <3>1, <3>2
  <2>2. Reserved => Reserved'
    BY <1>7, <1>9 DEF Reserved, Mine
  <2>3. /\ run'[Consolidation].status # "absent" => FanoutDone'
        /\ run'[Arbitration].status # "absent" => Conflict'
    BY <1>1, <1>9, <1>11, SlotNumbers DEF Group
  <2>4. QED
    BY <1>1, <1>7, <1>11, <2>1, <2>2, <2>3 DEF Group
<1>13. QED
  BY <1>6, <1>8, <1>9, <1>10, <1>12

LEMMA CancelRunKeeps == IInv /\ CancelRun => IInv'
<1> SUFFICES ASSUME IInv, CancelRun PROVE IInv'
  OBVIOUS
<1>1. PICK o : o = Slot
  OBVIOUS
<1>2. /\ o \in Slots /\ H[1] = "cancel_run" /\ H[2] = o /\ UNCHANGED <<rec, Others>>
  BY <1>1, CancelParts
<1>3. /\ run' \in [Slots -> RunState] /\ gw' \in [Slots -> GwStates]
      /\ AnswersStay /\ (\A s \in Slots : Sound(s)') /\ Group'
      /\ (\A s \in Slots : (Over(s) => Over(s)') /\ (faults = 0 /\ Left(s) => Left(s)'))
      /\ (faults = 0 => \A s \in Slots : ~(run'[s].bound /\ run'[s].task = "none"))
      /\ \/ Continue /\ Over(o)'
         \/ pc' = Nobody /\ faults # 0
  BY <1>1, CancelEffect
<1>4. Types /\ Cleaning /\ Doing("cancel_run") /\ rec' = rec /\ faults' = faults
  BY <1>2 DEF IInv, CancelRun, Others
<1>5. pc' \in [op : Ops, todo : Seq(Steps)] => Types'
  BY <1>2, <1>3, <1>4 DEF Types, GwStates, Others
<1>6. CASE pc' = Nobody /\ faults # 0
  <2>1. /\ pc' \in [op : Ops, todo : Seq(Steps)] /\ Handler' /\ Todo' /\ NextUp'
        /\ \A step : ~Doing(step)'
    BY <1>6, Stopped
  <2>2. Cleaning'
    BY <1>4, <1>6, <2>1 DEF Cleaning
  <2>3. QED
    BY <1>3, <1>5, <2>1, <2>2 DEF IInv
<1>7. CASE Continue /\ Over(o)'
  <2>1. /\ Handler /\ ~Idle /\ Ready(H)
        /\ pc' \in [op : Ops, todo : Seq(Steps)] /\ Handler'
        /\ \/ Idle' /\ pc' = Nobody /\ ("cancel_run" \in Ends \/ pc.op = "cancel_run")
           \/ ~Idle' /\ pc'.op = pc.op /\ pc.op # "cancel_run" /\ Follows(H, H')
    BY <1>4, <1>7, RecordHead
  <2>2. CASE Idle' /\ pc' = Nobody
    <3>1. Todo' /\ NextUp' /\ \A step : ~Doing(step)'
      BY <2>2, Stopped
    <3>2. pc.op = "cancel_run"
      BY <2>1, <2>2 DEF Ends, Between
    <3>3. Cleaning'
      <4>1. faults = 0 /\ rec.status \in Terminal => \A s \in Slots : Left(s)'
        BY <1>3, <1>4, <3>2 DEF Cleaning
      <4>2. QED
        BY <1>3, <1>4, <3>1, <4>1 DEF Cleaning
    <3>4. QED
      BY <1>3, <1>5, <2>1, <3>1, <3>3 DEF IInv
  <2>3. CASE ~Idle' /\ pc'.op = pc.op /\ pc.op # "cancel_run" /\ Follows(H, H')
    <3>1. Todo'
      BY <1>2, <1>4, <1>7, <2>1, <2>3, CleanupOnly
    <3>2. \/ o < Arbitration /\ H' = <<"cancel_run", o + 1>>
          \/ o = Arbitration /\ H'[1] = "release"
      BY <1>2, <2>3 DEF Follows, Pairs, Terminal
    <3>3. Slot' = H'[2] /\ \A step : Doing(step)' <=> H'[1] = step
      BY <2>3 DEF Idle, Doing, H, Slot
    <3>4. rec.approval # "none"
      BY <1>2, <2>1 DEF Ready, OwnNames
    <3>5. NextUp'
      <4>1. ASSUME NEW f, f = H' PROVE Ready(f)'
        <5>1. f[1] \in {"cancel_run", "release"}
          BY <3>2, <4>1
        <5>2. QED
          BY <1>4, <3>4, <5>1 DEF Ready, EnsureNames, Between
      <4>2. Ready(H)'
        BY <4>1 DEF Ready
      <4>3. ~Doing("cancelled")'
        BY <3>2, <3>3
      <4>4. QED
        BY <4>2, <4>3 DEF NextUp
    <3>6. rec.status \in Terminal /\ \A t \in Slots : t < o => Over(t)
      BY <1>1, <1>4, <2>3 DEF Cleaning
    <3>7. \A t \in Slots : t < o \/ t = o => Over(t)'
      BY <1>3, <1>7, <3>6
    <3>8. Doing("cancel_run")' => \A t \in Slots : t < Slot' => Over(t)'
      <4>1. Doing("cancel_run")' => Slot' = o + 1
        BY <3>2, <3>3
      <4>2. \A t \in Slots : t < o + 1 => t < o \/ t = o
        BY <1>2, SlotNumbers
      <4>3. QED
        BY <3>7, <4>1, <4>2
    <3>9. Doing("release")' => \A t \in Slots : Over(t)'
      <4>1. Doing("release")' => o = Arbitration
        BY <3>2, <3>3
      <4>2. \A t \in Slots : t < Arbitration \/ t = Arbitration
        BY SlotNumbers
      <4>3. QED
        BY <3>7, <4>1, <4>2
    <3>10. Cleaning'
      BY <1>3, <1>4, <2>3, <3>6, <3>8, <3>9 DEF Cleaning
    <3>11. QED
      BY <1>3, <1>5, <2>1, <3>1, <3>5, <3>10 DEF IInv
  <2>4. QED
    BY <2>1, <2>2, <2>3
<1>8. QED
  BY <1>3, <1>6, <1>7

LEMMA ReleaseKeeps == IInv /\ ReleaseSlots => IInv'
<1> SUFFICES ASSUME IInv, ReleaseSlots PROVE IInv'
  OBVIOUS
<1>1. Doing("release") /\ Continue /\ UNCHANGED <<rec, run, Others>> /\ "release" \in WholeNames
  BY DEF ReleaseSlots, WholeNames
<1>2. /\ Types /\ Group /\ Cleaning /\ Ready(H) /\ H[1] = "release" /\ pc.op # "cancel_run"
      /\ \/ Idle' /\ pc' = Nobody
         \/ ~Idle' /\ Follows(H, H')
      /\ (faults = 0 => \A s \in Slots : ~(run[s].bound /\ run[s].task = "none"))
  BY <1>1, RecordHead
<1>3. pc' = Nobody
  BY <1>2 DEF Follows, Pairs, Terminal, Between
<1>4. /\ pc' \in [op : Ops, todo : Seq(Steps)] /\ Handler' /\ Todo' /\ NextUp'
      /\ \A step : ~Doing(step)'
  BY <1>3, Stopped
<1>5. rec.status \in Terminal /\ \A t \in Slots : Over(t)
  BY <1>1, <1>2 DEF Cleaning
<1>6. rec' = rec /\ run' = run /\ faults' = faults
  BY <1>1 DEF Others
<1> DEFINE atWork(s) == s \in rec.slots /\ run[s].status = "running"
<1>7. gw' = [s \in Slots |-> CASE atWork(s) -> gw[s]
                               [] ~atWork(s) /\ gw[s] = "held" -> "unused"
                               [] ~atWork(s) /\ gw[s] = "claimed" -> "released"
                               [] OTHER -> gw[s]]
  BY DEF ReleaseSlots
<1>8. ASSUME NEW s \in Slots
      PROVE  /\ gw'[s] \in GwStates /\ (atWork(s) => gw'[s] = gw[s])
             /\ ~atWork(s) => gw'[s] = IF gw[s] = "held" THEN "unused"
                                       ELSE IF gw[s] = "claimed" THEN "released" ELSE gw[s]
  <2>1. gw[s] \in GwStates
    BY <1>2 DEF Types, GwStates
  <2>2. CASE atWork(s)
    BY <1>7, <2>1, <2>2
  <2>3. CASE ~atWork(s) /\ gw[s] = "held"
    BY <1>7, <2>3 DEF GwStates
  <2>4. CASE ~atWork(s) /\ gw[s] = "claimed"
    BY <1>7, <2>4 DEF GwStates
  <2>5. CASE ~atWork(s) /\ gw[s] # "held" /\ gw[s] # "claimed"
    BY <1>7, <2>1, <2>5
  <2>6. QED
    BY <2>2, <2>3, <2>4, <2>5
<1>9. Types'
  <2>1. gw' \in [Slots -> GwStates]
    BY <1>7, <1>8
  <2>2. QED
    BY <1>1, <1>2, <1>4, <2>1 DEF Types, GwStates, Others
<1>10. ASSUME NEW s \in Slots PROVE Sound(s)' /\ Left(s)' /\ (gw[s] # "none" => gw'[s] # "none")
  <2>1. Sound(s) /\ Over(s)
    BY <1>5 DEF IInv
  <2>2. CASE atWork(s)
    <3>1. gw'[s] = gw[s]
      BY <1>8, <2>2
    <3>2. Sound(s)'
      BY <1>6, <2>1, <3>1 DEF Sound, Done
    <3>3. Left(s)'
      BY <1>6, <2>1, <2>2 DEF Over, Left, Terminal
    <3>4. QED
      BY <3>1, <3>2, <3>3
  <2>3. CASE ~atWork(s)
    <3>1. gw'[s] = IF gw[s] = "held" THEN "unused" ELSE IF gw[s] = "claimed" THEN "released" ELSE gw[s]
      BY <1>8, <2>3
    <3>2. run[s].status = "running" => run[s].bound /\ s \notin rec.slots
      BY <2>1, <2>3 DEF Sound
    <3>3. Sound(s)'
      BY <1>5, <1>6, <2>1, <3>1, <3>2 DEF Sound, Done, Over, Terminal
    <3>4. Left(s)'
      BY <1>6, <2>1, <3>1, <3>2 DEF Over, Left
    <3>5. QED
      BY <3>1, <3>3, <3>4
  <2>4. QED
    BY <2>2, <2>3
<1>11. (FanoutDone' <=> FanoutDone) /\ (Conflict' <=> Conflict)
       /\ (Disputed' <=> Disputed) /\ (Agreed' <=> Agreed)
  BY <1>6, RunsStay
<1>12. Group'
  <2>1. Reserved => Reserved'
    BY <1>6, <1>10 DEF Reserved, Mine
  <2>2. rec.approval # "none"
    BY <1>2 DEF Ready, WholeNames
  <2>3. QED
    BY <1>2, <1>6, <1>11, <2>1, <2>2 DEF Group
<1>13. Cleaning'
  BY <1>2, <1>4, <1>6, <1>10 DEF Cleaning
<1>14. QED
  BY <1>4, <1>9, <1>10, <1>12, <1>13 DEF IInv

-----------------------------------------------------------------------------
(* The handlers begin *)

LEMMA Concat ==
  ASSUME NEW a \in Seq(Steps), NEW b \in Seq(Steps), NEW c \in Seq(Steps)
  PROVE  (a \o b) \o c = a \o (b \o c)
<1> DEFINE l == (a \o b) \o c
           r == a \o (b \o c)
<1>1. /\ Len(a) \in Nat /\ Len(b) \in Nat /\ Len(c) \in Nat
      /\ l \in Seq(Steps) /\ r \in Seq(Steps)
      /\ Len(l) = Len(a) + Len(b) + Len(c) /\ Len(r) = Len(a) + Len(b) + Len(c)
  OBVIOUS
<1>2. ASSUME NEW i \in 1 .. Len(a) + Len(b) + Len(c) PROVE l[i] = r[i]
  OBVIOUS
<1>3. QED
  BY <1>1, <1>2

LEMMA ConcatFour ==
  ASSUME NEW a \in Seq(Steps), NEW b \in Seq(Steps), NEW c \in Seq(Steps), NEW d \in Seq(Steps)
  PROVE  ((a \o b) \o c) \o d = a \o (b \o (c \o d))
<1>1. PICK ab \in Seq(Steps), cd \in Seq(Steps) : ab = a \o b /\ cd = c \o d
  <2>1. a \o b \in Seq(Steps) /\ c \o d \in Seq(Steps)
    OBVIOUS
  <2>2. QED
    BY <2>1
<1>2. PICK l \in Seq(Steps), r \in Seq(Steps) : l = (ab \o c) \o d /\ r = a \o (b \o cd)
  <2>1. (ab \o c) \o d \in Seq(Steps) /\ a \o (b \o cd) \in Seq(Steps)
    OBVIOUS
  <2>2. QED
    BY <2>1
<1>3. PICK m \in Seq(Steps) : m = ab \o cd
  <2>1. ab \o cd \in Seq(Steps)
    OBVIOUS
  <2>2. QED
    BY <2>1
<1>4. /\ Len(a) \in Nat /\ Len(b) \in Nat /\ Len(c) \in Nat /\ Len(d) \in Nat
      /\ Len(ab) = Len(a) + Len(b) /\ Len(cd) = Len(c) + Len(d) /\ Len(m) = Len(ab) + Len(cd)
      /\ Len(l) = Len(m) /\ Len(r) = Len(m)
  BY <1>1, <1>2, <1>3
<1>5. \A i \in 1 .. Len(m) : l[i] = m[i]
  BY <1>1, <1>2, <1>3, <1>4
<1>6. \A i \in 1 .. Len(m) : r[i] = m[i]
  BY <1>1, <1>2, <1>3, <1>4
<1>7. l = m /\ r = m
  BY <1>4, <1>5, <1>6
<1>8. QED
  BY <1>1, <1>2, <1>7

LEMMA Nothing ==
  ASSUME NEW S, NEW a \in Seq(S)
  PROVE  <<>> \o a = a /\ a \o <<>> = a
OBVIOUS

LEMMA UnmovedKeeps ==
  ASSUME IInv, Unmoved, pc' = pc
  PROVE  IInv'
<1>1. /\ Types /\ Handler /\ Todo /\ NextUp /\ Cleaning
  BY DEF IInv
<1>2. /\ Group' /\ (\A s \in Slots : Sound(s)')
      /\ (\A e : Fits(e) <=> Fits(e)') /\ (\A e : Ready(e) <=> Ready(e)')
      /\ (\A s : Over(s) <=> Over(s)') /\ (\A s : Left(s) <=> Left(s)')
  BY UnmovedState
<1>3. Types'
  BY <1>1, UnmovedState DEF Types
<1>4. rec' = rec /\ run' = run /\ faults' = faults
  BY DEF Unmoved
<1>5. Handler'
  BY <1>1 DEF Handler, Doing
<1>6. Todo'
  <2>1. ASSUME NEW i \in 1 .. Len(pc'.todo), NEW e, e = pc'.todo[i] PROVE Fits(e)'
    BY <1>1, <1>2, <2>1 DEF Todo
  <2>2. QED
    BY <2>1 DEF Todo, Fits
<1>7. NextUp'
  <2>1. ASSUME ~Idle, NEW f, f = H' PROVE Ready(f)'
    BY <1>1, <1>2, <2>1 DEF NextUp, H
  <2>2. ~Idle' => Ready(H)'
    BY <2>1 DEF Ready, Idle
  <2>3. QED
    BY <1>1, <1>4, <2>2 DEF NextUp, Doing
<1>8. Cleaning'
  BY <1>1, <1>2, <1>4 DEF Cleaning, Doing, Idle, Slot
<1>9. QED
  BY <1>2, <1>3, <1>5, <1>6, <1>7, <1>8 DEF IInv

\* An operator, or the queue, cancels a single run.
LEMMA CancelStart ==
  ASSUME IInv, Idle, Unmoved, NEW s \in Slots, run[s] # Absent,
         pc' = [op |-> "cancel_run", todo |-> << <<"cancel_run", s>> >>]
  PROVE  IInv'
<1>1. /\ Types /\ Group /\ Cleaning
  BY DEF IInv
<1>2. /\ Group' /\ (\A t \in Slots : Sound(t)')
      /\ (\A t : Left(t) <=> Left(t)')
      /\ (pc' \in [op : Ops, todo : Seq(Steps)] => Types')
  BY UnmovedState
<1>3. rec' = rec /\ run' = run /\ faults' = faults
  BY DEF Unmoved
<1>4. PICK e \in Steps : e = <<"cancel_run", s>>
  BY DEF Steps, OwnNames
<1>5. PICK t \in Seq(Steps) : t = <<e>>
  <2>1. <<e>> \in Seq(Steps)
    OBVIOUS
  <2>2. QED
    BY <2>1
<1>6. Len(t) = 1 /\ t[1] = e /\ Head(t) = e /\ t # <<>>
  BY <1>5
<1>7. pc'.op = "cancel_run" /\ pc'.todo = t /\ pc' \in [op : Ops, todo : Seq(Steps)]
  BY <1>4, <1>5 DEF Ops
<1>8. /\ H' = e /\ ~Idle' /\ \A step : Doing(step)' <=> step = "cancel_run"
  BY <1>4, <1>6, <1>7 DEF H, Idle, Doing
<1>9. Handler'
  BY <1>6, <1>7, <1>8 DEF Handler
<1>10. Todo'
  <2>1. ASSUME NEW i \in 1 .. Len(pc'.todo), NEW f, f = pc'.todo[i] PROVE Fits(f)'
    <3>1. i = 1
      BY <1>6, <1>7
    <3>2. f[1] = "cancel_run"
      BY <1>4, <1>6, <1>7, <2>1, <3>1
    <3>3. QED
      BY <3>2 DEF Fits, EnsureNames, Between
  <2>2. QED
    BY <2>1 DEF Todo, Fits
<1>11. rec.approval # "none"
  BY <1>1 DEF Group
<1>12. NextUp'
  <2>1. ASSUME NEW f, f = H' PROVE Ready(f)'
    BY <1>3, <1>4, <1>8, <1>11, <2>1 DEF Ready, EnsureNames, Between
  <2>2. Ready(H)'
    BY <2>1 DEF Ready
  <2>3. ~Doing("cancelled")'
    BY <1>8
  <2>4. QED
    BY <2>2, <2>3 DEF NextUp
<1>13. Cleaning'
  <2>1. ~Doing("enqueue")
    BY DEF Idle, Doing
  <2>2. faults = 0 => \A r \in Slots : ~(run[r].bound /\ run[r].task = "none")
    BY <1>1, <2>1 DEF Cleaning
  <2>3. faults = 0 /\ rec.status \in Terminal => \A r \in Slots : Left(r)
    BY <1>1 DEF Cleaning
  <2>4. ~Doing("release")'
    BY <1>8
  <2>5. QED
    BY <1>2, <1>3, <1>7, <2>2, <2>3, <2>4 DEF Cleaning
<1>14. QED
  BY <1>2, <1>7, <1>9, <1>10, <1>12, <1>13 DEF IInv

\* What holds between two handlers.
LEMMA Between2 ==
  ASSUME IInv, Idle
  PROVE  /\ Types /\ Group /\ Cleaning /\ (\A s \in Slots : Sound(s)) /\ \A step : ~Doing(step)
BY DEF IInv, Idle, Doing

LEMMA Requested ==
  ASSUME Types, Request
  PROVE  requests' \in 0 .. MaxRequests
<1>1. requests \in Nat /\ MaxRequests \in Nat /\ requests < MaxRequests /\ requests' = requests + 1
  BY BrainstormConstants DEF Types, Request
<1>2. QED
  BY <1>1

LEMMA CancelKeeps == IInv /\ Cancel => IInv'
<1> SUFFICES ASSUME IInv, Cancel PROVE IInv'
  OBVIOUS
<1>1. /\ Idle /\ Request /\ rec.status \notin {"completed", "failed"}
      /\ UNCHANGED <<rec, run, gw, turn, flight, faults>>
  BY DEF Cancel
<1>2. Types /\ ~Doing("enqueue")
  BY <1>1, Between2
<1>3. Unmoved
  BY <1>1, <1>2, Requested DEF Unmoved, Types
<1>4. PICK u : u = << <<"cancelled", 0>> >> \o (IF rec.approval = "none" THEN <<>> ELSE Cleanup)
  OBVIOUS
<1>5. pc' = [op |-> "cancel", todo |-> u] /\ "cancel" \in Ops \ {"cancel_run"}
  BY <1>4 DEF Cancel, Begin, Ops
<1>6. /\ Program(u) /\ u # <<>> /\ u[1] = <<"cancelled", 0>>
      /\ Len(u) = 1 <=> rec.approval = "none"
      /\ \A i \in 1 .. Len(u) : u[i] = <<"cancelled", 0>> \/ u[i][1] \in {"cancel_run", "release"}
  <2>1. CASE rec.approval = "none"
    <3>1. PICK e \in Steps : e = <<"cancelled", 0>>
      BY DEF Steps, WholeNames, Terminal
    <3>2. <<e>> \in Seq(Steps)
      OBVIOUS
    <3>3. u = <<e>>
      BY <1>4, <2>1, <3>1, <3>2, Nothing
    <3>4. Program(<<e>>) /\ <<e>> # <<>> /\ Len(<<e>>) = 1 /\ <<e>>[1] = e
      BY <3>1, One DEF Ends
    <3>5. QED
      BY <2>1, <3>1, <3>3, <3>4
  <2>2. CASE rec.approval # "none"
    <3>1. u = << <<"cancelled", 0>> >> \o Cleanup
      BY <1>4, <2>2
    <3>2. /\ Program(u) /\ u # <<>> /\ u[1] = <<"cancelled", 0>> /\ Len(u) > 1
          /\ \A i \in 1 .. Len(u) : u[i] = <<"cancelled", 0>> \/ u[i][1] \in {"cancel_run", "release"}
      BY <3>1, EndProgram DEF Terminal
    <3>3. QED
      BY <2>2, <3>2
  <2>3. QED
    BY <2>1, <2>2
<1>7. ASSUME NEW i \in 1 .. Len(u) PROVE Fits(u[i])
  <2>1. u[i][1] \in {"cancelled", "cancel_run", "release"}
    BY <1>6
  <2>2. QED
    BY <1>1, <2>1 DEF Fits, EnsureNames, Between
<1>8. Ready(u[1])
  <2>1. u[1][1] = "cancelled"
    BY <1>6
  <2>2. QED
    BY <2>1 DEF Ready, EnsureNames, Between
<1>9. u[1][1] = "cancelled"
  BY <1>6
<1>10. QED
  BY <1>2, <1>3, <1>5, <1>6, <1>7, <1>8, <1>9, StartKeeps

LEMMA CancelChildKeeps ==
  ASSUME IInv, NEW s \in Slots, CancelChild(s)
  PROVE  IInv'
<1>1. /\ Idle /\ Request /\ run[s].status \notin Terminal \cup {"absent"}
      /\ UNCHANGED <<rec, run, gw, turn, flight, faults>>
      /\ pc' = [op |-> "cancel_run", todo |-> << <<"cancel_run", s>> >>]
  BY DEF CancelChild, Begin
<1>2. Types
  BY <1>1, Between2
<1>3. Unmoved
  BY <1>1, <1>2, Requested DEF Unmoved, Types
<1>4. run[s] # Absent
  BY <1>1 DEF Absent
<1>5. QED
  BY <1>1, <1>3, <1>4, CancelStart

\* The handler makes sure of the run of one slot, and the record gets a new status.
LEMMA EnsureStart ==
  ASSUME IInv, Idle, Unmoved, NEW op \in Ops \ {"cancel_run"}, NEW s \in Slots, NEW status \in Between,
         pc' = [op |-> op, todo |-> EnsureRuns(s, 1) \o << <<status, 0>> >>],
         Stage(s), rec.status \notin Terminal, rec.approval = "reserved",
         status # "needs_arbitration"
  PROVE  IInv'
<1>1. ~Doing("enqueue")
  BY Between2
<1>2. PICK u : u = EnsureRuns(s, 1) \o << <<status, 0>> >>
  OBVIOUS
<1>3. s \in Nat /\ Spans(s, 1) /\ 1 \in Nat
  BY SlotNumbers DEF Spans
<1>4. /\ Program(u) /\ u # <<>> /\ u[1] = <<"create", s>>
      /\ \A i \in 1 .. Len(u) :
           \/ u[i] = <<status, 0>>
           \/ u[i][1] \in EnsureNames /\ \E k \in 0 .. 1 - 1 : u[i][2] = s + k
  <2>1. Ensured(s, 1, status, u)
    BY <1>2, <1>3, EnsureProgram
  <2>2. QED
    BY <2>1 DEF Ensured
<1>5. ASSUME NEW i \in 1 .. Len(u) PROVE Fits(u[i])
  <2>1. u[i][1] \in Between \ {"needs_arbitration"} \/ (u[i][1] \in EnsureNames /\ u[i][2] = s)
    BY <1>3, <1>4
  <2>2. QED
    BY <2>1 DEF Fits, EnsureNames, Between, Terminal
<1>6. Ready(u[1])
  <2>1. u[1][1] = "create"
    BY <1>4
  <2>2. QED
    BY <2>1 DEF Ready
<1>7. u[1][1] \notin {"cancel_run", "release", "enqueue", "cancelled"}
  BY <1>4
<1>8. QED
  BY <1>1, <1>2, <1>4, <1>5, <1>6, <1>7, StartKeeps

LEMMA RequestArbitrationKeeps == IInv /\ RequestArbitration => IInv'
<1> SUFFICES ASSUME IInv, RequestArbitration PROVE IInv'
  OBVIOUS
<1>1. /\ Idle /\ rec.status = "needs_arbitration" /\ Request
      /\ UNCHANGED <<rec, run, gw, turn, flight, faults>>
      /\ "arbitrate" \in Ops \ {"cancel_run"}
  BY DEF RequestArbitration, Ops
<1>2. Types /\ Group /\ ~Doing("enqueue")
  BY <1>1, Between2
<1>3. Unmoved
  BY <1>1, <1>2, Requested DEF Unmoved, Types
<1>4. rec.approval = "reserved" /\ Disputed /\ rec.status \notin Terminal
  BY <1>1, <1>2 DEF Group, Between, Terminal
<1>5. CASE run[Consolidation].text = "own_conflict"
  <2>1. pc' = [op |-> "arbitrate", todo |-> MarkFailed]
    BY <1>5 DEF RequestArbitration, Begin
  <2>2. QED
    BY <1>1, <1>2, <1>3, <1>4, <2>1, FailKeeps
<1>6. CASE run[Consolidation].text # "own_conflict"
  <2>1. pc' = [op |-> "arbitrate", todo |-> EnsureRuns(Arbitration, 1) \o << <<"arbitrating", 0>> >>]
    BY <1>6 DEF RequestArbitration, Begin
  <2>2. Stage(Arbitration)
    BY <1>4, <1>6, SlotNumbers DEF Stage, Conflict, Disputed, Material
  <2>3. "arbitrating" \in Between /\ "arbitrating" # "needs_arbitration" /\ Arbitration \in Slots
    BY SlotNumbers DEF Between
  <2>4. QED
    BY <1>1, <1>3, <1>4, <2>1, <2>2, <2>3, EnsureStart, ZenonT(60)
<1>7. QED
  BY <1>5, <1>6

LEMMA EnsureTyped ==
  ASSUME NEW first \in Nat, NEW n \in Nat, \A i \in 0 .. n - 1 : first + i \in Slots
  PROVE  EnsureRuns(first, n) \in Seq(Steps) /\ Len(EnsureRuns(first, n)) = 9 * n
<1> DEFINE e(i) == <<EnsureSteps[((i - 1) % 9) + 1], first + ((i - 1) \div 9)>>
<1>1. EnsureRuns(first, n) = [i \in 1 .. 9 * n |-> e(i)]
  BY EnsureNumbers DEF EnsureRuns
<1>2. \A i \in 1 .. 9 * n : (i - 1) % 9 \in 0 .. 8 /\ (i - 1) \div 9 \in 0 .. n - 1
  BY Nines
<1>3. \A i \in 1 .. 9 * n : e(i) \in EnsureNames \X Slots
  BY <1>2, EnsureNumbers
<1>4. EnsureNames \X Slots \subseteq Steps
  BY DEF Steps, OwnNames
<1>5. 9 * n \in Nat
  OBVIOUS
<1> HIDE DEF e
<1>6. QED
  BY <1>1, <1>3, <1>4, <1>5

\* The steps of approve after the reservation of the group.
LEMMA ApprovedRuns ==
  ASSUME NEW q, q = EnsureRuns(1, NRoutes) \o << <<"fanout_running", 0>> >>
  PROVE  /\ Program(q) /\ q # <<>> /\ q[1][1] \in {"create", "fanout_running"}
         /\ EnsureRuns(1, NRoutes) \in Seq(Steps)
         /\ \A i \in 1 .. Len(q) :
              \/ q[i] = <<"fanout_running", 0>>
              \/ q[i][1] \in EnsureNames /\ q[i][2] \in Fanout
<1>1. NRoutes \in Nat /\ 1 \in Nat /\ \A i \in 0 .. NRoutes - 1 : 1 + i \in Slots /\ 1 + i \in Fanout
  BY BrainstormConstants DEF Slots, Fanout, Arbitration
<1>2. EnsureRuns(1, NRoutes) \in Seq(Steps) /\ Len(EnsureRuns(1, NRoutes)) = 9 * NRoutes
  BY <1>1, EnsureTyped
<1>3. "fanout_running" \in Between
  BY DEF Between
<1>4. CASE NRoutes # 0
  <2>1. Spans(1, NRoutes)
    BY <1>1, <1>4 DEF Spans
  <2>2. Ensured(1, NRoutes, "fanout_running", q)
    BY <1>1, <1>3, <2>1, EnsureProgram
  <2>3. QED
    BY <1>1, <1>2, <2>2 DEF Ensured
<1>5. CASE NRoutes = 0
  <2>1. PICK t \in Seq(Steps) : t = EnsureRuns(1, NRoutes) /\ Len(t) = 0
    BY <1>2, <1>5
  <2>2. PICK e \in Steps : e = <<"fanout_running", 0>>
    BY DEF Steps, WholeNames, Between
  <2>3. t = <<>>
    BY <2>1
  <2>4. <<e>> \in Seq(Steps)
    OBVIOUS
  <2>5. q = <<e>>
    BY <2>1, <2>2, <2>3, <2>4, Nothing
  <2>6. PICK v \in Seq(Steps) : v = <<e>>
    BY <2>4
  <2>7. Program(v) /\ v # <<>> /\ Len(v) = 1 /\ v[1] = e
    BY <2>2, <2>6, One DEF Ends, Between
  <2>8. q = v
    BY <2>5, <2>6
  <2>9. \A i \in 1 .. Len(q) : q[i] = <<"fanout_running", 0>>
    <3>1. \A i \in 1 .. Len(v) : i = 1
      BY <2>7
    <3>2. QED
      BY <2>2, <2>7, <2>8, <3>1
  <2>10. q[1][1] \in {"create", "fanout_running"}
    BY <2>2, <2>7, <2>8
  <2>11. QED
    BY <1>2, <2>7, <2>8, <2>9, <2>10
<1>6. QED
  BY <1>4, <1>5

LEMMA Pair == ASSUME NEW S, NEW x \in S, NEW y \in S PROVE <<x, y>> = <<x>> \o <<y>>
<1>1. PICK l \in Seq(S), r \in Seq(S) : l = <<x, y>> /\ r = <<x>> \o <<y>>
  <2>1. <<x, y>> \in Seq(S) /\ <<x>> \o <<y>> \in Seq(S)
    OBVIOUS
  <2>2. QED
    BY <2>1
<1>2. Len(l) = 2 /\ l[1] = x /\ l[2] = y
  BY <1>1
<1>3. Len(r) = 2 /\ r[1] = x /\ r[2] = y
  BY <1>1
<1>4. \A i \in 1 .. 2 : l[i] = r[i]
  <2>1. \A i \in 1 .. 2 : i = 1 \/ i = 2
    OBVIOUS
  <2>2. QED
    BY <1>2, <1>3, <2>1
<1>5. l = r
  BY <1>2, <1>3, <1>4
<1>6. QED
  BY <1>1, <1>5

LEMMA PairFirst ==
  ASSUME NEW x \in Steps, NEW y \in Steps, NEW t \in Seq(Steps)
  PROVE  <<x, y>> \o t = <<x>> \o (<<y>> \o t)
<1>1. PICK one \in Seq(Steps), two \in Seq(Steps) : one = <<x>> /\ two = <<y>>
  <2>1. <<x>> \in Seq(Steps) /\ <<y>> \in Seq(Steps)
    OBVIOUS
  <2>2. QED
    BY <2>1
<1>2. (one \o two) \o t = one \o (two \o t)
  BY Concat, Zenon
<1>3. <<x, y>> = one \o two
  BY <1>1, Pair, Zenon
<1>4. QED
  BY <1>1, <1>2, <1>3, Zenon

Approves(t) == \A i \in 1 .. Len(t) :
  \/ t[i][1] \in {"pending", "group", "reserved", "fanout_running"}
  \/ t[i][1] \in EnsureNames /\ t[i][2] \in Fanout
Fine(t) == Program(t) /\ t # <<>> /\ Approves(t)
Late(t) == \A i \in 1 .. Len(t) : t[i][1] # "pending"

LEMMA ApproveStep ==
  ASSUME NEW e \in Steps, NEW t, Fine(t), Late(t), Follows(e, t[1]),
         e[1] \in {"pending", "group", "reserved"}, NEW v, v = <<e>> \o t
  PROVE  Fine(v) /\ v[1] = e /\ (e[1] # "pending" => Late(v))
<1>1. t \in Seq(Steps) /\ Chain(t) /\ t # <<>>
  BY DEF Fine, Program
<1>2. \A i \in 1 .. Len(t) : Later(e, t[i])
  BY DEF Later, Late, Terminal
<1>4. /\ Program(v) /\ Len(v) = Len(t) + 1 /\ v[1] = e
      /\ \A i \in 1 .. Len(t) : v[i + 1] = t[i]
  BY <1>1, <1>2, Before
<1>5. Len(t) \in Nat /\ v \in Seq(Steps)
  BY <1>1, <1>4 DEF Program
<1>6. v # <<>>
  BY <1>4, <1>5
<1>7. \A i \in 1 .. Len(v) : i = 1 \/ (i - 1 \in 1 .. Len(t) /\ v[i] = t[i - 1])
  BY <1>4, <1>5
<1>8. (e[1] # "pending" => Late(v))
  BY <1>4, <1>7 DEF Late
<1>9. Approves(v)
  <2>1. ASSUME NEW i \in 1 .. Len(v)
        PROVE \/ v[i][1] \in {"pending", "group", "reserved", "fanout_running"}
              \/ v[i][1] \in EnsureNames /\ v[i][2] \in Fanout
    <3>1. CASE i = 1
      BY <1>4, <3>1
    <3>2. CASE i # 1
      BY <1>7, <3>2 DEF Fine, Approves
    <3>3. QED
      BY <3>1, <3>2
  <2>2. QED
    BY <2>1 DEF Approves
<1>10. QED
  BY <1>4, <1>6, <1>8, <1>9 DEF Fine

LEMMA ApproveProgram ==
  ASSUME NEW u, NEW pending \in BOOLEAN,
         u = (IF pending THEN << <<"pending", 0>> >> ELSE <<>>)
             \o << <<"group", 0>>, <<"reserved", 0>> >>
             \o EnsureRuns(1, NRoutes) \o << <<"fanout_running", 0>> >>
  PROVE  Fine(u) /\ u[1] = IF pending THEN <<"pending", 0>> ELSE <<"group", 0>>
<1>1. PICK p \in Steps, g \in Steps, r \in Steps, f \in Steps :
        /\ p = <<"pending", 0>> /\ g = <<"group", 0>> /\ r = <<"reserved", 0>>
        /\ f = <<"fanout_running", 0>>
  BY DEF Steps, WholeNames, Between
<1>2. PICK q : q = EnsureRuns(1, NRoutes) \o << <<"fanout_running", 0>> >>
  OBVIOUS
<1>3. Fine(q) /\ Late(q) /\ q[1][1] \in {"create", "fanout_running"} /\ EnsureRuns(1, NRoutes) \in Seq(Steps)
  <2>1. /\ Program(q) /\ q # <<>> /\ q[1][1] \in {"create", "fanout_running"}
        /\ EnsureRuns(1, NRoutes) \in Seq(Steps)
        /\ \A i \in 1 .. Len(q) :
             \/ q[i] = <<"fanout_running", 0>>
             \/ q[i][1] \in EnsureNames /\ q[i][2] \in Fanout
    BY <1>2, ApprovedRuns
  <2>2. Approves(q)
    BY <2>1 DEF Approves
  <2>3. Late(q)
    <3>1. ASSUME NEW i \in 1 .. Len(q) PROVE q[i][1] # "pending"
      <4>1. q[i][1] = "fanout_running" \/ q[i][1] \in EnsureNames
        BY <2>1
      <4>2. QED
        BY <4>1 DEF EnsureNames
    <3>2. QED
      BY <3>1 DEF Late
  <2>4. QED
    BY <2>1, <2>2, <2>3 DEF Fine
<1>4. q \in Seq(Steps)
  BY <1>3 DEF Fine, Program
<1>5. PICK q2 : q2 = <<r>> \o q
  OBVIOUS
<1>6. Fine(q2) /\ q2[1] = r /\ Late(q2)
  <2>1. Follows(r, q[1]) /\ r[1] = "reserved"
    BY <1>1, <1>3 DEF Follows, Between
  <2>2. QED
    BY <1>3, <1>5, <2>1, ApproveStep
<1>7. PICK q3 : q3 = <<g>> \o q2
  OBVIOUS
<1>8. Fine(q3) /\ q3[1] = g /\ Late(q3)
  <2>1. Follows(g, q2[1]) /\ g[1] = "group"
    BY <1>1, <1>6 DEF Follows
  <2>2. QED
    BY <1>6, <1>7, <2>1, ApproveStep
<1>9. PICK a \in Seq(Steps) : a = IF pending THEN <<p>> ELSE <<>>
  <2>1. <<p>> \in Seq(Steps) /\ <<>> \in Seq(Steps)
    OBVIOUS
  <2>2. QED
    BY <2>1
<1>10. u = a \o q3
  <2>1. PICK b \in Seq(Steps), e \in Seq(Steps), end \in Seq(Steps) :
          b = <<g, r>> /\ e = EnsureRuns(1, NRoutes) /\ end = <<f>>
    <3>1. <<g, r>> \in Seq(Steps) /\ <<f>> \in Seq(Steps)
      OBVIOUS
    <3>2. QED
      BY <1>3, <3>1
  <2>2. u = ((a \o b) \o e) \o end
    <3>1. u = (IF pending THEN <<p>> ELSE <<>>) \o <<g, r>> \o EnsureRuns(1, NRoutes) \o <<f>>
      BY <1>1, Zenon
    <3>2. QED
      BY <1>9, <2>1, <3>1, Zenon
  <2>3. ((a \o b) \o e) \o end = a \o (b \o (e \o end))
    BY ConcatFour, SMTT(60)
  <2>4. q = e \o end
    BY <1>1, <1>2, <2>1, Zenon
  <2>5. b \o q = q3
    BY <1>4, <1>5, <1>7, <2>1, PairFirst
  <2>6. QED
    BY <2>2, <2>3, <2>4, <2>5, Zenon
<1>11. CASE pending
  <2>1. u = <<p>> \o q3
    BY <1>9, <1>10, <1>11
  <2>2. Follows(p, q3[1]) /\ p[1] = "pending"
    BY <1>1, <1>8 DEF Follows
  <2>3. Fine(u) /\ u[1] = p
    BY <1>8, <2>1, <2>2, ApproveStep
  <2>4. QED
    BY <1>1, <1>11, <2>3
<1>12. CASE ~pending
  <2>1. q3 \in Seq(Steps)
    BY <1>8 DEF Fine, Program
  <2>2. u = q3
    BY <1>9, <1>10, <1>12, <2>1, Nothing
  <2>3. QED
    BY <1>1, <1>8, <1>12, <2>2
<1>13. QED
  BY <1>11, <1>12

LEMMA ApproveKeeps == IInv /\ Approve => IInv'
<1> SUFFICES ASSUME IInv, Approve PROVE IInv'
  OBVIOUS
<1>1. /\ Idle /\ rec.status \in {"draft", "approved", "fanout_running"} /\ Request
      /\ UNCHANGED <<rec, run, gw, turn, flight, faults>>
      /\ "approve" \in Ops \ {"cancel_run"}
  BY DEF Approve, Ops
<1>2. Types /\ ~Doing("enqueue")
  BY <1>1, Between2
<1>3. Unmoved
  BY <1>1, <1>2, Requested DEF Unmoved, Types
<1>4. PICK pending \in BOOLEAN : pending <=> rec.approval = "none"
  OBVIOUS
<1>5. PICK u : u = (IF pending THEN << <<"pending", 0>> >> ELSE <<>>)
                   \o << <<"group", 0>>, <<"reserved", 0>> >>
                   \o EnsureRuns(1, NRoutes) \o << <<"fanout_running", 0>> >>
  OBVIOUS
<1>6. pc' = [op |-> "approve", todo |-> u]
  BY <1>4, <1>5 DEF Approve, Begin
<1>7. Fine(u) /\ u[1] = IF pending THEN <<"pending", 0>> ELSE <<"group", 0>>
  BY <1>5, ApproveProgram
<1>8. Program(u) /\ u # <<>> /\ Approves(u)
  BY <1>7 DEF Fine
<1>9. rec.status \notin Terminal
  BY <1>1 DEF Terminal
<1>10. ASSUME NEW i \in 1 .. Len(u) PROVE Fits(u[i])
  <2>1. \/ u[i][1] \in {"pending", "group", "reserved", "fanout_running"}
        \/ u[i][1] \in EnsureNames /\ u[i][2] \in Fanout
    BY <1>8 DEF Approves
  <2>2. CASE u[i][1] \in {"pending", "group", "reserved", "fanout_running"}
    BY <1>9, <2>2 DEF Fits, EnsureNames, Terminal
  <2>3. CASE u[i][1] \in EnsureNames /\ u[i][2] \in Fanout
    <3>1. Stage(u[i][2])
      BY <2>3, SlotNumbers DEF Stage
    <3>2. QED
      BY <1>9, <2>3, <3>1 DEF Fits, EnsureNames
  <2>4. QED
    BY <2>1, <2>2, <2>3
<1>11. u[1][1] = IF pending THEN "pending" ELSE "group"
  BY <1>7
<1>12. Ready(u[1])
  BY <1>4, <1>11 DEF Ready, EnsureNames, Between
<1>13. u[1][1] \notin {"cancel_run", "release", "enqueue", "cancelled"}
  BY <1>11
<1>14. QED
  BY <1>1, <1>2, <1>3, <1>6, <1>8, <1>10, <1>12, <1>13, StartKeeps

-----------------------------------------------------------------------------
(* The poll *)

\* The brainstorm completes on what the providers agreed on.
LEMMA CompleteKeeps ==
  ASSUME IInv, Idle, Unmoved, pc' = [op |-> "tick", todo |-> << <<"completed", 0>> >> \o Cleanup],
         rec.status \notin Terminal, rec.approval = "reserved", Agreed
  PROVE  IInv'
<1>1. PICK u : u = << <<"completed", 0>> >> \o Cleanup
  OBVIOUS
<1>2. /\ Program(u) /\ u # <<>> /\ u[1] = <<"completed", 0>>
      /\ \A i \in 1 .. Len(u) : u[i] = <<"completed", 0>> \/ u[i][1] \in {"cancel_run", "release"}
  BY <1>1, EndProgram DEF Terminal
<1>3. ASSUME NEW i \in 1 .. Len(u) PROVE Fits(u[i])
  <2>1. u[i][1] \in {"completed", "cancel_run", "release"}
    BY <1>2
  <2>2. QED
    BY <2>1 DEF Fits, EnsureNames, Between
<1>4. u[1][1] = "completed"
  BY <1>2
<1>5. Ready(u[1])
  BY <1>4 DEF Ready, EnsureNames, Between
<1>6. ~Doing("enqueue") /\ "tick" \in Ops \ {"cancel_run"}
  BY Between2 DEF Ops
<1>7. QED
  BY <1>1, <1>2, <1>3, <1>4, <1>5, <1>6, StartKeeps

\* The brainstorm waits for the operator's word on the arbitration.
LEMMA DisputeKeeps ==
  ASSUME IInv, Idle, Unmoved, pc' = [op |-> "tick", todo |-> << <<"needs_arbitration", 0>> >>],
         rec.status \notin Terminal, rec.approval = "reserved", Disputed
  PROVE  IInv'
<1>1. PICK e \in Steps : e = <<"needs_arbitration", 0>>
  BY DEF Steps, WholeNames, Between
<1>2. PICK u : u = <<e>>
  OBVIOUS
<1>3. Program(u) /\ u # <<>> /\ Len(u) = 1 /\ u[1] = e
  BY <1>1, <1>2, One DEF Ends, Between
<1>4. e[1] = "needs_arbitration"
  BY <1>1
<1>5. Fits(e)
  BY <1>4 DEF Fits, EnsureNames
<1>6. \A i \in 1 .. Len(u) : Fits(u[i])
  BY <1>3, <1>5
<1>7. Ready(u[1])
  BY <1>3, <1>4 DEF Ready, EnsureNames
<1>8. ~Doing("enqueue") /\ "tick" \in Ops \ {"cancel_run"}
  BY Between2 DEF Ops
<1>9. pc' = [op |-> "tick", todo |-> u]
  BY <1>1, <1>2
<1>10. QED
  BY <1>3, <1>4, <1>6, <1>7, <1>8, <1>9, StartKeeps

LEMMA TickFails ==
  ASSUME IInv, Idle, Unmoved, pc' = [op |-> "tick", todo |-> MarkFailed],
         rec.status \notin Terminal, rec.approval = "reserved"
  PROVE  IInv'
<1>1. ~Doing("enqueue") /\ "tick" \in Ops \ {"cancel_run"} /\ rec.approval # "none"
  BY Between2 DEF Ops
<1>2. QED
  BY <1>1, FailKeeps

LEMMA TickFanoutKeeps ==
  ASSUME IInv, Idle, Unmoved, TickFanout, rec.status = "fanout_running"
  PROVE  IInv'
<1>1. Group
  BY DEF IInv
<1>2. rec.status \notin Terminal /\ rec.approval = "reserved"
  BY <1>1 DEF Group, Between, Terminal
<1>3. \/ pc' = pc
      \/ pc' = [op |-> "tick", todo |-> MarkFailed]
      \/ /\ FanoutDone
         /\ pc' = [op |-> "tick",
                   todo |-> EnsureRuns(Consolidation, 1) \o << <<"consolidating", 0>> >>]
  BY DEF TickFanout, Begin
<1>4. CASE pc' = pc
  BY <1>4, UnmovedKeeps
<1>5. CASE pc' = [op |-> "tick", todo |-> MarkFailed]
  BY <1>2, <1>5, TickFails
<1>6. CASE /\ FanoutDone
           /\ pc' = [op |-> "tick",
                     todo |-> EnsureRuns(Consolidation, 1) \o << <<"consolidating", 0>> >>]
  <2>1. Stage(Consolidation) /\ Consolidation \in Slots
    BY <1>6, SlotNumbers DEF Stage
  <2>2. "consolidating" \in Between /\ "consolidating" # "needs_arbitration"
    BY DEF Between
  <2>3. "tick" \in Ops \ {"cancel_run"}
    BY DEF Ops
  <2>4. QED
    BY <1>2, <1>6, <2>1, <2>2, <2>3, EnsureStart, ZenonT(60)
<1>7. QED
  BY <1>3, <1>4, <1>5, <1>6

LEMMA TickConsolidationKeeps ==
  ASSUME IInv, Idle, Unmoved, TickConsolidation, rec.status = "consolidating"
  PROVE  IInv'
<1>1. Group /\ Sound(Consolidation)
  BY SlotNumbers DEF IInv
<1>2. rec.status \notin Terminal /\ rec.approval = "reserved"
  BY <1>1 DEF Group, Between, Terminal
<1>3. CASE pc' = pc
  BY <1>3, UnmovedKeeps
<1>4. CASE pc' = [op |-> "tick", todo |-> MarkFailed]
  BY <1>2, <1>4, TickFails
<1>5. CASE ~(pc' = pc \/ pc' = [op |-> "tick", todo |-> MarkFailed])
  <2>1. /\ Done(Consolidation)
        /\ pc' = [op |-> "tick", todo |-> Consolidated(run[Consolidation].text)]
    BY <1>5 DEF TickConsolidation, Begin
  <2>2. Consolidated(run[Consolidation].text) # MarkFailed
    BY <1>5, <2>1
  <2>3. CASE Material(run[Consolidation].text)
    <3>1. rec.arbiter
      BY <2>2, <2>3 DEF Consolidated, Material
    <3>2. Consolidated(run[Consolidation].text) = << <<"needs_arbitration", 0>> >>
      BY <2>2, <2>3, <3>1 DEF Consolidated, Material
    <3>3. Disputed
      BY <2>1, <2>3, <3>1 DEF Disputed
    <3>4. pc' = [op |-> "tick", todo |-> << <<"needs_arbitration", 0>> >>]
      BY <2>1, <3>2
    <3>5. QED
      BY <1>2, <3>3, <3>4, DisputeKeeps
  <2>4. CASE ~Material(run[Consolidation].text)
    <3>1. run[Consolidation].text # "invalid"
      BY <2>2, <2>4 DEF Consolidated, Material
    <3>2. Consolidated(run[Consolidation].text) = << <<"completed", 0>> >> \o Cleanup
      BY <2>4, <3>1 DEF Consolidated, Material
    <3>3. run[Consolidation].text \in Texts(Consolidation)
      BY <1>1, <2>1 DEF Sound
    <3>4. Texts(Consolidation) = {"clean", "conflict", "own_conflict", "invalid"}
      BY SlotNumbers DEF Texts
    <3>5. run[Consolidation].text = "clean"
      BY <2>4, <3>1, <3>3, <3>4 DEF Material
    <3>6. Agreed
      BY <2>1, <3>5 DEF Agreed
    <3>7. QED
      BY <1>2, <2>1, <3>2, <3>6, CompleteKeeps
  <2>5. QED
    BY <2>3, <2>4
<1>6. QED
  BY <1>3, <1>4, <1>5

LEMMA TickArbitrationKeeps ==
  ASSUME IInv, Idle, Unmoved, TickArbitration, rec.status = "arbitrating"
  PROVE  IInv'
<1>1. Group /\ Sound(Arbitration)
  BY SlotNumbers DEF IInv
<1>2. rec.status \notin Terminal /\ rec.approval = "reserved"
  BY <1>1 DEF Group, Between, Terminal
<1>3. CASE pc' = pc
  BY <1>3, UnmovedKeeps
<1>4. CASE pc' = [op |-> "tick", todo |-> MarkFailed]
  BY <1>2, <1>4, TickFails
<1>5. CASE ~(pc' = pc \/ pc' = [op |-> "tick", todo |-> MarkFailed])
  <2>1. /\ Done(Arbitration) /\ run[Arbitration].text # "invalid"
        /\ pc' = [op |-> "tick", todo |-> << <<"completed", 0>> >> \o Cleanup]
    BY <1>5 DEF TickArbitration, Begin
  <2>2. run[Arbitration].text \in Texts(Arbitration)
    BY <1>1, <2>1 DEF Sound
  <2>3. Texts(Arbitration) = {"clean", "invalid"}
    BY SlotNumbers DEF Texts
  <2>4. run[Arbitration].text = "clean"
    BY <2>1, <2>2, <2>3
  <2>5. Conflict
    BY <1>1, <2>1 DEF Group, Done
  <2>6. Agreed
    BY <2>1, <2>4, <2>5 DEF Agreed, Conflict
  <2>7. QED
    BY <1>2, <2>1, <2>6, CompleteKeeps
<1>6. QED
  BY <1>3, <1>4, <1>5

LEMMA TickKeeps == IInv /\ Tick => IInv'
<1> SUFFICES ASSUME IInv, Tick PROVE IInv'
  OBVIOUS
<1>1. Idle /\ turn' = "supervisor" /\ UNCHANGED <<rec, run, gw, flight, requests, faults>>
  BY DEF Tick
<1>2. Types
  BY <1>1, Between2
<1>3. Unmoved
  BY <1>1, <1>2 DEF Unmoved, Types
<1>4. CASE rec.status = "fanout_running"
  BY <1>1, <1>3, <1>4, TickFanoutKeeps DEF Tick
<1>5. CASE rec.status = "consolidating"
  BY <1>1, <1>3, <1>5, TickConsolidationKeeps DEF Tick
<1>6. CASE rec.status = "arbitrating"
  BY <1>1, <1>3, <1>6, TickArbitrationKeeps DEF Tick
<1>7. CASE rec.status \notin {"fanout_running", "consolidating", "arbitrating"}
  BY <1>1, <1>3, <1>7, UnmovedKeeps DEF Tick
<1>8. QED
  BY <1>4, <1>5, <1>6, <1>7

-----------------------------------------------------------------------------
(* The dispatch and the faults: the runs move, the record does not *)

\* The run and the slot move on: what the others rely on stays.
Moves(s) ==
  /\ run[s].status = "absent" => run'[s] = run[s] /\ gw'[s] = gw[s]
  /\ gw[s] # "none" => gw'[s] # "none"
  /\ Done(s) => Done(s)' /\ run'[s].text = run[s].text
  /\ Left(s) => Left(s)'
  /\ run'[s].bound /\ run'[s].task = "none" => run[s].bound /\ run[s].task = "none"

LEMMA Aside ==
  ASSUME IInv, rec' = rec, \A s \in Slots : Moves(s)
  PROVE  Group' /\ AnswersStay
<1>1. AnswersStay
  BY DEF AnswersStay, Moves
<1>2. Group
  BY DEF IInv
<1>3. /\ FanoutDone => FanoutDone'
      /\ Conflict => Conflict'
      /\ Disputed => Disputed'
      /\ Agreed => Agreed'
  BY <1>1, StagesStay
<1>4. ASSUME NEW s \in Slots PROVE run[s] = Absent => run'[s] = Absent /\ gw'[s] = gw[s]
  <2>1. Absent.status = "absent"
    BY DEF Absent
  <2>2. QED
    BY <2>1 DEF Moves
<1>5. ASSUME NEW s \in Slots, run'[s].status # "absent" PROVE run[s].status # "absent"
  BY <1>5 DEF Moves
<1>6. Reserved => Reserved'
  <2>1. Mine' = Mine /\ Mine \subseteq Slots
    BY DEF Mine
  <2>2. QED
    BY <2>1 DEF Reserved, Moves
<1>7. Consolidation \in Slots /\ Arbitration \in Slots
  BY SlotNumbers
<1>8. rec'.approval = "none" =>
        /\ rec'.status \in {"draft", "cancelled"}
        /\ \A s \in Slots : run'[s] = Absent /\ gw'[s] = "none"
  BY <1>2, <1>4 DEF Group
<1>9. rec'.status \in Between \cup {"completed"} => rec'.approval = "reserved"
  BY <1>2 DEF Group
<1>10. (rec'.approval = "reserved" => Reserved') /\ (rec'.status = "needs_arbitration" => Disputed')
       /\ (rec'.status = "completed" => Agreed')
  BY <1>2, <1>3, <1>6 DEF Group
<1>11. /\ run'[Consolidation].status # "absent" => FanoutDone'
       /\ run'[Arbitration].status # "absent" => Conflict'
  BY <1>2, <1>3, <1>5, <1>7 DEF Group
<1>12. Group'
  BY <1>8, <1>9, <1>10, <1>11 DEF Group
<1>13. QED
  BY <1>1, <1>12

\* A step between two handlers.
LEMMA AsideKeeps ==
  ASSUME IInv, Idle, pc' = pc, rec' = rec, faults' = faults, Types',
         \A s \in Slots : Moves(s), \A s \in Slots : Sound(s)'
  PROVE  IInv'
<1>1. Types /\ Handler /\ Cleaning /\ \A step : ~Doing(step)
  BY Between2 DEF IInv
<1>2. Group'
  BY Aside
<1>3. Idle' /\ \A step : ~Doing(step)'
  BY DEF Idle, Doing
<1>4. Handler'
  BY <1>1, <1>3 DEF Handler, Doing
<1>5. PICK t \in Seq(Steps) : t = pc'.todo /\ t = <<>>
  BY <1>1 DEF Types, Idle
<1>6. Todo'
  <2>1. Len(pc'.todo) = 0
    BY <1>5
  <2>2. QED
    BY <2>1 DEF Todo
<1>7. NextUp'
  BY <1>3 DEF NextUp
<1>8. Cleaning'
  <2>1. faults = 0 => \A s \in Slots : ~(run[s].bound /\ run[s].task = "none")
    BY <1>1 DEF Cleaning
  <2>2. faults' = 0 => \A s \in Slots : ~(run'[s].bound /\ run'[s].task = "none")
    BY <2>1 DEF Moves
  <2>3. faults' = 0 /\ rec'.status \in Terminal => \A s \in Slots : Left(s)'
    BY <1>1 DEF Cleaning, Moves
  <2>4. QED
    BY <1>3, <2>2, <2>3 DEF Cleaning
<1>9. QED
  BY <1>2, <1>4, <1>6, <1>7, <1>8 DEF IInv

\* A fault: no handler is left.
LEMMA FaultKeeps ==
  ASSUME IInv, pc' = Nobody, rec' = rec, faults' # 0, Types',
         \A s \in Slots : Moves(s), \A s \in Slots : Sound(s)'
  PROVE  IInv'
<1>1. Group'
  BY Aside
<1>2. Handler' /\ Todo' /\ NextUp' /\ \A step : ~Doing(step)'
  BY Stopped
<1>3. Cleaning'
  BY <1>2 DEF Cleaning
<1>4. QED
  BY <1>1, <1>2, <1>3 DEF IInv

LEMMA StillMoves ==
  ASSUME NEW s \in Slots, run'[s] = run[s], gw'[s] = gw[s], rec' = rec, Sound(s)
  PROVE  Moves(s) /\ Sound(s)'
BY SlotStays DEF Moves

\* Only the task moves: dispatched again, or put back.
LEMMA TaskMoves ==
  ASSUME Types, NEW s \in Slots, Sound(s), rec' = rec, gw'[s] = gw[s], NEW task, task # "none",
         run[s].task # "none", run'[s] = [run[s] EXCEPT !.task = task],
         run' \in [Slots -> RunState]
  PROVE  Moves(s) /\ Sound(s)'
<1>1. run[s] \in RunState
  BY DEF Types
<1>2. run[s].status # "absent"
  <2>1. Absent.task = "none"
    BY DEF Absent
  <2>2. QED
    BY <2>1 DEF Sound
<1>3. /\ run'[s].status = run[s].status /\ run'[s].bound = run[s].bound
      /\ run'[s].cancel = run[s].cancel /\ run'[s].text = run[s].text
      /\ run'[s].task = task
  BY <1>1 DEF RunState
<1>4. Done(s)' <=> Done(s)
  BY <1>3 DEF Done
<1>5. Left(s) => Left(s)'
  BY <1>3, Zenon DEF Left
<1>6. Sound(s)'
  BY <1>2, <1>3, <1>4, Zenon DEF Sound
<1>7. Moves(s)
  BY <1>2, <1>3, <1>4, <1>5, Zenon DEF Moves
<1>8. QED
  BY <1>6, <1>7

\* A queued run whose cancellation is not requested is dispatched: its slot is claimed.
LEMMA DispatchMoves ==
  ASSUME Types, NEW s \in Slots, Sound(s), rec' = rec, gw'[s] = gw[s],
         run[s].status = "queued", ~run[s].cancel,
         run'[s] = [run[s] EXCEPT !.task = "running", !.status = "running"]
  PROVE  Moves(s) /\ Sound(s)'
<1>1. run[s] \in RunState
  BY DEF Types
<1>2. /\ run'[s].status = "running" /\ run'[s].bound = run[s].bound
      /\ run'[s].cancel = run[s].cancel /\ run'[s].text = run[s].text
      /\ run'[s].task = "running"
  BY <1>1 DEF RunState
<1>3. run[s].bound /\ gw[s] = "claimed"
  BY Zenon DEF Sound
<1>4. ~Done(s) /\ ~Done(s)'
  BY <1>2 DEF Done
<1>5. ~Left(s)
  BY DEF Left, Terminal
<1>6. Sound(s)'
  BY <1>2, <1>3, <1>4 DEF Sound
<1>7. Moves(s)
  BY <1>2, <1>3, <1>4, <1>5 DEF Moves
<1>8. QED
  BY <1>6, <1>7

\* The run of a slot ends, and with it the slot.
LEMMA EndMoves ==
  ASSUME Types, NEW s \in Slots, Sound(s), rec' = rec, run[s].status = "running",
         gw'[s] \in {"released", "settled"},
         NEW status \in Terminal, NEW text, status = "completed" => text \in Texts(s),
         run'[s] = [run[s] EXCEPT !.task = "over", !.text = text, !.status = status]
  PROVE  Moves(s) /\ Sound(s)'
<1>1. run[s] \in RunState
  BY DEF Types
<1>2. /\ run'[s].status = status /\ run'[s].bound = run[s].bound
      /\ run'[s].cancel = run[s].cancel /\ run'[s].text = text
      /\ run'[s].task = "over"
  BY <1>1 DEF RunState
<1>3. run[s].bound
  BY Zenon DEF Sound
<1>4. ~Done(s) /\ (Done(s)' => run'[s].text \in Texts(s))
  BY <1>2 DEF Done
<1>5. Left(s)'
  BY <1>2 DEF Left
<1>6. status \notin {"absent", "draft", "approved", "queued", "running"}
  BY DEF Terminal
<1>7. Texts(s)' = Texts(s)
  BY DEF Texts
<1>8. Sound(s)'
  BY <1>2, <1>3, <1>4, <1>6, <1>7 DEF Sound
<1>9. Moves(s)
  BY <1>2, <1>3, <1>4, <1>5 DEF Moves
<1>10. QED
  BY <1>8, <1>9

\* A step that changes one slot at most.
LEMMA OneMoves ==
  ASSUME IInv, NEW o \in Slots, rec' = rec, \A s \in Slots : s # o => run'[s] = run[s] /\ gw'[s] = gw[s],
         Moves(o), Sound(o)'
  PROVE  (\A s \in Slots : Moves(s)) /\ (\A s \in Slots : Sound(s)')
<1>1. \A s \in Slots : Sound(s)
  BY DEF IInv
<1>2. ASSUME NEW s \in Slots, s # o PROVE Moves(s) /\ Sound(s)'
  BY <1>1, <1>2, StillMoves
<1>3. ASSUME NEW s \in Slots PROVE Moves(s)
  <2>1. CASE s = o
    BY <2>1
  <2>2. CASE s # o
    BY <1>2, <2>2
  <2>3. QED
    BY <2>1, <2>2
<1>4. ASSUME NEW s \in Slots, NEW p, p = o, Sound(p)' PROVE s = p => Sound(s)'
  BY <1>4 DEF Sound, Done
<1>5. ASSUME NEW s \in Slots PROVE Sound(s)'
  BY <1>2, <1>4 DEF Sound
<1>6. QED
  BY <1>3, <1>5

LEMMA DispatchKeeps ==
  ASSUME IInv, Idle, NEW o \in Slots, run[o].task = "queued", ~run[o].cancel \/ run[o].status = "cancelled",
         run' = [run EXCEPT ![o].task = "running",
                            ![o].status = IF @ = "queued" THEN "running" ELSE @],
         UNCHANGED <<rec, gw, pc, requests, faults>>,
         turn' \in {"supervisor", "tick"}, flight' \in 0 .. Arbitration
  PROVE  IInv'
<1>1. Types /\ Sound(o)
  BY DEF IInv
<1>2. run[o] \in RunState
  BY <1>1 DEF Types
<1>3. \A s \in Slots : s # o => run'[s] = run[s] /\ gw'[s] = gw[s]
  BY <1>1 DEF Types
<1>4. run'[o] = IF run[o].status = "queued"
                  THEN [run[o] EXCEPT !.task = "running", !.status = "running"]
                  ELSE [run[o] EXCEPT !.task = "running"]
  BY <1>1, <1>2 DEF Types, RunState
<1>5. run'[o] \in RunState
  <2>1. CASE run[o].status = "queued"
    <3>1. run'[o] = [run[o] EXCEPT !.task = "running", !.status = "running"]
      BY <1>4, <2>1
    <3>2. \A r \in RunState : [r EXCEPT !.task = "running"] \in RunState
      BY DEF RunState
    <3>3. \A r \in RunState : [r EXCEPT !.status = "running"] \in RunState
      BY DEF RunState
    <3>4. run'[o] = [[run[o] EXCEPT !.task = "running"] EXCEPT !.status = "running"]
      BY <1>2, <3>1 DEF RunState
    <3>5. QED
      BY <1>2, <3>2, <3>3, <3>4
  <2>2. CASE run[o].status # "queued"
    <3>1. run'[o] = [run[o] EXCEPT !.task = "running"]
      BY <1>4, <2>2
    <3>2. QED
      BY <1>2, <3>1 DEF RunState
  <2>3. QED
    BY <2>1, <2>2
<1>6. run' \in [Slots -> RunState]
  BY <1>1, <1>5 DEF Types
<1>7. Types'
  BY <1>1, <1>6 DEF Types
<1>8. Moves(o) /\ Sound(o)'
  <2>1. CASE run[o].status = "queued"
    BY <1>1, <1>4, <2>1, DispatchMoves
  <2>2. CASE run[o].status # "queued"
    BY <1>1, <1>4, <1>6, <2>2, TaskMoves
  <2>3. QED
    BY <2>1, <2>2
<1>9. (\A s \in Slots : Moves(s)) /\ (\A s \in Slots : Sound(s)')
  BY <1>3, <1>8, OneMoves
<1>10. QED
  BY <1>7, <1>9, AsideKeeps

LEMMA SuperviseKeeps == IInv /\ Supervise => IInv'
<1> SUFFICES ASSUME IInv, Supervise PROVE IInv'
  OBVIOUS
<1> DEFINE cancelled == {s \in Slots : run[s].cancel /\ run[s].status # "cancelled"}
           queue == {s \in Slots : run[s].task = "queued"}
           next == FirstIn(queue)
<1>1. Idle /\ flight = 0 /\ turn' = "tick" /\ UNCHANGED <<rec, gw, requests, faults>>
  BY DEF Supervise
<1>2. Types /\ 0 \in 0 .. Arbitration
  BY <1>1, Between2, SlotNumbers
<1>3. CASE cancelled # {}
  <2>1. PICK s \in Slots : s = FirstIn(cancelled) /\ run[s].cancel
    <3>1. cancelled \in SUBSET Slots
      OBVIOUS
    <3>2. FirstIn(cancelled) \in cancelled
      BY <1>3, <3>1, FirstFound
    <3>3. QED
      BY <3>2
  <2>2. /\ pc' = [op |-> "cancel_run", todo |-> << <<"cancel_run", s>> >>]
        /\ run' = run /\ flight' = flight
    BY <1>3, <2>1 DEF Supervise, Begin
  <2>3. Unmoved
    BY <1>1, <1>2, <2>2 DEF Unmoved, Types
  <2>4. Absent.cancel = FALSE
    BY DEF Absent
  <2>5. run[s] # Absent
    BY <2>1, <2>4, Zenon
  <2>6. QED
    BY <1>1, <2>2, <2>3, <2>5, CancelStart
<1>4. CASE cancelled = {} /\ (next = 0 \/ \E s \in Slots : run[s].status = "running" /\ run[s].stored)
  <2>1. run' = run /\ pc' = pc /\ flight' = flight
    BY <1>4 DEF Supervise
  <2>2. Unmoved
    BY <1>1, <1>2, <2>1 DEF Unmoved, Types
  <2>3. QED
    BY <2>1, <2>2, UnmovedKeeps
<1>5. CASE cancelled = {} /\ ~(next = 0 \/ \E s \in Slots : run[s].status = "running" /\ run[s].stored)
  <2>1. PICK o \in Slots : o = next /\ run[o].task = "queued"
    <3>1. queue \in SUBSET Slots
      OBVIOUS
    <3>2. next \in queue
      BY <1>5, <3>1, FirstFound
    <3>3. QED
      BY <3>2
  <2>2. /\ flight' = o /\ pc' = pc
        /\ run' = [run EXCEPT ![o].task = "running",
                              ![o].status = IF @ = "queued" THEN "running" ELSE @]
    BY <1>5, <2>1 DEF Supervise
  <2>3. ~run[o].cancel \/ run[o].status = "cancelled"
    BY <1>5
  <2>4. flight' \in 0 .. Arbitration /\ turn' \in {"supervisor", "tick"}
    BY <1>1, <2>2, SlotNumbers DEF Slots
  <2>5. QED
    BY <1>1, <2>1, <2>2, <2>3, <2>4, DispatchKeeps
<1>6. QED
  BY <1>3, <1>4, <1>5

LEMMA AnswersKeeps == ASSUME IInv, NEW text, Answers(text) PROVE IInv'
<1>a. PICK o : o = flight
  OBVIOUS
<1>1. /\ Idle /\ flight # 0 /\ text \in Texts(o) /\ run[o].status = "running" /\ flight' = 0
      /\ UNCHANGED <<rec, pc, turn, requests, faults>>
  BY <1>a DEF Answers
<1>2. Types
  BY <1>1, Between2
<1>3. o \in Slots /\ 0 \in 0 .. Arbitration
  BY <1>1, <1>2, <1>a, SlotNumbers DEF Types, Slots
<1>4. run[o] \in RunState /\ Sound(o)
  BY <1>2, <1>3 DEF Types, IInv
<1>5. text \in Texts(Consolidation)
  <2>1. o \in Fanout \/ o = Consolidation \/ o = Arbitration
    BY <1>3, BrainstormConstants DEF Slots, Fanout, Consolidation, Arbitration
  <2>2. QED
    BY <1>1, <2>1, SlotNumbers DEF Texts
<1>6. CASE gw[o] = "claimed"
  <2>1. /\ gw' = [gw EXCEPT ![o] = "settled"]
        /\ run' = [run EXCEPT ![o].task = "over", ![o].text = text,
                     ![o].status = IF run[o].cancel THEN "cancelled" ELSE "completed"]
    BY <1>6, <1>a DEF Answers
  <2>2. PICK status \in Terminal : status = IF run[o].cancel THEN "cancelled" ELSE "completed"
    BY DEF Terminal
  <2>3. run'[o] = [run[o] EXCEPT !.task = "over", !.text = text, !.status = status]
    BY <1>2, <1>3, <1>4, <2>1, <2>2 DEF Types, RunState
  <2>4. run'[o] \in RunState
    BY <1>4, <1>5, <2>3 DEF RunState
  <2>5. /\ run' \in [Slots -> RunState] /\ gw' \in [Slots -> GwStates] /\ gw'[o] = "settled"
        /\ \A s \in Slots : s # o => run'[s] = run[s] /\ gw'[s] = gw[s]
    BY <1>2, <1>3, <2>1, <2>4 DEF Types, GwStates
  <2>6. Types'
    BY <1>1, <1>2, <1>3, <2>5 DEF Types, GwStates
  <2>7. Moves(o) /\ Sound(o)'
    BY <1>1, <1>2, <1>3, <1>4, <2>3, <2>5, EndMoves
  <2>8. (\A s \in Slots : Moves(s)) /\ (\A s \in Slots : Sound(s)')
    BY <1>1, <1>3, <2>5, <2>7, OneMoves
  <2>9. QED
    BY <1>1, <2>6, <2>8, AsideKeeps
<1>7. CASE gw[o] # "claimed"
  <2>1. gw' = gw /\ run' = [run EXCEPT ![o].task = "over", ![o].stored = TRUE]
    BY <1>7, <1>a DEF Answers
  <2>2. run'[o] = [run[o] EXCEPT !.task = "over", !.stored = TRUE]
    BY <1>2, <1>3, <1>4, <2>1 DEF Types, RunState
  <2>3. /\ run'[o] \in RunState /\ run'[o].status = run[o].status /\ run'[o].bound = run[o].bound
        /\ run'[o].cancel = run[o].cancel /\ run'[o].text = run[o].text /\ run'[o].task = "over"
    BY <1>4, <2>2 DEF RunState
  <2>4. /\ run' \in [Slots -> RunState]
        /\ \A s \in Slots : s # o => run'[s] = run[s] /\ gw'[s] = gw[s]
    BY <1>2, <1>3, <2>1, <2>3 DEF Types
  <2>5. Types'
    BY <1>1, <1>2, <1>3, <2>1, <2>4 DEF Types
  <2>6. ~Done(o) /\ ~Done(o)'
    BY <1>1, <2>3 DEF Done
  <2>7. Left(o) => Left(o)'
    BY <2>1, <2>3, Zenon DEF Left
  <2>8. Sound(o)'
    BY <1>1, <1>4, <2>1, <2>3, <2>6 DEF Sound, Terminal
  <2>9. run[o].status # "absent"
    BY <1>1
  <2>10. Moves(o)
    BY <2>1, <2>3, <2>6, <2>7, <2>9 DEF Moves
  <2>11. (\A s \in Slots : Moves(s)) /\ (\A s \in Slots : Sound(s)')
    BY <1>1, <1>3, <2>4, <2>8, <2>10, OneMoves
  <2>12. QED
    BY <1>1, <2>5, <2>11, AsideKeeps
<1>8. QED
  BY <1>6, <1>7

LEMMA FailsKeeps == IInv /\ Fails => IInv'
<1> SUFFICES ASSUME IInv, Fails PROVE IInv'
  OBVIOUS
<1>a. PICK o : o = flight
  OBVIOUS
<1>1. /\ Idle /\ o # 0 /\ run[o].status = "running" /\ flight' = 0
      /\ gw' = [gw EXCEPT ![o] = IF @ = "claimed" THEN "released" ELSE @]
      /\ UNCHANGED <<rec, pc, turn, requests, faults>>
  BY <1>a DEF Fails
<1>2. Types
  BY <1>1, Between2
<1>3. o \in Slots /\ 0 \in 0 .. Arbitration
  BY <1>1, <1>2, <1>a, SlotNumbers DEF Types, Slots
<1>4. run[o] \in RunState /\ Sound(o)
  BY <1>2, <1>3 DEF Types, IInv
<1>5. PICK status \in {"failed", "cancelled"} :
        run' = [run EXCEPT ![o].task = "over", ![o].status = status]
  BY <1>a DEF Fails
<1>6. PICK text : text = run[o].text
  OBVIOUS
<1>7. run'[o] = [run[o] EXCEPT !.task = "over", !.text = text, !.status = status]
  BY <1>2, <1>3, <1>4, <1>5, <1>6 DEF Types, RunState
<1>8. run'[o] \in RunState
  BY <1>4, <1>6, <1>7 DEF RunState, Terminal
<1>9. gw'[o] \in {"released", "settled"}
  <2>1. gw[o] \in {"claimed", "released", "settled"}
    BY <1>1, <1>4 DEF Sound
  <2>2. gw'[o] = IF gw[o] = "claimed" THEN "released" ELSE gw[o]
    BY <1>1, <1>2, <1>3 DEF Types
  <2>3. QED
    BY <2>1, <2>2
<1>10. /\ run' \in [Slots -> RunState]
       /\ \A s \in Slots : s # o => run'[s] = run[s] /\ gw'[s] = gw[s]
  BY <1>1, <1>2, <1>3, <1>5, <1>8 DEF Types
<1>11. gw' \in [Slots -> GwStates]
  BY <1>1, <1>2, <1>3, <1>9 DEF Types, GwStates
<1>12. Types'
  BY <1>1, <1>2, <1>3, <1>10, <1>11 DEF Types, GwStates
<1>13. Moves(o) /\ Sound(o)'
  <2>1. status \in Terminal /\ (status = "completed" => text \in Texts(o))
    BY <1>5 DEF Terminal
  <2>2. QED
    BY <1>1, <1>2, <1>3, <1>4, <1>7, <1>9, <2>1, EndMoves
<1>14. (\A s \in Slots : Moves(s)) /\ (\A s \in Slots : Sound(s)')
  BY <1>1, <1>3, <1>10, <1>13, OneMoves
<1>15. QED
  BY <1>1, <1>12, <1>14, AsideKeeps

\* A dispatch that is over, or died, puts its task back.
PutBack(r) == [r EXCEPT !.task = IF @ = "running" THEN "queued" ELSE @]

LEMMA PutBackMoves ==
  ASSUME Types, NEW s \in Slots, Sound(s), rec' = rec, gw'[s] = gw[s], run'[s] = PutBack(run[s]),
         run' \in [Slots -> RunState]
  PROVE  Moves(s) /\ Sound(s)'
<1>1. run[s] \in RunState
  BY DEF Types
<1>2. CASE run[s].task = "running"
  <2>1. run'[s] = [run[s] EXCEPT !.task = "queued"]
    BY <1>1, <1>2 DEF PutBack
  <2>2. QED
    BY <1>2, <2>1, TaskMoves
<1>3. CASE run[s].task # "running"
  <2>1. run'[s] = run[s]
    BY <1>1, <1>3 DEF PutBack, RunState
  <2>2. QED
    BY <2>1, StillMoves
<1>4. QED
  BY <1>2, <1>3

LEMMA PutBackTyped ==
  ASSUME NEW r \in RunState
  PROVE  PutBack(r) \in RunState
BY DEF PutBack, RunState

LEMMA AnswerLostKeeps == IInv /\ AnswerLost => IInv'
<1> SUFFICES ASSUME IInv, AnswerLost PROVE IInv'
  OBVIOUS
<1>a. PICK o : o = flight
  OBVIOUS
<1>1. /\ Idle /\ o # 0 /\ flight' = 0
      /\ run' = [run EXCEPT ![o].task = IF @ = "running" THEN "queued" ELSE @]
      /\ UNCHANGED <<rec, gw, pc, turn, requests, faults>>
  BY <1>a DEF AnswerLost
<1>2. Types
  BY <1>1, Between2
<1>3. o \in Slots /\ 0 \in 0 .. Arbitration
  BY <1>1, <1>2, <1>a, SlotNumbers DEF Types, Slots
<1>4. run[o] \in RunState /\ Sound(o)
  BY <1>2, <1>3 DEF Types, IInv
<1>5. run'[o] = PutBack(run[o])
  BY <1>1, <1>2, <1>3 DEF Types, PutBack
<1>6. run'[o] \in RunState
  BY <1>4, <1>5, PutBackTyped
<1>7. /\ run' \in [Slots -> RunState]
      /\ \A s \in Slots : s # o => run'[s] = run[s] /\ gw'[s] = gw[s]
  BY <1>1, <1>2, <1>3, <1>6 DEF Types
<1>8. Types'
  BY <1>1, <1>2, <1>3, <1>7 DEF Types
<1>9. Moves(o) /\ Sound(o)'
  BY <1>1, <1>2, <1>3, <1>4, <1>5, <1>7, PutBackMoves
<1>10. (\A s \in Slots : Moves(s)) /\ (\A s \in Slots : Sound(s)')
  BY <1>1, <1>3, <1>7, <1>9, OneMoves
<1>11. QED
  BY <1>1, <1>8, <1>10, AsideKeeps

LEMMA Faulted ==
  ASSUME Types, faults < MaxFaults, faults' = faults + 1
  PROVE  faults' \in 0 .. MaxFaults /\ faults' # 0
<1>1. faults \in Nat /\ MaxFaults \in Nat
  BY BrainstormConstants DEF Types
<1>2. QED
  BY <1>1

LEMMA ThrowKeeps == IInv /\ Throw => IInv'
<1> SUFFICES ASSUME IInv, Throw PROVE IInv'
  OBVIOUS
<1>1. /\ faults < MaxFaults /\ faults' = faults + 1 /\ pc' = Nobody
      /\ UNCHANGED <<rec, run, gw, turn, flight, requests>>
  BY DEF Throw
<1>2. Types /\ \A s \in Slots : Sound(s)
  BY DEF IInv
<1>3. faults' \in 0 .. MaxFaults /\ faults' # 0
  BY <1>1, <1>2, Faulted
<1>4. pc' \in [op : Ops, todo : Seq(Steps)]
  BY <1>1, Stopped
<1>5. Types'
  BY <1>1, <1>2, <1>3, <1>4 DEF Types
<1>6. ASSUME NEW s \in Slots PROVE Moves(s) /\ Sound(s)'
  BY <1>1, <1>2, StillMoves
<1>7. QED
  BY <1>1, <1>3, <1>5, <1>6, FaultKeeps

LEMMA RestartKeeps == IInv /\ Restart => IInv'
<1> SUFFICES ASSUME IInv, Restart PROVE IInv'
  OBVIOUS
<1>1. /\ faults < MaxFaults /\ faults' = faults + 1 /\ pc' = Nobody
      /\ flight' = 0 /\ turn' = "supervisor" /\ UNCHANGED <<rec, gw, requests>>
  BY DEF Restart
<1>2. run' = [s \in Slots |-> PutBack(run[s])]
  BY DEF Restart, PutBack
<1>3. Types /\ (\A s \in Slots : Sound(s)) /\ 0 \in 0 .. Arbitration
  BY SlotNumbers DEF IInv
<1>4. faults' \in 0 .. MaxFaults /\ faults' # 0
  BY <1>1, <1>3, Faulted
<1>5. pc' \in [op : Ops, todo : Seq(Steps)]
  BY <1>1, Stopped
<1>6. run' \in [Slots -> RunState]
  <2>1. \A s \in Slots : PutBack(run[s]) \in RunState
    BY <1>3, PutBackTyped DEF Types
  <2>2. QED
    BY <1>2, <2>1
<1>7. Types'
  BY <1>1, <1>3, <1>4, <1>5, <1>6 DEF Types
<1>8. ASSUME NEW s \in Slots PROVE Moves(s) /\ Sound(s)'
  <2>1. run'[s] = PutBack(run[s]) /\ gw'[s] = gw[s]
    BY <1>1, <1>2
  <2>2. QED
    BY <1>1, <1>3, <1>6, <2>1, PutBackMoves
<1>9. QED
  BY <1>1, <1>4, <1>7, <1>8, FaultKeeps

LEMMA InitIInv == Init => IInv
<1> SUFFICES ASSUME Init PROVE IInv
  OBVIOUS
<1>1. /\ rec \in [status : {"draft"}, approval : {"none"}, slots : {{}}, arbiter : BOOLEAN]
      /\ run = [s \in Slots |-> Absent] /\ gw = [s \in Slots |-> "none"]
      /\ pc = Nobody /\ turn = "supervisor" /\ flight = 0
      /\ requests = 0 /\ faults = 0
  BY DEF Init
<1>2. /\ rec \in [status : Statuses, approval : {"none", "pending", "reserved"},
                  slots : SUBSET Slots, arbiter : BOOLEAN]
      /\ rec.status = "draft" /\ rec.approval = "none" /\ rec.slots = {}
  BY <1>1 DEF Statuses
<1>3. /\ Absent \in RunState
      /\ Absent.status = "absent" /\ ~Absent.bound
  BY DEF Absent, RunState
<1>4. /\ pc \in [op : Ops, todo : Seq(Steps)] /\ pc.op = "none" /\ Idle
      /\ \A step : ~Doing(step)
  <2>1. pc.op = "none" /\ pc.todo = <<>> /\ pc \in [op : Ops, todo : Seq(Steps)]
    BY <1>1 DEF Nobody, Ops
  <2>2. QED
    BY <2>1 DEF Idle, Doing
<1>5. Types
  BY <1>1, <1>2, <1>3, <1>4, SlotNumbers, BrainstormConstants DEF Types
<1>6. Handler
  BY <1>4, NoSteps DEF Handler, Program, Idle
<1>7. PICK t \in Seq(Steps) : t = pc.todo /\ t = <<>>
  BY <1>4 DEF Idle
<1>8. Todo
  <2>1. Len(pc.todo) = 0
    BY <1>7
  <2>2. QED
    BY <2>1 DEF Todo
<1>9. NextUp
  BY <1>4 DEF NextUp
<1>10. ASSUME NEW s \in Slots PROVE Sound(s)
  BY <1>1, <1>2, <1>3 DEF Sound, Done
<1>11. Group
  BY <1>1, <1>2, <1>3, SlotNumbers DEF Group, Between
<1>12. Cleaning
  <2>1. rec.status \notin Terminal
    BY <1>2 DEF Terminal
  <2>2. \A s \in Slots : ~run[s].bound
    BY <1>1, <1>3
  <2>3. QED
    BY <1>4, <2>1, <2>2 DEF Cleaning
<1>13. QED
  BY <1>5, <1>6, <1>8, <1>9, <1>10, <1>11, <1>12 DEF IInv

-----------------------------------------------------------------------------
(* The invariant, and what follows from it *)

LEMMA WritesKeep == IInv /\ Writes => IInv'
BY MarkPendingKeeps, ReserveGroupKeeps, MarkReservedKeeps, CreateRunKeeps, RefuseRunKeeps,
   WriteApprovalKeeps, DecideKeeps, ApproveRunKeeps, ClaimSlotKeeps, BindRunKeeps, EnqueueKeeps,
   QueueRunKeeps, BindSlotKeeps, EnterStatusKeeps, CancelRunKeeps, ReleaseKeeps, Zenon DEF Writes

LEMMA NextKeeps == IInv /\ [Next]_vars => IInv'
<1> SUFFICES ASSUME IInv, [Next]_vars PROVE IInv'
  OBVIOUS
<1>1. CASE Approve \/ RequestArbitration \/ Cancel
  BY <1>1, ApproveKeeps, RequestArbitrationKeeps, CancelKeeps
<1>2. ASSUME NEW s \in Slots, CancelChild(s) PROVE IInv'
  BY <1>2, CancelChildKeeps
<1>3. CASE Writes
  BY <1>3, WritesKeep
<1>4. CASE Polls
  BY <1>4, SuperviseKeeps, TickKeeps DEF Polls
<1>5. CASE DispatchEnds
  <2>1. ASSUME NEW text, Answers(text) PROVE IInv'
    BY <2>1, AnswersKeeps
  <2>2. QED
    BY <1>5, <2>1, FailsKeeps, AnswerLostKeeps DEF DispatchEnds
<1>6. CASE Throw \/ Restart
  BY <1>6, ThrowKeeps, RestartKeeps
<1>7. CASE UNCHANGED vars
  <2>1. /\ pc' = pc /\ rec' = rec /\ run' = run /\ gw' = gw /\ turn' = turn /\ flight' = flight
        /\ requests' = requests /\ faults' = faults
    BY <1>7 DEF vars
  <2>2. Types
    BY DEF IInv
  <2>3. Unmoved
    BY <2>1, <2>2 DEF Unmoved, Types
  <2>4. QED
    BY <2>1, <2>3, UnmovedKeeps
<1>8. QED
  BY <1>1, <1>2, <1>3, <1>4, <1>5, <1>6, <1>7, Zenon DEF Next

\* The invariant holds in every state: what the running handler has still to write fits the
\* record, and every run fits its slot, its task and the stages before it.
THEOREM Inductive == Spec => []IInv
BY InitIInv, NextKeeps, PTL DEF Spec

\* The record, the runs and the group's slots keep their types.
THEOREM TypeCorrect == Spec => []TypeOK
<1>1. IInv => TypeOK
  BY DEF IInv, Types, TypeOK
<1>2. QED
  BY <1>1, Inductive, PTL

\* A child that is at work keeps its slot: no cancellation, failure or repeated approval takes
\* the tokens of a running run away (cleanupGroup leaves out the slots of running runs).
THEOREM ChildrenKeepTheirSlots == Spec => []RunningChildKeepsSlot
<1>1. ASSUME IInv PROVE RunningChildKeepsSlot
  <2>1. rec.slots \subseteq Slots
    BY <1>1 DEF IInv, Types
  <2>2. \A s \in Slots : Sound(s)
    BY <1>1 DEF IInv
  <2>3. QED
    BY <2>1, <2>2 DEF RunningChildKeepsSlot, Sound
<1>2. QED
  BY <1>1, Inductive, PTL

\* A consolidation is run only when every answer is in, an arbitration only for a material
\* conflict the arbiter has no part in: no handler that died half-way leaves a later stage's run
\* behind that its stage does not call for.
THEOREM StagesFollow == Spec => []StagesInOrder
<1>1. IInv => StagesInOrder
  BY DEF IInv, Group, StagesInOrder, Conflict, FanoutDone
<1>2. QED
  BY <1>1, Inductive, PTL

\* A brainstorm completes on the consolidation's agreement or a clean arbitration.
THEOREM CompletesOnlyOnAgreement == Spec => []CompletesOnAgreement
<1>1. IInv => CompletesOnAgreement
  BY DEF IInv, Group, CompletesOnAgreement, Agreed
<1>2. QED
  BY <1>1, Inductive, PTL

\* A brainstorm that ended without a fault on the way has no hold, no claimed slot and no open
\* run left, but for children at work that are told to stop (cleanupGroup).
THEOREM NothingIsLeft == Spec => []NothingLeftBehind
<1>1. IInv => NothingLeftBehind
  BY DEF IInv, Cleaning, NothingLeftBehind, Left
<1>2. QED
  BY <1>1, Inductive, PTL

\* What the actions do to the slots of the group.
LEMMA HeadFits ==
  ASSUME IInv, ~Idle
  PROVE  Fits(H) /\ Ready(H) /\ \A step : Doing(step) <=> H[1] = step
<1>1. Types /\ Todo /\ NextUp
  BY DEF IInv
<1>2. H = pc.todo[1] /\ Len(pc.todo) \in Nat \ {0} /\ \A step : Doing(step) <=> H[1] = step
  BY <1>1, HeadStep
<1>3. QED
  BY <1>1, <1>2 DEF Todo, NextUp

LEMMA OpenWhile ==
  ASSUME IInv, NEW step \in EnsureNames \cup Between \cup {"pending", "failed", "completed"}, Doing(step)
  PROVE  rec.status \notin Terminal
<1>1. ~Idle
  BY DEF Doing, Idle
<1>2. H[1] = step /\ Fits(H)
  BY <1>1, HeadFits
<1>3. QED
  BY <1>2 DEF Fits

EndStays(s) == gw[s] \in {"unused", "released", "settled"} => gw'[s] = gw[s]

LEMMA SlotsStay == IInv /\ [Next]_vars => \A s \in Slots : EndStays(s)
<1> SUFFICES ASSUME IInv, [Next]_vars, NEW s \in Slots PROVE EndStays(s)
  OBVIOUS
<1>1. Types /\ Sound(s)
  BY DEF IInv
<1>2. CASE gw' = gw
  BY <1>2 DEF EndStays
<1>3. CASE ReserveGroup
  BY <1>3 DEF ReserveGroup, EndStays
<1>4. CASE ClaimSlot
  <2>1. rec.status \notin Terminal
    BY <1>4, OpenWhile DEF ClaimSlot, EnsureNames
  <2>2. gw[s] # "unused"
    BY <1>1, <2>1 DEF Sound
  <2>3. gw' = [gw EXCEPT ![Slot] = IF ~run[Slot].bound /\ gw[Slot] \in {"held", "unused"}
                                     THEN "claimed" ELSE gw[Slot]]
    BY <1>4 DEF ClaimSlot, SetSlot
  <2>4. QED
    BY <1>1, <2>2, <2>3 DEF EndStays, Types
<1>5. CASE CancelRun
  <2>1. gw' = gw \/ gw' = [gw EXCEPT ![Slot] = IF gw[Slot] = "claimed" THEN "released" ELSE gw[Slot]]
    BY <1>5 DEF CancelRun, SetSlot
  <2>2. QED
    BY <1>1, <2>1 DEF EndStays, Types
<1>6. CASE ReleaseSlots
  BY <1>6 DEF ReleaseSlots, EndStays
<1>7. ASSUME NEW text, Answers(text) PROVE EndStays(s)
  <2>1. gw' = gw \/ (gw[flight] = "claimed" /\ gw' = [gw EXCEPT ![flight] = "settled"])
    BY <1>7 DEF Answers
  <2>2. QED
    BY <1>1, <2>1 DEF EndStays, Types
<1>8. CASE Fails
  BY <1>1, <1>8 DEF Fails, EndStays, Types
<1>9. CASE Writes
  <2>1. CASE \/ MarkPending \/ MarkReserved \/ CreateRun \/ RefuseRun \/ WriteApproval \/ Decide
             \/ ApproveRun \/ BindRun \/ Enqueue \/ QueueRun \/ BindSlot \/ EnterStatus
    <3>1. gw' = gw
      BY <2>1 DEF MarkPending, MarkReserved, CreateRun, RefuseRun, WriteApproval, Decide,
                  ApproveRun, BindRun, Enqueue, QueueRun, BindSlot, EnterStatus
    <3>2. QED
      BY <1>2, <3>1
  <2>2. QED
    BY <1>3, <1>4, <1>5, <1>6, <1>9, <2>1, Zenon DEF Writes
<1>10. CASE \/ Approve \/ RequestArbitration \/ Cancel \/ (\E c \in Slots : CancelChild(c)) \/ Polls
            \/ AnswerLost \/ Throw \/ Restart \/ UNCHANGED vars
  BY <1>2, <1>10 DEF Approve, RequestArbitration, Cancel, CancelChild, Polls, Supervise, Tick,
                     AnswerLost, Throw, Restart, vars
<1>11. QED
  BY <1>7, <1>8, <1>9, <1>10, Zenon DEF Next, DispatchEnds

\* Tokens that are given back or settled are never charged or held again, whatever is repeated.
THEOREM SlotEndsAreFinal == Spec => SlotEndIsFinal
<1>1. IInv /\ [Next]_vars =>
        [\A s \in Slots : gw[s] \in {"unused", "released", "settled"} => gw'[s] = gw[s]]_vars
  BY SlotsStay DEF EndStays
<1>2. QED
  BY <1>1, Inductive, PTL DEF Spec, SlotEndIsFinal

AbsentStays(s) == run[s].status = "absent" => run'[s].status = "absent"

\* Between two handlers no run is made.
LEMMA DispatchMakesNone ==
  ASSUME IInv, NEW s \in Slots,
         Supervise \/ (\E text : Answers(text)) \/ Fails \/ AnswerLost \/ Restart
  PROVE  AbsentStays(s)
<1>1. Types /\ Sound(s)
  BY DEF IInv
<1>2. run[s] \in RunState /\ (run[s].status = "absent" => run[s].task = "none")
  <2>1. Absent.task = "none"
    BY DEF Absent
  <2>2. QED
    BY <1>1, <2>1 DEF Types, Sound
<1>3. CASE run' = run
  BY <1>3 DEF AbsentStays
<1>4. CASE Supervise
  <2>1. PICK o : \/ run' = run
                 \/ run' = [run EXCEPT ![o].task = "running",
                                       ![o].status = IF @ = "queued" THEN "running" ELSE @]
    BY <1>4 DEF Supervise
  <2>2. QED
    BY <1>1, <1>2, <1>3, <2>1 DEF AbsentStays, Types, RunState
<1>5. CASE \E text : Answers(text)
  <2>1. PICK text : Answers(text)
    BY <1>5
  <2>2. /\ run[flight].status = "running"
        /\ \/ run' = [run EXCEPT ![flight].task = "over", ![flight].text = text,
                        ![flight].status = IF run[flight].cancel THEN "cancelled" ELSE "completed"]
           \/ run' = [run EXCEPT ![flight].task = "over", ![flight].stored = TRUE]
    BY <2>1 DEF Answers
  <2>3. QED
    BY <1>1, <1>2, <2>2 DEF AbsentStays, Types, RunState
<1>6. CASE Fails
  <2>1. PICK status : run' = [run EXCEPT ![flight].task = "over", ![flight].status = status]
    BY <1>6 DEF Fails
  <2>2. run[flight].status = "running"
    BY <1>6 DEF Fails
  <2>3. QED
    BY <1>1, <1>2, <2>1, <2>2 DEF AbsentStays, Types, RunState
<1>7. CASE AnswerLost
  <2>1. run' = [run EXCEPT ![flight].task = IF @ = "running" THEN "queued" ELSE @]
    BY <1>7 DEF AnswerLost
  <2>2. QED
    BY <1>1, <1>2, <2>1 DEF AbsentStays, Types, RunState
<1>8. CASE Restart
  <2>1. run' = [o \in Slots |-> [run[o] EXCEPT !.task = IF @ = "running" THEN "queued" ELSE @]]
    BY <1>8 DEF Restart
  <2>2. QED
    BY <1>2, <2>1 DEF AbsentStays, RunState
<1>9. QED
  BY <1>4, <1>5, <1>6, <1>7, <1>8

\* cancelRun makes no run either.
LEMMA CancelMakesNone ==
  ASSUME IInv, NEW s \in Slots, CancelRun
  PROVE  AbsentStays(s)
<1>1. Types
  BY DEF IInv
<1>2. \/ run' = run
      \/ \E r : run[Slot].status \notin Terminal \cup {"absent"} /\ run' = [run EXCEPT ![Slot] = r]
  BY DEF CancelRun, SetRun
<1>3. QED
  BY <1>1, <1>2 DEF AbsentStays, Types

\* What a step of an open brainstorm does is of no concern.
EndedStays ==
  rec.status \in Terminal => rec'.status = rec.status /\ \A s \in Slots : AbsentStays(s)

LEMMA EndStatusStays == IInv /\ EnterStatus => EndedStays
<1> SUFFICES ASSUME IInv, EnterStatus, rec.status \in Terminal
             PROVE  rec'.status = rec.status /\ \A s \in Slots : AbsentStays(s)
  BY DEF EndedStays
<1>1. PICK status \in Statuses : Doing(status) /\ rec' = [rec EXCEPT !.status = status]
  BY DEF EnterStatus
<1>2. ~Idle /\ Types
  BY <1>1 DEF Doing, Idle, IInv
<1>3. H[1] = status /\ Fits(H)
  BY <1>1, <1>2, HeadFits
<1>4. status \in WholeNames \cup OwnNames
  BY <1>2, <1>3, HeadStep, StepNames
<1>5. status \in Between \cup Terminal
  BY <1>4 DEF Statuses, WholeNames, OwnNames, EnsureNames, Between, Terminal
<1>6. status = "cancelled" /\ rec.status = "cancelled"
  BY <1>3, <1>5 DEF Fits, Terminal
<1>7. rec'.status = rec.status
  BY <1>1, <1>2, <1>6 DEF Types
<1>8. run' = run
  BY DEF EnterStatus
<1>9. QED
  BY <1>7, <1>8 DEF AbsentStays

LEMMA EndStays2 == IInv /\ [Next]_vars => EndedStays
<1> SUFFICES ASSUME IInv, [Next]_vars PROVE EndedStays
  OBVIOUS
<1>1. CASE rec' = rec /\ run' = run
  BY <1>1 DEF EndedStays, AbsentStays
<1>2. CASE rec.status \notin Terminal
  BY <1>2 DEF EndedStays
<1>3. CASE rec' = rec /\ \A s \in Slots : AbsentStays(s)
  BY <1>3 DEF EndedStays
<1>4. CASE MarkPending
  BY <1>2, <1>4, OpenWhile DEF MarkPending
<1>5. CASE \/ CreateRun \/ WriteApproval \/ Decide \/ ApproveRun \/ BindRun \/ Enqueue \/ QueueRun
           \/ BindSlot
  <2>1. PICK step \in EnsureNames : Doing(step)
    BY <1>5 DEF CreateRun, WriteApproval, Decide, ApproveRun, BindRun, Enqueue, QueueRun, BindSlot,
                EnsureNames
  <2>2. QED
    BY <1>2, <2>1, OpenWhile
<1>6. CASE MarkReserved
  <2>1. rec' = [rec EXCEPT !.approval = "reserved"] /\ run' = run
    BY <1>6 DEF MarkReserved
  <2>2. rec'.status = rec.status
    BY <2>1 DEF IInv, Types
  <2>3. QED
    BY <2>1, <2>2 DEF EndedStays, AbsentStays
<1>7. CASE ReserveGroup \/ RefuseRun \/ ClaimSlot \/ ReleaseSlots
  BY <1>1, <1>7 DEF ReserveGroup, RefuseRun, ClaimSlot, ReleaseSlots
<1>8. CASE EnterStatus
  BY <1>8, EndStatusStays
<1>9. CASE CancelRun
  <2>1. rec' = rec
    BY <1>9 DEF CancelRun
  <2>2. QED
    BY <1>3, <1>9, <2>1, CancelMakesNone
<1>10. CASE Supervise \/ (\E text : Answers(text)) \/ Fails \/ AnswerLost \/ Restart
  <2>1. rec' = rec
    BY <1>10 DEF Supervise, Answers, Fails, AnswerLost, Restart
  <2>2. QED
    BY <1>3, <1>10, <2>1, DispatchMakesNone
<1>11. CASE \/ Approve \/ RequestArbitration \/ Cancel \/ (\E c \in Slots : CancelChild(c)) \/ Tick
            \/ Throw \/ UNCHANGED vars
  BY <1>1, <1>11 DEF Approve, RequestArbitration, Cancel, CancelChild, Tick, Throw, vars
<1>12. QED
  BY <1>4, <1>5, <1>6, <1>7, <1>8, <1>9, <1>10, <1>11, Zenon DEF Next, Writes, Polls, DispatchEnds

\* A brainstorm that ended stays as it ended: no request that waited, no tick that is repeated and
\* no restart gives it another status or another run.
THEOREM EndsAreFinal == Spec => EndIsFinal
<1>1. IInv /\ [Next]_vars =>
        [rec.status \in Terminal =>
           /\ rec'.status = rec.status
           /\ \A s \in Slots : run[s].status = "absent" => run'[s].status = "absent"]_vars
  BY EndStays2 DEF EndedStays, AbsentStays
<1>2. QED
  BY <1>1, Inductive, PTL DEF Spec, EndIsFinal

=============================================================================
