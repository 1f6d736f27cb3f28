------------------------ MODULE FigmaMutationsProofs ------------------------
(***************************************************************************)
(* Proofs about the write path to Figma for any batches, files, windows    *)
(* and ops, and any number of lost messages and closed windows.            *)
(***************************************************************************)
EXTENDS FigmaMutations, TLAPS

-----------------------------------------------------------------------------
(* The inductive invariant *)

Asks == {"claim", "granted", "refused"}

\* What is under way for an open window is the one thing the window waits for.
NetOfWindow ==
  /\ \A m \in net : m.win \in Windows =>
       win[m.win].at = IF m.type \in Asks THEN "claiming" ELSE "reporting"
  /\ \A m1, m2 \in net : m1.win \in Windows /\ m1.win = m2.win => m1 = m2

\* A claim that is still waited for, a granted batch and a batch that is being applied are of
\* the window's file.
FileOfWindow ==
  /\ \A m \in net : m.type = "claim" /\ m.win \in Windows => m.file = win[m.win].file
  /\ \A m \in net : m.type = "granted" => rec[m.id].file = win[m.win].file
  /\ \A w \in Windows : win[w].at = "applying" => rec[win[w].id].file = win[w].file

\* The lease is used once: one grant or one window has the batch.
OneHolder ==
  /\ \A m \in net : m.type = "granted" => rec[m.id].used
  /\ \A w \in Windows : win[w].at = "applying" => rec[win[w].id].used
  /\ \A m1, m2 \in net : m1.type = "granted" /\ m2.type = "granted" /\ m1.id = m2.id => m1 = m2
  /\ \A m \in net, w \in Windows :
       m.type = "granted" /\ win[w].at = "applying" => win[w].id # m.id
  /\ \A w1, w2 \in Windows :
       win[w1].at = "applying" /\ win[w2].at = "applying" /\ win[w1].id = win[w2].id => w1 = w2

\* Only an approved batch is claimed, and it does not become a proposal again.
UsedIsApproved == \A i \in Ids : rec[i].used => rec[i].status \in {"approved"} \cup Reported

\* No op of a batch is applied before its claim, or ahead of the window that applies it; none
\* twice, and none to another file.
AppliedOnce ==
  /\ \A f \in Files, i \in Ids, n \in Ops :
       doc[f][i][n] # 0 => doc[f][i][n] = 1 /\ rec[i].used /\ rec[i].file = f
  /\ \A m \in net : m.type = "granted" => \A f \in Files, n \in Ops : doc[f][m.id][n] = 0
  /\ \A w \in Windows : win[w].at = "applying" =>
       \A f \in Files, n \in Ops : n >= win[w].op => doc[f][win[w].id][n] = 0

Done(i, n) == doc[rec[i].file][i][n] = 1 \/ n \in skipped[i]

\* The ops behind a window are done, and all of them when it reports success.
DoneInOrder ==
  /\ \A w \in Windows : win[w].at = "applying" =>
       \A n \in Ops : n < win[w].op => Done(win[w].id, n)
  /\ \A m \in net : m.type = "result" /\ ~m.error =>
       rec[m.id].used /\ \A n \in Ops : Done(m.id, n)
  /\ \A m \in net : m.type = "result" => rec[m.id].used
  /\ \A i \in Ids : rec[i].status \in Reported => rec[i].used

IInv ==
  /\ TypeOK /\ NetOfWindow /\ FileOfWindow /\ OneHolder /\ UsedIsApproved
  /\ AppliedOnce /\ DoneInOrder /\ ExecutedIsComplete

-----------------------------------------------------------------------------
(* Shapes of messages and windows *)

Applies == [at : {"applying"}, file : Files, id : Ids, op : 1 .. NOps + 1]

\* What TypeOK says of a message by its type, and of a window.
LEMMA Shapes ==
  ASSUME TypeOK
  PROVE  /\ \A m \in net :
              /\ m.type \in Asks \cup {"result", "recorded"}
              /\ m.win \in Windows \cup {NoWindow}
              /\ m.type \notin Requests => m.win \in Windows
              /\ m.type \in {"claim", "granted", "result"} => m.id \in Ids
              /\ m.type = "claim" => m.file \in Files
              /\ m.type = "result" => m.error \in BOOLEAN
         /\ \A w \in Windows :
              /\ win[w].file \in Files
              /\ win[w].at = "applying" => win[w] \in Applies
BY DEF TypeOK, Messages, WindowStates, Asks, Requests, Applies

-----------------------------------------------------------------------------
(* Two kinds of steps *)

Complete == {"executed", "verified", "drift"}

\* A decision, or the passing of time, leaves used batches as they are.
LEMMA DecisionKeeps ==
  ASSUME IInv, TypeOK', UNCHANGED <<win, net, doc, skipped>>,
         \A i \in Ids :
           /\ rec'[i].used = rec[i].used
           /\ rec[i].used => rec'[i].file = rec[i].file
                             /\ rec'[i].status \in {"approved"} \cup Reported
           /\ rec'[i].status \in Reported => rec[i].status \in Reported
           /\ rec'[i].status \in Complete => rec[i].status \in Complete
  PROVE  IInv'
<1> USE DEF IInv
<1>1. NetOfWindow'
  BY DEF NetOfWindow
<1>2. FileOfWindow'
  BY Shapes DEF FileOfWindow, OneHolder, Applies
<1>3. OneHolder'
  BY Shapes DEF OneHolder, Applies
<1>4. UsedIsApproved'
  BY DEF UsedIsApproved
<1>5. AppliedOnce'
  BY Shapes DEF AppliedOnce, Applies
<1>6. DoneInOrder'
  BY Shapes DEF DoneInOrder, Done, OneHolder, Applies
<1>7. ExecutedIsComplete'
  BY DEF ExecutedIsComplete, DoneInOrder, Complete, Reported
<1>8. QED
  BY <1>1, <1>2, <1>3, <1>4, <1>5, <1>6, <1>7

\* A step that hands out nothing, takes nothing in hand and applies nothing.
LEMMA HoldsNoMore ==
  ASSUME IInv, TypeOK', NetOfWindow', UNCHANGED <<rec, doc, skipped>>,
         \A m \in net' : m.type = "claim" /\ m.win \in Windows => m.file = win'[m.win].file,
         \A m \in net' : m.type = "granted" => m \in net /\ win'[m.win].file = win[m.win].file,
         \A m \in net' : m.type = "result" =>
           \E r \in net : r.type = "result" /\ r.id = m.id /\ r.error = m.error,
         \A w \in Windows : win'[w].at = "applying" => win'[w] = win[w]
  PROVE  IInv'
<1> USE DEF IInv
<1>1. FileOfWindow'
  BY DEF FileOfWindow
<1>2. OneHolder'
  BY DEF OneHolder
<1>3. UsedIsApproved'
  BY DEF UsedIsApproved
<1>4. AppliedOnce'
  BY DEF AppliedOnce
<1>5. DoneInOrder'
  BY DEF DoneInOrder, Done
<1>6. ExecutedIsComplete'
  BY DEF ExecutedIsComplete
<1>7. QED
  BY <1>1, <1>2, <1>3, <1>4, <1>5, <1>6

-----------------------------------------------------------------------------
(* Decisions *)

LEMMA SubmitKeeps == ASSUME IInv, NEW i \in Ids, NEW f \in Files, Submit(i, f) PROVE IInv'
<1>1. rec[i].used = FALSE
  BY DEF IInv, UsedIsApproved, Submit, TypeOK, Records, Reported
<1>2. rec' \in [Ids -> Records]
  BY DEF IInv, TypeOK, Records, Submit
<1>3. TypeOK'
  BY <1>2 DEF IInv, TypeOK, Submit, Messages
<1>4. \A j \in Ids : j # i => rec'[j] = rec[j]
  BY DEF IInv, TypeOK, Submit
<1>5. rec'[i].used = FALSE /\ rec'[i].status = "pending"
  BY <1>1 DEF IInv, TypeOK, Records, Submit
<1>6. QED
  BY <1>1, <1>3, <1>4, <1>5, DecisionKeeps DEF IInv, UsedIsApproved, Submit, Complete, Reported

LEMMA ApproveKeeps == ASSUME IInv, NEW i \in Ids, Approve(i) PROVE IInv'
<1>1. rec[i].used = FALSE
  BY DEF IInv, UsedIsApproved, Approve, TypeOK, Records, Reported
<1>2. rec' \in [Ids -> Records]
  <2>1. Ttl \in 0 .. Ttl /\ rec \in [Ids -> Records] /\ rec[i] \in Records
    BY FigmaConstants DEF IInv, TypeOK
  <2>2. [rec[i] EXCEPT !.status = "approved", !.lease = Ttl] \in Records
    BY <2>1 DEF Records
  <2>3. rec' = [rec EXCEPT ![i] = [rec[i] EXCEPT !.status = "approved", !.lease = Ttl]]
    BY <2>1 DEF Approve, Records
  <2>4. QED
    BY <2>1, <2>2, <2>3
<1>3. TypeOK'
  BY <1>2 DEF IInv, TypeOK, Approve, Messages
<1>4. \A j \in Ids : j # i => rec'[j] = rec[j]
  BY DEF IInv, TypeOK, Approve
<1>5. rec'[i].used = FALSE /\ rec'[i].status = "approved"
  BY <1>1 DEF IInv, TypeOK, Records, Approve
<1>6. QED
  BY <1>1, <1>3, <1>4, <1>5, DecisionKeeps DEF IInv, UsedIsApproved, Approve, Complete, Reported

LEMMA RejectKeeps == ASSUME IInv, NEW i \in Ids, Reject(i) PROVE IInv'
<1>1. rec[i].used = FALSE
  BY DEF IInv, UsedIsApproved, Reject, TypeOK, Records, Reported
<1>2. rec' \in [Ids -> Records]
  BY DEF IInv, TypeOK, Records, Reject
<1>3. TypeOK'
  BY <1>2 DEF IInv, TypeOK, Reject, Messages
<1>4. \A j \in Ids : j # i => rec'[j] = rec[j]
  BY DEF IInv, TypeOK, Reject
<1>5. rec'[i].used = FALSE /\ rec'[i].status = "rejected"
  BY <1>1 DEF IInv, TypeOK, Records, Reject
<1>6. QED
  BY <1>1, <1>3, <1>4, <1>5, DecisionKeeps DEF IInv, UsedIsApproved, Reject, Complete, Reported

LEMMA VerifyKeeps == ASSUME IInv, NEW i \in Ids, Verify(i) PROVE IInv'
<1>1. rec' \in [Ids -> Records]
  BY ZenonT(60) DEF IInv, TypeOK, Records, Reported, Verify
<1>2. TypeOK'
  BY <1>1 DEF IInv, TypeOK, Verify, Messages
<1>3. \A j \in Ids : j # i => rec'[j] = rec[j]
  BY DEF IInv, TypeOK, Verify
<1>4. /\ rec'[i].used = rec[i].used /\ rec'[i].file = rec[i].file
      /\ rec'[i].status \in {"verified", "drift"} /\ rec[i].status = "executed"
  BY DEF IInv, TypeOK, Records, Verify
<1>5. QED
  BY <1>2, <1>3, <1>4, DecisionKeeps DEF IInv, UsedIsApproved, Verify, Complete, Reported

LEMMA TickKeeps == ASSUME IInv, Tick PROVE IInv'
<1>1. \A i \in Ids : /\ rec'[i] \in Records /\ rec'[i].status = rec[i].status
                     /\ rec'[i].used = rec[i].used /\ rec'[i].file = rec[i].file
  BY FigmaConstants DEF IInv, TypeOK, Records, Tick
<1>2. rec' \in [Ids -> Records]
  BY <1>1 DEF Tick
<1>3. TypeOK'
  BY <1>2 DEF IInv, TypeOK, Tick, Messages
<1>4. QED
  BY <1>1, <1>3, DecisionKeeps DEF IInv, UsedIsApproved, Tick, Complete, Reported

-----------------------------------------------------------------------------
(* Steps that hand out nothing *)

\* A reply to a window that waits replaces its request.
LEMMA ReplyIsWaitedFor ==
  ASSUME IInv, NEW m \in net, NEW reply \in Messages, reply.win = m.win,
         (reply.type \in Asks) <=> (m.type \in Asks),
         net' = Reply(m, reply), UNCHANGED win
  PROVE  NetOfWindow' /\ net' \subseteq Messages
<1>1. net' \subseteq Messages
  BY DEF IInv, TypeOK, Reply
<1>2. \A n \in net' : n \in net \ {m} \/ (n = reply /\ m.win # NoWindow)
  BY DEF Reply
<1>3. \A n \in net \ {m} : m.win \in Windows => n.win # m.win
  BY DEF IInv, NetOfWindow
<1>4. QED
  BY <1>1, <1>2, <1>3 DEF IInv, NetOfWindow

LEMMA RefuseClaimKeeps == ASSUME IInv, NEW m \in net, RefuseClaim(m) PROVE IInv'
<1> DEFINE reply == [type |-> "refused", win |-> m.win]
<1>1. CASE m.win = NoWindow
  <2>1. net' = net \ {m}
    BY <1>1 DEF RefuseClaim, Reply
  <2>2. TypeOK' /\ NetOfWindow'
    BY <2>1 DEF RefuseClaim, IInv, TypeOK, NetOfWindow, Messages
  <2>3. QED
    BY <2>1, <2>2, HoldsNoMore DEF RefuseClaim, IInv, FileOfWindow
<1>2. CASE m.win # NoWindow
  <2>1. reply \in Messages /\ m.type \in Asks
    BY <1>2, Shapes DEF IInv, RefuseClaim, Asks, Messages
  <2>2. NetOfWindow' /\ net' \subseteq Messages
    BY <2>1, ReplyIsWaitedFor DEF RefuseClaim, Asks
  <2>3. TypeOK'
    BY <2>2 DEF RefuseClaim, IInv, TypeOK, Messages
  <2>4. \A n \in net' : n \in net \/ n.type = "refused"
    BY DEF RefuseClaim, Reply
  <2>5. QED
    BY <2>2, <2>3, <2>4, HoldsNoMore DEF RefuseClaim, IInv, FileOfWindow
<1>3. QED
  BY <1>1, <1>2

LEMMA LoseKeeps == ASSUME IInv, NEW m \in net, Lose(m) PROVE IInv'
<1>1. \A w \in Windows : win'[w] = IF w = m.win THEN Idle(w) ELSE win[w]
  BY FigmaConstants DEF IInv, TypeOK, Lose
<1>2. \A w \in Windows : win'[w] \in WindowStates /\ win'[w].file = win[w].file
  <2>1. \A w \in Windows : Idle(w) \in WindowStates /\ Idle(w).file = win[w].file
    BY Shapes DEF IInv, Idle, WindowStates
  <2>2. QED
    BY <1>1, <2>1 DEF IInv, TypeOK
<1>3. win' \in [Windows -> WindowStates]
  BY <1>2, FigmaConstants DEF IInv, TypeOK, Lose
<1>4. TypeOK'
  BY <1>3 DEF IInv, TypeOK, Lose, Messages
<1>5. net' = net \ {m}
  BY DEF Lose
<1>6. NetOfWindow'
  BY <1>1, <1>5, Shapes DEF IInv, NetOfWindow
<1>7. \A w \in Windows : win'[w].at = "applying" => win'[w] = win[w]
  <2>1. \A w \in Windows : Idle(w).at = "idle"
    BY DEF Idle
  <2>2. QED
    BY <1>1, <2>1
<1>8. \A n \in net' : n.type = "granted" => n.win \in Windows
  BY <1>5, Shapes DEF IInv, Requests
<1>9. QED
  BY <1>2, <1>4, <1>5, <1>6, <1>7, <1>8, HoldsNoMore DEF Lose, IInv, FileOfWindow

LEMMA OpenKeeps == ASSUME IInv, NEW w \in Windows, NEW f \in Files, Open(w, f) PROVE IInv'
<1>1. [at |-> "idle", file |-> f] \in WindowStates
  BY DEF WindowStates
<1>2. TypeOK'
  BY <1>1 DEF IInv, TypeOK, Open, Messages
<1>3. \A v \in Windows : win'[v] = IF v = w THEN [at |-> "idle", file |-> f] ELSE win[v]
  BY DEF IInv, TypeOK, Open
<1>4. \A m \in net : m.win # w
  BY DEF IInv, NetOfWindow, Open
<1>5. NetOfWindow'
  BY <1>3, <1>4 DEF IInv, NetOfWindow, Open
<1>6. \A m \in net : m.type = "granted" => m.win \in Windows
  BY Shapes DEF IInv, Requests
<1>7. QED
  BY <1>2, <1>3, <1>4, <1>5, <1>6, HoldsNoMore DEF Open, IInv, FileOfWindow

LEMMA PressRunKeeps == ASSUME IInv, NEW w \in Windows, PressRun(w) PROVE IInv'
<1>1. PICK i \in leases :
        /\ win[w].at = "idle"
        /\ win' = [win EXCEPT ![w] = [at |-> "claiming", file |-> @.file]]
        /\ net' = net \cup {[type |-> "claim", win |-> w, file |-> win[w].file, id |-> i]}
        /\ UNCHANGED <<rec, leases, doc, skipped, lost, closes>>
  BY DEF PressRun
<1> DEFINE ask == [type |-> "claim", win |-> w, file |-> win[w].file, id |-> i]
<1>2. ask \in Messages /\ [at |-> "claiming", file |-> win[w].file] \in WindowStates
  BY Shapes DEF IInv, TypeOK, Messages, WindowStates
<1>3. TypeOK'
  <2>1. net' \subseteq Messages
    BY <1>1, <1>2 DEF IInv, TypeOK
  <2>2. win' \in [Windows -> WindowStates]
    BY <1>1, <1>2 DEF IInv, TypeOK
  <2>3. QED
    BY <1>1, <2>1, <2>2 DEF IInv, TypeOK, Messages
<1>4. \A v \in Windows :
        win'[v] = IF v = w THEN [at |-> "claiming", file |-> win[w].file] ELSE win[v]
  BY <1>1 DEF IInv, TypeOK
<1>5. \A m \in net : m.win # w
  BY <1>1 DEF IInv, NetOfWindow
<1>6. \A m \in net' : m \in net \/ m = ask
  BY <1>1
<1>7. NetOfWindow'
  BY <1>4, <1>5, <1>6 DEF IInv, NetOfWindow, Asks
<1>8. \A m \in net : m.type = "granted" => m.win \in Windows
  BY Shapes DEF IInv, Requests
<1>9. QED
  BY <1>1, <1>3, <1>4, <1>5, <1>6, <1>7, <1>8, HoldsNoMore DEF IInv, FileOfWindow

LEMMA CloseKeeps == ASSUME IInv, NEW w \in Windows, Close(w) PROVE IInv'
<1>1. \A v \in Windows : win'[v] = IF v = w THEN Closed(win[w].file) ELSE win[v]
  BY DEF IInv, TypeOK, Close
<1>2. \A m \in net' : \/ m \in net /\ m.win # w
                     \/ /\ m.win = NoWindow
                        /\ \E r \in net : r.type \in Requests /\ m = [r EXCEPT !.win = NoWindow]
  <2>1. \A r \in net : r.type \in Requests => [r EXCEPT !.win = NoWindow].win = NoWindow
    BY DEF IInv, TypeOK, Messages, Requests
  <2>2. QED
    BY <2>1 DEF Close
<1>3. \A r \in net : r.type \in Requests =>
        /\ [r EXCEPT !.win = NoWindow] \in Messages
        /\ [r EXCEPT !.win = NoWindow].type = r.type
        /\ r.type = "result" => /\ [r EXCEPT !.win = NoWindow].id = r.id
                                /\ [r EXCEPT !.win = NoWindow].error = r.error
  BY DEF IInv, TypeOK, Messages, Requests
<1>4. TypeOK'
  <2>1. net' \subseteq Messages
    BY <1>2, <1>3 DEF IInv, TypeOK
  <2>2. Closed(win[w].file) \in WindowStates
    BY Shapes DEF IInv, Closed, WindowStates
  <2>3. win' \in [Windows -> WindowStates]
    BY <2>2 DEF IInv, TypeOK, Close
  <2>4. QED
    BY <2>1, <2>3 DEF IInv, TypeOK, Close, Messages
<1>5. NetOfWindow'
  BY <1>1, <1>2, FigmaConstants DEF IInv, NetOfWindow
<1>6. \A m \in net' : m.type = "granted" => m \in net /\ win'[m.win].file = win[m.win].file
  <2>1. SUFFICES ASSUME NEW m \in net', m.type = "granted"
                 PROVE  m \in net /\ win'[m.win].file = win[m.win].file
    OBVIOUS
  <2>2. m \in net /\ m.win # w
    BY <1>2, <1>3, <2>1, ZenonT(60) DEF Requests
  <2>3. QED
    BY <1>1, <2>1, <2>2, Shapes, SMTT(30) DEF IInv, Requests
<1>7. \A m \in net' : m.type = "result" =>
        \E r \in net : r.type = "result" /\ r.id = m.id /\ r.error = m.error
  <2>1. SUFFICES ASSUME NEW m \in net', m.type = "result", m \notin net
                 PROVE  \E r \in net : r.type = "result" /\ r.id = m.id /\ r.error = m.error
    OBVIOUS
  <2>2. PICK r \in net : r.type \in Requests /\ m = [r EXCEPT !.win = NoWindow]
    BY <1>2, <2>1
  <2>3. QED
    BY <1>3, <2>1, <2>2
<1>8. \A m \in net' : m.type = "claim" /\ m.win \in Windows => m.file = win'[m.win].file
  BY <1>1, <1>2, FigmaConstants DEF IInv, FileOfWindow
<1>9. \A v \in Windows : win'[v].at = "applying" => win'[v] = win[v]
  BY <1>1 DEF Closed
<1>10. QED
  BY <1>4, <1>5, <1>6, <1>7, <1>8, <1>9, HoldsNoMore DEF Close

LEMMA AnsweredKeeps == ASSUME IInv, NEW w \in Windows, Answered(w) PROVE IInv'
<1>1. PICK m \in net :
        /\ m.win = w /\ m.type \in {"refused", "recorded"} /\ net' = net \ {m}
        /\ win' = [win EXCEPT ![w] = Idle(w)]
        /\ UNCHANGED <<rec, leases, doc, skipped, lost, closes>>
  BY DEF Answered
<1>2. Idle(w) \in WindowStates
  BY Shapes DEF IInv, Idle, WindowStates
<1>3. TypeOK'
  BY <1>1, <1>2 DEF IInv, TypeOK, Messages
<1>4. \A v \in Windows : win'[v] = IF v = w THEN Idle(w) ELSE win[v]
  BY <1>1 DEF IInv, TypeOK
<1>5. \A n \in net' : n.win # w
  BY <1>1 DEF IInv, NetOfWindow
<1>6. NetOfWindow'
  BY <1>1, <1>4, <1>5 DEF IInv, NetOfWindow
<1>7. \A n \in net : n.type = "granted" => n.win \in Windows
  BY Shapes DEF IInv, Requests
<1>8. QED
  BY <1>1, <1>3, <1>4, <1>5, <1>6, <1>7, HoldsNoMore DEF IInv, FileOfWindow, Idle

-----------------------------------------------------------------------------
(* Steps that hand a batch on *)

LEMMA ClaimKeeps == ASSUME IInv, NEW m \in net, Claim(m) PROVE IInv'
<1> DEFINE i == m.id
           grant == [type |-> "granted", win |-> m.win, id |-> m.id]
<1>1. /\ m.type = "claim" /\ i \in Ids /\ rec[i].status = "approved"
      /\ rec[i].file = m.file /\ ~rec[i].used
  BY Shapes DEF IInv, Claim, Claimable
<1>2. /\ rec' \in [Ids -> Records]
      /\ \A j \in Ids : /\ rec'[j].file = rec[j].file /\ rec'[j].status = rec[j].status
                        /\ rec'[j].used = (rec[j].used \/ j = i)
  BY <1>1 DEF IInv, TypeOK, Records, Claim
<1>3. \A n \in net' : n \in net \ {m} \/ (n = grant /\ m.win \in Windows)
  BY Shapes DEF IInv, Claim, Reply
<1>4. net' \subseteq Messages /\ NetOfWindow'
  <2>1. CASE m.win = NoWindow
    <3>1. net' = net \ {m} /\ win' = win
      BY <2>1 DEF Claim, Reply
    <3>2. QED
      BY <3>1 DEF IInv, TypeOK, NetOfWindow
  <2>2. CASE m.win \in Windows
    <3>1. grant \in Messages
      BY <1>1, <2>2 DEF Messages
    <3>2. QED
      BY <1>1, <3>1, ReplyIsWaitedFor DEF Claim, Asks
  <2>3. QED
    BY <2>1, <2>2, Shapes DEF IInv
<1>5. TypeOK'
  BY <1>2, <1>4 DEF IInv, TypeOK, Claim, Messages
<1>6. \A w \in Windows : win[w].at = "applying" => win[w].id \in Ids /\ win[w].id # i
  BY <1>1, Shapes DEF IInv, OneHolder, Applies
<1>7. \A n \in net : n.type = "granted" => n.id \in Ids /\ n.id # i /\ n.win \in Windows
  BY <1>1, Shapes DEF IInv, OneHolder, Requests
<1>8. FileOfWindow'
  BY <1>1, <1>2, <1>3, <1>6, <1>7 DEF IInv, FileOfWindow, Claim
<1>9. OneHolder'
  <2>1. \A n \in net' : n.type = "granted" => n.id \in Ids /\ (n.id = i <=> n = grant)
    BY <1>1, <1>3, <1>7
  <2>2. QED
    BY <1>1, <1>2, <1>3, <1>6, <2>1 DEF IInv, OneHolder, Claim
<1>10. UsedIsApproved'
  BY <1>1, <1>2 DEF IInv, UsedIsApproved
<1>11. \A f \in Files, n \in Ops : doc[f][i][n] = 0
  BY <1>1 DEF IInv, AppliedOnce
<1>12. AppliedOnce'
  BY <1>1, <1>2, <1>3, <1>11 DEF IInv, AppliedOnce, Claim
<1>13. DoneInOrder'
  <2>1. \A j \in Ids, n \in Ops : Done(j, n)' <=> Done(j, n)
    BY <1>2 DEF Done, Claim
  <2>2. \A w \in Windows, j \in Ids : win'[w].at = "applying" /\ win'[w].id = j =>
          \A n \in Ops : n < win'[w].op => Done(j, n)'
    <3>1. \A w \in Windows : win'[w].at = "applying" =>
            win[w].at = "applying" /\ win'[w].id = win[w].id /\ win'[w].op = win[w].op
      BY DEF Claim
    <3>2. \A w \in Windows, j \in Ids : win[w].at = "applying" /\ win[w].id = j =>
            \A n \in Ops : n < win[w].op => Done(j, n)
      BY DEF IInv, DoneInOrder
    <3>3. QED
      BY <2>1, <3>1, <3>2
  <2>3. \A n \in net' : n.type = "result" => n \in net /\ n.id \in Ids
    BY <1>3, Shapes DEF IInv
  <2>4. \A n \in net' : n.type = "result" => rec'[n.id].used
    BY <1>2, <2>3 DEF IInv, DoneInOrder
  <2>5. \A n \in net' : n.type = "result" /\ ~n.error => \A k \in Ops : Done(n.id, k)'
    BY <2>1, <2>3 DEF IInv, DoneInOrder
  <2>6. \A j \in Ids : rec'[j].status \in Reported => rec'[j].used
    BY <1>1, <1>2 DEF IInv, DoneInOrder
  <2>7. \A w \in Windows : win'[w].at = "applying" => win'[w].id \in Ids
    BY <1>6 DEF Claim
  <2>8. QED
    BY <2>2, <2>4, <2>5, <2>6, <2>7 DEF DoneInOrder, Done
<1>14. ExecutedIsComplete'
  BY <1>2 DEF IInv, ExecutedIsComplete, Claim
<1>15. QED
  BY <1>4, <1>5, <1>8, <1>9, <1>10, <1>12, <1>13, <1>14 DEF IInv

LEMMA GrantedKeeps == ASSUME IInv, NEW w \in Windows, Granted(w) PROVE IInv'
<1>1. PICK m \in net :
        /\ m.win = w /\ m.type = "granted" /\ net' = net \ {m}
        /\ win' = [win EXCEPT ![w] =
                     [at |-> "applying", file |-> @.file, id |-> m.id, op |-> 1]]
        /\ UNCHANGED <<rec, leases, doc, skipped, lost, closes>>
  BY DEF Granted
<1> DEFINE begun == [at |-> "applying", file |-> win[w].file, id |-> m.id, op |-> 1]
<1>2. begun \in WindowStates
  BY <1>1, Shapes, FigmaConstants DEF IInv, WindowStates
<1>3. TypeOK'
  BY <1>1, <1>2 DEF IInv, TypeOK, Messages
<1>4. \A v \in Windows : win'[v] = IF v = w THEN begun ELSE win[v]
  BY <1>1 DEF IInv, TypeOK
<1>5. \A n \in net' : n \in net /\ n.win # w
  BY <1>1 DEF IInv, NetOfWindow
<1>6. NetOfWindow'
  BY <1>4, <1>5 DEF IInv, NetOfWindow
<1>7. \A n \in net' : n.type = "granted" => n.win \in Windows /\ n.id # m.id
  BY <1>1, Shapes DEF IInv, OneHolder, Requests
<1>8. FileOfWindow'
  BY <1>1, <1>4, <1>5, <1>7 DEF IInv, FileOfWindow
<1>9. OneHolder'
  BY <1>1, <1>4, <1>5, <1>7 DEF IInv, OneHolder
<1>10. UsedIsApproved'
  BY <1>1 DEF IInv, UsedIsApproved
<1>11. AppliedOnce'
  BY <1>1, <1>4, <1>5 DEF IInv, AppliedOnce
<1>12. DoneInOrder'
  BY <1>1, <1>4, <1>5 DEF IInv, DoneInOrder, Done, Ops
<1>13. ExecutedIsComplete'
  BY <1>1 DEF IInv, ExecutedIsComplete
<1>14. QED
  BY <1>3, <1>6, <1>8, <1>9, <1>10, <1>11, <1>12, <1>13 DEF IInv

LEMMA RecordResultKeeps == ASSUME IInv, NEW m \in net, RecordResult(m) PROVE IInv'
<1> DEFINE i == m.id
           reply == [type |-> "recorded", win |-> m.win]
<1>1. m.type = "result" /\ i \in Ids /\ rec[i].used
  BY Shapes DEF IInv, RecordResult, DoneInOrder
<1>2. /\ rec' \in [Ids -> Records]
      /\ \A j \in Ids :
           /\ rec'[j].file = rec[j].file /\ rec'[j].used = rec[j].used
           /\ \/ rec'[j].status = rec[j].status
              \/ /\ j = i
                 /\ rec'[j].status = IF m.error THEN "failed" ELSE "executed"
  BY <1>1, ZenonT(60) DEF IInv, TypeOK, Records, Reported, RecordResult
<1>3. \A n \in net' : n \in net \/ n = reply
  BY DEF RecordResult, Reply
<1>4. net' \subseteq Messages /\ NetOfWindow'
  <2>1. CASE m.win = NoWindow
    <3>1. net' = net \ {m} /\ win' = win
      BY <2>1 DEF RecordResult, Reply
    <3>2. QED
      BY <3>1 DEF IInv, TypeOK, NetOfWindow
  <2>2. CASE m.win \in Windows
    <3>1. reply \in Messages
      BY <1>1, <2>2 DEF Messages
    <3>2. QED
      BY <1>1, <3>1, ReplyIsWaitedFor DEF RecordResult, Asks
  <2>3. QED
    BY <2>1, <2>2, Shapes DEF IInv
<1>5. TypeOK'
  BY <1>2, <1>4 DEF IInv, TypeOK, RecordResult, Messages
<1>6. \A w \in Windows : win[w].at = "applying" => win[w].id \in Ids
  BY Shapes DEF IInv, Applies
<1>7. \A n \in net : n.type \in {"granted", "result"} => n.id \in Ids
  BY Shapes DEF IInv
<1>8. FileOfWindow'
  BY <1>2, <1>3, <1>6, <1>7 DEF IInv, FileOfWindow, RecordResult
<1>9. OneHolder'
  BY <1>2, <1>3, <1>6, <1>7 DEF IInv, OneHolder, RecordResult
<1>10. UsedIsApproved'
  BY <1>2 DEF IInv, UsedIsApproved, Reported
<1>11. AppliedOnce'
  BY <1>2, <1>3, <1>7 DEF IInv, AppliedOnce, RecordResult
<1>12. DoneInOrder'
  <2>1. \A j \in Ids, n \in Ops : Done(j, n)' <=> Done(j, n)
    BY <1>2 DEF Done, RecordResult
  <2>2. \A w \in Windows, j \in Ids : win'[w].at = "applying" /\ win'[w].id = j =>
          \A n \in Ops : n < win'[w].op => Done(j, n)'
    <3>1. \A w \in Windows : win'[w].at = "applying" =>
            win[w].at = "applying" /\ win'[w].id = win[w].id /\ win'[w].op = win[w].op
      BY DEF RecordResult
    <3>2. \A w \in Windows, j \in Ids : win[w].at = "applying" /\ win[w].id = j =>
            \A n \in Ops : n < win[w].op => Done(j, n)
      BY DEF IInv, DoneInOrder
    <3>3. QED
      BY <2>1, <3>1, <3>2
  <2>3. \A n \in net' : n.type = "result" => n \in net /\ n.id \in Ids
    BY <1>3, <1>7
  <2>4. \A n \in net' : n.type = "result" => rec'[n.id].used
    BY <1>2, <2>3 DEF IInv, DoneInOrder
  <2>5. \A n \in net' : n.type = "result" /\ ~n.error => \A k \in Ops : Done(n.id, k)'
    BY <2>1, <2>3 DEF IInv, DoneInOrder
  <2>6. \A j \in Ids : rec'[j].status \in Reported => rec'[j].used
    BY <1>1, <1>2 DEF IInv, DoneInOrder
  <2>7. \A w \in Windows : win'[w].at = "applying" => win'[w].id \in Ids
    BY <1>6 DEF RecordResult
  <2>8. QED
    BY <2>2, <2>4, <2>5, <2>6, <2>7 DEF DoneInOrder, Done
<1>13. ExecutedIsComplete'
  <2>1. ~m.error => \A n \in Ops : Done(i, n)
    BY <1>1 DEF IInv, DoneInOrder
  <2>2. QED
    BY <1>1, <1>2, <2>1 DEF IInv, ExecutedIsComplete, Done, RecordResult
<1>14. QED
  BY <1>4, <1>5, <1>8, <1>9, <1>10, <1>11, <1>12, <1>13 DEF IInv

-----------------------------------------------------------------------------
(* Steps that apply ops *)

\* The op at hand is applied for the first time, or nothing is.
AppliesOwnOp(w) ==
  /\ doc' \in [Files -> [Ids -> [Ops -> Nat]]]
  /\ \A f \in Files, j \in Ids, n \in Ops :
       \/ doc'[f][j][n] = doc[f][j][n]
       \/ /\ f = win[w].file /\ j = win[w].id /\ n = win[w].op
          /\ doc[f][j][n] = 0 /\ doc'[f][j][n] = 1

\* Applying the op at hand is that.
LEMMA OwnOpApplied ==
  ASSUME IInv, NEW w \in Windows, win[w].at = "applying", win[w].op <= NOps,
         \/ UNCHANGED doc
         \/ doc' = [doc EXCEPT ![win[w].file][win[w].id][win[w].op] = @ + 1]
  PROVE  AppliesOwnOp(w)
<1>1. win[w].file \in Files /\ win[w].id \in Ids /\ win[w].op \in Ops
  BY Shapes, FigmaConstants DEF IInv, Applies, Ops
<1>2. doc[win[w].file][win[w].id][win[w].op] = 0
  BY <1>1 DEF IInv, AppliedOnce, Ops
<1>3. doc \in [Files -> [Ids -> [Ops -> Nat]]]
  BY DEF IInv, TypeOK
<1>4. CASE UNCHANGED doc
  BY <1>3, <1>4 DEF AppliesOwnOp
<1>5. CASE doc' = [doc EXCEPT ![win[w].file][win[w].id][win[w].op] = @ + 1]
  <2>1. doc' \in [Files -> [Ids -> [Ops -> Nat]]]
    BY <1>1, <1>3, <1>5
  <2>2. \A f \in Files, j \in Ids, n \in Ops :
          doc'[f][j][n] = IF f = win[w].file /\ j = win[w].id /\ n = win[w].op
                          THEN doc[f][j][n] + 1 ELSE doc[f][j][n]
    BY <1>1, <1>3, <1>5
  <2>3. QED
    BY <1>2, <2>1, <2>2 DEF AppliesOwnOp
<1>6. QED
  BY <1>4, <1>5

\* What was done stays done.
LEMMA DoneStays ==
  ASSUME IInv, NEW w \in Windows, AppliesOwnOp(w), UNCHANGED rec,
         \A i \in Ids : skipped[i] \subseteq skipped'[i], NEW i \in Ids, NEW n \in Ops, Done(i, n)
  PROVE  Done(i, n)'
<1>1. rec[i].file \in Files
  BY DEF IInv, TypeOK, Records
<1>2. QED
  BY <1>1 DEF AppliesOwnOp, Done

\* The ops of the document stay applied once, and of a claimed batch.
LEMMA DocumentKeeps ==
  ASSUME IInv, NEW w \in Windows, win[w].at = "applying", AppliesOwnOp(w), UNCHANGED rec
  PROVE  \A f \in Files, i \in Ids, n \in Ops :
           doc'[f][i][n] # 0 => doc'[f][i][n] = 1 /\ rec'[i].used /\ rec'[i].file = f
<1>1. rec[win[w].id].used /\ rec[win[w].id].file = win[w].file
  BY DEF IInv, OneHolder, FileOfWindow
<1>2. SUFFICES ASSUME NEW f \in Files, NEW i \in Ids, NEW n \in Ops, doc'[f][i][n] # 0
               PROVE  doc'[f][i][n] = 1 /\ rec[i].used /\ rec[i].file = f
  OBVIOUS
<1>3. CASE doc'[f][i][n] = doc[f][i][n]
  BY <1>2, <1>3 DEF IInv, AppliedOnce
<1>4. CASE f = win[w].file /\ i = win[w].id /\ doc'[f][i][n] = 1
  BY <1>1, <1>4
<1>5. QED
  BY <1>3, <1>4 DEF AppliesOwnOp

LEMMA ApplyOpKeeps == ASSUME IInv, NEW w \in Windows, ApplyOp(w) PROVE IInv'
<1>1. PICK i \in Ids, n \in Ops :
        i = win[w].id /\ n = win[w].op /\ win[w].at = "applying" /\ n <= NOps /\ n \in Nat
  BY Shapes, FigmaConstants DEF IInv, ApplyOp, Applies, Ops
<1>2. \/ UNCHANGED doc
      \/ doc' = [doc EXCEPT ![win[w].file][i][n] = @ + 1]
  BY <1>1 DEF ApplyOp
<1>3. AppliesOwnOp(w)
  BY <1>1, <1>2, OwnOpApplied
<1>4. /\ skipped' \in [Ids -> SUBSET Ops]
      /\ \A j \in Ids : skipped[j] \subseteq skipped'[j]
  <2>1. skipped' = skipped \/ skipped' = [skipped EXCEPT ![i] = @ \cup {n}]
    BY <1>1 DEF ApplyOp
  <2>2. skipped \in [Ids -> SUBSET Ops]
    BY DEF IInv, TypeOK
  <2>3. QED
    BY <2>1, <2>2
<1>5. Done(i, n)'
  <2>1. rec[i].file = win[w].file
    BY <1>1 DEF IInv, FileOfWindow
  <2>2. CASE doc' = [doc EXCEPT ![win[w].file][i][n] = @ + 1]
    <3>1. doc[win[w].file][i][n] = 0 /\ win[w].file \in Files
      BY <1>1, Shapes DEF IInv, AppliedOnce
    <3>2. doc'[win[w].file][i][n] = 1
      BY <1>1, <2>2, <3>1 DEF IInv, TypeOK
    <3>3. QED
      BY <2>1, <3>2 DEF Done, ApplyOp
  <2>3. CASE skipped' = [skipped EXCEPT ![i] = @ \cup {n}]
    <3>1. skipped'[i] = skipped[i] \cup {n}
      BY <1>1, <2>3 DEF IInv, TypeOK
    <3>2. QED
      BY <3>1 DEF Done
  <2>4. QED
    BY <1>1, <2>2, <2>3 DEF ApplyOp
<1>6. /\ win' \in [Windows -> WindowStates]
      /\ \A v \in Windows : v # w => win'[v] = win[v]
      /\ win'[w].at = "applying" /\ win'[w].file = win[w].file
      /\ win'[w].id = i /\ win'[w].op = n + 1
  <2>1. win[w] \in Applies
    BY <1>1, Shapes DEF IInv
  <2>2. n + 1 \in 1 .. NOps + 1
    BY <1>1, FigmaConstants
  <2>3. [win[w] EXCEPT !.op = n + 1] \in Applies
    BY <2>1, <2>2 DEF Applies
  <2>4. win' = [win EXCEPT ![w] = [win[w] EXCEPT !.op = n + 1]]
    BY <1>1, <2>1 DEF ApplyOp, IInv, TypeOK
  <2>5. Applies \subseteq WindowStates
    BY DEF Applies, WindowStates
  <2>6. win' \in [Windows -> WindowStates] /\ win'[w] = [win[w] EXCEPT !.op = n + 1]
    BY <2>3, <2>4, <2>5 DEF IInv, TypeOK
  <2>7. QED
    BY <2>1, <2>4, <2>6, <1>1 DEF Applies, IInv, TypeOK
<1>7. TypeOK'
  BY <1>3, <1>4, <1>6 DEF IInv, TypeOK, ApplyOp, Messages, AppliesOwnOp
<1>8. NetOfWindow' /\ FileOfWindow' /\ OneHolder' /\ UsedIsApproved'
  <2>1. \A m \in net : m.type = "granted" => m.win \in Windows
    BY Shapes DEF IInv, Requests
  <2>2. NetOfWindow'
    BY <1>1, <1>6 DEF IInv, NetOfWindow, ApplyOp
  <2>3. FileOfWindow'
    BY <1>1, <1>6, <2>1 DEF IInv, FileOfWindow, ApplyOp
  <2>4. OneHolder'
    BY <1>1, <1>6, SMTT(30) DEF IInv, OneHolder, ApplyOp
  <2>5. QED
    BY <2>2, <2>3, <2>4 DEF IInv, UsedIsApproved, ApplyOp
<1>9. AppliedOnce'
  <2>1. \A m \in net : m.type = "granted" => m.id \in Ids /\ m.id # i
    BY <1>1, Shapes DEF IInv, OneHolder
  <2>2. \A v \in Windows : win[v].at = "applying" /\ v # w => win[v].id \in Ids /\ win[v].id # i
    BY <1>1, Shapes DEF IInv, OneHolder, Applies
  <2>3. \A m \in net : m.type = "granted" => \A f \in Files, k \in Ops : doc'[f][m.id][k] = 0
    <3>1. \A m \in net : m.type = "granted" => \A f \in Files, k \in Ops : doc[f][m.id][k] = 0
      BY DEF IInv, AppliedOnce
    <3>2. SUFFICES ASSUME NEW m \in net, m.type = "granted", NEW f \in Files, NEW k \in Ops
                   PROVE  doc'[f][m.id][k] = 0
      OBVIOUS
    <3>3. m.id \in Ids /\ m.id # win[w].id /\ doc[f][m.id][k] = 0
      BY <1>1, <2>1, <3>1, <3>2
    <3>4. QED
      BY <1>3, <3>3 DEF AppliesOwnOp
  <2>4. \A v \in Windows : win[v].at = "applying" /\ v # w =>
          \A f \in Files, k \in Ops : k >= win[v].op => doc'[f][win[v].id][k] = 0
    <3>1. \A v \in Windows : win[v].at = "applying" =>
            \A f \in Files, k \in Ops : k >= win[v].op => doc[f][win[v].id][k] = 0
      BY DEF IInv, AppliedOnce
    <3>2. SUFFICES ASSUME NEW v \in Windows, win[v].at = "applying", v # w,
                          NEW f \in Files, NEW k \in Ops, k >= win[v].op
                   PROVE  doc'[f][win[v].id][k] = 0
      OBVIOUS
    <3>3. win[v].id \in Ids /\ win[v].id # win[w].id /\ doc[f][win[v].id][k] = 0
      BY <1>1, <2>2, <3>1, <3>2
    <3>4. QED
      BY <1>3, <3>3 DEF AppliesOwnOp
  <2>5. \A f \in Files, k \in Ops : k >= n + 1 => doc'[f][i][k] = 0
    <3>1. \A k \in Ops : k >= n + 1 => k >= n /\ k # n
      BY <1>1 DEF Ops
    <3>2. \A f \in Files, k \in Ops : k >= n => doc[f][i][k] = 0
      BY <1>1 DEF IInv, AppliedOnce
    <3>3. QED
      BY <1>1, <1>3, <3>1, <3>2 DEF AppliesOwnOp
  <2>6. \A f \in Files, j \in Ids, k \in Ops :
          doc'[f][j][k] # 0 => doc'[f][j][k] = 1 /\ rec'[j].used /\ rec'[j].file = f
    BY <1>1, <1>3, DocumentKeeps DEF ApplyOp
  <2>7. \A m \in net' : m.type = "granted" => \A f \in Files, k \in Ops : doc'[f][m.id][k] = 0
    BY <2>3 DEF ApplyOp
  <2>8. \A v \in Windows : win'[v].at = "applying" =>
          \A f \in Files, k \in Ops : k >= win'[v].op => doc'[f][win'[v].id][k] = 0
    BY <1>6, <2>4, <2>5
  <2>9. QED
    BY <2>6, <2>7, <2>8 DEF AppliedOnce
<1>10. \A j \in Ids, k \in Ops : Done(j, k) => Done(j, k)'
  BY <1>3, <1>4, DoneStays DEF ApplyOp
<1>11. DoneInOrder'
  <2>1. \A k \in Ops : k < n + 1 => Done(i, k)'
    <3>1. \A k \in Ops : k < n + 1 => k < n \/ k = n
      BY <1>1 DEF Ops
    <3>2. \A k \in Ops : k < n => Done(i, k)
      BY <1>1 DEF IInv, DoneInOrder
    <3>3. QED
      BY <1>5, <1>10, <3>1, <3>2
  <2>2. \A v \in Windows, j \in Ids : win'[v].at = "applying" /\ j = win'[v].id =>
          \A k \in Ops : k < win'[v].op => Done(j, k)'
    <3>1. \A v \in Windows, j \in Ids : win[v].at = "applying" /\ j = win[v].id =>
            \A k \in Ops : k < win[v].op => Done(j, k)'
      BY <1>10 DEF IInv, DoneInOrder
    <3>2. QED
      BY <1>1, <1>6, <2>1, <3>1
  <2>3. \A m \in net : m.type = "result" /\ ~m.error => \A k \in Ops : Done(m.id, k)'
    BY <1>10, Shapes DEF IInv, DoneInOrder
  <2>4. \A v \in Windows : win'[v].at = "applying" => win'[v].id \in Ids
    BY <1>1, <1>6, Shapes DEF IInv, Applies
  <2>5. QED
    BY <2>2, <2>3, <2>4 DEF IInv, DoneInOrder, ApplyOp, Done
<1>12. ExecutedIsComplete'
  BY <1>10 DEF IInv, ExecutedIsComplete, Done, ApplyOp
<1>13. QED
  BY <1>7, <1>8, <1>9, <1>11, <1>12 DEF IInv

\* A window reports what it has applied and gives the batch up.
LEMMA ReportKeeps ==
  ASSUME IInv, NEW w \in Windows, NEW error \in BOOLEAN, win[w].at = "applying",
         Reports(w, error), AppliesOwnOp(w), UNCHANGED skipped,
         ~error => \A n \in Ops : Done(win[w].id, n)
  PROVE  IInv'
<1> DEFINE i == win[w].id
           report == [type |-> "result", win |-> w, id |-> i, error |-> error]
           after == [at |-> "reporting", file |-> win[w].file]
<1>1. i \in Ids /\ win[w].file \in Files
  BY Shapes DEF IInv, Applies
<1>2. report \in Messages /\ after \in WindowStates
  BY <1>1 DEF Messages, WindowStates
<1>3. \A v \in Windows : win'[v] = IF v = w THEN after ELSE win[v]
  BY DEF Reports, IInv, TypeOK
<1>4. \A m \in net' : m \in net \/ m = report
  BY DEF Reports
<1>5. TypeOK'
  <2>1. net' \subseteq Messages
    BY <1>2, <1>4 DEF IInv, TypeOK
  <2>2. win' \in [Windows -> WindowStates]
    BY <1>2 DEF IInv, TypeOK, Reports
  <2>3. QED
    BY <2>1, <2>2 DEF IInv, TypeOK, Reports, Messages, AppliesOwnOp
<1>6. \A m \in net : m.win # w
  BY DEF IInv, NetOfWindow
<1>7. NetOfWindow'
  BY <1>3, <1>4, <1>6 DEF IInv, NetOfWindow, Asks
<1>8. \A m \in net : m.type = "granted" => m.win \in Windows /\ m.id \in Ids /\ m.id # i
  BY Shapes DEF IInv, Requests, OneHolder
<1>9. FileOfWindow'
  BY <1>3, <1>4, <1>6, <1>8 DEF IInv, FileOfWindow, Reports
<1>10. OneHolder'
  BY <1>3, <1>4 DEF IInv, OneHolder, Reports
<1>11. UsedIsApproved'
  BY DEF IInv, UsedIsApproved, Reports
<1>12. AppliedOnce'
  <2>1. \A v \in Windows : win'[v].at = "applying" =>
          v # w /\ win'[v] = win[v] /\ win[v].id \in Ids /\ win[v].id # i
    BY <1>3, Shapes DEF IInv, OneHolder, Applies
  <2>2. \A m \in net' : m.type = "granted" => \A f \in Files, n \in Ops : doc'[f][m.id][n] = 0
    BY <1>4, <1>8 DEF IInv, AppliedOnce, AppliesOwnOp
  <2>3. \A v \in Windows : win'[v].at = "applying" =>
          \A f \in Files, n \in Ops : n >= win'[v].op => doc'[f][win'[v].id][n] = 0
    <3>1. \A v \in Windows : win[v].at = "applying" =>
            \A f \in Files, n \in Ops : n >= win[v].op => doc[f][win[v].id][n] = 0
      BY DEF IInv, AppliedOnce
    <3>2. SUFFICES ASSUME NEW v \in Windows, win'[v].at = "applying",
                          NEW f \in Files, NEW n \in Ops, n >= win'[v].op
                   PROVE  doc'[f][win'[v].id][n] = 0
      OBVIOUS
    <3>3. /\ win'[v] = win[v] /\ win[v].id \in Ids /\ win[v].id # win[w].id
          /\ doc[f][win[v].id][n] = 0
      BY <2>1, <3>1, <3>2
    <3>4. doc'[f][win[v].id][n] = 0
      BY <3>3 DEF AppliesOwnOp
    <3>5. QED
      BY <3>3, <3>4
  <2>4. QED
    BY <2>2, <2>3, DocumentKeeps DEF AppliedOnce, Reports
<1>13. \A j \in Ids, n \in Ops : Done(j, n) => Done(j, n)'
  BY DoneStays DEF Reports
<1>14. DoneInOrder'
  <2>1. \A v \in Windows, j \in Ids : win'[v].at = "applying" /\ j = win'[v].id =>
          \A n \in Ops : n < win'[v].op => Done(j, n)'
    <3>1. \A v \in Windows, j \in Ids : win[v].at = "applying" /\ j = win[v].id =>
            \A n \in Ops : n < win[v].op => Done(j, n)'
      BY <1>13 DEF IInv, DoneInOrder
    <3>2. \A v \in Windows : win'[v].at = "applying" => win'[v] = win[v]
      BY <1>3
    <3>3. QED
      BY <3>1, <3>2
  <2>2. \A m \in net' : m.type = "result" /\ ~m.error => \A n \in Ops : Done(m.id, n)'
    BY <1>1, <1>4, <1>13, Shapes DEF IInv, DoneInOrder
  <2>3. \A m \in net' : m.type = "result" => rec[m.id].used
    BY <1>4 DEF IInv, DoneInOrder, OneHolder
  <2>4. \A v \in Windows : win'[v].at = "applying" => win'[v].id \in Ids
    BY <1>3, Shapes DEF IInv, Applies
  <2>5. QED
    BY <2>1, <2>2, <2>3, <2>4 DEF IInv, DoneInOrder, Reports, Done
<1>15. ExecutedIsComplete'
  BY <1>13 DEF IInv, ExecutedIsComplete, Done, Reports
<1>16. QED
  BY <1>5, <1>7, <1>9, <1>10, <1>11, <1>12, <1>14, <1>15 DEF IInv

LEMMA OpThrowsKeeps == ASSUME IInv, NEW w \in Windows, OpThrows(w) PROVE IInv'
<1>1. AppliesOwnOp(w)
  BY OwnOpApplied DEF OpThrows
<1>2. QED
  BY <1>1, ReportKeeps DEF OpThrows

LEMMA AllAppliedKeeps == ASSUME IInv, NEW w \in Windows, AllApplied(w) PROVE IInv'
<1>1. \A n \in Ops : n < win[w].op
  BY Shapes, FigmaConstants DEF IInv, AllApplied, Applies, Ops
<1>2. \A n \in Ops : Done(win[w].id, n)
  BY <1>1 DEF IInv, DoneInOrder, AllApplied
<1>3. AppliesOwnOp(w)
  BY DEF AllApplied, AppliesOwnOp, IInv, TypeOK
<1>4. QED
  BY <1>2, <1>3, ReportKeeps DEF AllApplied

-----------------------------------------------------------------------------
(* The theorems *)

LEMMA InitIInv == ASSUME Init PROVE IInv
<1>1. PICK f \in Files :
        rec = [i \in Ids |-> NoRecord(f)] /\ win = [w \in Windows |-> Closed(f)]
  BY DEF Init
<1>2. NoRecord(f) \in Records /\ Closed(f) \in WindowStates
  BY FigmaConstants DEF NoRecord, Closed, Records, WindowStates
<1>3. TypeOK
  BY <1>1, <1>2 DEF Init, TypeOK
<1>4. \A w \in Windows : win[w].at = "closed"
  BY <1>1 DEF Closed
<1>5. \A i \in Ids : rec[i].status = "absent" /\ ~rec[i].used
  BY <1>1 DEF NoRecord
<1>6. \A f1 \in Files, i \in Ids, n \in Ops : doc[f1][i][n] = 0
  BY DEF Init
<1>7. QED
  BY <1>3, <1>4, <1>5, <1>6 DEF Init, IInv, NetOfWindow, FileOfWindow, OneHolder,
     UsedIsApproved, AppliedOnce, DoneInOrder, ExecutedIsComplete, Reported

LEMMA StepIInv == ASSUME IInv, [Next]_vars PROVE IInv'
<1>1. ASSUME Decides PROVE IInv'
  BY <1>1, SubmitKeeps, ApproveKeeps, RejectKeeps, VerifyKeeps DEF Decides
<1>2. ASSUME NEW m \in net, Handles(m) \/ Lose(m) PROVE IInv'
  BY <1>2, ClaimKeeps, RefuseClaimKeeps, RecordResultKeeps, LoseKeeps DEF Handles
<1>3. ASSUME NEW w \in Windows, Operates(w) PROVE IInv'
  BY <1>3, OpenKeeps, PressRunKeeps, CloseKeeps DEF Operates
<1>4. ASSUME NEW w \in Windows, WindowGoesOn(w) PROVE IInv'
  BY <1>4, GrantedKeeps, AnsweredKeeps, ApplyOpKeeps, OpThrowsKeeps, AllAppliedKeeps
     DEF WindowGoesOn
<1>5. ASSUME UNCHANGED vars PROVE IInv'
  BY <1>5, SMTT(30) DEF vars, IInv, TypeOK, Messages, NetOfWindow, FileOfWindow, OneHolder,
     UsedIsApproved, AppliedOnce, DoneInOrder, Done, ExecutedIsComplete
<1>6. QED
  BY <1>1, <1>2, <1>3, <1>4, <1>5, TickKeeps DEF Next

\* The invariant holds of the store, the routes and the plugin together, over any losses.
THEOREM Inductive == Spec => []IInv
<1>1. Init => IInv
  BY InitIInv
<1>2. IInv /\ [Next]_vars => IInv'
  BY StepIInv
<1>3. QED
  BY <1>1, <1>2, PTL DEF Spec

\* The variables keep their types.
THEOREM TypeCorrect == Spec => []TypeOK
BY Inductive, PTL DEF IInv

\* Nothing is applied but what was approved, in its file, and nothing twice, for any number of
\* batches, windows, ops, losses and closed windows.
THEOREM Applied == Spec => []AppliedAsApproved
<1>1. IInv => AppliedAsApproved
  <2>1. ASSUME TypeOK, NEW f \in Files, NEW i \in Ids, NEW n \in Ops
        PROVE  doc[f][i][n] > 0 <=> doc[f][i][n] # 0
    BY <2>1 DEF TypeOK
  <2>2. QED
    BY <2>1 DEF IInv, AppliedAsApproved, AppliedOnce, UsedIsApproved
<1>2. QED
  BY <1>1, Inductive, PTL

\* A batch reported executed is complete, for any number of everything.
THEOREM Executed == Spec => []ExecutedIsComplete
BY Inductive, PTL DEF IInv
=============================================================================
