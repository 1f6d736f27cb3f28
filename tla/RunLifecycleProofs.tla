-------------------------- MODULE RunLifecycleProofs --------------------------
(***************************************************************************)
(* Proofs about the life of a run for any number of runs, attempts, tasks, *)
(* cancellations, throwing writes and process deaths.                      *)
(***************************************************************************)
EXTENDS RunLifecycle, FiniteSetTheorems, WellFoundedInduction, TLAPS

-----------------------------------------------------------------------------
(* The handlers' writes: every todo that is ever left to do *)

Todos ==
  { <<>>, <<"approval">>,
    <<"decide", "approve">>, <<"approve">>,
    <<"comp_cancel", "release", "mark", "comp_clear",
      "clear", "reserve", "bind", "enqueue", "queue">>,
    <<"release", "mark", "comp_clear", "clear", "reserve", "bind", "enqueue", "queue">>,
    <<"mark", "comp_clear", "clear", "reserve", "bind", "enqueue", "queue">>,
    <<"comp_clear", "clear", "reserve", "bind", "enqueue", "queue">>,
    <<"clear", "reserve", "bind", "enqueue", "queue">>,
    <<"reserve", "bind", "enqueue", "queue">>,
    <<"bind", "enqueue", "queue">>, <<"enqueue", "queue">>, <<"queue">>,
    <<"compensate", "comp_cancel", "release", "mark", "comp_clear">>,
    <<"comp_cancel", "release", "mark", "comp_clear">>,
    <<"release", "mark", "comp_clear">>, <<"mark", "comp_clear">>, <<"comp_clear">>,
    <<"request", "orphan", "cancel_task", "cancel_release",
      "cancel_mark", "cancel_ack", "cancelled">>,
    <<"orphan", "cancel_task", "cancel_release", "cancel_mark", "cancel_ack", "cancelled">>,
    <<"cancel_task", "cancel_release", "cancel_mark", "cancel_ack", "cancelled">>,
    <<"cancel_release", "cancel_mark", "cancel_ack", "cancelled">>,
    <<"cancel_mark", "cancel_ack", "cancelled">>, <<"cancel_ack", "cancelled">>, <<"cancelled">>,
    <<"ack", "look">>, <<"look">>, <<"pending">>, <<"reconcile", "claim">>, <<"claim">>,
    <<"start">>, <<"finish">>, <<"record">>,
    <<"record_failure", "fail_dispatch">>, <<"fail_dispatch">>,
    <<"release", "mark", "drop_task", "fail_run", "ack_run">>,
    <<"mark", "drop_task", "fail_run", "ack_run">>,
    <<"drop_task", "fail_run", "ack_run">>,
    <<"cancel_worker", "drop_task", "release", "mark", "fail_run", "ack_run">>,
    <<"fail_task", "drop_task", "release", "mark", "fail_run", "ack_run">>,
    <<"drop_task", "release", "mark", "fail_run", "ack_run">>,
    <<"release", "mark", "fail_run", "ack_run">>, <<"mark", "fail_run", "ack_run">>,
    <<"fail_run", "ack_run">>, <<"ack_run">>, <<"clear_result">>,
    <<"cancel_worker", "settle", "mark_settled", "artifact", "end_cancelled", "ack_run">>,
    <<"settle", "mark_settled", "artifact", "end_cancelled", "ack_run">>,
    <<"mark_settled", "artifact", "end_cancelled", "ack_run">>,
    <<"artifact", "end_cancelled", "ack_run">>, <<"end_cancelled", "ack_run">>,
    <<"fail_task", "settle", "mark_settled", "artifact", "fail_run", "ack_run">>,
    <<"settle", "mark_settled", "artifact", "fail_run", "ack_run">>,
    <<"mark_settled", "artifact", "fail_run", "ack_run">>,
    <<"artifact", "fail_run", "ack_run">>,
    <<"complete", "settle", "mark_settled", "artifact", "complete_run", "ack_run">>,
    <<"settle", "mark_settled", "artifact", "complete_run", "ack_run">>,
    <<"mark_settled", "artifact", "complete_run", "ack_run">>,
    <<"artifact", "complete_run", "ack_run">>, <<"complete_run", "ack_run">> }

\* The next write, the write the todo leads to, and how many are left.
Word(todo) == IF todo = <<>> THEN "idle" ELSE Head(todo)
Goal(todo) ==
  IF todo = <<>> THEN "idle"
  ELSE IF Len(todo) > 1 /\ todo[Len(todo)] = "ack_run" THEN todo[Len(todo) - 1]
  ELSE todo[Len(todo)]

\* Once its head is written, the todo goes on with w towards the same goal.
Moves(todo, w) == /\ Tail(todo) \in Todos /\ Word(Tail(todo)) = w
                  /\ Goal(Tail(todo)) = Goal(todo) /\ Len(Tail(todo)) = Len(todo) - 1

\* The writes that are left for an approval, in their order.
LEMMA ApprovePath ==
  ASSUME NEW t \in Todos
  PROVE  /\ Word(t) = "approval" => t = <<"approval">>
         /\ Word(t) = "decide" => Moves(t, "approve")
         /\ Word(t) = "approve" => t = <<"approve">>
         /\ Word(t) = "compensate" => Moves(t, "comp_cancel") /\ Goal(t) = "comp_clear"
         /\ Word(t) = "clear" => Moves(t, "reserve") /\ Goal(t) = "queue"
         /\ Word(t) = "reserve" => Moves(t, "bind") /\ Goal(t) = "queue"
         /\ Word(t) = "bind" => Moves(t, "enqueue") /\ Goal(t) = "queue"
         /\ Word(t) = "enqueue" => Moves(t, "queue") /\ Goal(t) = "queue"
         /\ Word(t) = "queue" => t = <<"queue">>
<1>1. /\ Word(t) = "approval" => t = <<"approval">>
      /\ Word(t) = "decide" => t = <<"decide", "approve">>
      /\ Word(t) = "approve" => t = <<"approve">>
      /\ Word(t) = "compensate" =>
           t = <<"compensate", "comp_cancel", "release", "mark", "comp_clear">>
      /\ Word(t) = "clear" => t = <<"clear", "reserve", "bind", "enqueue", "queue">>
      /\ Word(t) = "reserve" => t = <<"reserve", "bind", "enqueue", "queue">>
      /\ Word(t) = "bind" => t = <<"bind", "enqueue", "queue">>
      /\ Word(t) = "enqueue" => t = <<"enqueue", "queue">>
      /\ Word(t) = "queue" => t = <<"queue">>
  BY DEF Todos, Word
<1>2. Moves(<<"decide", "approve">>, "approve")
  BY DEF Moves, Todos, Word, Goal
<1>3. /\ Moves(<<"compensate", "comp_cancel", "release", "mark", "comp_clear">>, "comp_cancel")
      /\ Goal(<<"compensate", "comp_cancel", "release", "mark", "comp_clear">>) = "comp_clear"
  BY DEF Moves, Todos, Word, Goal
<1>4. /\ Moves(<<"clear", "reserve", "bind", "enqueue", "queue">>, "reserve")
      /\ Goal(<<"clear", "reserve", "bind", "enqueue", "queue">>) = "queue"
  BY DEF Moves, Todos, Word, Goal
<1>5. /\ Moves(<<"reserve", "bind", "enqueue", "queue">>, "bind")
      /\ Goal(<<"reserve", "bind", "enqueue", "queue">>) = "queue"
  BY DEF Moves, Todos, Word, Goal
<1>6. /\ Moves(<<"bind", "enqueue", "queue">>, "enqueue")
      /\ Goal(<<"bind", "enqueue", "queue">>) = "queue"
  BY DEF Moves, Todos, Word, Goal
<1>7. /\ Moves(<<"enqueue", "queue">>, "queue") /\ Goal(<<"enqueue", "queue">>) = "queue"
  BY DEF Moves, Todos, Word, Goal
<1>8. QED
  BY <1>1, <1>2, <1>3, <1>4, <1>5, <1>6, <1>7

\* ... for a cancellation and for a poll.
LEMMA CancelPath ==
  ASSUME NEW t \in Todos
  PROVE  /\ Word(t) = "request" => Moves(t, "orphan") /\ Goal(t) = "cancelled"
         /\ Word(t) = "orphan" => Moves(t, "cancel_task")
         /\ Word(t) = "cancel_task" => Moves(t, "cancel_release")
         /\ Word(t) = "cancel_release" => Moves(t, "cancel_mark")
         /\ Word(t) = "cancel_mark" => Moves(t, "cancel_ack")
         /\ Word(t) = "cancel_ack" => Moves(t, "cancelled")
         /\ Word(t) = "cancelled" => t = <<"cancelled">>
<1>1. /\ Word(t) = "request" => t = <<"request", "orphan", "cancel_task", "cancel_release",
                                      "cancel_mark", "cancel_ack", "cancelled">>
      /\ Word(t) = "orphan" => t = <<"orphan", "cancel_task", "cancel_release",
                                     "cancel_mark", "cancel_ack", "cancelled">>
      /\ Word(t) = "cancel_task" =>
           t = <<"cancel_task", "cancel_release", "cancel_mark", "cancel_ack", "cancelled">>
      /\ Word(t) = "cancel_release" =>
           t = <<"cancel_release", "cancel_mark", "cancel_ack", "cancelled">>
      /\ Word(t) = "cancel_mark" => t = <<"cancel_mark", "cancel_ack", "cancelled">>
      /\ Word(t) = "cancel_ack" => t = <<"cancel_ack", "cancelled">>
      /\ Word(t) = "cancelled" => t = <<"cancelled">>
  BY DEF Todos, Word
<1>2. LET u == <<"request", "orphan", "cancel_task", "cancel_release",
                 "cancel_mark", "cancel_ack", "cancelled">>
      IN Moves(u, "orphan") /\ Goal(u) = "cancelled"
  BY DEF Moves, Todos, Word, Goal
<1>3. Moves(<<"orphan", "cancel_task", "cancel_release",
              "cancel_mark", "cancel_ack", "cancelled">>, "cancel_task")
  BY DEF Moves, Todos, Word, Goal
<1>4. Moves(<<"cancel_task", "cancel_release", "cancel_mark", "cancel_ack", "cancelled">>,
            "cancel_release")
  BY DEF Moves, Todos, Word, Goal
<1>5. Moves(<<"cancel_release", "cancel_mark", "cancel_ack", "cancelled">>, "cancel_mark")
  BY DEF Moves, Todos, Word, Goal
<1>6. Moves(<<"cancel_mark", "cancel_ack", "cancelled">>, "cancel_ack")
  BY DEF Moves, Todos, Word, Goal
<1>7. Moves(<<"cancel_ack", "cancelled">>, "cancelled")
  BY DEF Moves, Todos, Word, Goal
<1>8. QED
  BY <1>1, <1>2, <1>3, <1>4, <1>5, <1>6, <1>7

LEMMA PollPath ==
  ASSUME NEW t \in Todos
  PROVE  /\ Word(t) = "ack" => Moves(t, "look")
         /\ Word(t) = "reconcile" => Moves(t, "claim")
         /\ Word(t) = "record_failure" => Moves(t, "fail_dispatch")
         /\ Word(t) \in {"look", "pending", "claim", "start", "finish", "record", "fail_dispatch",
                         "clear_result", "ack_run"} => Tail(t) = <<>>
         /\ Word(t) \in {"fail_run", "end_cancelled", "complete_run"} =>
              Tail(t) = <<"ack_run">> /\ Goal(t) = Word(t)
<1>1. /\ Word(t) = "ack" => t = <<"ack", "look">>
      /\ Word(t) = "reconcile" => t = <<"reconcile", "claim">>
      /\ Word(t) = "record_failure" => t = <<"record_failure", "fail_dispatch">>
      /\ Word(t) \in {"look", "pending", "claim", "start", "finish", "record", "fail_dispatch",
                         "clear_result", "ack_run"} => t = <<Word(t)>>
      /\ Word(t) \in {"fail_run", "end_cancelled", "complete_run"} => t = <<Word(t), "ack_run">>
  BY DEF Todos, Word
<1>2. /\ Moves(<<"ack", "look">>, "look") /\ Moves(<<"reconcile", "claim">>, "claim")
      /\ Moves(<<"record_failure", "fail_dispatch">>, "fail_dispatch")
  BY DEF Moves, Todos, Word, Goal
<1>3. \A w : Tail(<<w>>) = <<>> /\ Tail(<<w, "ack_run">>) = <<"ack_run">>
             /\ Goal(<<w, "ack_run">>) = w
  BY DEF Goal
<1>4. QED
  BY <1>1, <1>2, <1>3
\* The writes that several handlers share: a compensation before a binding ("queue") or by
\* itself ("comp_clear"), and the end of a run ("fail_run").
LEMMA CompCancelPath ==
  ASSUME NEW t \in Todos, Word(t) = "comp_cancel"
  PROVE  \/ Moves(t, "release") /\ Goal(t) = "queue"
         \/ Moves(t, "release") /\ Goal(t) = "comp_clear"
<1>1. t \in { <<"comp_cancel", "release", "mark", "comp_clear", "clear", "reserve", "bind",
                "enqueue", "queue">>,
              <<"comp_cancel", "release", "mark", "comp_clear">> }
  BY DEF Todos, Word
<1>2. LET u == <<"comp_cancel", "release", "mark", "comp_clear", "clear", "reserve", "bind",
                 "enqueue", "queue">>
      IN Moves(u, "release") /\ Goal(u) = "queue"
  BY DEF Moves, Todos, Word, Goal
<1>3. LET u == <<"comp_cancel", "release", "mark", "comp_clear">>
      IN Moves(u, "release") /\ Goal(u) = "comp_clear"
  BY DEF Moves, Todos, Word, Goal
<1>4. QED
  BY <1>1, <1>2, <1>3

LEMMA ReleasePath ==
  ASSUME NEW t \in Todos, Word(t) = "release"
  PROVE  \/ Moves(t, "mark") /\ Goal(t) = "queue"
         \/ Moves(t, "mark") /\ Goal(t) = "comp_clear"
         \/ Moves(t, "mark") /\ Goal(t) = "fail_run" /\ Len(t) = 4
         \/ Moves(t, "mark") /\ Goal(t) = "fail_run" /\ Len(t) = 5
<1>1. t \in { <<"release", "mark", "comp_clear", "clear", "reserve", "bind", "enqueue", "queue">>,
              <<"release", "mark", "comp_clear">>,
              <<"release", "mark", "fail_run", "ack_run">>,
              <<"release", "mark", "drop_task", "fail_run", "ack_run">> }
  BY DEF Todos, Word
<1>2. LET u == <<"release", "mark", "comp_clear", "clear", "reserve", "bind", "enqueue", "queue">>
      IN Moves(u, "mark") /\ Goal(u) = "queue"
  BY DEF Moves, Todos, Word, Goal
<1>3. LET u == <<"release", "mark", "comp_clear">> IN Moves(u, "mark") /\ Goal(u) = "comp_clear"
  BY DEF Moves, Todos, Word, Goal
<1>4. LET u == <<"release", "mark", "fail_run", "ack_run">>
      IN Moves(u, "mark") /\ Goal(u) = "fail_run" /\ Len(u) = 4
  BY DEF Moves, Todos, Word, Goal
<1>5. LET u == <<"release", "mark", "drop_task", "fail_run", "ack_run">>
      IN Moves(u, "mark") /\ Goal(u) = "fail_run" /\ Len(u) = 5
  BY DEF Moves, Todos, Word, Goal
<1>6. QED
  BY <1>1, <1>2, <1>3, <1>4, <1>5

LEMMA MarkPath ==
  ASSUME NEW t \in Todos, Word(t) = "mark"
  PROVE  \/ Moves(t, "comp_clear") /\ Goal(t) = "queue"
         \/ Moves(t, "comp_clear") /\ Goal(t) = "comp_clear"
         \/ Moves(t, "fail_run") /\ Goal(t) = "fail_run" /\ Len(t) = 3
         \/ Moves(t, "drop_task") /\ Goal(t) = "fail_run" /\ Len(t) = 4
<1>1. t \in { <<"mark", "comp_clear", "clear", "reserve", "bind", "enqueue", "queue">>,
              <<"mark", "comp_clear">>,
              <<"mark", "fail_run", "ack_run">>,
              <<"mark", "drop_task", "fail_run", "ack_run">> }
  BY DEF Todos, Word
<1>2. LET u == <<"mark", "comp_clear", "clear", "reserve", "bind", "enqueue", "queue">>
      IN Moves(u, "comp_clear") /\ Goal(u) = "queue"
  BY DEF Moves, Todos, Word, Goal
<1>3. LET u == <<"mark", "comp_clear">> IN Moves(u, "comp_clear") /\ Goal(u) = "comp_clear"
  BY DEF Moves, Todos, Word, Goal
<1>4. LET u == <<"mark", "fail_run", "ack_run">>
      IN Moves(u, "fail_run") /\ Goal(u) = "fail_run" /\ Len(u) = 3
  BY DEF Moves, Todos, Word, Goal
<1>5. LET u == <<"mark", "drop_task", "fail_run", "ack_run">>
      IN Moves(u, "drop_task") /\ Goal(u) = "fail_run" /\ Len(u) = 4
  BY DEF Moves, Todos, Word, Goal
<1>6. QED
  BY <1>1, <1>2, <1>3, <1>4, <1>5

LEMMA CompClearPath ==
  ASSUME NEW t \in Todos, Word(t) = "comp_clear"
  PROVE  \/ Moves(t, "clear") /\ Goal(t) = "queue"
         \/ Tail(t) = <<>> /\ Goal(t) = "comp_clear"
<1>1. t \in { <<"comp_clear", "clear", "reserve", "bind", "enqueue", "queue">>,
              <<"comp_clear">> }
  BY DEF Todos, Word
<1>2. LET u == <<"comp_clear", "clear", "reserve", "bind", "enqueue", "queue">>
      IN Moves(u, "clear") /\ Goal(u) = "queue"
  BY DEF Moves, Todos, Word, Goal
<1>3. LET u == <<"comp_clear">> IN Tail(u) = <<>> /\ Goal(u) = "comp_clear"
  BY DEF Moves, Todos, Word, Goal
<1>4. QED
  BY <1>1, <1>2, <1>3

LEMMA DropTaskPath ==
  ASSUME NEW t \in Todos, Word(t) = "drop_task"
  PROVE  \/ Moves(t, "fail_run") /\ Goal(t) = "fail_run" /\ Len(t) = 3
         \/ Moves(t, "release") /\ Goal(t) = "fail_run" /\ Len(t) = 5
<1>1. t \in { <<"drop_task", "fail_run", "ack_run">>,
              <<"drop_task", "release", "mark", "fail_run", "ack_run">> }
  BY DEF Todos, Word
<1>2. LET u == <<"drop_task", "fail_run", "ack_run">>
      IN Moves(u, "fail_run") /\ Goal(u) = "fail_run" /\ Len(u) = 3
  BY DEF Moves, Todos, Word, Goal
<1>3. LET u == <<"drop_task", "release", "mark", "fail_run", "ack_run">>
      IN Moves(u, "release") /\ Goal(u) = "fail_run" /\ Len(u) = 5
  BY DEF Moves, Todos, Word, Goal
<1>4. QED
  BY <1>1, <1>2, <1>3

LEMMA CancelWorkerPath ==
  ASSUME NEW t \in Todos, Word(t) = "cancel_worker"
  PROVE  \/ Moves(t, "drop_task") /\ Goal(t) = "fail_run" /\ Len(t) = 6
         \/ Moves(t, "settle") /\ Goal(t) = "end_cancelled"
<1>1. t \in { <<"cancel_worker", "drop_task", "release", "mark", "fail_run", "ack_run">>,
              <<"cancel_worker", "settle", "mark_settled", "artifact", "end_cancelled",
                "ack_run">> }
  BY DEF Todos, Word
<1>2. LET u == <<"cancel_worker", "drop_task", "release", "mark", "fail_run", "ack_run">>
      IN Moves(u, "drop_task") /\ Goal(u) = "fail_run" /\ Len(u) = 6
  BY DEF Moves, Todos, Word, Goal
<1>3. LET u == <<"cancel_worker", "settle", "mark_settled", "artifact", "end_cancelled", "ack_run">>
      IN Moves(u, "settle") /\ Goal(u) = "end_cancelled"
  BY DEF Moves, Todos, Word, Goal
<1>4. QED
  BY <1>1, <1>2, <1>3

LEMMA FailTaskPath ==
  ASSUME NEW t \in Todos, Word(t) = "fail_task"
  PROVE  \/ Moves(t, "drop_task") /\ Goal(t) = "fail_run" /\ Len(t) = 6 /\ t[2] = "drop_task"
         \/ Moves(t, "settle") /\ Goal(t) = "fail_run" /\ t[2] = "settle"
<1>1. t \in { <<"fail_task", "drop_task", "release", "mark", "fail_run", "ack_run">>,
              <<"fail_task", "settle", "mark_settled", "artifact", "fail_run", "ack_run">> }
  BY DEF Todos, Word
<1>2. LET u == <<"fail_task", "drop_task", "release", "mark", "fail_run", "ack_run">>
      IN Moves(u, "drop_task") /\ Goal(u) = "fail_run" /\ Len(u) = 6 /\ u[2] = "drop_task"
  BY DEF Moves, Todos, Word, Goal
<1>3. LET u == <<"fail_task", "settle", "mark_settled", "artifact", "fail_run", "ack_run">>
      IN Moves(u, "settle") /\ Goal(u) = "fail_run" /\ u[2] = "settle"
  BY DEF Moves, Todos, Word, Goal
<1>4. QED
  BY <1>1, <1>2, <1>3

LEMMA CompletePath ==
  ASSUME NEW t \in Todos, Word(t) = "complete"
  PROVE  \/ Moves(t, "settle") /\ Goal(t) = "complete_run"
<1>1. t \in { <<"complete", "settle", "mark_settled", "artifact", "complete_run", "ack_run">> }
  BY DEF Todos, Word
<1>2. LET u == <<"complete", "settle", "mark_settled", "artifact", "complete_run", "ack_run">>
      IN Moves(u, "settle") /\ Goal(u) = "complete_run"
  BY DEF Moves, Todos, Word, Goal
<1>3. QED
  BY <1>1, <1>2

LEMMA SettlePath ==
  ASSUME NEW t \in Todos, Word(t) = "settle"
  PROVE  \/ Moves(t, "mark_settled") /\ Goal(t) = "fail_run"
         \/ Moves(t, "mark_settled") /\ Goal(t) = "end_cancelled"
         \/ Moves(t, "mark_settled") /\ Goal(t) = "complete_run"
<1>1. t \in { <<"settle", "mark_settled", "artifact", "fail_run", "ack_run">>,
              <<"settle", "mark_settled", "artifact", "end_cancelled", "ack_run">>,
              <<"settle", "mark_settled", "artifact", "complete_run", "ack_run">> }
  BY DEF Todos, Word
<1>2. LET u == <<"settle", "mark_settled", "artifact", "fail_run", "ack_run">>
      IN Moves(u, "mark_settled") /\ Goal(u) = "fail_run"
  BY DEF Moves, Todos, Word, Goal
<1>3. LET u == <<"settle", "mark_settled", "artifact", "end_cancelled", "ack_run">>
      IN Moves(u, "mark_settled") /\ Goal(u) = "end_cancelled"
  BY DEF Moves, Todos, Word, Goal
<1>4. LET u == <<"settle", "mark_settled", "artifact", "complete_run", "ack_run">>
      IN Moves(u, "mark_settled") /\ Goal(u) = "complete_run"
  BY DEF Moves, Todos, Word, Goal
<1>5. QED
  BY <1>1, <1>2, <1>3, <1>4

LEMMA MarkSettledPath ==
  ASSUME NEW t \in Todos, Word(t) = "mark_settled"
  PROVE  \/ Moves(t, "artifact") /\ Goal(t) = "fail_run"
         \/ Moves(t, "artifact") /\ Goal(t) = "end_cancelled"
         \/ Moves(t, "artifact") /\ Goal(t) = "complete_run"
<1>1. t \in { <<"mark_settled", "artifact", "fail_run", "ack_run">>,
              <<"mark_settled", "artifact", "end_cancelled", "ack_run">>,
              <<"mark_settled", "artifact", "complete_run", "ack_run">> }
  BY DEF Todos, Word
<1>2. LET u == <<"mark_settled", "artifact", "fail_run", "ack_run">>
      IN Moves(u, "artifact") /\ Goal(u) = "fail_run"
  BY DEF Moves, Todos, Word, Goal
<1>3. LET u == <<"mark_settled", "artifact", "end_cancelled", "ack_run">>
      IN Moves(u, "artifact") /\ Goal(u) = "end_cancelled"
  BY DEF Moves, Todos, Word, Goal
<1>4. LET u == <<"mark_settled", "artifact", "complete_run", "ack_run">>
      IN Moves(u, "artifact") /\ Goal(u) = "complete_run"
  BY DEF Moves, Todos, Word, Goal
<1>5. QED
  BY <1>1, <1>2, <1>3, <1>4

LEMMA ArtifactPath ==
  ASSUME NEW t \in Todos, Word(t) = "artifact"
  PROVE  \/ Moves(t, "fail_run") /\ Goal(t) = "fail_run"
         \/ Moves(t, "end_cancelled") /\ Goal(t) = "end_cancelled"
         \/ Moves(t, "complete_run") /\ Goal(t) = "complete_run"
<1>1. t \in { <<"artifact", "fail_run", "ack_run">>,
              <<"artifact", "end_cancelled", "ack_run">>,
              <<"artifact", "complete_run", "ack_run">> }
  BY DEF Todos, Word
<1>2. LET u == <<"artifact", "fail_run", "ack_run">>
      IN Moves(u, "fail_run") /\ Goal(u) = "fail_run"
  BY DEF Moves, Todos, Word, Goal
<1>3. LET u == <<"artifact", "end_cancelled", "ack_run">>
      IN Moves(u, "end_cancelled") /\ Goal(u) = "end_cancelled"
  BY DEF Moves, Todos, Word, Goal
<1>4. LET u == <<"artifact", "complete_run", "ack_run">>
      IN Moves(u, "complete_run") /\ Goal(u) = "complete_run"
  BY DEF Moves, Todos, Word, Goal
<1>5. QED
  BY <1>1, <1>2, <1>3, <1>4

LEMMA Concatenation ==
  ASSUME NEW S, NEW s \in Seq(S), NEW t \in Seq(S), NEW u \in Seq(S),
         Len(u) = Len(s) + Len(t),
         \A i \in 1 .. Len(s) : u[i] = s[i], \A i \in 1 .. Len(t) : u[i + Len(s)] = t[i]
  PROVE  s \o t = u
<1> DEFINE v == s \o t
<1>1. v \in Seq(S) /\ Len(v) = Len(s) + Len(t)
  OBVIOUS
<1>2. /\ \A i \in 1 .. Len(s) : v[i] = s[i]
      /\ \A i \in 1 .. Len(t) : v[i + Len(s)] = t[i]
  OBVIOUS
<1>3. \A i \in 1 .. Len(v) : v[i] = u[i]
  <2> SUFFICES ASSUME NEW i \in 1 .. Len(v) PROVE v[i] = u[i]
    OBVIOUS
  <2>1. CASE i <= Len(s)
    BY <2>1, <1>2
  <2>2. CASE i > Len(s)
    <3>1. i - Len(s) \in 1 .. Len(t) /\ (i - Len(s)) + Len(s) = i
      BY <2>2, <1>1
    <3> HIDE DEF v
    <3>2. QED
      BY <3>1, <1>2
  <2>3. QED
    BY <2>1, <2>2
<1> HIDE DEF v
<1>4. v = u
  BY <1>1, <1>3
<1>5. QED
  BY <1>4 DEF v

LEMMA Joins1and4 ==
  ASSUME NEW a, NEW b, NEW c, NEW d, NEW e
  PROVE  <<a>> \o <<b, c, d, e>> = <<a, b, c, d, e>>
<1> DEFINE S == {a, b, c, d, e}
           s == <<a>>
           t == <<b, c, d, e>>
           u == <<a, b, c, d, e>>
<1>1. s \in Seq(S) /\ t \in Seq(S) /\ u \in Seq(S)
  OBVIOUS
<1>2. Len(s) = 1 /\ Len(t) = 4 /\ Len(u) = 5
  OBVIOUS
<1>3. /\ \A i \in 1 .. Len(s) : u[i] = s[i]
      /\ \A i \in 1 .. Len(t) : u[i + Len(s)] = t[i]
      /\ Len(u) = Len(s) + Len(t)
  BY <1>2
<1> HIDE DEF S, s, t, u
<1>4. s \o t = u
  BY <1>1, <1>3, Concatenation, Zenon
<1>5. QED
  BY <1>4 DEF s, t, u

LEMMA Joins1and5 ==
  ASSUME NEW a, NEW b, NEW c, NEW d, NEW e, NEW f
  PROVE  <<a>> \o <<b, c, d, e, f>> = <<a, b, c, d, e, f>>
<1> DEFINE S == {a, b, c, d, e, f}
           s == <<a>>
           t == <<b, c, d, e, f>>
           u == <<a, b, c, d, e, f>>
<1>1. s \in Seq(S) /\ t \in Seq(S) /\ u \in Seq(S)
  OBVIOUS
<1>2. Len(s) = 1 /\ Len(t) = 5 /\ Len(u) = 6
  OBVIOUS
<1>3. /\ \A i \in 1 .. Len(s) : u[i] = s[i]
      /\ \A i \in 1 .. Len(t) : u[i + Len(s)] = t[i]
      /\ Len(u) = Len(s) + Len(t)
  BY <1>2
<1> HIDE DEF S, s, t, u
<1>4. s \o t = u
  BY <1>1, <1>3, Concatenation, Zenon
<1>5. QED
  BY <1>4 DEF s, t, u

LEMMA Joins4and5 ==
  ASSUME NEW a, NEW b, NEW c, NEW d, NEW e, NEW f, NEW g, NEW h, NEW k
  PROVE  <<a, b, c, d>> \o <<e, f, g, h, k>> = <<a, b, c, d, e, f, g, h, k>>
<1> DEFINE S == {a, b, c, d, e, f, g, h, k}
           s == <<a, b, c, d>>
           t == <<e, f, g, h, k>>
           u == <<a, b, c, d, e, f, g, h, k>>
<1>1. s \in Seq(S) /\ t \in Seq(S) /\ u \in Seq(S)
  OBVIOUS
<1>2. Len(s) = 4 /\ Len(t) = 5 /\ Len(u) = 9
  OBVIOUS
<1>3. /\ \A i \in 1 .. Len(s) : u[i] = s[i]
      /\ \A i \in 1 .. Len(t) : u[i + Len(s)] = t[i]
      /\ Len(u) = Len(s) + Len(t)
  BY <1>2
<1> HIDE DEF S, s, t, u
<1>4. s \o t = u
  BY <1>1, <1>3, Concatenation, Zenon
<1>5. QED
  BY <1>4 DEF s, t, u

LEMMA NothingAhead == ASSUME NEW S, NEW t \in Seq(S) PROVE <<>> \o t = t /\ t \o <<>> = t
<1>1. <<>> \in Seq(S) /\ Len(<<>>) = 0
  OBVIOUS
<1>2. <<>> \o t = t
  BY <1>1, Concatenation, SMT
<1>3. t \o <<>> = t
  BY <1>1, Concatenation, SMT
<1>4. QED
  BY <1>2, <1>3

\* What the handlers begin with.
Is(todo, w, g) == todo \in Todos /\ Word(todo) = w /\ Goal(todo) = g

LEMMA Beginnings ==
  /\ Is(<<"approval">>, "approval", "approval")
  /\ Is(<<"decide", "approve">>, "decide", "approve")
  /\ Is(Binding, "clear", "queue")
  /\ Is(Compensation \o Binding, "comp_cancel", "queue")
  /\ Is(<<"compensate">> \o Compensation, "compensate", "comp_clear")
  /\ Is(Cancelling, "request", "cancelled")
  /\ Is(<<"cancelled">>, "cancelled", "cancelled")
  /\ Is(<<"ack", "look">>, "ack", "look")
  /\ Is(<<"pending">>, "pending", "pending")
  /\ Is(<<"reconcile", "claim">>, "reconcile", "claim")
  /\ Is(<<"start">>, "start", "start")
  /\ Is(<<"finish">>, "finish", "finish")
  /\ Is(<<"record">>, "record", "record")
  /\ Is(<<"record_failure", "fail_dispatch">>, "record_failure", "fail_dispatch")
  /\ Is(<<"clear_result">>, "clear_result", "clear_result")
  /\ Is(<<"ack_run">>, "ack_run", "ack_run")
  /\ Is(FailedRun, "release", "fail_run") /\ Len(FailedRun) = 4
<1>1. /\ Compensation \o Binding
           = <<"comp_cancel", "release", "mark", "comp_clear",
               "clear", "reserve", "bind", "enqueue", "queue">>
      /\ <<"compensate">> \o Compensation
           = <<"compensate", "comp_cancel", "release", "mark", "comp_clear">>
  BY Joins4and5, Joins1and4 DEF Compensation, Binding
<1>2. Is(Compensation \o Binding, "comp_cancel", "queue")
  BY <1>1 DEF Is, Todos, Word, Goal
<1>3. Is(<<"compensate">> \o Compensation, "compensate", "comp_clear")
  <2>1. Is(<<"compensate", "comp_cancel", "release", "mark", "comp_clear">>,
           "compensate", "comp_clear")
    BY DEF Is, Todos, Word, Goal
  <2>2. QED
    BY <1>1, <2>1
<1>4. Is(Binding, "clear", "queue")
  BY DEF Is, Todos, Word, Goal, Binding
<1>5. Is(Cancelling, "request", "cancelled")
  BY DEF Is, Todos, Word, Goal, Cancelling
<1>6. Is(FailedRun, "release", "fail_run") /\ Len(FailedRun) = 4
  BY DEF Is, Todos, Word, Goal, FailedRun
<1>7. Is(<<"decide", "approve">>, "decide", "approve") /\ Is(<<"ack", "look">>, "ack", "look")
  BY DEF Is, Todos, Word, Goal
<1>8. /\ Is(<<"reconcile", "claim">>, "reconcile", "claim")
      /\ Is(<<"record_failure", "fail_dispatch">>, "record_failure", "fail_dispatch")
  BY DEF Is, Todos, Word, Goal
<1>9. \A w \in {"approval", "cancelled", "pending", "start", "finish", "record", "clear_result",
                "ack_run"} : Is(<<w>>, w, w)
  BY DEF Is, Todos, Word, Goal
<1>10. QED
  BY <1>2, <1>3, <1>4, <1>5, <1>6, <1>7, <1>8, <1>9

\* The end of a run by its result, and by whether it is cancelled.
LEMMA FinishingPath ==
  ASSUME NEW result \in AllAnswers \ {"rejected"}, NEW cancelled \in BOOLEAN
  PROVE  LET t == Finishing(result, cancelled) IN
         \/ result = "refused" /\ Is(t, "release", "fail_run") /\ Len(t) = 5
         \/ OverBudget(result) /\ cancelled /\ Is(t, "cancel_worker", "fail_run")
         \/ /\ OverBudget(result) /\ ~cancelled /\ Failed(result)
            /\ Is(t, "fail_task", "fail_run") /\ t[2] = "drop_task"
         \/ /\ OverBudget(result) /\ ~cancelled
            /\ Is(t, "drop_task", "fail_run") /\ Len(t) = 5
         \/ result \in {"ok", "failed"} /\ cancelled /\ Is(t, "cancel_worker", "end_cancelled")
         \/ result = "failed" /\ ~cancelled /\ Is(t, "fail_task", "fail_run") /\ t[2] = "settle"
         \/ result = "ok" /\ ~cancelled /\ Is(t, "complete", "complete_run")
<1> DEFINE t == Finishing(result, cancelled)
           drop == <<"drop_task", "release", "mark", "fail_run", "ack_run">>
           end(w) == <<"settle", "mark_settled", "artifact", w, "ack_run">>
<1>1. CASE result = "refused"
  <2>1. t = <<"release", "mark", "drop_task", "fail_run", "ack_run">>
    BY <1>1 DEF Finishing
  <2>2. LET u == <<"release", "mark", "drop_task", "fail_run", "ack_run">>
        IN Is(u, "release", "fail_run") /\ Len(u) = 5
    BY DEF Is, Todos, Word, Goal
  <2>3. QED
    BY <1>1, <2>1, <2>2
<1>2. CASE OverBudget(result) /\ cancelled
  <2>1. t = <<"cancel_worker">> \o drop
    BY <1>2 DEF Finishing, OverBudget
  <2>2. t = <<"cancel_worker", "drop_task", "release", "mark", "fail_run", "ack_run">>
    BY <2>1, Joins1and5
  <2>3. Is(<<"cancel_worker", "drop_task", "release", "mark", "fail_run", "ack_run">>,
           "cancel_worker", "fail_run")
    BY DEF Is, Todos, Word, Goal
  <2>4. QED
    BY <1>2, <2>2, <2>3
<1>3. CASE OverBudget(result) /\ ~cancelled /\ Failed(result)
  <2>1. t = <<"fail_task">> \o drop
    BY <1>3 DEF Finishing, OverBudget
  <2>2. t = <<"fail_task", "drop_task", "release", "mark", "fail_run", "ack_run">>
    BY <2>1, Joins1and5
  <2>3. LET u == <<"fail_task", "drop_task", "release", "mark", "fail_run", "ack_run">>
        IN Is(u, "fail_task", "fail_run") /\ u[2] = "drop_task"
    BY DEF Is, Todos, Word, Goal
  <2>4. QED
    BY <1>3, <2>2, <2>3
<1>4. CASE OverBudget(result) /\ ~cancelled /\ ~Failed(result)
  <2>1. t = <<>> \o drop
    BY <1>4 DEF Finishing, OverBudget
  <2>2. drop \in Seq({"drop_task", "release", "mark", "fail_run", "ack_run"})
    OBVIOUS
  <2> HIDE DEF drop
  <2>3. t = drop
    BY <2>1, <2>2, NothingAhead
  <2>4. Is(drop, "drop_task", "fail_run") /\ Len(drop) = 5
    BY DEF Is, Todos, Word, Goal, drop
  <2>5. QED
    BY <1>4, <2>3, <2>4
<1>5. CASE result \in {"ok", "failed"} /\ cancelled
  <2>1. t = <<"cancel_worker">> \o <<>> \o end("end_cancelled")
    BY <1>5 DEF Finishing, OverBudget
  <2>2. <<"cancel_worker">> \o <<>> = <<"cancel_worker">>
    <3>1. <<"cancel_worker">> \in Seq({"cancel_worker"})
      OBVIOUS
    <3>2. QED
      BY <3>1, NothingAhead
  <2>3. t = <<"cancel_worker", "settle", "mark_settled", "artifact", "end_cancelled", "ack_run">>
    BY <2>1, <2>2, Joins1and5
  <2>4. Is(<<"cancel_worker", "settle", "mark_settled", "artifact", "end_cancelled", "ack_run">>,
           "cancel_worker", "end_cancelled")
    BY DEF Is, Todos, Word, Goal
  <2>5. QED
    BY <1>5, <2>3, <2>4
<1>6. CASE result = "failed" /\ ~cancelled
  <2>1. t = <<"fail_task">> \o <<>> \o end("fail_run")
    BY <1>6 DEF Finishing, OverBudget, Failed
  <2>2. <<"fail_task">> \o <<>> = <<"fail_task">>
    <3>1. <<"fail_task">> \in Seq({"fail_task"})
      OBVIOUS
    <3>2. QED
      BY <3>1, NothingAhead
  <2>3. t = <<"fail_task", "settle", "mark_settled", "artifact", "fail_run", "ack_run">>
    BY <2>1, <2>2, Joins1and5
  <2>4. LET u == <<"fail_task", "settle", "mark_settled", "artifact", "fail_run", "ack_run">>
        IN Is(u, "fail_task", "fail_run") /\ u[2] = "settle"
    BY DEF Is, Todos, Word, Goal
  <2>5. QED
    BY <1>6, <2>3, <2>4
<1>7. CASE result = "ok" /\ ~cancelled
  <2>1. t = <<>> \o <<"complete">> \o end("complete_run")
    BY <1>7 DEF Finishing, OverBudget, Failed
  <2>2. <<>> \o <<"complete">> = <<"complete">>
    <3>1. <<"complete">> \in Seq({"complete"})
      OBVIOUS
    <3>2. QED
      BY <3>1, NothingAhead
  <2>3. t = <<"complete", "settle", "mark_settled", "artifact", "complete_run", "ack_run">>
    BY <2>1, <2>2, Joins1and5
  <2>4. Is(<<"complete", "settle", "mark_settled", "artifact", "complete_run", "ack_run">>,
           "complete", "complete_run")
    BY DEF Is, Todos, Word, Goal
  <2>5. QED
    BY <1>7, <2>3, <2>4
<1>8. QED
  BY <1>1, <1>2, <1>3, <1>4, <1>5, <1>6, <1>7 DEF AllAnswers, OverBudget

-----------------------------------------------------------------------------
(* The inductive invariant *)

word == Word(pc.todo)
goal == Goal(pc.todo)
left == Len(pc.todo)

Queued == {"queued", "running"} \cup Terminal            \* a run that was queued once
Early == {"absent", "draft", "approved"}
Spent == {"refused", "ok_over_budget", "failed_over_budget"}   \* results that end a run

\* The task in the list that the run is bound to.
Bound(r, i) == queue[i].run = r /\ queue[i].task = run[r].task
BoundIn(r, S) == \A i \in DOMAIN queue : Bound(r, i) => queue[i].status \in S
Funded(r) == run[r].res = "active" /\ gw[r] = "active"

Compensating == {"comp_cancel", "comp_clear"}
Approving ==
  \/ word \in Compensating \cup {"compensate", "clear", "reserve", "bind", "enqueue", "queue"}
  \/ word \in {"release", "mark"} /\ goal \in {"queue", "comp_clear"}
Releasing == {"cancel_release", "cancel_mark", "cancel_ack", "cancelled"}
Withdrawing == {"orphan", "cancel_task"} \cup Releasing
Claiming == {"pending", "reconcile", "claim", "start"}
Settling == {"settle", "mark_settled", "artifact"}
Ending ==
  \/ word \in Settling \cup {"finish", "cancel_worker", "fail_task", "clear_result", "complete",
                "drop_task", "end_cancelled", "complete_run", "fail_run", "ack_run"}
  \/ word \in {"release", "mark"} /\ goal = "fail_run"
Recording == {"record", "record_failure"}

Task == [run : Runs, task : 1 .. MaxTasks + 1, status : TaskStatuses,
         attempt : 0 .. MaxAttempts, due : BOOLEAN]

Types ==
  /\ run \in [Runs -> RunState]
  /\ queue \in Seq(Task) /\ Len(queue) <= MaxTasks
  /\ gw \in [Runs -> {"none", "active", "released", "settled", "dismissed"}]
  /\ pc \in [run : 0 .. NRuns, todo : Todos, err : BOOLEAN,
             answer : (AllAnswers \ {"rejected"}) \cup {"none"}]
  /\ flight \in 0 .. NRuns
  /\ starts \in [Runs -> Nat] /\ charged \in [Runs -> Nat]
  /\ cancels \in Nat /\ throws \in Nat /\ restarts \in Nat
  /\ \A r \in Runs : run[r].result # "rejected"

\* A handler has its run, and only the operator's go on beside a dispatch.
Handler ==
  /\ word \notin {"idle", "ack", "look", "pending", "reconcile", "claim"} => pc.run \in Runs
  /\ word = "record" => pc.answer # "none"
  /\ flight # 0 => Approving \/ word \in Withdrawing \cup {"request"}
                             \/ word \in {"idle", "approval", "decide", "approve"}

\* A task is in the list once, and is queued only with an attempt left.
Tasks ==
  /\ \A i, j \in DOMAIN queue :
       queue[i].run = queue[j].run /\ queue[i].task = queue[j].task => i = j
  /\ \A i \in DOMAIN queue : queue[i].status = "queued" => queue[i].attempt < MaxAttempts

\* Binding, reservation and charge of a run.
Binds(r) ==
  /\ run[r].res = "none" <=> run[r].task = 0
  /\ gw[r] = "active" => run[r].res \in {"active", "none"}
  /\ InProgress(r) => \E i \in DOMAIN queue : Bound(r, i)
  /\ run[r].status \in Terminal => gw[r] # "active"
  /\ charged[r] = IF gw[r] \in {"settled", "dismissed"} /\ charged[r] # 0 THEN 1 ELSE 0
  /\ charged[r] = 1 => run[r].status \in Queued
  /\ gw[r] = "settled" \/ run[r].res = "settled" => charged[r] = 1
  /\ run[r].status = "completed" => run[r].res = "settled" /\ run[r].artifact

\* Before it is queued a run has no answer, and its tokens are only given back by a
\* compensation or a cancellation.
BeforeQueue(r) == run[r].status \in Early =>
  /\ run[r].result = "none" /\ ~run[r].dfail
  /\ run[r].cancel \/ run[r].comp \/ run[r].task = 0 \/ Funded(r)

FailureFirst(r) == /\ run[r].dfail
                   /\ \A q \in 1 .. r - 1 : run[q].dfail => run[q].status \in Terminal

\* While a run is in progress, and nobody cancels it, its tokens go only with its last attempt.
Holds(r) == InProgress(r) /\ ~run[r].cancel =>
  /\ run[r].result = "none" => Funded(r) \/ (run[r].dfail /\ BoundIn(r, {"failed"}))
  /\ run[r].result = "failed" => Funded(r) \/ BoundIn(r, {"failed"})
  /\ run[r].result = "ok" /\ run[r].res = "released" =>
       BoundIn(r, {"failed"}) /\ FailureFirst(r)

\* A run that ended has no open task, but for one that completed without its last attempt.
Closed(r) == run[r].status \in Terminal => run[r].result = "ok" \/ BoundIn(r, Terminal)

\* No result is pending when a task is claimed or a dispatch is awaited or recorded; no
\* cancellation is pending when a task is claimed.
NoneOpen ==
  /\ flight # 0 \/ word \in {"reconcile", "claim", "start", "fail_dispatch"} \cup Recording =>
       \A r \in Runs : run[r].result # "none" => run[r].status \in Terminal
  /\ word \in Claiming => \A r \in Runs : run[r].cancel => run[r].status = "cancelled"
  /\ word = "pending" => \A r \in Runs :
       InProgress(r) /\ run[r].result = "ok" => run[r].res # "released"

\* A dispatch of a running run is paid for, and its task is running.
Awaited(r) ==
  /\ run[r].status = "running" => BoundIn(r, {"running"}) /\ Funded(r)
  /\ run[r].status = "queued" => ~run[r].dfail
Dispatch ==
  /\ flight # 0 => Awaited(flight)
  /\ word \in Recording => Awaited(pc.run)

ApprovePlaces ==
  LET h == run[pc.run] IN
  /\ word \in {"decide", "approve"} => h.status \in {"draft", "approved"}
  /\ Approving => h.status = "approved"
  /\ Approving /\ word \in Compensating \cup {"release", "mark"} => h.comp
  /\ word = "mark" /\ h.res = "active" => gw[pc.run] # "active"
  /\ word = "comp_clear" => h.res # "active"
  /\ word \in {"clear", "reserve", "bind"} =>
       h.cancel \/ h.task = 0 \/ Funded(pc.run) \/ (word = "clear" /\ h.res = "released")
  /\ word = "bind" /\ h.task = 0 => gw[pc.run] = "active"
  /\ word \in {"enqueue", "queue"} => h.task # 0 /\ (h.cancel \/ Funded(pc.run))
  /\ word = "queue" => \E i \in DOMAIN queue : Bound(pc.run, i)

CancelPlaces ==
  LET h == run[pc.run] IN
  /\ word \in Withdrawing => h.cancel /\ ~(flight = pc.run /\ h.status = "running")
  /\ word \in Withdrawing \ {"orphan"} /\ h.task = 0 => gw[pc.run] # "active"
  /\ word \in Releasing => pc.err \/ BoundIn(pc.run, Terminal)
  /\ word = "cancel_mark" => h.res = "active"
  /\ word \in {"cancel_mark", "cancel_ack", "cancelled"} => gw[pc.run] # "active"

\* What is decided of a result at each write of its end.
EndPlaces ==
  LET h == run[pc.run] IN
  /\ Ending => h.status \in Queued /\ h.task # 0
  /\ word = "start" => \E i \in DOMAIN queue : Bound(pc.run, i) /\ queue[i].status = "running"
  /\ word = "fail_dispatch" => h.dfail
  /\ word = "finish" => h.result # "none"
  /\ word = "finish" \/ (goal = "complete_run" /\ word \in {"complete", "settle", "mark_settled"}) =>
       (InProgress(pc.run) /\ ~h.cancel /\ h.result = "ok" => h.res # "released")
  /\ goal = "complete_run" => h.result = "ok" /\ ~h.cancel
  /\ goal = "end_cancelled" => h.cancel
  /\ word = "cancel_worker" => h.cancel
  /\ word = "fail_task" => Failed(h.result) /\ ~h.cancel
  /\ word = "clear_result" => h.result = "failed" /\ InProgress(pc.run) /\ (h.cancel \/ Funded(pc.run))
  /\ word \in Settling => /\ goal \in {"complete_run", "end_cancelled", "fail_run"}
                          /\ goal = "fail_run" => h.result = "failed" /\ BoundIn(pc.run, {"failed"})
                          /\ goal = "end_cancelled" => BoundIn(pc.run, Terminal)
  /\ word = "cancel_worker" /\ goal = "fail_run" => h.result \in Spent
  /\ word = "fail_task" => (pc.todo[2] = "drop_task" <=> OverBudget(h.result))
  /\ word = "mark_settled" /\ h.res = "active" => gw[pc.run] = "settled"
  /\ word \in {"artifact", "end_cancelled", "complete_run", "fail_run"} => h.res \in {"released", "settled"}
  /\ word \in {"artifact", "complete_run"} /\ goal = "complete_run" /\ InProgress(pc.run) =>
       h.res = "settled"
  /\ word = "complete_run" => h.artifact
  /\ word \in {"end_cancelled", "fail_run"} => BoundIn(pc.run, Terminal)
  /\ word = "drop_task" => h.result \in Spent
  /\ word = "drop_task" /\ left = 3 => h.res \in {"released", "settled"}
  /\ word \in {"release", "mark"} /\ goal = "fail_run" =>
       /\ h.task # 0
       /\ h.result \in Spent \/ (BoundIn(pc.run, {"failed"}) /\ h.dfail
                                  /\ (InProgress(pc.run) /\ h.result = "ok" => FailureFirst(pc.run)))
       /\ word = "release" /\ left = 4 => BoundIn(pc.run, Terminal)
       /\ word = "release" /\ left = 5 => h.result \in Spent
       /\ word = "mark" /\ left = 3 => BoundIn(pc.run, Terminal)
       /\ word = "mark" /\ left = 4 => h.result \in Spent

EachRun == \A r \in Runs : Binds(r) /\ BeforeQueue(r) /\ Holds(r) /\ Closed(r)
Places == (pc.run \in Runs => ApprovePlaces /\ CancelPlaces /\ EndPlaces)
IInv == Types /\ Handler /\ Tasks /\ EachRun /\ NoneOpen /\ Dispatch /\ Places

-----------------------------------------------------------------------------
(* Reading the state *)

PcType == [run : 0 .. NRuns, todo : Todos, err : BOOLEAN,
           answer : (AllAnswers \ {"rejected"}) \cup {"none"}]

LEMMA MinOf == ASSUME NEW S \in SUBSET Nat, S # {} PROVE \E m \in S : \A k \in S : m <= k
<1>1. PICK m \in S : \A k \in S : ~ (<<k, m>> \in OpToRel(<, Nat))
  BY NatLessThanWellFounded, WFMin, Zenon
<1>2. OpToRel(<, Nat) = {ss \in Nat \X Nat : ss[1] < ss[2]}
  BY Zenon DEF OpToRel
<1>3. \A k \in S : <<k, m>> \notin {ss \in Nat \X Nat : ss[1] < ss[2]}
  BY <1>1, <1>2, Zenon
<1>4. ASSUME NEW k \in S PROVE m <= k
  <2>1. m \in Nat /\ k \in Nat /\ <<k, m>> \in Nat \X Nat
    OBVIOUS
  <2>2. ~ (<<k, m>>[1] < <<k, m>>[2])
    BY <1>3, <2>1
  <2>3. QED
    BY <2>1, <2>2
<1>5. QED
  BY <1>4

LEMMA First ==
  ASSUME NEW S \in SUBSET (Nat \ {0})
  PROVE  /\ S = {} => FirstIn(S) = 0
         /\ S # {} => FirstIn(S) \in S /\ FirstIn(S) # 0 /\ \A q \in S : FirstIn(S) <= q
<1>1. S # {} => \E m \in S : \A k \in S : m <= k
  BY MinOf
<1>2. S # {} => FirstIn(S) \in S /\ \A q \in S : FirstIn(S) <= q
  BY <1>1 DEF FirstIn
<1>3. QED
  BY <1>2 DEF FirstIn

LEMMA Words ==
  ASSUME Types
  PROVE  /\ Idle <=> word = "idle"
         /\ \A w : w # "idle" => (Doing(w) <=> word = w)
         /\ word = "idle" <=> goal = "idle"
<1>1. pc.todo \in Todos
  BY DEF Types
<1>2. \A t \in Todos : Word(t) = "idle" => t = <<>>
  BY DEF Todos, Word
<1>3. \A t \in Todos : Goal(t) = "idle" => t = <<>>
  <2> SUFFICES ASSUME NEW t \in Todos, t # <<>> PROVE Goal(t) # "idle"
    OBVIOUS
  <2>1. t[Len(t)] # "idle" /\ (Len(t) > 1 => t[Len(t) - 1] # "idle")
    BY SMTT(30) DEF Todos
  <2>2. QED
    BY <2>1 DEF Goal
<1>4. QED
  BY <1>1, <1>2, <1>3 DEF Idle, Doing, word, goal, Word, Goal

\* The handler comes to its next write, or to its end.
LEMMA Goes ==
  ASSUME Types, NEW w, Moves(pc.todo, w), w # "idle", Continue
  PROVE  /\ word' = w /\ goal' = goal /\ left' = left - 1
         /\ pc'.run = pc.run /\ pc'.err = pc.err /\ pc'.answer = pc.answer /\ pc' \in PcType
<1>1. Tail(pc.todo) # <<>> /\ Tail(pc.todo) \in Todos
  BY DEF Moves, Word
<1>2. pc' = [pc EXCEPT !.todo = Tail(pc.todo)]
  BY <1>1 DEF Continue, Then
<1>3. pc'.todo = Tail(pc.todo) /\ pc'.run = pc.run /\ pc'.err = pc.err /\ pc'.answer = pc.answer
      /\ pc' \in PcType
  BY <1>1, <1>2 DEF Types, PcType
<1>4. QED
  BY <1>3 DEF Moves, word, goal, left

LEMMA Turns ==
  ASSUME Types, NEW t, NEW w, NEW g, Is(t, w, g), w # "idle", Then(t)
  PROVE  /\ word' = w /\ goal' = g /\ left' = Len(t) /\ pc'.todo = t
         /\ pc'.run = pc.run /\ pc'.err = pc.err /\ pc'.answer = pc.answer /\ pc' \in PcType
<1>1. t # <<>> /\ t \in Todos
  BY DEF Is, Word
<1>2. pc' = [pc EXCEPT !.todo = t]
  BY <1>1 DEF Then
<1>3. pc'.todo = t /\ pc'.run = pc.run /\ pc'.err = pc.err /\ pc'.answer = pc.answer
      /\ pc' \in PcType
  BY <1>1, <1>2 DEF Types, PcType
<1>4. QED
  BY <1>3 DEF Is, word, goal, left

LEMMA Starting ==
  ASSUME Types, NEW t, NEW w, NEW g, NEW r \in 0 .. NRuns, Is(t, w, g), w # "idle", Begin(r, t)
  PROVE  /\ word' = w /\ goal' = g /\ left' = Len(t)
         /\ pc'.run = r /\ pc' \in PcType
<1>1. t \in Todos
  BY DEF Is
<1>2. pc' = [Nobody EXCEPT !.run = r, !.todo = t]
  BY DEF Begin
<1>3. pc'.todo = t /\ pc'.run = r /\ pc'.err = FALSE /\ pc' \in PcType
  BY <1>1, <1>2 DEF Nobody, PcType
<1>4. QED
  BY <1>3 DEF Is, word, goal, left

LEMMA Stops ==
  ASSUME pc' = Nobody
  PROVE  word' = "idle" /\ goal' = "idle" /\ pc'.run = 0 /\ pc'.run \notin Runs /\ pc' \in PcType
<1>1. <<>> \in Todos /\ 0 \in 0 .. NRuns
  BY LifecycleConstants DEF Todos
<1>2. QED
  BY <1>1 DEF Nobody, PcType, word, goal, Word, Goal, Runs

LEMMA Finishes == ASSUME Tail(pc.todo) = <<>>, Continue PROVE pc' = Nobody
BY DEF Continue, Then

\* The place of the bound task.
LEMMA TaskPlace ==
  ASSUME Types, Tasks, NEW r \in Runs
  PROVE  /\ \A i \in DOMAIN queue : Bound(r, i) => TaskAt(r) = i /\ TaskStatus(r) = queue[i].status
         /\ (\A i \in DOMAIN queue : ~Bound(r, i)) => TaskAt(r) = 0 /\ TaskStatus(r) = "missing"
         /\ TaskAt(r) # 0 => TaskAt(r) \in DOMAIN queue /\ Bound(r, TaskAt(r))
         /\ \A S : TaskStatus(r) \in S /\ "missing" \notin S =>
              /\ TaskAt(r) \in DOMAIN queue /\ Bound(r, TaskAt(r))
              /\ queue[TaskAt(r)].status = TaskStatus(r) /\ BoundIn(r, S)
         /\ TaskStatus(r) \in TaskStatuses \cup {"missing"}
<1>1. \A i \in DOMAIN queue : i # 0 /\ queue[i] \in Task
  BY DEF Types
<1>2. \A i, j \in DOMAIN queue : Bound(r, i) /\ Bound(r, j) => i = j
  BY DEF Tasks, Bound
<1>3. \A i \in DOMAIN queue : Bound(r, i) => TaskAt(r) = i
  BY <1>2 DEF TaskAt, Bound
<1>4. (\A i \in DOMAIN queue : ~Bound(r, i)) => TaskAt(r) = 0
  BY DEF TaskAt, Bound
<1>5. TaskAt(r) # 0 => TaskAt(r) \in DOMAIN queue /\ Bound(r, TaskAt(r))
  BY <1>3, <1>4
<1>6. \A i \in DOMAIN queue : Bound(r, i) => TaskStatus(r) = queue[i].status
  BY <1>1, <1>3 DEF TaskStatus
<1>7. TaskAt(r) = 0 => TaskStatus(r) = "missing"
  BY DEF TaskStatus
<1>8. TaskStatus(r) \in TaskStatuses \cup {"missing"}
  BY <1>1, <1>5, <1>7 DEF TaskStatus, Task
<1>9. \A S : TaskStatus(r) \in S /\ "missing" \notin S =>
              /\ TaskAt(r) \in DOMAIN queue /\ Bound(r, TaskAt(r))
              /\ queue[TaskAt(r)].status = TaskStatus(r) /\ BoundIn(r, S)
  BY <1>3, <1>5, <1>6, <1>7 DEF BoundIn
<1>10. QED
  BY <1>3, <1>4, <1>5, <1>6, <1>7, <1>8, <1>9

-----------------------------------------------------------------------------
(* Three kinds of steps *)

Counted == cancels' \in Nat /\ throws' \in Nat /\ restarts' \in Nat

\* Only the handler, the dispatch or a counter changes.
LEMMA HandlerStep ==
  ASSUME IInv, UNCHANGED <<run, queue, gw, charged>>, Counted,
         pc' \in PcType, flight' \in 0 .. NRuns, starts' \in [Runs -> Nat]
  PROVE  Types' /\ Tasks' /\ EachRun'
<1>1. Types'
  BY DEF IInv, Types, PcType, Counted
<1>2. Tasks'
  BY DEF IInv, Tasks
<1>3. EachRun'
  BY DEF IInv, EachRun, Binds, BeforeQueue, Holds, Closed, Funded, Bound, BoundIn, FailureFirst,
         InProgress
<1>4. QED
  BY <1>1, <1>2, <1>3

Keeps(h) == Binds(h)' /\ BeforeQueue(h)' /\ Holds(h)' /\ Closed(h)'

Only(h) == \A q \in Runs : q # h => run'[q] = run[q] /\ gw'[q] = gw[q] /\ charged'[q] = charged[q]
Typed ==
  /\ run' \in [Runs -> RunState] /\ \A r \in Runs : run'[r].result # "rejected"
  /\ gw' \in [Runs -> {"none", "active", "released", "settled", "dismissed"}]
  /\ charged' \in [Runs -> Nat] /\ starts' \in [Runs -> Nat]
  /\ pc' \in PcType /\ flight' \in 0 .. NRuns
NoNewFailure(h) ==
  \/ run'[h].dfail /\ run'[h].status \notin Terminal => run[h].dfail /\ run[h].status \notin Terminal
  \/ \A r \in Runs : InProgress(r) => run[r].result = "none"

\* The record, the reservation or the charge of the handler's run changes.
LEMMA RunStep ==
  ASSUME IInv, NEW h \in Runs, Only(h), Typed, UNCHANGED <<queue, counters>>,
         Keeps(h), NoNewFailure(h)
  PROVE  Types' /\ Tasks' /\ EachRun'
<1>1. /\ \A q \in Runs : q # h => run'[q] = run[q] /\ gw'[q] = gw[q] /\ charged'[q] = charged[q]
  BY DEF Only
<1>2. Types'
  BY DEF IInv, Types, PcType, counters, Typed
<1>3. Tasks'
  BY DEF IInv, Tasks
<1>4. ASSUME NEW r \in Runs, r # h
      PROVE  Binds(r)' /\ BeforeQueue(r)' /\ Holds(r)' /\ Closed(r)'
  <2>1. run'[r] = run[r] /\ gw'[r] = gw[r] /\ charged'[r] = charged[r]
    BY <1>1, <1>4
  <2>2. \A i \in DOMAIN queue : Bound(r, i)' <=> Bound(r, i)
    BY <2>1 DEF Bound
  <2>3. \A S : BoundIn(r, S) => BoundIn(r, S)'
    BY <2>2 DEF BoundIn
  <2>4. FailureFirst(r) /\ InProgress(r) /\ run[r].result = "ok" => FailureFirst(r)'
    <3>1. \A q \in 1 .. r - 1 : q \in Runs
      BY LifecycleConstants DEF Runs
    <3>2. InProgress(r) /\ run[r].result = "ok" =>
            \A q \in Runs : run'[q].dfail /\ run'[q].status \notin Terminal =>
                            run[q].dfail /\ run[q].status \notin Terminal
      BY <1>1 DEF NoNewFailure
    <3>3. QED
      BY <2>1, <3>1, <3>2 DEF FailureFirst
  <2>5. Binds(r) /\ BeforeQueue(r) /\ Holds(r) /\ Closed(r)
    BY DEF IInv, EachRun
  <2>6. Binds(r)' /\ BeforeQueue(r)' /\ Closed(r)'
    BY <2>1, <2>2, <2>3, <2>5 DEF Binds, BeforeQueue, Closed, Funded, InProgress
  <2>7. Holds(r)'
    BY <2>1, <2>3, <2>4, <2>5 DEF Holds, Funded, InProgress
  <2>8. QED
    BY <2>6, <2>7
<1>5. EachRun'
  BY <1>4 DEF EachRun, Keeps
<1>6. QED
  BY <1>2, <1>3, <1>5

\* The list changes: tasks that are over stay as they are, and a new one is of a run that is
\* not queued yet.
TasksMove ==
  /\ DOMAIN queue \subseteq DOMAIN queue'
  /\ \A i \in DOMAIN queue : /\ queue'[i].run = queue[i].run /\ queue'[i].task = queue[i].task
                             /\ queue[i].status \in Terminal => queue'[i].status = queue[i].status
  /\ \A i \in DOMAIN queue' \ DOMAIN queue : run[queue'[i].run].status \in Early

LEMMA MovedBound ==
  ASSUME TasksMove, UNCHANGED run
  PROVE  /\ \A r \in Runs, S \in SUBSET Terminal :
              run[r].status \notin Early /\ BoundIn(r, S) => BoundIn(r, S)'
         /\ \A r, i : i \in DOMAIN queue => i \in DOMAIN queue' /\ (Bound(r, i)' <=> Bound(r, i))
<1>1. \A r, i : i \in DOMAIN queue => i \in DOMAIN queue' /\ (Bound(r, i)' <=> Bound(r, i))
  BY DEF TasksMove, Bound
<1>2. ASSUME NEW r \in Runs, NEW S \in SUBSET Terminal, run[r].status \notin Early, BoundIn(r, S)
      PROVE  BoundIn(r, S)'
  <2>1. SUFFICES ASSUME NEW i \in DOMAIN queue', Bound(r, i)' PROVE queue'[i].status \in S
    BY DEF BoundIn
  <2>2. i \in DOMAIN queue
    BY <1>2, <2>1 DEF TasksMove, Bound
  <2>3. Bound(r, i) /\ queue[i].status \in S
    BY <1>1, <1>2, <2>1, <2>2 DEF BoundIn
  <2>4. QED
    BY <2>2, <2>3 DEF TasksMove
<1>3. QED
  BY <1>1, <1>2

LEMMA TaskStep ==
  ASSUME IInv, UNCHANGED <<run, gw, charged>>, Counted, TasksMove, Tasks',
         queue' \in Seq(Task), Len(queue') <= MaxTasks,
         pc' \in PcType, flight' \in 0 .. NRuns, starts' \in [Runs -> Nat]
  PROVE  Types' /\ EachRun'
<1>1. Types'
  BY DEF IInv, Types, PcType, Counted
<1>2. ASSUME NEW r \in Runs
      PROVE  Binds(r)' /\ BeforeQueue(r)' /\ Holds(r)' /\ Closed(r)'
  <2>1. Binds(r) /\ BeforeQueue(r) /\ Holds(r) /\ Closed(r)
    BY DEF IInv, EachRun
  <2>2. \A S \in SUBSET Terminal : run[r].status \notin Early /\ BoundIn(r, S) => BoundIn(r, S)'
    BY MovedBound
  <2>3. (\E i \in DOMAIN queue : Bound(r, i)) => (\E i \in DOMAIN queue : Bound(r, i))'
    BY MovedBound
  <2>4. Binds(r)' /\ BeforeQueue(r)'
    BY <2>1, <2>3 DEF Binds, BeforeQueue, Funded, InProgress
  <2>5. BoundIn(r, {"failed"}) /\ InProgress(r) => BoundIn(r, {"failed"})'
    BY <2>2 DEF Terminal, InProgress, Early
  <2>6. Holds(r)'
    BY <2>1, <2>5 DEF Holds, Funded, InProgress, FailureFirst
  <2>7. Closed(r)'
    BY <2>1, <2>2 DEF Closed, Terminal, Early
  <2>8. QED
    BY <2>4, <2>6, <2>7
<1>3. QED
  BY <1>1, <1>2 DEF EachRun

\* Beside an awaited dispatch, or at the end of a run.
Guarded == {"pending", "reconcile", "claim", "start", "fail_dispatch", "record", "record_failure"}

LEMMA BesideRun ==
  ASSUME IInv, NEW h \in Runs, Only(h), UNCHANGED <<queue, flight>>, word' \notin Guarded,
         run'[h].result # "none" =>
           run[h].result # "none" /\ (run[h].status \in Terminal => run'[h].status \in Terminal),
         flight = h => Awaited(h)'
  PROVE  NoneOpen' /\ Dispatch'
<1>1. NoneOpen'
  <2>1. flight # 0 => \A r \in Runs : run[r].result # "none" => run[r].status \in Terminal
    BY DEF IInv, NoneOpen
  <2>2. flight # 0 => \A r \in Runs : run'[r].result # "none" => run'[r].status \in Terminal
    BY <2>1 DEF Only
  <2>3. QED
    BY <2>2 DEF NoneOpen, Guarded, Claiming, Recording
<1>2. Dispatch'
  <2>1. ASSUME flight # 0, flight # h PROVE Awaited(flight)'
    <3>1. flight \in Runs /\ Awaited(flight)
      BY <2>1 DEF IInv, Types, Dispatch, Runs
    <3>2. run'[flight] = run[flight] /\ gw'[flight] = gw[flight]
      BY <2>1, <3>1 DEF Only
    <3>3. QED
      BY <3>1, <3>2 DEF Awaited, BoundIn, Bound, Funded
  <2>2. flight' # 0 => Awaited(flight)'
    BY <2>1
  <2>3. word' \notin Recording
    BY DEF Guarded, Recording
  <2>4. QED
    BY <2>2, <2>3 DEF Dispatch, Awaited, BoundIn, Bound, Funded
<1>3. QED
  BY <1>1, <1>2

LEMMA SameTasks ==
  ASSUME UNCHANGED queue, NEW h, run'[h].task = run[h].task
  PROVE  /\ \A i : Bound(h, i)' <=> Bound(h, i)
         /\ \A S : BoundIn(h, S)' <=> BoundIn(h, S)
BY DEF Bound, BoundIn

LEMMA FailureStays ==
  ASSUME NEW h \in Runs, Only(h), run'[h].dfail = run[h].dfail, FailureFirst(h)
  PROVE  FailureFirst(h)'
<1>1. \A q \in 1 .. h - 1 : q \in Runs /\ q # h
  BY LifecycleConstants DEF Runs
<1>2. \A q \in 1 .. h - 1 : run'[q] = run[q]
  BY <1>1 DEF Only
<1>3. QED
  BY <1>2 DEF FailureFirst

\* One run's record changes, or the gateway's view of its reservation.
LEMMA RecordStep ==
  ASSUME IInv, NEW h \in Runs, NEW record \in RunState, record.result # "rejected",
         run' = [run EXCEPT ![h] = record], UNCHANGED <<gw, charged, starts>>,
         pc' \in PcType, flight' \in 0 .. NRuns
  PROVE  /\ run'[h] = record /\ gw'[h] = gw[h] /\ charged'[h] = charged[h]
         /\ Only(h) /\ Typed
<1>1. /\ run \in [Runs -> RunState] /\ \A r \in Runs : run[r].result # "rejected"
      /\ gw \in [Runs -> {"none", "active", "released", "settled", "dismissed"}]
      /\ charged \in [Runs -> Nat] /\ starts \in [Runs -> Nat]
  BY DEF IInv, Types
<1>2. run'[h] = record /\ run' \in [Runs -> RunState] /\ \A q \in Runs : q # h => run'[q] = run[q]
  BY <1>1
<1>3. Only(h)
  BY <1>2 DEF Only
<1>4. Typed
  BY <1>1, <1>2 DEF Typed
<1>5. QED
  BY <1>2, <1>3, <1>4

LEMMA GatewayStep ==
  ASSUME IInv, NEW h \in Runs, NEW state \in {"none", "active", "released", "settled", "dismissed"},
         gw' = [gw EXCEPT ![h] = state], UNCHANGED <<run, charged, starts>>,
         pc' \in PcType, flight' \in 0 .. NRuns
  PROVE  /\ run'[h] = run[h] /\ gw'[h] = state /\ charged'[h] = charged[h]
         /\ Only(h) /\ Typed
<1>1. /\ run \in [Runs -> RunState] /\ \A r \in Runs : run[r].result # "rejected"
      /\ gw \in [Runs -> {"none", "active", "released", "settled", "dismissed"}]
      /\ charged \in [Runs -> Nat] /\ starts \in [Runs -> Nat]
  BY DEF IInv, Types
<1>2. /\ gw'[h] = state /\ \A q \in Runs : q # h => gw'[q] = gw[q]
      /\ gw' \in [Runs -> {"none", "active", "released", "settled", "dismissed"}]
  BY <1>1
<1>3. Only(h)
  BY <1>2 DEF Only
<1>4. Typed
  BY <1>1, <1>2 DEF Typed
<1>5. QED
  BY <1>2, <1>3, <1>4

\* What the invariant says of the handler's run.
LEMMA Before ==
  ASSUME IInv, NEW h \in Runs, h = pc.run
  PROVE  /\ h # 0 /\ run[h] \in RunState /\ run[h].result # "rejected" /\ flight \in 0 .. NRuns
         /\ gw[h] \in {"none", "active", "released", "settled", "dismissed"}
         /\ run \in [Runs -> RunState] /\ gw = [r \in Runs |-> gw[r]]
         /\ ApprovePlaces /\ CancelPlaces /\ EndPlaces
         /\ Binds(h) /\ BeforeQueue(h) /\ Holds(h) /\ Closed(h)
         /\ flight = h => Awaited(h)
         /\ BoundIn(h, {"failed"}) => BoundIn(h, Terminal)
<1>1. h # 0 /\ run[h] \in RunState /\ run[h].result # "rejected" /\ flight \in 0 .. NRuns
      /\ gw[h] \in {"none", "active", "released", "settled", "dismissed"}
      /\ run \in [Runs -> RunState] /\ gw = [r \in Runs |-> gw[r]]
  BY LifecycleConstants DEF IInv, Types, Runs
<1>2. /\ ApprovePlaces /\ CancelPlaces /\ EndPlaces
      /\ Binds(h) /\ BeforeQueue(h) /\ Holds(h) /\ Closed(h)
  BY DEF IInv, Places, EachRun
<1>3. flight = h => Awaited(h)
  BY <1>1 DEF IInv, Dispatch
<1>4. BoundIn(h, {"failed"}) => BoundIn(h, Terminal)
  BY DEF BoundIn, Terminal
<1>5. QED
  BY <1>1, <1>2, <1>3, <1>4

\* The list stays and the run keeps its task.
LEMMA After ==
  ASSUME NEW h \in Runs, Only(h), UNCHANGED queue,
         run'[h].task = run[h].task, run'[h].dfail = run[h].dfail
  PROVE  /\ \A i : Bound(h, i)' <=> Bound(h, i)
         /\ \A S : BoundIn(h, S)' <=> BoundIn(h, S)
         /\ FailureFirst(h) => FailureFirst(h)'
BY SameTasks, FailureStays

LEMMA LastWrite ==
  ASSUME NEW t \in Todos, Word(t) \in {"approval", "queue", "cancelled"}
  PROVE  Tail(t) = <<>>
<1>1. t = <<Word(t)>>
  BY ApprovePath, CancelPath
<1>2. \A w : Tail(<<w>>) = <<>>
  OBVIOUS
<1>3. QED
  BY <1>1, <1>2

\* Nothing is awaited, and nothing is about to be dispatched or recorded.
LEMMA Quiet == ASSUME flight' = 0, word' \notin Guarded PROVE NoneOpen' /\ Dispatch'
BY DEF NoneOpen, Dispatch, Guarded, Claiming, Recording

LEMMA SettleStep ==
  ASSUME IInv, NEW h \in Runs, NEW state \in {"none", "active", "released", "settled", "dismissed"},
         NEW charge \in Nat, gw' = [gw EXCEPT ![h] = state], charged' = [charged EXCEPT ![h] = charge],
         UNCHANGED <<run, starts>>, pc' \in PcType, flight' \in 0 .. NRuns
  PROVE  /\ run'[h] = run[h] /\ gw'[h] = state /\ charged'[h] = charge
         /\ Only(h) /\ Typed
<1>1. /\ run \in [Runs -> RunState] /\ \A r \in Runs : run[r].result # "rejected"
      /\ gw \in [Runs -> {"none", "active", "released", "settled", "dismissed"}]
      /\ charged \in [Runs -> Nat] /\ starts \in [Runs -> Nat]
  BY DEF IInv, Types
<1>2. /\ gw'[h] = state /\ \A q \in Runs : q # h => gw'[q] = gw[q]
      /\ gw' \in [Runs -> {"none", "active", "released", "settled", "dismissed"}]
  BY <1>1
<1>3. /\ charged'[h] = charge /\ \A q \in Runs : q # h => charged'[q] = charged[q]
      /\ charged' \in [Runs -> Nat]
  BY <1>1
<1>4. Only(h)
  BY <1>2, <1>3 DEF Only
<1>5. Typed
  BY <1>1, <1>2, <1>3 DEF Typed
<1>6. QED
  BY <1>2, <1>3, <1>4, <1>5

LEMMA Acknowledges ==
  ASSUME Types, word \in {"fail_run", "end_cancelled", "complete_run"}, Continue
  PROVE  /\ word' = "ack_run" /\ goal' = "ack_run"
         /\ pc'.run = pc.run /\ pc'.err = pc.err /\ pc' \in PcType
<1>1. Tail(pc.todo) = <<"ack_run">>
  BY PollPath DEF Types, word
<1>2. Then(<<"ack_run">>)
  BY <1>1 DEF Continue
<1>3. QED
  BY <1>2, Beginnings, Turns

LEMMA BoundTask ==
  ASSUME Types, NEW r \in Runs, NEW i \in DOMAIN queue, Bound(r, i)
  PROVE  run[r].task # 0
<1>1. queue[i] \in Task
  BY DEF Types
<1>2. QED
  BY <1>1, LifecycleConstants DEF Task, Bound

LEMMA NewTaskId ==
  ASSUME Types, NEW h \in Runs
  PROVE  Cardinality({i \in DOMAIN queue : queue[i].run = h}) + 1 \in 1 .. MaxTasks + 1
<1> DEFINE S == {i \in DOMAIN queue : queue[i].run = h}
<1>1. PICK n \in Nat : n = Len(queue) /\ n <= MaxTasks /\ DOMAIN queue = 1 .. n
  BY DEF Types
<1>2. IsFiniteSet(1 .. n) /\ Cardinality(1 .. n) = n
  <2>1. 1 \in Int /\ n \in Int
    OBVIOUS
  <2>2. IsFiniteSet(1 .. n) /\ Cardinality(1 .. n) = IF 1 > n THEN 0 ELSE n - 1 + 1
    BY <2>1, FS_Interval, Zenon
  <2>3. QED
    BY <2>2
<1>3. S \subseteq 1 .. n
  BY <1>1
<1> HIDE DEF S
<1>4. IsFiniteSet(S) /\ Cardinality(S) <= n
  BY <1>2, <1>3, FS_Subset
<1>5. Cardinality(S) \in Nat
  BY <1>4, FS_CardinalityType
<1>6. MaxTasks \in Nat
  BY LifecycleConstants
<1>7. Cardinality(S) + 1 \in 1 .. MaxTasks + 1
  BY <1>1, <1>4, <1>5, <1>6
<1>8. QED
  BY <1>7 DEF S

-----------------------------------------------------------------------------
(* Approval and binding *)

LEMMA WriteApprovalKeeps == ASSUME IInv, WriteApproval PROVE IInv'
<1>1. /\ word = "approval" /\ pc.run \in Runs
      /\ UNCHANGED <<queue, gw, flight, starts, charged, counters>>
  BY Words DEF WriteApproval, IInv, Handler
<1>2. PICK h \in Runs : h = pc.run
  BY <1>1
<1>3. /\ h # 0 /\ run[h] \in RunState /\ run[h].result # "rejected" /\ flight \in 0 .. NRuns
      /\ gw[h] \in {"none", "active", "released", "settled", "dismissed"}
      /\ run \in [Runs -> RunState] /\ gw = [r \in Runs |-> gw[r]]
      /\ ApprovePlaces /\ CancelPlaces /\ EndPlaces
      /\ Binds(h) /\ BeforeQueue(h) /\ Holds(h) /\ Closed(h) /\ (flight = h => Awaited(h))
      /\ BoundIn(h, {"failed"}) => BoundIn(h, Terminal)
  BY <1>2, Before
<1>4. word' = "idle" /\ goal' = "idle" /\ pc'.run \notin Runs /\ pc' \in PcType
  BY <1>1, <1>2, LastWrite, Finishes, Stops DEF WriteApproval, IInv, Types, word
<1>5. PICK record : record = [run[h] EXCEPT !.approval = "pending"]
  OBVIOUS
<1>6. run' = [run EXCEPT ![h] = record]
  BY <1>1, <1>2, <1>3, <1>4, <1>5 DEF WriteApproval, SetRun, Here
<1>7. /\ record \in RunState
      /\ record.status = run[h].status /\ record.approval = "pending" /\ record.task = run[h].task
      /\ record.res = run[h].res /\ record.result = run[h].result /\ record.dfail = run[h].dfail
      /\ record.cancel = run[h].cancel /\ record.comp = run[h].comp /\ record.artifact = run[h].artifact
  BY <1>5, <1>3 DEF RunState, Statuses, Terminal
<1>8. /\ run'[h] = record /\ gw'[h] = gw[h] /\ charged'[h] = charged[h]
      /\ Only(h) /\ Typed
  BY <1>1, <1>3, <1>4, <1>6, <1>7, RecordStep
<1>9. /\ \A i : Bound(h, i)' <=> Bound(h, i)
      /\ \A S : BoundIn(h, S)' <=> BoundIn(h, S)
      /\ FailureFirst(h) => FailureFirst(h)'
  <2>1. run'[h].task = run[h].task /\ run'[h].dfail = run[h].dfail
    BY <1>7, <1>8
  <2>2. QED
    BY <1>1, <1>8, <2>1, After
<1>10. Keeps(h)
  <2>1. Binds(h)'
    BY <1>1, <1>2, <1>3, <1>4, <1>7, <1>8, <1>9 DEF Binds, InProgress, Funded
  <2>2. BeforeQueue(h)'
    BY <1>1, <1>2, <1>3, <1>4, <1>7, <1>8, <1>9 DEF BeforeQueue, Funded, Early, Queued
  <2>3. Holds(h)'
    BY <1>1, <1>2, <1>3, <1>4, <1>7, <1>8, <1>9 DEF Holds, Funded, InProgress, Spent
  <2>4. Closed(h)'
    BY <1>1, <1>2, <1>3, <1>4, <1>7, <1>8, <1>9 DEF Closed, Terminal
  <2>5. QED
    BY <2>1, <2>2, <2>3, <2>4 DEF Keeps
<1>11. NoNewFailure(h)
  BY <1>1, <1>2, <1>3, <1>4, <1>7, <1>8, <1>9 DEF NoNewFailure, Terminal, Early
<1>12. Handler'
  BY <1>1, <1>2, <1>3, <1>4, <1>7, <1>8, <1>9
     DEF IInv, Handler, Spent, Queued, Terminal, InProgress, Approving, Compensating, Withdrawing,
         Releasing, Ending, Settling, Recording, Claiming
<1>13. Places'
  BY <1>1, <1>2, <1>3, <1>4, <1>7, <1>8, <1>9 DEF Places
<1>14. flight = h => Awaited(h)'
  BY <1>1, <1>2, <1>3, <1>4, <1>7, <1>8, <1>9 DEF Awaited, Funded, BeforeQueue, Early
<1>15. NoneOpen' /\ Dispatch'
  BY <1>1, <1>2, <1>3, <1>4, <1>7, <1>8, <1>9, <1>14, BesideRun DEF Guarded
<1>16. QED
  BY <1>1, <1>2, <1>3, <1>4, <1>7, <1>8, <1>9, <1>10, <1>11, <1>12, <1>13, <1>15, RunStep DEF IInv

LEMMA DecideKeeps == ASSUME IInv, Decide PROVE IInv'
<1>1. /\ word = "decide" /\ pc.run \in Runs
      /\ UNCHANGED <<queue, gw, flight, starts, charged, counters>>
  BY Words DEF Decide, IInv, Handler
<1>2. PICK h \in Runs : h = pc.run
  BY <1>1
<1>3. /\ h # 0 /\ run[h] \in RunState /\ run[h].result # "rejected" /\ flight \in 0 .. NRuns
      /\ gw[h] \in {"none", "active", "released", "settled", "dismissed"}
      /\ run \in [Runs -> RunState] /\ gw = [r \in Runs |-> gw[r]]
      /\ ApprovePlaces /\ CancelPlaces /\ EndPlaces
      /\ Binds(h) /\ BeforeQueue(h) /\ Holds(h) /\ Closed(h) /\ (flight = h => Awaited(h))
      /\ BoundIn(h, {"failed"}) => BoundIn(h, Terminal)
  BY <1>2, Before
<1>4. word' = "approve" /\ goal' = goal /\ pc'.run = h /\ pc' \in PcType
  BY <1>1, <1>2, ApprovePath, Goes DEF Decide, IInv, Types, word, goal, left
<1>5. PICK record : record = [run[h] EXCEPT !.approval = "approved"]
  OBVIOUS
<1>6. run' = [run EXCEPT ![h] = record]
  BY <1>1, <1>2, <1>3, <1>4, <1>5 DEF Decide, SetRun, Here
<1>7. /\ record \in RunState
      /\ record.status = run[h].status /\ record.approval = "approved" /\ record.task = run[h].task
      /\ record.res = run[h].res /\ record.result = run[h].result /\ record.dfail = run[h].dfail
      /\ record.cancel = run[h].cancel /\ record.comp = run[h].comp /\ record.artifact = run[h].artifact
  BY <1>5, <1>3 DEF RunState, Statuses, Terminal
<1>8. /\ run'[h] = record /\ gw'[h] = gw[h] /\ charged'[h] = charged[h]
      /\ Only(h) /\ Typed
  BY <1>1, <1>3, <1>4, <1>6, <1>7, RecordStep
<1>9. /\ \A i : Bound(h, i)' <=> Bound(h, i)
      /\ \A S : BoundIn(h, S)' <=> BoundIn(h, S)
      /\ FailureFirst(h) => FailureFirst(h)'
  <2>1. run'[h].task = run[h].task /\ run'[h].dfail = run[h].dfail
    BY <1>7, <1>8
  <2>2. QED
    BY <1>1, <1>8, <2>1, After
<1>10. Keeps(h)
  <2>1. Binds(h)'
    BY <1>1, <1>2, <1>3, <1>4, <1>7, <1>8, <1>9 DEF Binds, InProgress, Funded
  <2>2. BeforeQueue(h)'
    BY <1>1, <1>2, <1>3, <1>4, <1>7, <1>8, <1>9 DEF BeforeQueue, Funded, Early, Queued
  <2>3. Holds(h)'
    BY <1>1, <1>2, <1>3, <1>4, <1>7, <1>8, <1>9 DEF Holds, Funded, InProgress, Spent
  <2>4. Closed(h)'
    BY <1>1, <1>2, <1>3, <1>4, <1>7, <1>8, <1>9 DEF Closed, Terminal
  <2>5. QED
    BY <2>1, <2>2, <2>3, <2>4 DEF Keeps
<1>11. NoNewFailure(h)
  BY <1>1, <1>2, <1>3, <1>4, <1>7, <1>8, <1>9 DEF NoNewFailure, Terminal, Early
<1>12. Handler'
  BY <1>1, <1>2, <1>3, <1>4, <1>7, <1>8, <1>9
     DEF IInv, Handler, Spent, Queued, Terminal, InProgress, Approving, Compensating, Withdrawing,
         Releasing, Ending, Settling, Recording, Claiming
<1>13. Places'
  <2>1. ApprovePlaces'
    BY <1>1, <1>2, <1>3, <1>4, <1>7, <1>8, <1>9
       DEF ApprovePlaces, Funded, Spent, Queued, Terminal, InProgress, Approving, Compensating,
           Withdrawing, Releasing, Ending, Settling, Recording, Claiming
  <2>2. CancelPlaces'
    BY <1>1, <1>2, <1>3, <1>4, <1>7, <1>8, <1>9
       DEF CancelPlaces, Funded, Spent, Queued, Terminal, InProgress, Approving, Compensating,
           Withdrawing, Releasing, Ending, Settling, Recording, Claiming
  <2>3. EndPlaces'
    BY <1>1, <1>2, <1>3, <1>4, <1>7, <1>8, <1>9
       DEF EndPlaces, Funded, Spent, Queued, Terminal, InProgress, Approving, Compensating,
           Withdrawing, Releasing, Ending, Settling, Recording, Claiming
  <2>4. QED
    BY <2>1, <2>2, <2>3 DEF Places
<1>14. flight = h => Awaited(h)'
  BY <1>1, <1>2, <1>3, <1>4, <1>7, <1>8, <1>9 DEF Awaited, Funded, BeforeQueue, Early
<1>15. NoneOpen' /\ Dispatch'
  BY <1>1, <1>2, <1>3, <1>4, <1>7, <1>8, <1>9, <1>14, BesideRun DEF Guarded
<1>16. QED
  BY <1>1, <1>2, <1>3, <1>4, <1>7, <1>8, <1>9, <1>10, <1>11, <1>12, <1>13, <1>15, RunStep DEF IInv

LEMMA ApproveRevisionKeeps == ASSUME IInv, ApproveRevision PROVE IInv'
<1>1. /\ word = "approve" /\ pc.run \in Runs
      /\ UNCHANGED <<queue, gw, flight, starts, charged, counters>>
  BY Words DEF ApproveRevision, IInv, Handler
<1>2. PICK h \in Runs : h = pc.run
  BY <1>1
<1>3. /\ h # 0 /\ run[h] \in RunState /\ run[h].result # "rejected" /\ flight \in 0 .. NRuns
      /\ gw[h] \in {"none", "active", "released", "settled", "dismissed"}
      /\ run \in [Runs -> RunState] /\ gw = [r \in Runs |-> gw[r]]
      /\ ApprovePlaces /\ CancelPlaces /\ EndPlaces
      /\ Binds(h) /\ BeforeQueue(h) /\ Holds(h) /\ Closed(h) /\ (flight = h => Awaited(h))
      /\ BoundIn(h, {"failed"}) => BoundIn(h, Terminal)
  BY <1>2, Before
<1>4. /\ goal' = "queue" /\ pc'.run = h /\ pc' \in PcType
      /\ word' = IF run[h].comp /\ run[h].task # 0 THEN "comp_cancel" ELSE "clear"
  BY <1>1, <1>2, Beginnings, Turns DEF ApproveRevision, Here, IInv
<1>5. PICK record : record = [run[h] EXCEPT !.status = "approved"]
  OBVIOUS
<1>6. run' = [run EXCEPT ![h] = record]
  BY <1>1, <1>2, <1>3, <1>4, <1>5 DEF ApproveRevision, SetRun, Here
<1>7. /\ record \in RunState
      /\ record.status = "approved" /\ record.approval = run[h].approval /\ record.task = run[h].task
      /\ record.res = run[h].res /\ record.result = run[h].result /\ record.dfail = run[h].dfail
      /\ record.cancel = run[h].cancel /\ record.comp = run[h].comp /\ record.artifact = run[h].artifact
  BY <1>5, <1>3 DEF RunState, Statuses, Terminal
<1>8. /\ run'[h] = record /\ gw'[h] = gw[h] /\ charged'[h] = charged[h]
      /\ Only(h) /\ Typed
  BY <1>1, <1>3, <1>4, <1>6, <1>7, RecordStep
<1>9. /\ \A i : Bound(h, i)' <=> Bound(h, i)
      /\ \A S : BoundIn(h, S)' <=> BoundIn(h, S)
      /\ FailureFirst(h) => FailureFirst(h)'
  <2>1. run'[h].task = run[h].task /\ run'[h].dfail = run[h].dfail
    BY <1>7, <1>8
  <2>2. QED
    BY <1>1, <1>8, <2>1, After
<1>10. run[h].status \in {"draft", "approved"} /\ run[h].result = "none"
  BY <1>1, <1>2, <1>3, <1>4, <1>7, <1>8, <1>9 DEF ApprovePlaces, BeforeQueue, Early
<1>11. Keeps(h)
  <2>1. Binds(h)'
    BY <1>1, <1>2, <1>3, <1>4, <1>7, <1>8, <1>9, <1>10
       DEF Binds, InProgress, Funded, ApprovePlaces, Queued, Terminal
  <2>2. BeforeQueue(h)'
    BY <1>1, <1>2, <1>3, <1>4, <1>7, <1>8, <1>9, <1>10
       DEF BeforeQueue, Funded, Early, Queued, ApprovePlaces
  <2>3. Holds(h)'
    BY <1>1, <1>2, <1>3, <1>4, <1>7, <1>8, <1>9, <1>10
       DEF Holds, Funded, InProgress, Spent, ApprovePlaces
  <2>4. Closed(h)'
    BY <1>1, <1>2, <1>3, <1>4, <1>7, <1>8, <1>9, <1>10 DEF Closed, Terminal
  <2>5. QED
    BY <2>1, <2>2, <2>3, <2>4 DEF Keeps
<1>12. NoNewFailure(h)
  BY <1>1, <1>2, <1>3, <1>4, <1>7, <1>8, <1>9, <1>10 DEF NoNewFailure, Terminal, Early
<1>13. Handler'
  BY <1>1, <1>2, <1>3, <1>4, <1>7, <1>8, <1>9, <1>10
     DEF IInv, Handler, Spent, Queued, Terminal, InProgress, Approving, Compensating, Withdrawing,
         Releasing, Ending, Settling, Recording, Claiming
<1>14. Places'
  <2>1. ApprovePlaces'
    BY <1>1, <1>2, <1>3, <1>4, <1>7, <1>8, <1>9, <1>10
       DEF ApprovePlaces, Funded, Spent, Queued, Terminal, InProgress, Approving, Compensating,
           Withdrawing, Releasing, Ending, Settling, Recording, Claiming, BeforeQueue, Early
  <2>2. CancelPlaces'
    BY <1>1, <1>2, <1>3, <1>4, <1>7, <1>8, <1>9, <1>10
       DEF CancelPlaces, Funded, Spent, Queued, Terminal, InProgress, Approving, Compensating,
           Withdrawing, Releasing, Ending, Settling, Recording, Claiming, BeforeQueue, Early
  <2>3. EndPlaces'
    BY <1>1, <1>2, <1>3, <1>4, <1>7, <1>8, <1>9, <1>10
       DEF EndPlaces, Funded, Spent, Queued, Terminal, InProgress, Approving, Compensating,
           Withdrawing, Releasing, Ending, Settling, Recording, Claiming, BeforeQueue, Early
  <2>4. QED
    BY <2>1, <2>2, <2>3 DEF Places
<1>15. flight = h => Awaited(h)'
  BY <1>1, <1>2, <1>3, <1>4, <1>7, <1>8, <1>9, <1>10 DEF Awaited, Funded, BeforeQueue, Early
<1>16. NoneOpen' /\ Dispatch'
  BY <1>1, <1>2, <1>3, <1>4, <1>7, <1>8, <1>9, <1>10, <1>15, BesideRun DEF Guarded
<1>17. QED
  BY <1>1, <1>2, <1>3, <1>4, <1>7, <1>8, <1>9, <1>10, <1>11, <1>12, <1>13, <1>14, <1>16, RunStep
     DEF IInv

LEMMA MarkReleasedKeeps == ASSUME IInv, MarkReleased PROVE IInv'
<1>1. /\ word = "mark" /\ pc.run \in Runs
      /\ UNCHANGED <<queue, gw, flight, starts, charged, counters>>
  BY Words DEF MarkReleased, IInv, Handler
<1>2. PICK h \in Runs : h = pc.run
  BY <1>1
<1>3. /\ h # 0 /\ run[h] \in RunState /\ run[h].result # "rejected" /\ flight \in 0 .. NRuns
      /\ gw[h] \in {"none", "active", "released", "settled", "dismissed"}
      /\ run \in [Runs -> RunState] /\ gw = [r \in Runs |-> gw[r]]
      /\ ApprovePlaces /\ CancelPlaces /\ EndPlaces
      /\ Binds(h) /\ BeforeQueue(h) /\ Holds(h) /\ Closed(h) /\ (flight = h => Awaited(h))
      /\ BoundIn(h, {"failed"}) => BoundIn(h, Terminal)
  BY <1>2, Before
<1>4. PICK res : res = IF run[h].res = "active" THEN "released" ELSE run[h].res
  OBVIOUS
<1>5. /\ word' \in {"comp_clear", "fail_run", "drop_task"} /\ goal' = goal /\ left' = left - 1
      /\ pc'.run = h /\ pc' \in PcType
      /\ word' = "comp_clear" => goal \in {"queue", "comp_clear"}
      /\ word' = "fail_run" => goal = "fail_run" /\ left = 3
      /\ word' = "drop_task" => goal = "fail_run" /\ left = 4
  BY <1>1, <1>2, MarkPath, Goes DEF MarkReleased, IInv, Types, word, goal, left
<1>6. PICK record : record = [run[h] EXCEPT !.res = res]
  OBVIOUS
<1>7. run' = [run EXCEPT ![h] = record]
  BY <1>1, <1>2, <1>3, <1>4, <1>5, <1>6 DEF MarkReleased, SetRun, Here
<1>8. /\ record \in RunState
      /\ record.status = run[h].status /\ record.approval = run[h].approval /\ record.task = run[h].task
      /\ record.res = res /\ record.result = run[h].result /\ record.dfail = run[h].dfail
      /\ record.cancel = run[h].cancel /\ record.comp = run[h].comp /\ record.artifact = run[h].artifact
  BY <1>4, <1>6, <1>3 DEF RunState, Statuses, Terminal
<1>9. /\ run'[h] = record /\ gw'[h] = gw[h] /\ charged'[h] = charged[h]
      /\ Only(h) /\ Typed
  BY <1>1, <1>3, <1>5, <1>7, <1>8, RecordStep
<1>10. /\ \A i : Bound(h, i)' <=> Bound(h, i)
       /\ \A S : BoundIn(h, S)' <=> BoundIn(h, S)
       /\ FailureFirst(h) => FailureFirst(h)'
  <2>1. run'[h].task = run[h].task /\ run'[h].dfail = run[h].dfail
    BY <1>8, <1>9
  <2>2. QED
    BY <1>1, <1>9, <2>1, After
<1>11. /\ run[h].res = "none" <=> run[h].task = 0
       /\ run[h].res \in {"none", "active", "released", "settled"}
  BY <1>1, <1>2, <1>3, <1>4, <1>5, <1>8, <1>9, <1>10 DEF Binds, RunState
<1>12. res = "released" => gw[h] # "active"
  BY <1>1, <1>2, <1>3, <1>4, <1>5, <1>8, <1>9, <1>10, <1>11 DEF ApprovePlaces, Binds
<1>13. Keeps(h)
  <2>1. Binds(h)'
    BY <1>1, <1>2, <1>3, <1>4, <1>5, <1>8, <1>9, <1>10, <1>11, <1>12 DEF Binds, InProgress, Funded
  <2>2. BeforeQueue(h)'
    BY <1>1, <1>2, <1>3, <1>4, <1>5, <1>8, <1>9, <1>10, <1>11, <1>12
       DEF BeforeQueue, Funded, Early, Queued, ApprovePlaces, EndPlaces, Approving, Ending
  <2>3. Holds(h)'
    BY <1>1, <1>2, <1>3, <1>4, <1>5, <1>8, <1>9, <1>10, <1>11, <1>12
       DEF Holds, Funded, InProgress, Spent, ApprovePlaces, EndPlaces, Approving, Ending
  <2>4. Closed(h)'
    BY <1>1, <1>2, <1>3, <1>4, <1>5, <1>8, <1>9, <1>10, <1>11, <1>12 DEF Closed, Terminal
  <2>5. QED
    BY <2>1, <2>2, <2>3, <2>4 DEF Keeps
<1>14. NoNewFailure(h)
  BY <1>1, <1>2, <1>3, <1>4, <1>5, <1>8, <1>9, <1>10, <1>11, <1>12 DEF NoNewFailure, Terminal, Early
<1>15. Handler'
  BY <1>1, <1>2, <1>3, <1>4, <1>5, <1>8, <1>9, <1>10, <1>11, <1>12
     DEF IInv, Handler, Spent, Queued, Terminal, InProgress, Approving, Compensating, Withdrawing,
         Releasing, Ending, Settling, Recording, Claiming
<1>16. Places'
  <2>1. ApprovePlaces'
    BY <1>1, <1>2, <1>3, <1>4, <1>5, <1>8, <1>9, <1>10, <1>11, <1>12
       DEF ApprovePlaces, Funded, Spent, Queued, Terminal, InProgress, Approving, Compensating,
           Withdrawing, Releasing, Ending, Settling, Recording, Claiming
  <2>2. CancelPlaces'
    BY <1>1, <1>2, <1>3, <1>4, <1>5, <1>8, <1>9, <1>10, <1>11, <1>12
       DEF CancelPlaces, Funded, Spent, Queued, Terminal, InProgress, Approving, Compensating,
           Withdrawing, Releasing, Ending, Settling, Recording, Claiming
  <2>3. EndPlaces'
    BY <1>1, <1>2, <1>3, <1>4, <1>5, <1>8, <1>9, <1>10, <1>11, <1>12
       DEF EndPlaces, Funded, Spent, Queued, Terminal, InProgress, Approving, Compensating,
           Withdrawing, Releasing, Ending, Settling, Recording, Claiming
  <2>4. QED
    BY <2>1, <2>2, <2>3 DEF Places
<1>17. flight = h => run[h].status = "approved"
  BY <1>1, <1>2, <1>3, <1>4, <1>5, <1>8, <1>9, <1>10, <1>11, <1>12
     DEF IInv, Handler, ApprovePlaces, Spent, Queued, Terminal, InProgress, Approving, Compensating,
         Withdrawing, Releasing, Ending, Settling, Recording, Claiming
<1>18. flight = h => Awaited(h)'
  BY <1>1, <1>2, <1>3, <1>4, <1>5, <1>8, <1>9, <1>10, <1>11, <1>12, <1>17
     DEF Awaited, Funded, BeforeQueue, Early
<1>19. NoneOpen' /\ Dispatch'
  BY <1>1, <1>2, <1>3, <1>4, <1>5, <1>8, <1>9, <1>10, <1>11, <1>12, <1>17, <1>18, BesideRun
     DEF Guarded
<1>20. QED
  BY <1>1, <1>2, <1>3, <1>4, <1>5, <1>8, <1>9, <1>10, <1>11, <1>12, <1>17, <1>13, <1>14, <1>15,
     <1>16, <1>19, RunStep
     DEF IInv

LEMMA CompensateKeeps == ASSUME IInv, Compensate PROVE IInv'
<1>1. /\ word = "compensate" /\ pc.run \in Runs
      /\ UNCHANGED <<queue, gw, flight, starts, charged, counters>>
  BY Words DEF Compensate, IInv, Handler
<1>2. PICK h \in Runs : h = pc.run
  BY <1>1
<1>3. /\ h # 0 /\ run[h] \in RunState /\ run[h].result # "rejected" /\ flight \in 0 .. NRuns
      /\ gw[h] \in {"none", "active", "released", "settled", "dismissed"}
      /\ run \in [Runs -> RunState] /\ gw = [r \in Runs |-> gw[r]]
      /\ ApprovePlaces /\ CancelPlaces /\ EndPlaces
      /\ Binds(h) /\ BeforeQueue(h) /\ Holds(h) /\ Closed(h) /\ (flight = h => Awaited(h))
      /\ BoundIn(h, {"failed"}) => BoundIn(h, Terminal)
  BY <1>2, Before
<1>4. /\ word' = "comp_cancel" /\ goal' = "comp_clear" /\ pc'.run = h /\ pc' \in PcType
  BY <1>1, <1>2, ApprovePath, Goes DEF Compensate, IInv, Types, word, goal, left
<1>5. PICK record : record = [run[h] EXCEPT !.comp = TRUE]
  OBVIOUS
<1>6. run' = [run EXCEPT ![h] = record]
  BY <1>1, <1>2, <1>3, <1>4, <1>5 DEF Compensate, SetRun, Here
<1>7. /\ record \in RunState
      /\ record.status = run[h].status /\ record.approval = run[h].approval /\ record.task = run[h].task
      /\ record.res = run[h].res /\ record.result = run[h].result /\ record.dfail = run[h].dfail
      /\ record.cancel = run[h].cancel /\ record.comp = TRUE /\ record.artifact = run[h].artifact
  BY <1>5, <1>3 DEF RunState, Statuses, Terminal
<1>8. /\ run'[h] = record /\ gw'[h] = gw[h] /\ charged'[h] = charged[h]
      /\ Only(h) /\ Typed
  BY <1>1, <1>3, <1>4, <1>6, <1>7, RecordStep
<1>9. /\ \A i : Bound(h, i)' <=> Bound(h, i)
      /\ \A S : BoundIn(h, S)' <=> BoundIn(h, S)
      /\ FailureFirst(h) => FailureFirst(h)'
  <2>1. run'[h].task = run[h].task /\ run'[h].dfail = run[h].dfail
    BY <1>7, <1>8
  <2>2. QED
    BY <1>1, <1>8, <2>1, After
<1>10. Keeps(h)
  <2>1. Binds(h)'
    BY <1>1, <1>2, <1>3, <1>4, <1>7, <1>8, <1>9 DEF Binds, InProgress, Funded
  <2>2. BeforeQueue(h)'
    BY <1>1, <1>2, <1>3, <1>4, <1>7, <1>8, <1>9 DEF BeforeQueue, Funded, Early, Queued
  <2>3. Holds(h)'
    BY <1>1, <1>2, <1>3, <1>4, <1>7, <1>8, <1>9 DEF Holds, Funded, InProgress, Spent
  <2>4. Closed(h)'
    BY <1>1, <1>2, <1>3, <1>4, <1>7, <1>8, <1>9 DEF Closed, Terminal
  <2>5. QED
    BY <2>1, <2>2, <2>3, <2>4 DEF Keeps
<1>11. NoNewFailure(h)
  BY <1>1, <1>2, <1>3, <1>4, <1>7, <1>8, <1>9 DEF NoNewFailure, Terminal, Early
<1>12. Handler'
  BY <1>1, <1>2, <1>3, <1>4, <1>7, <1>8, <1>9
     DEF IInv, Handler, Spent, Queued, Terminal, InProgress, Approving, Compensating, Withdrawing,
         Releasing, Ending, Settling, Recording, Claiming
<1>13. Places'
  <2>1. ApprovePlaces'
    BY <1>1, <1>2, <1>3, <1>4, <1>7, <1>8, <1>9
       DEF ApprovePlaces, Funded, Spent, Queued, Terminal, InProgress, Approving, Compensating,
           Withdrawing, Releasing, Ending, Settling, Recording, Claiming
  <2>2. CancelPlaces'
    BY <1>1, <1>2, <1>3, <1>4, <1>7, <1>8, <1>9
       DEF CancelPlaces, Funded, Spent, Queued, Terminal, InProgress, Approving, Compensating,
           Withdrawing, Releasing, Ending, Settling, Recording, Claiming
  <2>3. EndPlaces'
    BY <1>1, <1>2, <1>3, <1>4, <1>7, <1>8, <1>9
       DEF EndPlaces, Funded, Spent, Queued, Terminal, InProgress, Approving, Compensating,
           Withdrawing, Releasing, Ending, Settling, Recording, Claiming
  <2>4. QED
    BY <2>1, <2>2, <2>3 DEF Places
<1>14. flight = h => Awaited(h)'
  BY <1>1, <1>2, <1>3, <1>4, <1>7, <1>8, <1>9 DEF Awaited, Funded, BeforeQueue, Early
<1>15. NoneOpen' /\ Dispatch'
  BY <1>1, <1>2, <1>3, <1>4, <1>7, <1>8, <1>9, <1>14, BesideRun DEF Guarded
<1>16. QED
  BY <1>1, <1>2, <1>3, <1>4, <1>7, <1>8, <1>9, <1>10, <1>11, <1>12, <1>13, <1>15, RunStep DEF IInv

LEMMA QueueKeeps == ASSUME IInv, Queue PROVE IInv'
<1>1. /\ word = "queue" /\ pc.run \in Runs
      /\ UNCHANGED <<queue, gw, flight, starts, charged, counters>>
  BY Words DEF Queue, IInv, Handler
<1>2. PICK h \in Runs : h = pc.run
  BY <1>1
<1>3. /\ h # 0 /\ run[h] \in RunState /\ run[h].result # "rejected" /\ flight \in 0 .. NRuns
      /\ gw[h] \in {"none", "active", "released", "settled", "dismissed"}
      /\ run \in [Runs -> RunState] /\ gw = [r \in Runs |-> gw[r]]
      /\ ApprovePlaces /\ CancelPlaces /\ EndPlaces
      /\ Binds(h) /\ BeforeQueue(h) /\ Holds(h) /\ Closed(h) /\ (flight = h => Awaited(h))
      /\ BoundIn(h, {"failed"}) => BoundIn(h, Terminal)
  BY <1>2, Before
<1>4. word' = "idle" /\ goal' = "idle" /\ pc'.run \notin Runs /\ pc' \in PcType
  BY <1>1, <1>2, LastWrite, Finishes, Stops DEF Queue, IInv, Types, word
<1>5. PICK record : record = [run[h] EXCEPT !.status = "queued"]
  OBVIOUS
<1>6. run' = [run EXCEPT ![h] = record]
  BY <1>1, <1>2, <1>3, <1>4, <1>5 DEF Queue, SetRun, Here
<1>7. /\ record \in RunState
      /\ record.status = "queued" /\ record.approval = run[h].approval /\ record.task = run[h].task
      /\ record.res = run[h].res /\ record.result = run[h].result /\ record.dfail = run[h].dfail
      /\ record.cancel = run[h].cancel /\ record.comp = run[h].comp /\ record.artifact = run[h].artifact
  BY <1>5, <1>3 DEF RunState, Statuses, Terminal
<1>8. /\ run'[h] = record /\ gw'[h] = gw[h] /\ charged'[h] = charged[h]
      /\ Only(h) /\ Typed
  BY <1>1, <1>3, <1>4, <1>6, <1>7, RecordStep
<1>9. /\ \A i : Bound(h, i)' <=> Bound(h, i)
      /\ \A S : BoundIn(h, S)' <=> BoundIn(h, S)
      /\ FailureFirst(h) => FailureFirst(h)'
  <2>1. run'[h].task = run[h].task /\ run'[h].dfail = run[h].dfail
    BY <1>7, <1>8
  <2>2. QED
    BY <1>1, <1>8, <2>1, After
<1>10. run[h].status = "approved" /\ run[h].result = "none"
  BY <1>1, <1>2, <1>3, <1>4, <1>7, <1>8, <1>9 DEF ApprovePlaces, Approving, BeforeQueue, Early
<1>11. Keeps(h)
  <2>1. Binds(h)'
    BY <1>1, <1>2, <1>3, <1>4, <1>7, <1>8, <1>9, <1>10
       DEF Binds, InProgress, Funded, ApprovePlaces, Queued, Terminal
  <2>2. BeforeQueue(h)'
    BY <1>1, <1>2, <1>3, <1>4, <1>7, <1>8, <1>9, <1>10
       DEF BeforeQueue, Funded, Early, Queued, ApprovePlaces
  <2>3. Holds(h)'
    BY <1>1, <1>2, <1>3, <1>4, <1>7, <1>8, <1>9, <1>10
       DEF Holds, Funded, InProgress, Spent, ApprovePlaces, BeforeQueue, Early
  <2>4. Closed(h)'
    BY <1>1, <1>2, <1>3, <1>4, <1>7, <1>8, <1>9, <1>10 DEF Closed, Terminal, Terminal
  <2>5. QED
    BY <2>1, <2>2, <2>3, <2>4 DEF Keeps
<1>12. NoNewFailure(h)
  BY <1>1, <1>2, <1>3, <1>4, <1>7, <1>8, <1>9, <1>10 DEF NoNewFailure, Terminal, Early
<1>13. Handler'
  BY <1>1, <1>2, <1>3, <1>4, <1>7, <1>8, <1>9, <1>10
     DEF IInv, Handler, Spent, Queued, Terminal, InProgress, Approving, Compensating, Withdrawing,
         Releasing, Ending, Settling, Recording, Claiming
<1>14. Places'
  BY <1>1, <1>2, <1>3, <1>4, <1>7, <1>8, <1>9, <1>10 DEF Places
<1>15. flight = h => Awaited(h)'
  BY <1>1, <1>2, <1>3, <1>4, <1>7, <1>8, <1>9, <1>10 DEF Awaited, Funded, BeforeQueue, Early
<1>16. NoneOpen' /\ Dispatch'
  BY <1>1, <1>2, <1>3, <1>4, <1>7, <1>8, <1>9, <1>10, <1>15, BesideRun DEF Guarded
<1>17. QED
  BY <1>1, <1>2, <1>3, <1>4, <1>7, <1>8, <1>9, <1>10, <1>11, <1>12, <1>13, <1>14, <1>16, RunStep
     DEF IInv

LEMMA CompClearKeeps == ASSUME IInv, CompClear PROVE IInv'
<1>1. /\ word = "comp_clear" /\ pc.run \in Runs
      /\ UNCHANGED <<queue, gw, flight, starts, charged, counters>>
  BY Words DEF CompClear, IInv, Handler
<1>2. PICK h \in Runs : h = pc.run
  BY <1>1
<1>3. /\ h # 0 /\ run[h] \in RunState /\ run[h].result # "rejected" /\ flight \in 0 .. NRuns
      /\ gw[h] \in {"none", "active", "released", "settled", "dismissed"}
      /\ run \in [Runs -> RunState] /\ gw = [r \in Runs |-> gw[r]]
      /\ ApprovePlaces /\ CancelPlaces /\ EndPlaces
      /\ Binds(h) /\ BeforeQueue(h) /\ Holds(h) /\ Closed(h) /\ (flight = h => Awaited(h))
      /\ BoundIn(h, {"failed"}) => BoundIn(h, Terminal)
  BY <1>2, Before
<1>4. PICK gone \in BOOLEAN : gone <=> (~pc.err /\ ~TaskOpen(h) /\ run[h].res = "released")
  OBVIOUS
<1>5. \/ ~pc.err /\ word' = "clear" /\ goal' = "queue" /\ pc'.run = h /\ pc' \in PcType
      \/ word' = "idle" /\ goal' = "idle" /\ pc'.run \notin Runs /\ pc' \in PcType
  BY <1>1, <1>2, CompClearPath, Goes, Finishes, Stops
     DEF CompClear, Stop, IInv, Types, word, goal, left
<1>6. PICK record : record = IF gone THEN Unbound(run[h]) ELSE run[h]
  OBVIOUS
<1>7. run' = [run EXCEPT ![h] = record]
  BY <1>1, <1>2, <1>3, <1>4, <1>5, <1>6 DEF CompClear, SetRun, Here
<1>8. /\ record \in RunState
      /\ record.status = run[h].status /\ record.approval = run[h].approval /\ (record.task = IF gone THEN 0 ELSE run[h].task)
      /\ (record.res = IF gone THEN "none" ELSE run[h].res) /\ record.result = run[h].result /\ record.dfail = run[h].dfail
      /\ record.cancel = run[h].cancel /\ (record.comp = IF gone THEN FALSE ELSE run[h].comp) /\ record.artifact = run[h].artifact
  <2>1. CASE gone
    <3>1. record = [run[h] EXCEPT !.task = 0, !.res = "none", !.comp = FALSE]
      BY <1>4, <1>6, <1>3, <2>1 DEF Unbound
    <3>2. 0 \in 0 .. MaxTasks + 1
      BY LifecycleConstants
    <3>3. QED
      BY <1>4, <1>6, <1>3, <2>1, <3>1, <3>2 DEF RunState
  <2>2. CASE ~gone
    BY <1>4, <1>6, <1>3, <2>2
  <2>3. QED
    BY <2>1, <2>2
<1>9. /\ run'[h] = record /\ gw'[h] = gw[h] /\ charged'[h] = charged[h]
      /\ Only(h) /\ Typed
  BY <1>1, <1>3, <1>5, <1>7, <1>8, RecordStep
<1>10. run[h].status = "approved" /\ run[h].result = "none"
  BY <1>1, <1>2, <1>3, <1>4, <1>5, <1>8, <1>9
     DEF ApprovePlaces, Approving, Compensating, BeforeQueue, Early
<1>11. (run[h].res = "none" <=> run[h].task = 0) /\ run[h].res \in {"none", "active", "released"}
  BY <1>1, <1>2, <1>3, <1>4, <1>5, <1>8, <1>9, <1>10 DEF Binds, RunState, Queued, Terminal
<1>12. Keeps(h)
  <2>1. Binds(h)'
    BY <1>1, <1>2, <1>3, <1>4, <1>5, <1>8, <1>9, <1>10, <1>11 DEF Binds, InProgress, Funded
  <2>2. BeforeQueue(h)'
    BY <1>1, <1>2, <1>3, <1>4, <1>5, <1>8, <1>9, <1>10, <1>11 DEF BeforeQueue, Funded, Early, Queued
  <2>3. Holds(h)'
    BY <1>1, <1>2, <1>3, <1>4, <1>5, <1>8, <1>9, <1>10, <1>11 DEF Holds, Funded, InProgress, Spent
  <2>4. Closed(h)'
    BY <1>1, <1>2, <1>3, <1>4, <1>5, <1>8, <1>9, <1>10, <1>11 DEF Closed, Terminal
  <2>5. QED
    BY <2>1, <2>2, <2>3, <2>4 DEF Keeps
<1>13. NoNewFailure(h)
  BY <1>1, <1>2, <1>3, <1>4, <1>5, <1>8, <1>9, <1>10, <1>11 DEF NoNewFailure, Terminal, Early
<1>14. Handler'
  BY <1>1, <1>2, <1>3, <1>4, <1>5, <1>8, <1>9, <1>10, <1>11
     DEF IInv, Handler, Spent, Queued, Terminal, InProgress, Approving, Compensating, Withdrawing,
         Releasing, Ending, Settling, Recording, Claiming
<1>15. Places'
  <2>1. ApprovePlaces'
    BY <1>1, <1>2, <1>3, <1>4, <1>5, <1>8, <1>9, <1>10, <1>11
       DEF ApprovePlaces, Funded, Spent, Queued, Terminal, InProgress, Approving, Compensating,
           Withdrawing, Releasing, Ending, Settling, Recording, Claiming
  <2>2. CancelPlaces'
    BY <1>1, <1>2, <1>3, <1>4, <1>5, <1>8, <1>9, <1>10, <1>11
       DEF CancelPlaces, Funded, Spent, Queued, Terminal, InProgress, Approving, Compensating,
           Withdrawing, Releasing, Ending, Settling, Recording, Claiming
  <2>3. EndPlaces'
    BY <1>1, <1>2, <1>3, <1>4, <1>5, <1>8, <1>9, <1>10, <1>11
       DEF EndPlaces, Funded, Spent, Queued, Terminal, InProgress, Approving, Compensating,
           Withdrawing, Releasing, Ending, Settling, Recording, Claiming
  <2>4. QED
    BY <2>1, <2>2, <2>3 DEF Places
<1>16. flight = h => Awaited(h)'
  BY <1>1, <1>2, <1>3, <1>4, <1>5, <1>8, <1>9, <1>10, <1>11 DEF Awaited, Funded, BeforeQueue, Early
<1>17. NoneOpen' /\ Dispatch'
  BY <1>1, <1>2, <1>3, <1>4, <1>5, <1>8, <1>9, <1>10, <1>11, <1>16, BesideRun DEF Guarded
<1>18. QED
  BY <1>1, <1>2, <1>3, <1>4, <1>5, <1>8, <1>9, <1>10, <1>11, <1>12, <1>13, <1>14, <1>15, <1>17,
     RunStep
     DEF IInv

LEMMA ClearReleasedKeeps == ASSUME IInv, ClearReleased PROVE IInv'
<1>1. /\ word = "clear" /\ pc.run \in Runs
      /\ UNCHANGED <<queue, gw, flight, starts, charged, counters>>
  BY Words DEF ClearReleased, IInv, Handler
<1>2. PICK h \in Runs : h = pc.run
  BY <1>1
<1>3. /\ h # 0 /\ run[h] \in RunState /\ run[h].result # "rejected" /\ flight \in 0 .. NRuns
      /\ gw[h] \in {"none", "active", "released", "settled", "dismissed"}
      /\ run \in [Runs -> RunState] /\ gw = [r \in Runs |-> gw[r]]
      /\ ApprovePlaces /\ CancelPlaces /\ EndPlaces
      /\ Binds(h) /\ BeforeQueue(h) /\ Holds(h) /\ Closed(h) /\ (flight = h => Awaited(h))
      /\ BoundIn(h, {"failed"}) => BoundIn(h, Terminal)
  BY <1>2, Before
<1>4. PICK gone \in BOOLEAN : gone <=> (run[h].res = "released")
  OBVIOUS
<1>5. word' = "reserve" /\ goal' = "queue" /\ pc'.run = h /\ pc' \in PcType
  BY <1>1, <1>2, ApprovePath, Goes DEF ClearReleased, IInv, Types, word, goal, left
<1>6. PICK record : record = IF gone THEN Unbound(run[h]) ELSE run[h]
  OBVIOUS
<1>7. run' = [run EXCEPT ![h] = record]
  BY <1>1, <1>2, <1>3, <1>4, <1>5, <1>6 DEF ClearReleased, SetRun, Here
<1>8. /\ record \in RunState
      /\ record.status = run[h].status /\ record.approval = run[h].approval /\ (record.task = IF gone THEN 0 ELSE run[h].task)
      /\ (record.res = IF gone THEN "none" ELSE run[h].res) /\ record.result = run[h].result /\ record.dfail = run[h].dfail
      /\ record.cancel = run[h].cancel /\ (record.comp = IF gone THEN FALSE ELSE run[h].comp) /\ record.artifact = run[h].artifact
  <2>1. CASE gone
    <3>1. record = [run[h] EXCEPT !.task = 0, !.res = "none", !.comp = FALSE]
      BY <1>4, <1>6, <1>3, <2>1 DEF Unbound
    <3>2. 0 \in 0 .. MaxTasks + 1
      BY LifecycleConstants
    <3>3. QED
      BY <1>4, <1>6, <1>3, <2>1, <3>1, <3>2 DEF RunState
  <2>2. CASE ~gone
    BY <1>4, <1>6, <1>3, <2>2
  <2>3. QED
    BY <2>1, <2>2
<1>9. /\ run'[h] = record /\ gw'[h] = gw[h] /\ charged'[h] = charged[h]
      /\ Only(h) /\ Typed
  BY <1>1, <1>3, <1>5, <1>7, <1>8, RecordStep
<1>10. run[h].status = "approved" /\ run[h].result = "none"
  BY <1>1, <1>2, <1>3, <1>4, <1>5, <1>8, <1>9
     DEF ApprovePlaces, Approving, Compensating, BeforeQueue, Early
<1>11. Keeps(h)
  <2>1. Binds(h)'
    BY <1>1, <1>2, <1>3, <1>4, <1>5, <1>8, <1>9, <1>10 DEF Binds, InProgress, Funded
  <2>2. BeforeQueue(h)'
    BY <1>1, <1>2, <1>3, <1>4, <1>5, <1>8, <1>9, <1>10 DEF BeforeQueue, Funded, Early, Queued
  <2>3. Holds(h)'
    BY <1>1, <1>2, <1>3, <1>4, <1>5, <1>8, <1>9, <1>10 DEF Holds, Funded, InProgress, Spent
  <2>4. Closed(h)'
    BY <1>1, <1>2, <1>3, <1>4, <1>5, <1>8, <1>9, <1>10 DEF Closed, Terminal
  <2>5. QED
    BY <2>1, <2>2, <2>3, <2>4 DEF Keeps
<1>12. NoNewFailure(h)
  BY <1>1, <1>2, <1>3, <1>4, <1>5, <1>8, <1>9, <1>10 DEF NoNewFailure, Terminal, Early
<1>13. Handler'
  BY <1>1, <1>2, <1>3, <1>4, <1>5, <1>8, <1>9, <1>10
     DEF IInv, Handler, Spent, Queued, Terminal, InProgress, Approving, Compensating, Withdrawing,
         Releasing, Ending, Settling, Recording, Claiming
<1>14. Places'
  <2>1. ApprovePlaces'
    BY <1>1, <1>2, <1>3, <1>4, <1>5, <1>8, <1>9, <1>10
       DEF ApprovePlaces, Funded, Spent, Queued, Terminal, InProgress, Approving, Compensating,
           Withdrawing, Releasing, Ending, Settling, Recording, Claiming
  <2>2. CancelPlaces'
    BY <1>1, <1>2, <1>3, <1>4, <1>5, <1>8, <1>9, <1>10
       DEF CancelPlaces, Funded, Spent, Queued, Terminal, InProgress, Approving, Compensating,
           Withdrawing, Releasing, Ending, Settling, Recording, Claiming
  <2>3. EndPlaces'
    BY <1>1, <1>2, <1>3, <1>4, <1>5, <1>8, <1>9, <1>10
       DEF EndPlaces, Funded, Spent, Queued, Terminal, InProgress, Approving, Compensating,
           Withdrawing, Releasing, Ending, Settling, Recording, Claiming
  <2>4. QED
    BY <2>1, <2>2, <2>3 DEF Places
<1>15. flight = h => Awaited(h)'
  BY <1>1, <1>2, <1>3, <1>4, <1>5, <1>8, <1>9, <1>10 DEF Awaited, Funded, BeforeQueue, Early
<1>16. NoneOpen' /\ Dispatch'
  BY <1>1, <1>2, <1>3, <1>4, <1>5, <1>8, <1>9, <1>10, <1>15, BesideRun DEF Guarded
<1>17. QED
  BY <1>1, <1>2, <1>3, <1>4, <1>5, <1>8, <1>9, <1>10, <1>11, <1>12, <1>13, <1>14, <1>16, RunStep
     DEF IInv

LEMMA ReserveKeeps == ASSUME IInv, Reserve PROVE IInv'
<1>1. /\ word = "reserve" /\ pc.run \in Runs
      /\ UNCHANGED <<run, queue, flight, starts, charged, counters>>
  BY Words DEF Reserve, IInv, Handler
<1>2. PICK h \in Runs : h = pc.run
  BY <1>1
<1>3. /\ h # 0 /\ run[h] \in RunState /\ run[h].result # "rejected" /\ flight \in 0 .. NRuns
      /\ gw[h] \in {"none", "active", "released", "settled", "dismissed"}
      /\ run \in [Runs -> RunState] /\ gw = [r \in Runs |-> gw[r]]
      /\ ApprovePlaces /\ CancelPlaces /\ EndPlaces
      /\ Binds(h) /\ BeforeQueue(h) /\ Holds(h) /\ Closed(h) /\ (flight = h => Awaited(h))
      /\ BoundIn(h, {"failed"}) => BoundIn(h, Terminal)
  BY <1>2, Before
<1>4. PICK state : state = IF run[h].task = 0 THEN "active" ELSE gw[h]
  OBVIOUS
<1>5. word' = "bind" /\ goal' = "queue" /\ pc'.run = h /\ pc' \in PcType
  BY <1>1, <1>2, ApprovePath, Goes DEF Reserve, IInv, Types, word, goal, left
<1>6. gw' = [gw EXCEPT ![h] = state]
  BY <1>1, <1>2, <1>3, <1>4 DEF Reserve, ReleaseTokens, Acknowledge, Here
<1>7. state \in {"none", "active", "released", "settled", "dismissed"}
  BY <1>3, <1>4
<1>8. /\ run'[h] = run[h] /\ gw'[h] = state /\ charged'[h] = charged[h]
      /\ Only(h) /\ Typed
  BY <1>1, <1>3, <1>5, <1>6, <1>7, GatewayStep
<1>9. /\ \A i : Bound(h, i)' <=> Bound(h, i)
      /\ \A S : BoundIn(h, S)' <=> BoundIn(h, S)
      /\ FailureFirst(h) => FailureFirst(h)'
  <2>1. run'[h].task = run[h].task /\ run'[h].dfail = run[h].dfail
    BY <1>8
  <2>2. QED
    BY <1>1, <1>8, <2>1, After
<1>10. run[h].status = "approved" /\ run[h].result = "none"
  BY <1>1, <1>2, <1>3, <1>4, <1>5, <1>8, <1>9
     DEF ApprovePlaces, Approving, Compensating, BeforeQueue, Early
<1>11. Keeps(h)
  <2>1. Binds(h)'
    BY <1>1, <1>2, <1>3, <1>4, <1>5, <1>8, <1>9, <1>10
       DEF Binds, InProgress, Funded, Queued, Terminal
  <2>2. BeforeQueue(h)'
    BY <1>1, <1>2, <1>3, <1>4, <1>5, <1>8, <1>9, <1>10 DEF BeforeQueue, Funded, Early, Queued
  <2>3. Holds(h)'
    BY <1>1, <1>2, <1>3, <1>4, <1>5, <1>8, <1>9, <1>10 DEF Holds, Funded, InProgress, Spent
  <2>4. Closed(h)'
    BY <1>1, <1>2, <1>3, <1>4, <1>5, <1>8, <1>9, <1>10 DEF Closed, Terminal
  <2>5. QED
    BY <2>1, <2>2, <2>3, <2>4 DEF Keeps
<1>12. NoNewFailure(h)
  BY <1>1, <1>2, <1>3, <1>4, <1>5, <1>8, <1>9, <1>10 DEF NoNewFailure, Terminal, Early
<1>13. Handler'
  BY <1>1, <1>2, <1>3, <1>4, <1>5, <1>8, <1>9, <1>10
     DEF IInv, Handler, Spent, Queued, Terminal, InProgress, Approving, Compensating, Withdrawing,
         Releasing, Ending, Settling, Recording, Claiming
<1>14. Places'
  <2>1. ApprovePlaces'
    BY <1>1, <1>2, <1>3, <1>4, <1>5, <1>8, <1>9, <1>10
       DEF ApprovePlaces, Funded, Spent, Queued, Terminal, InProgress, Approving, Compensating,
           Withdrawing, Releasing, Ending, Settling, Recording, Claiming
  <2>2. CancelPlaces'
    BY <1>1, <1>2, <1>3, <1>4, <1>5, <1>8, <1>9, <1>10
       DEF CancelPlaces, Funded, Spent, Queued, Terminal, InProgress, Approving, Compensating,
           Withdrawing, Releasing, Ending, Settling, Recording, Claiming
  <2>3. EndPlaces'
    BY <1>1, <1>2, <1>3, <1>4, <1>5, <1>8, <1>9, <1>10
       DEF EndPlaces, Funded, Spent, Queued, Terminal, InProgress, Approving, Compensating,
           Withdrawing, Releasing, Ending, Settling, Recording, Claiming
  <2>4. QED
    BY <2>1, <2>2, <2>3 DEF Places
<1>15. flight = h => Awaited(h)'
  BY <1>1, <1>2, <1>3, <1>4, <1>5, <1>8, <1>9, <1>10 DEF Awaited, Funded, BeforeQueue, Early
<1>16. NoneOpen' /\ Dispatch'
  BY <1>1, <1>2, <1>3, <1>4, <1>5, <1>8, <1>9, <1>10, <1>15, BesideRun DEF Guarded
<1>17. QED
  BY <1>1, <1>2, <1>3, <1>4, <1>5, <1>8, <1>9, <1>10, <1>11, <1>12, <1>13, <1>14, <1>16, RunStep
     DEF IInv

LEMMA BindKeeps == ASSUME IInv, Bind PROVE IInv'
<1>1. /\ word = "bind" /\ pc.run \in Runs
      /\ UNCHANGED <<queue, gw, flight, starts, charged, counters>>
  BY Words DEF Bind, IInv, Handler
<1>2. PICK h \in Runs : h = pc.run
  BY <1>1
<1>3. /\ h # 0 /\ run[h] \in RunState /\ run[h].result # "rejected" /\ flight \in 0 .. NRuns
      /\ gw[h] \in {"none", "active", "released", "settled", "dismissed"}
      /\ run \in [Runs -> RunState] /\ gw = [r \in Runs |-> gw[r]]
      /\ ApprovePlaces /\ CancelPlaces /\ EndPlaces
      /\ Binds(h) /\ BeforeQueue(h) /\ Holds(h) /\ Closed(h) /\ (flight = h => Awaited(h))
      /\ BoundIn(h, {"failed"}) => BoundIn(h, Terminal)
  BY <1>2, Before
<1>4. PICK res : res = IF run[h].task = 0 THEN "active" ELSE run[h].res
  OBVIOUS
<1>5. PICK task : task = IF run[h].task = 0 THEN Cardinality({i \in DOMAIN queue : queue[i].run = h}) + 1 ELSE run[h].task
  OBVIOUS
<1>6. task \in 1 .. MaxTasks + 1
  BY <1>1, <1>2, <1>3, <1>4, <1>5, NewTaskId, LifecycleConstants DEF RunState, IInv
<1>7. word' = "enqueue" /\ goal' = "queue" /\ pc'.run = h /\ pc' \in PcType
  BY <1>1, <1>2, ApprovePath, Goes DEF Bind, IInv, Types, word, goal, left
<1>8. PICK record : record = IF run[h].task = 0 THEN [run[h] EXCEPT !.res = "active", !.task = task] ELSE run[h]
  OBVIOUS
<1>9. run' = [run EXCEPT ![h] = record]
  BY <1>1, <1>2, <1>3, <1>4, <1>5, <1>6, <1>7, <1>8 DEF Bind, SetRun, Here
<1>10. /\ record \in RunState
       /\ record.status = run[h].status /\ record.approval = run[h].approval /\ record.task = task
       /\ record.res = res /\ record.result = run[h].result /\ record.dfail = run[h].dfail
       /\ record.cancel = run[h].cancel /\ record.comp = run[h].comp /\ record.artifact = run[h].artifact
  <2>1. CASE run[h].task = 0
    <3>1. record = [run[h] EXCEPT !.res = "active", !.task = task] /\ res = "active"
      BY <1>4, <1>5, <1>6, <1>8, <1>3, <2>1
    <3>2. task \in 0 .. MaxTasks + 1
      BY <1>4, <1>5, <1>6, <1>8, <1>3, LifecycleConstants
    <3>3. QED
      BY <1>4, <1>5, <1>6, <1>8, <1>3, <2>1, <3>1, <3>2 DEF RunState
  <2>2. CASE run[h].task # 0
    BY <1>4, <1>5, <1>6, <1>8, <1>3, <2>2 DEF RunState
  <2>3. QED
    BY <2>1, <2>2
<1>11. /\ run'[h] = record /\ gw'[h] = gw[h] /\ charged'[h] = charged[h]
       /\ Only(h) /\ Typed
  BY <1>1, <1>3, <1>7, <1>9, <1>10, RecordStep
<1>12. run[h].status = "approved" /\ run[h].result = "none"
  BY <1>1, <1>2, <1>3, <1>4, <1>5, <1>6, <1>7, <1>10, <1>11
     DEF ApprovePlaces, Approving, Compensating, BeforeQueue, Early
<1>13. Keeps(h)
  <2>1. Binds(h)'
    BY <1>1, <1>2, <1>3, <1>4, <1>5, <1>6, <1>7, <1>10, <1>11, <1>12 DEF Binds, InProgress, Funded
  <2>2. BeforeQueue(h)'
    BY <1>1, <1>2, <1>3, <1>4, <1>5, <1>6, <1>7, <1>10, <1>11, <1>12
       DEF BeforeQueue, Funded, Early, Queued, ApprovePlaces
  <2>3. Holds(h)'
    BY <1>1, <1>2, <1>3, <1>4, <1>5, <1>6, <1>7, <1>10, <1>11, <1>12
       DEF Holds, Funded, InProgress, Spent
  <2>4. Closed(h)'
    BY <1>1, <1>2, <1>3, <1>4, <1>5, <1>6, <1>7, <1>10, <1>11, <1>12 DEF Closed, Terminal
  <2>5. QED
    BY <2>1, <2>2, <2>3, <2>4 DEF Keeps
<1>14. NoNewFailure(h)
  BY <1>1, <1>2, <1>3, <1>4, <1>5, <1>6, <1>7, <1>10, <1>11, <1>12 DEF NoNewFailure, Terminal, Early
<1>15. Handler'
  BY <1>1, <1>2, <1>3, <1>4, <1>5, <1>6, <1>7, <1>10, <1>11, <1>12
     DEF IInv, Handler, Spent, Queued, Terminal, InProgress, Approving, Compensating, Withdrawing,
         Releasing, Ending, Settling, Recording, Claiming
<1>16. Places'
  <2>1. ApprovePlaces'
    BY <1>1, <1>2, <1>3, <1>4, <1>5, <1>6, <1>7, <1>10, <1>11, <1>12
       DEF ApprovePlaces, Funded, Spent, Queued, Terminal, InProgress, Approving, Compensating,
           Withdrawing, Releasing, Ending, Settling, Recording, Claiming
  <2>2. CancelPlaces'
    BY <1>1, <1>2, <1>3, <1>4, <1>5, <1>6, <1>7, <1>10, <1>11, <1>12
       DEF CancelPlaces, Funded, Spent, Queued, Terminal, InProgress, Approving, Compensating,
           Withdrawing, Releasing, Ending, Settling, Recording, Claiming
  <2>3. EndPlaces'
    BY <1>1, <1>2, <1>3, <1>4, <1>5, <1>6, <1>7, <1>10, <1>11, <1>12
       DEF EndPlaces, Funded, Spent, Queued, Terminal, InProgress, Approving, Compensating,
           Withdrawing, Releasing, Ending, Settling, Recording, Claiming
  <2>4. QED
    BY <2>1, <2>2, <2>3 DEF Places
<1>17. flight = h => Awaited(h)'
  BY <1>1, <1>2, <1>3, <1>4, <1>5, <1>6, <1>7, <1>10, <1>11, <1>12
     DEF Awaited, Funded, BeforeQueue, Early
<1>18. NoneOpen' /\ Dispatch'
  BY <1>1, <1>2, <1>3, <1>4, <1>5, <1>6, <1>7, <1>10, <1>11, <1>12, <1>17, BesideRun DEF Guarded
<1>19. QED
  BY <1>1, <1>2, <1>3, <1>4, <1>5, <1>6, <1>7, <1>10, <1>11, <1>12, <1>13, <1>14, <1>15, <1>16,
     <1>18, RunStep
     DEF IInv

LEMMA ReleaseKeeps == ASSUME IInv, Release PROVE IInv'
<1>1. /\ word = "release" /\ pc.run \in Runs
      /\ UNCHANGED <<run, queue, flight, starts, charged, counters>>
  BY Words DEF Release, IInv, Handler
<1>2. PICK h \in Runs : h = pc.run
  BY <1>1
<1>3. /\ h # 0 /\ run[h] \in RunState /\ run[h].result # "rejected" /\ flight \in 0 .. NRuns
      /\ gw[h] \in {"none", "active", "released", "settled", "dismissed"}
      /\ run \in [Runs -> RunState] /\ gw = [r \in Runs |-> gw[r]]
      /\ ApprovePlaces /\ CancelPlaces /\ EndPlaces
      /\ Binds(h) /\ BeforeQueue(h) /\ Holds(h) /\ Closed(h) /\ (flight = h => Awaited(h))
      /\ BoundIn(h, {"failed"}) => BoundIn(h, Terminal)
  BY <1>2, Before
<1>4. PICK state : state = IF run[h].res = "active" /\ gw[h] = "active" THEN "released" ELSE gw[h]
  OBVIOUS
<1>5. /\ word' = "mark" /\ goal' = goal /\ left' = left - 1 /\ pc'.run = h /\ pc' \in PcType
      /\ goal \in {"queue", "comp_clear"} \/ (goal = "fail_run" /\ left \in {4, 5})
  BY <1>1, <1>2, ReleasePath, Goes DEF Release, IInv, Types, word, goal, left
<1>6. gw' = [gw EXCEPT ![h] = state]
  BY <1>1, <1>2, <1>3, <1>4 DEF Release, ReleaseTokens, Acknowledge, Here
<1>7. state \in {"none", "active", "released", "settled", "dismissed"}
  BY <1>3, <1>4
<1>8. /\ run'[h] = run[h] /\ gw'[h] = state /\ charged'[h] = charged[h]
      /\ Only(h) /\ Typed
  BY <1>1, <1>3, <1>5, <1>6, <1>7, GatewayStep
<1>9. /\ \A i : Bound(h, i)' <=> Bound(h, i)
      /\ \A S : BoundIn(h, S)' <=> BoundIn(h, S)
      /\ FailureFirst(h) => FailureFirst(h)'
  <2>1. run'[h].task = run[h].task /\ run'[h].dfail = run[h].dfail
    BY <1>8
  <2>2. QED
    BY <1>1, <1>8, <2>1, After
<1>10. Keeps(h)
  <2>1. Binds(h)'
    BY <1>1, <1>2, <1>3, <1>4, <1>5, <1>8, <1>9 DEF Binds, InProgress, Funded
  <2>2. BeforeQueue(h)'
    BY <1>1, <1>2, <1>3, <1>4, <1>5, <1>8, <1>9
       DEF BeforeQueue, Funded, Early, Queued, ApprovePlaces, EndPlaces, Approving, Compensating,
           Ending, Settling, Terminal
  <2>3. Holds(h)'
    BY <1>1, <1>2, <1>3, <1>4, <1>5, <1>8, <1>9
       DEF Holds, Funded, InProgress, Spent, ApprovePlaces, EndPlaces, Approving, Compensating,
           Ending, Settling, Terminal
  <2>4. Closed(h)'
    BY <1>1, <1>2, <1>3, <1>4, <1>5, <1>8, <1>9 DEF Closed, Terminal
  <2>5. QED
    BY <2>1, <2>2, <2>3, <2>4 DEF Keeps
<1>11. NoNewFailure(h)
  BY <1>1, <1>2, <1>3, <1>4, <1>5, <1>8, <1>9 DEF NoNewFailure, Terminal, Early
<1>12. Handler'
  BY <1>1, <1>2, <1>3, <1>4, <1>5, <1>8, <1>9
     DEF IInv, Handler, Spent, Queued, Terminal, InProgress, Approving, Compensating, Withdrawing,
         Releasing, Ending, Settling, Recording, Claiming
<1>13. Places'
  <2>1. ApprovePlaces'
    BY <1>1, <1>2, <1>3, <1>4, <1>5, <1>8, <1>9
       DEF ApprovePlaces, Funded, Spent, Queued, Terminal, InProgress, Approving, Compensating,
           Withdrawing, Releasing, Ending, Settling, Recording, Claiming
  <2>2. CancelPlaces'
    BY <1>1, <1>2, <1>3, <1>4, <1>5, <1>8, <1>9
       DEF CancelPlaces, Funded, Spent, Queued, Terminal, InProgress, Approving, Compensating,
           Withdrawing, Releasing, Ending, Settling, Recording, Claiming
  <2>3. EndPlaces'
    BY <1>1, <1>2, <1>3, <1>4, <1>5, <1>8, <1>9
       DEF EndPlaces, Funded, Spent, Queued, Terminal, InProgress, Approving, Compensating,
           Withdrawing, Releasing, Ending, Settling, Recording, Claiming
  <2>4. QED
    BY <2>1, <2>2, <2>3 DEF Places
<1>14. flight = h => run[h].status = "approved"
  BY <1>1, <1>2, <1>3, <1>4, <1>5, <1>8, <1>9
     DEF IInv, Handler, ApprovePlaces, Spent, Queued, Terminal, InProgress, Approving, Compensating,
         Withdrawing, Releasing, Ending, Settling, Recording, Claiming
<1>15. flight = h => Awaited(h)'
  BY <1>1, <1>2, <1>3, <1>4, <1>5, <1>8, <1>9, <1>14 DEF Awaited, Funded, BeforeQueue, Early
<1>16. NoneOpen' /\ Dispatch'
  BY <1>1, <1>2, <1>3, <1>4, <1>5, <1>8, <1>9, <1>14, <1>15, BesideRun DEF Guarded
<1>17. QED
  BY <1>1, <1>2, <1>3, <1>4, <1>5, <1>8, <1>9, <1>14, <1>10, <1>11, <1>12, <1>13, <1>16, RunStep
     DEF IInv

LEMMA RequestKeeps == ASSUME IInv, Request PROVE IInv'
<1>1. /\ word = "request" /\ pc.run \in Runs
      /\ UNCHANGED <<queue, gw, flight, starts, charged, counters>>
  BY Words DEF Request, IInv, Handler
<1>2. PICK h \in Runs : h = pc.run
  BY <1>1
<1>3. /\ h # 0 /\ run[h] \in RunState /\ run[h].result # "rejected" /\ flight \in 0 .. NRuns
      /\ gw[h] \in {"none", "active", "released", "settled", "dismissed"}
      /\ run \in [Runs -> RunState] /\ gw = [r \in Runs |-> gw[r]]
      /\ ApprovePlaces /\ CancelPlaces /\ EndPlaces
      /\ Binds(h) /\ BeforeQueue(h) /\ Holds(h) /\ Closed(h) /\ (flight = h => Awaited(h))
      /\ BoundIn(h, {"failed"}) => BoundIn(h, Terminal)
  BY <1>2, Before
<1>4. \/ /\ word' = "orphan" /\ goal' = "cancelled" /\ pc'.run = h /\ pc' \in PcType
         /\ ~(run[h].status = "running" /\ TaskStatus(h) \in {"running", "missing"})
      \/ word' = "idle" /\ goal' = "idle" /\ pc'.run \notin Runs /\ pc' \in PcType
  BY <1>1, <1>2, CancelPath, Goes, Stops DEF Request, Stop, Here, IInv, Types, word, goal, left
<1>5. PICK record : record = [run[h] EXCEPT !.cancel = TRUE]
  OBVIOUS
<1>6. run' = [run EXCEPT ![h] = record]
  BY <1>1, <1>2, <1>3, <1>4, <1>5 DEF Request, SetRun, Here
<1>7. /\ record \in RunState
      /\ record.status = run[h].status /\ record.approval = run[h].approval /\ record.task = run[h].task
      /\ record.res = run[h].res /\ record.result = run[h].result /\ record.dfail = run[h].dfail
      /\ record.cancel = TRUE /\ record.comp = run[h].comp /\ record.artifact = run[h].artifact
  BY <1>5, <1>3 DEF RunState, Statuses, Terminal
<1>8. /\ run'[h] = record /\ gw'[h] = gw[h] /\ charged'[h] = charged[h]
      /\ Only(h) /\ Typed
  BY <1>1, <1>3, <1>4, <1>6, <1>7, RecordStep
<1>9. /\ \A i : Bound(h, i)' <=> Bound(h, i)
      /\ \A S : BoundIn(h, S)' <=> BoundIn(h, S)
      /\ FailureFirst(h) => FailureFirst(h)'
  <2>1. run'[h].task = run[h].task /\ run'[h].dfail = run[h].dfail
    BY <1>7, <1>8
  <2>2. QED
    BY <1>1, <1>8, <2>1, After
<1>10. ~(flight = h /\ run[h].status = "running" /\ word' = "orphan")
  <2>1. SUFFICES ASSUME flight = h, run[h].status = "running" PROVE TaskStatus(h) = "running"
    BY <1>1, <1>2, <1>3, <1>4, <1>7, <1>8, <1>9
  <2>2. PICK i \in DOMAIN queue : Bound(h, i)
    BY <1>1, <1>2, <1>3, <1>4, <1>7, <1>8, <1>9, <2>1 DEF Binds, InProgress
  <2>3. queue[i].status = "running"
    BY <1>1, <1>2, <1>3, <1>4, <1>7, <1>8, <1>9, <2>1, <2>2 DEF Awaited, BoundIn
  <2>4. QED
    BY <2>2, <2>3, TaskPlace DEF IInv
<1>11. Keeps(h)
  <2>1. Binds(h)'
    BY <1>1, <1>2, <1>3, <1>4, <1>7, <1>8, <1>9, <1>10 DEF Binds, InProgress, Funded
  <2>2. BeforeQueue(h)'
    BY <1>1, <1>2, <1>3, <1>4, <1>7, <1>8, <1>9, <1>10 DEF BeforeQueue, Funded, Early, Queued
  <2>3. Holds(h)'
    BY <1>1, <1>2, <1>3, <1>4, <1>7, <1>8, <1>9, <1>10 DEF Holds, Funded, InProgress, Spent
  <2>4. Closed(h)'
    BY <1>1, <1>2, <1>3, <1>4, <1>7, <1>8, <1>9, <1>10 DEF Closed, Terminal
  <2>5. QED
    BY <2>1, <2>2, <2>3, <2>4 DEF Keeps
<1>12. NoNewFailure(h)
  BY <1>1, <1>2, <1>3, <1>4, <1>7, <1>8, <1>9, <1>10 DEF NoNewFailure, Terminal, Early
<1>13. Handler'
  BY <1>1, <1>2, <1>3, <1>4, <1>7, <1>8, <1>9, <1>10
     DEF IInv, Handler, Spent, Queued, Terminal, InProgress, Approving, Compensating, Withdrawing,
         Releasing, Ending, Settling, Recording, Claiming
<1>14. Places'
  <2>1. ApprovePlaces'
    BY <1>1, <1>2, <1>3, <1>4, <1>7, <1>8, <1>9, <1>10
       DEF ApprovePlaces, Funded, Spent, Queued, Terminal, InProgress, Approving, Compensating,
           Withdrawing, Releasing, Ending, Settling, Recording, Claiming
  <2>2. CancelPlaces'
    BY <1>1, <1>2, <1>3, <1>4, <1>7, <1>8, <1>9, <1>10
       DEF CancelPlaces, Funded, Spent, Queued, Terminal, InProgress, Approving, Compensating,
           Withdrawing, Releasing, Ending, Settling, Recording, Claiming
  <2>3. EndPlaces'
    BY <1>1, <1>2, <1>3, <1>4, <1>7, <1>8, <1>9, <1>10
       DEF EndPlaces, Funded, Spent, Queued, Terminal, InProgress, Approving, Compensating,
           Withdrawing, Releasing, Ending, Settling, Recording, Claiming
  <2>4. QED
    BY <2>1, <2>2, <2>3 DEF Places
<1>15. flight = h => Awaited(h)'
  BY <1>1, <1>2, <1>3, <1>4, <1>7, <1>8, <1>9, <1>10 DEF Awaited, Funded, BeforeQueue, Early
<1>16. NoneOpen' /\ Dispatch'
  BY <1>1, <1>2, <1>3, <1>4, <1>7, <1>8, <1>9, <1>10, <1>15, BesideRun DEF Guarded
<1>17. QED
  BY <1>1, <1>2, <1>3, <1>4, <1>7, <1>8, <1>9, <1>10, <1>11, <1>12, <1>13, <1>14, <1>16, RunStep
     DEF IInv

LEMMA CancelOrphanKeeps == ASSUME IInv, CancelOrphan PROVE IInv'
<1>1. /\ word = "orphan" /\ pc.run \in Runs
      /\ UNCHANGED <<run, queue, flight, starts, charged, counters>>
  BY Words DEF CancelOrphan, IInv, Handler
<1>2. PICK h \in Runs : h = pc.run
  BY <1>1
<1>3. /\ h # 0 /\ run[h] \in RunState /\ run[h].result # "rejected" /\ flight \in 0 .. NRuns
      /\ gw[h] \in {"none", "active", "released", "settled", "dismissed"}
      /\ run \in [Runs -> RunState] /\ gw = [r \in Runs |-> gw[r]]
      /\ ApprovePlaces /\ CancelPlaces /\ EndPlaces
      /\ Binds(h) /\ BeforeQueue(h) /\ Holds(h) /\ Closed(h) /\ (flight = h => Awaited(h))
      /\ BoundIn(h, {"failed"}) => BoundIn(h, Terminal)
  BY <1>2, Before
<1>4. PICK state : state = IF run[h].task = 0 /\ gw[h] = "active" THEN "released" ELSE gw[h]
  OBVIOUS
<1>5. word' = "cancel_task" /\ goal' = goal /\ pc'.run = h /\ pc' \in PcType
  BY <1>1, <1>2, CancelPath, Goes DEF CancelOrphan, IInv, Types, word, goal, left
<1>6. gw' = [gw EXCEPT ![h] = state]
  BY <1>1, <1>2, <1>3, <1>4 DEF CancelOrphan, ReleaseTokens, Acknowledge, Here
<1>7. state \in {"none", "active", "released", "settled", "dismissed"}
  BY <1>3, <1>4
<1>8. /\ run'[h] = run[h] /\ gw'[h] = state /\ charged'[h] = charged[h]
      /\ Only(h) /\ Typed
  BY <1>1, <1>3, <1>5, <1>6, <1>7, GatewayStep
<1>9. /\ \A i : Bound(h, i)' <=> Bound(h, i)
      /\ \A S : BoundIn(h, S)' <=> BoundIn(h, S)
      /\ FailureFirst(h) => FailureFirst(h)'
  <2>1. run'[h].task = run[h].task /\ run'[h].dfail = run[h].dfail
    BY <1>8
  <2>2. QED
    BY <1>1, <1>8, <2>1, After
<1>10. run[h].cancel /\ ~(flight = h /\ run[h].status = "running")
  BY <1>1, <1>2, <1>3, <1>4, <1>5, <1>8, <1>9 DEF CancelPlaces, Withdrawing
<1>11. Keeps(h)
  <2>1. Binds(h)'
    BY <1>1, <1>2, <1>3, <1>4, <1>5, <1>8, <1>9, <1>10 DEF Binds, InProgress, Funded, Terminal
  <2>2. BeforeQueue(h)'
    BY <1>1, <1>2, <1>3, <1>4, <1>5, <1>8, <1>9, <1>10 DEF BeforeQueue, Funded, Early, Queued
  <2>3. Holds(h)'
    BY <1>1, <1>2, <1>3, <1>4, <1>5, <1>8, <1>9, <1>10 DEF Holds, Funded, InProgress, Spent
  <2>4. Closed(h)'
    BY <1>1, <1>2, <1>3, <1>4, <1>5, <1>8, <1>9, <1>10 DEF Closed, Terminal
  <2>5. QED
    BY <2>1, <2>2, <2>3, <2>4 DEF Keeps
<1>12. NoNewFailure(h)
  BY <1>1, <1>2, <1>3, <1>4, <1>5, <1>8, <1>9, <1>10 DEF NoNewFailure, Terminal, Early
<1>13. Handler'
  BY <1>1, <1>2, <1>3, <1>4, <1>5, <1>8, <1>9, <1>10
     DEF IInv, Handler, Spent, Queued, Terminal, InProgress, Approving, Compensating, Withdrawing,
         Releasing, Ending, Settling, Recording, Claiming
<1>14. Places'
  <2>1. ApprovePlaces'
    BY <1>1, <1>2, <1>3, <1>4, <1>5, <1>8, <1>9, <1>10
       DEF ApprovePlaces, Funded, Spent, Queued, Terminal, InProgress, Approving, Compensating,
           Withdrawing, Releasing, Ending, Settling, Recording, Claiming
  <2>2. CancelPlaces'
    BY <1>1, <1>2, <1>3, <1>4, <1>5, <1>8, <1>9, <1>10
       DEF CancelPlaces, Funded, Spent, Queued, Terminal, InProgress, Approving, Compensating,
           Withdrawing, Releasing, Ending, Settling, Recording, Claiming
  <2>3. EndPlaces'
    BY <1>1, <1>2, <1>3, <1>4, <1>5, <1>8, <1>9, <1>10
       DEF EndPlaces, Funded, Spent, Queued, Terminal, InProgress, Approving, Compensating,
           Withdrawing, Releasing, Ending, Settling, Recording, Claiming
  <2>4. QED
    BY <2>1, <2>2, <2>3 DEF Places
<1>15. flight = h => Awaited(h)'
  BY <1>1, <1>2, <1>3, <1>4, <1>5, <1>8, <1>9, <1>10 DEF Awaited, Funded, BeforeQueue, Early
<1>16. NoneOpen' /\ Dispatch'
  BY <1>1, <1>2, <1>3, <1>4, <1>5, <1>8, <1>9, <1>10, <1>15, BesideRun DEF Guarded
<1>17. QED
  BY <1>1, <1>2, <1>3, <1>4, <1>5, <1>8, <1>9, <1>10, <1>11, <1>12, <1>13, <1>14, <1>16, RunStep
     DEF IInv

LEMMA CancelReleaseKeeps == ASSUME IInv, CancelRelease PROVE IInv'
<1>1. /\ word = "cancel_release" /\ pc.run \in Runs
      /\ UNCHANGED <<run, queue, flight, starts, charged, counters>>
  BY Words DEF CancelRelease, IInv, Handler
<1>2. PICK h \in Runs : h = pc.run
  BY <1>1
<1>3. /\ h # 0 /\ run[h] \in RunState /\ run[h].result # "rejected" /\ flight \in 0 .. NRuns
      /\ gw[h] \in {"none", "active", "released", "settled", "dismissed"}
      /\ run \in [Runs -> RunState] /\ gw = [r \in Runs |-> gw[r]]
      /\ ApprovePlaces /\ CancelPlaces /\ EndPlaces
      /\ Binds(h) /\ BeforeQueue(h) /\ Holds(h) /\ Closed(h) /\ (flight = h => Awaited(h))
      /\ BoundIn(h, {"failed"}) => BoundIn(h, Terminal)
  BY <1>2, Before
<1>4. PICK state : state = IF run[h].res = "active" /\ gw[h] = "active" THEN "released" ELSE gw[h]
  OBVIOUS
<1>5. /\ word' = IF run[h].res = "active" THEN "cancel_mark" ELSE "cancelled"
      /\ goal' \in {goal, "cancelled"} /\ pc'.run = h /\ pc' \in PcType /\ pc'.err = pc.err
  BY <1>1, <1>2, CancelPath, Beginnings, Turns, Goes
     DEF CancelRelease, Here, IInv, Types, word, goal, left
<1>6. gw' = [gw EXCEPT ![h] = state]
  BY <1>1, <1>2, <1>3, <1>4 DEF CancelRelease, ReleaseTokens, Acknowledge, Here
<1>7. state \in {"none", "active", "released", "settled", "dismissed"}
  BY <1>3, <1>4
<1>8. /\ run'[h] = run[h] /\ gw'[h] = state /\ charged'[h] = charged[h]
      /\ Only(h) /\ Typed
  BY <1>1, <1>3, <1>5, <1>6, <1>7, GatewayStep
<1>9. /\ \A i : Bound(h, i)' <=> Bound(h, i)
      /\ \A S : BoundIn(h, S)' <=> BoundIn(h, S)
      /\ FailureFirst(h) => FailureFirst(h)'
  <2>1. run'[h].task = run[h].task /\ run'[h].dfail = run[h].dfail
    BY <1>8
  <2>2. QED
    BY <1>1, <1>8, <2>1, After
<1>10. run[h].cancel /\ ~(flight = h /\ run[h].status = "running")
  BY <1>1, <1>2, <1>3, <1>4, <1>5, <1>8, <1>9 DEF CancelPlaces, Withdrawing, Releasing
<1>11. run[h].res \in {"none", "active", "released", "settled"}
  BY <1>1, <1>2, <1>3, <1>4, <1>5, <1>8, <1>9, <1>10 DEF RunState
<1>12. Keeps(h)
  <2>1. Binds(h)'
    BY <1>1, <1>2, <1>3, <1>4, <1>5, <1>8, <1>9, <1>10, <1>11 DEF Binds, InProgress, Funded
  <2>2. BeforeQueue(h)'
    BY <1>1, <1>2, <1>3, <1>4, <1>5, <1>8, <1>9, <1>10, <1>11 DEF BeforeQueue, Funded, Early, Queued
  <2>3. Holds(h)'
    BY <1>1, <1>2, <1>3, <1>4, <1>5, <1>8, <1>9, <1>10, <1>11 DEF Holds, Funded, InProgress, Spent
  <2>4. Closed(h)'
    BY <1>1, <1>2, <1>3, <1>4, <1>5, <1>8, <1>9, <1>10, <1>11 DEF Closed, Terminal
  <2>5. QED
    BY <2>1, <2>2, <2>3, <2>4 DEF Keeps
<1>13. NoNewFailure(h)
  BY <1>1, <1>2, <1>3, <1>4, <1>5, <1>8, <1>9, <1>10, <1>11 DEF NoNewFailure, Terminal, Early
<1>14. Handler'
  BY <1>1, <1>2, <1>3, <1>4, <1>5, <1>8, <1>9, <1>10, <1>11
     DEF IInv, Handler, Spent, Queued, Terminal, InProgress, Approving, Compensating, Withdrawing,
         Releasing, Ending, Settling, Recording, Claiming
<1>15. Places'
  <2>1. ApprovePlaces'
    BY <1>1, <1>2, <1>3, <1>4, <1>5, <1>8, <1>9, <1>10, <1>11
       DEF ApprovePlaces, Funded, Spent, Queued, Terminal, InProgress, Approving, Compensating,
           Withdrawing, Releasing, Ending, Settling, Recording, Claiming, Binds
  <2>2. CancelPlaces'
    BY <1>1, <1>2, <1>3, <1>4, <1>5, <1>8, <1>9, <1>10, <1>11
       DEF CancelPlaces, Funded, Spent, Queued, Terminal, InProgress, Approving, Compensating,
           Withdrawing, Releasing, Ending, Settling, Recording, Claiming, Binds
  <2>3. EndPlaces'
    BY <1>1, <1>2, <1>3, <1>4, <1>5, <1>8, <1>9, <1>10, <1>11
       DEF EndPlaces, Funded, Spent, Queued, Terminal, InProgress, Approving, Compensating,
           Withdrawing, Releasing, Ending, Settling, Recording, Claiming, Binds
  <2>4. QED
    BY <2>1, <2>2, <2>3 DEF Places
<1>16. flight = h => Awaited(h)'
  BY <1>1, <1>2, <1>3, <1>4, <1>5, <1>8, <1>9, <1>10, <1>11 DEF Awaited, Funded, BeforeQueue, Early
<1>17. NoneOpen' /\ Dispatch'
  BY <1>1, <1>2, <1>3, <1>4, <1>5, <1>8, <1>9, <1>10, <1>11, <1>16, BesideRun DEF Guarded
<1>18. QED
  BY <1>1, <1>2, <1>3, <1>4, <1>5, <1>8, <1>9, <1>10, <1>11, <1>12, <1>13, <1>14, <1>15, <1>17,
     RunStep
     DEF IInv

LEMMA CancelMarkKeeps == ASSUME IInv, CancelMark PROVE IInv'
<1>1. /\ word = "cancel_mark" /\ pc.run \in Runs
      /\ UNCHANGED <<queue, gw, flight, starts, charged, counters>>
  BY Words DEF CancelMark, IInv, Handler
<1>2. PICK h \in Runs : h = pc.run
  BY <1>1
<1>3. /\ h # 0 /\ run[h] \in RunState /\ run[h].result # "rejected" /\ flight \in 0 .. NRuns
      /\ gw[h] \in {"none", "active", "released", "settled", "dismissed"}
      /\ run \in [Runs -> RunState] /\ gw = [r \in Runs |-> gw[r]]
      /\ ApprovePlaces /\ CancelPlaces /\ EndPlaces
      /\ Binds(h) /\ BeforeQueue(h) /\ Holds(h) /\ Closed(h) /\ (flight = h => Awaited(h))
      /\ BoundIn(h, {"failed"}) => BoundIn(h, Terminal)
  BY <1>2, Before
<1>4. word' = "cancel_ack" /\ goal' = goal /\ pc'.run = h /\ pc' \in PcType /\ pc'.err = pc.err
  BY <1>1, <1>2, CancelPath, Goes DEF CancelMark, IInv, Types, word, goal, left
<1>5. PICK record : record = [run[h] EXCEPT !.res = "released"]
  OBVIOUS
<1>6. run' = [run EXCEPT ![h] = record]
  BY <1>1, <1>2, <1>3, <1>4, <1>5 DEF CancelMark, SetRun, Here
<1>7. /\ record \in RunState
      /\ record.status = run[h].status /\ record.approval = run[h].approval /\ record.task = run[h].task
      /\ record.res = "released" /\ record.result = run[h].result /\ record.dfail = run[h].dfail
      /\ record.cancel = run[h].cancel /\ record.comp = run[h].comp /\ record.artifact = run[h].artifact
  BY <1>5, <1>3 DEF RunState, Statuses, Terminal
<1>8. /\ run'[h] = record /\ gw'[h] = gw[h] /\ charged'[h] = charged[h]
      /\ Only(h) /\ Typed
  BY <1>1, <1>3, <1>4, <1>6, <1>7, RecordStep
<1>9. /\ \A i : Bound(h, i)' <=> Bound(h, i)
      /\ \A S : BoundIn(h, S)' <=> BoundIn(h, S)
      /\ FailureFirst(h) => FailureFirst(h)'
  <2>1. run'[h].task = run[h].task /\ run'[h].dfail = run[h].dfail
    BY <1>7, <1>8
  <2>2. QED
    BY <1>1, <1>8, <2>1, After
<1>10. run[h].cancel /\ ~(flight = h /\ run[h].status = "running") /\ run[h].res = "active" /\ gw[h] # "active"
  BY <1>1, <1>2, <1>3, <1>4, <1>7, <1>8, <1>9 DEF CancelPlaces, Withdrawing, Releasing
<1>11. Keeps(h)
  <2>1. Binds(h)'
    BY <1>1, <1>2, <1>3, <1>4, <1>7, <1>8, <1>9, <1>10 DEF Binds, InProgress, Funded
  <2>2. BeforeQueue(h)'
    BY <1>1, <1>2, <1>3, <1>4, <1>7, <1>8, <1>9, <1>10 DEF BeforeQueue, Funded, Early, Queued
  <2>3. Holds(h)'
    BY <1>1, <1>2, <1>3, <1>4, <1>7, <1>8, <1>9, <1>10 DEF Holds, Funded, InProgress, Spent
  <2>4. Closed(h)'
    BY <1>1, <1>2, <1>3, <1>4, <1>7, <1>8, <1>9, <1>10 DEF Closed, Terminal
  <2>5. QED
    BY <2>1, <2>2, <2>3, <2>4 DEF Keeps
<1>12. NoNewFailure(h)
  BY <1>1, <1>2, <1>3, <1>4, <1>7, <1>8, <1>9, <1>10 DEF NoNewFailure, Terminal, Early
<1>13. Handler'
  BY <1>1, <1>2, <1>3, <1>4, <1>7, <1>8, <1>9, <1>10
     DEF IInv, Handler, Spent, Queued, Terminal, InProgress, Approving, Compensating, Withdrawing,
         Releasing, Ending, Settling, Recording, Claiming
<1>14. Places'
  <2>1. ApprovePlaces'
    BY <1>1, <1>2, <1>3, <1>4, <1>7, <1>8, <1>9, <1>10
       DEF ApprovePlaces, Funded, Spent, Queued, Terminal, InProgress, Approving, Compensating,
           Withdrawing, Releasing, Ending, Settling, Recording, Claiming
  <2>2. CancelPlaces'
    BY <1>1, <1>2, <1>3, <1>4, <1>7, <1>8, <1>9, <1>10
       DEF CancelPlaces, Funded, Spent, Queued, Terminal, InProgress, Approving, Compensating,
           Withdrawing, Releasing, Ending, Settling, Recording, Claiming
  <2>3. EndPlaces'
    BY <1>1, <1>2, <1>3, <1>4, <1>7, <1>8, <1>9, <1>10
       DEF EndPlaces, Funded, Spent, Queued, Terminal, InProgress, Approving, Compensating,
           Withdrawing, Releasing, Ending, Settling, Recording, Claiming
  <2>4. QED
    BY <2>1, <2>2, <2>3 DEF Places
<1>15. flight = h => Awaited(h)'
  BY <1>1, <1>2, <1>3, <1>4, <1>7, <1>8, <1>9, <1>10 DEF Awaited, Funded, BeforeQueue, Early
<1>16. NoneOpen' /\ Dispatch'
  BY <1>1, <1>2, <1>3, <1>4, <1>7, <1>8, <1>9, <1>10, <1>15, BesideRun DEF Guarded
<1>17. QED
  BY <1>1, <1>2, <1>3, <1>4, <1>7, <1>8, <1>9, <1>10, <1>11, <1>12, <1>13, <1>14, <1>16, RunStep
     DEF IInv

LEMMA CancelAckKeeps == ASSUME IInv, CancelAck PROVE IInv'
<1>1. /\ word = "cancel_ack" /\ pc.run \in Runs
      /\ UNCHANGED <<run, queue, flight, starts, charged, counters>>
  BY Words DEF CancelAck, IInv, Handler
<1>2. PICK h \in Runs : h = pc.run
  BY <1>1
<1>3. /\ h # 0 /\ run[h] \in RunState /\ run[h].result # "rejected" /\ flight \in 0 .. NRuns
      /\ gw[h] \in {"none", "active", "released", "settled", "dismissed"}
      /\ run \in [Runs -> RunState] /\ gw = [r \in Runs |-> gw[r]]
      /\ ApprovePlaces /\ CancelPlaces /\ EndPlaces
      /\ Binds(h) /\ BeforeQueue(h) /\ Holds(h) /\ Closed(h) /\ (flight = h => Awaited(h))
      /\ BoundIn(h, {"failed"}) => BoundIn(h, Terminal)
  BY <1>2, Before
<1>4. PICK state : state = IF gw[h] \in {"released", "settled"} THEN "dismissed" ELSE gw[h]
  OBVIOUS
<1>5. word' = "cancelled" /\ goal' = goal /\ pc'.run = h /\ pc' \in PcType /\ pc'.err = pc.err
  BY <1>1, <1>2, CancelPath, Goes DEF CancelAck, IInv, Types, word, goal, left
<1>6. gw' = [gw EXCEPT ![h] = state]
  BY <1>1, <1>2, <1>3, <1>4 DEF CancelAck, ReleaseTokens, Acknowledge, Here
<1>7. state \in {"none", "active", "released", "settled", "dismissed"}
  BY <1>3, <1>4
<1>8. /\ run'[h] = run[h] /\ gw'[h] = state /\ charged'[h] = charged[h]
      /\ Only(h) /\ Typed
  BY <1>1, <1>3, <1>5, <1>6, <1>7, GatewayStep
<1>9. /\ \A i : Bound(h, i)' <=> Bound(h, i)
      /\ \A S : BoundIn(h, S)' <=> BoundIn(h, S)
      /\ FailureFirst(h) => FailureFirst(h)'
  <2>1. run'[h].task = run[h].task /\ run'[h].dfail = run[h].dfail
    BY <1>8
  <2>2. QED
    BY <1>1, <1>8, <2>1, After
<1>10. run[h].cancel /\ ~(flight = h /\ run[h].status = "running")
  BY <1>1, <1>2, <1>3, <1>4, <1>5, <1>8, <1>9 DEF CancelPlaces, Withdrawing, Releasing
<1>11. Keeps(h)
  <2>1. Binds(h)'
    BY <1>1, <1>2, <1>3, <1>4, <1>5, <1>8, <1>9, <1>10 DEF Binds, InProgress, Funded
  <2>2. BeforeQueue(h)'
    BY <1>1, <1>2, <1>3, <1>4, <1>5, <1>8, <1>9, <1>10 DEF BeforeQueue, Funded, Early, Queued
  <2>3. Holds(h)'
    BY <1>1, <1>2, <1>3, <1>4, <1>5, <1>8, <1>9, <1>10 DEF Holds, Funded, InProgress, Spent
  <2>4. Closed(h)'
    BY <1>1, <1>2, <1>3, <1>4, <1>5, <1>8, <1>9, <1>10 DEF Closed, Terminal
  <2>5. QED
    BY <2>1, <2>2, <2>3, <2>4 DEF Keeps
<1>12. NoNewFailure(h)
  BY <1>1, <1>2, <1>3, <1>4, <1>5, <1>8, <1>9, <1>10 DEF NoNewFailure, Terminal, Early
<1>13. Handler'
  BY <1>1, <1>2, <1>3, <1>4, <1>5, <1>8, <1>9, <1>10
     DEF IInv, Handler, Spent, Queued, Terminal, InProgress, Approving, Compensating, Withdrawing,
         Releasing, Ending, Settling, Recording, Claiming
<1>14. Places'
  <2>1. ApprovePlaces'
    BY <1>1, <1>2, <1>3, <1>4, <1>5, <1>8, <1>9, <1>10
       DEF ApprovePlaces, Funded, Spent, Queued, Terminal, InProgress, Approving, Compensating,
           Withdrawing, Releasing, Ending, Settling, Recording, Claiming
  <2>2. CancelPlaces'
    BY <1>1, <1>2, <1>3, <1>4, <1>5, <1>8, <1>9, <1>10
       DEF CancelPlaces, Funded, Spent, Queued, Terminal, InProgress, Approving, Compensating,
           Withdrawing, Releasing, Ending, Settling, Recording, Claiming
  <2>3. EndPlaces'
    BY <1>1, <1>2, <1>3, <1>4, <1>5, <1>8, <1>9, <1>10
       DEF EndPlaces, Funded, Spent, Queued, Terminal, InProgress, Approving, Compensating,
           Withdrawing, Releasing, Ending, Settling, Recording, Claiming
  <2>4. QED
    BY <2>1, <2>2, <2>3 DEF Places
<1>15. flight = h => Awaited(h)'
  BY <1>1, <1>2, <1>3, <1>4, <1>5, <1>8, <1>9, <1>10 DEF Awaited, Funded, BeforeQueue, Early
<1>16. NoneOpen' /\ Dispatch'
  BY <1>1, <1>2, <1>3, <1>4, <1>5, <1>8, <1>9, <1>10, <1>15, BesideRun DEF Guarded
<1>17. QED
  BY <1>1, <1>2, <1>3, <1>4, <1>5, <1>8, <1>9, <1>10, <1>11, <1>12, <1>13, <1>14, <1>16, RunStep
     DEF IInv

LEMMA CancelledKeeps == ASSUME IInv, Cancelled PROVE IInv'
<1>1. /\ word = "cancelled" /\ pc.run \in Runs
      /\ UNCHANGED <<queue, gw, flight, starts, charged, counters>>
  BY Words DEF Cancelled, IInv, Handler
<1>2. PICK h \in Runs : h = pc.run
  BY <1>1
<1>3. /\ h # 0 /\ run[h] \in RunState /\ run[h].result # "rejected" /\ flight \in 0 .. NRuns
      /\ gw[h] \in {"none", "active", "released", "settled", "dismissed"}
      /\ run \in [Runs -> RunState] /\ gw = [r \in Runs |-> gw[r]]
      /\ ApprovePlaces /\ CancelPlaces /\ EndPlaces
      /\ Binds(h) /\ BeforeQueue(h) /\ Holds(h) /\ Closed(h) /\ (flight = h => Awaited(h))
      /\ BoundIn(h, {"failed"}) => BoundIn(h, Terminal)
  BY <1>2, Before
<1>4. PICK ends \in BOOLEAN : ends <=> (~pc.err /\ run[h].status \notin Terminal)
  OBVIOUS
<1>5. PICK status : status = IF ends THEN "cancelled" ELSE run[h].status
  OBVIOUS
<1>6. word' = "idle" /\ goal' = "idle" /\ pc'.run \notin Runs /\ pc' \in PcType
  BY <1>1, <1>2, Stops DEF Cancelled, Stop
<1>7. PICK record : record = IF ends THEN [run[h] EXCEPT !.status = "cancelled"] ELSE run[h]
  OBVIOUS
<1>8. run' = [run EXCEPT ![h] = record]
  BY <1>1, <1>2, <1>3, <1>4, <1>5, <1>6, <1>7 DEF Cancelled, SetRun, Here
<1>9. /\ record \in RunState
      /\ record.status = status /\ record.approval = run[h].approval /\ record.task = run[h].task
      /\ record.res = run[h].res /\ record.result = run[h].result /\ record.dfail = run[h].dfail
      /\ record.cancel = run[h].cancel /\ record.comp = run[h].comp /\ record.artifact = run[h].artifact
  BY <1>4, <1>5, <1>7, <1>3 DEF RunState, Statuses, Terminal
<1>10. /\ run'[h] = record /\ gw'[h] = gw[h] /\ charged'[h] = charged[h]
       /\ Only(h) /\ Typed
  BY <1>1, <1>3, <1>6, <1>8, <1>9, RecordStep
<1>11. /\ \A i : Bound(h, i)' <=> Bound(h, i)
       /\ \A S : BoundIn(h, S)' <=> BoundIn(h, S)
       /\ FailureFirst(h) => FailureFirst(h)'
  <2>1. run'[h].task = run[h].task /\ run'[h].dfail = run[h].dfail
    BY <1>9, <1>10
  <2>2. QED
    BY <1>1, <1>10, <2>1, After
<1>12. run[h].cancel /\ ~(flight = h /\ run[h].status = "running") /\ gw[h] # "active"
  BY <1>1, <1>2, <1>3, <1>4, <1>5, <1>6, <1>9, <1>10, <1>11 DEF CancelPlaces, Withdrawing, Releasing
<1>13. ends => BoundIn(h, Terminal)
  BY <1>1, <1>2, <1>3, <1>4, <1>5, <1>6, <1>9, <1>10, <1>11, <1>12 DEF CancelPlaces, Releasing
<1>14. Keeps(h)
  <2>1. Binds(h)'
    BY <1>1, <1>2, <1>3, <1>4, <1>5, <1>6, <1>9, <1>10, <1>11, <1>12, <1>13
       DEF Binds, InProgress, Funded, Queued, Terminal
  <2>2. BeforeQueue(h)'
    BY <1>1, <1>2, <1>3, <1>4, <1>5, <1>6, <1>9, <1>10, <1>11, <1>12, <1>13
       DEF BeforeQueue, Funded, Early, Queued, Terminal
  <2>3. Holds(h)'
    BY <1>1, <1>2, <1>3, <1>4, <1>5, <1>6, <1>9, <1>10, <1>11, <1>12, <1>13
       DEF Holds, Funded, InProgress, Spent
  <2>4. Closed(h)'
    BY <1>1, <1>2, <1>3, <1>4, <1>5, <1>6, <1>9, <1>10, <1>11, <1>12, <1>13 DEF Closed, Terminal
  <2>5. QED
    BY <2>1, <2>2, <2>3, <2>4 DEF Keeps
<1>15. NoNewFailure(h)
  BY <1>1, <1>2, <1>3, <1>4, <1>5, <1>6, <1>9, <1>10, <1>11, <1>12, <1>13
     DEF NoNewFailure, Terminal, Early
<1>16. Handler'
  BY <1>1, <1>2, <1>3, <1>4, <1>5, <1>6, <1>9, <1>10, <1>11, <1>12, <1>13
     DEF IInv, Handler, Spent, Queued, Terminal, InProgress, Approving, Compensating, Withdrawing,
         Releasing, Ending, Settling, Recording, Claiming
<1>17. Places'
  BY <1>1, <1>2, <1>3, <1>4, <1>5, <1>6, <1>9, <1>10, <1>11, <1>12, <1>13 DEF Places
<1>18. flight = h => Awaited(h)'
  BY <1>1, <1>2, <1>3, <1>4, <1>5, <1>6, <1>9, <1>10, <1>11, <1>12, <1>13
     DEF Awaited, Funded, BeforeQueue, Early
<1>19. NoneOpen' /\ Dispatch'
  BY <1>1, <1>2, <1>3, <1>4, <1>5, <1>6, <1>9, <1>10, <1>11, <1>12, <1>13, <1>18, BesideRun
     DEF Guarded
<1>20. QED
  BY <1>1, <1>2, <1>3, <1>4, <1>5, <1>6, <1>9, <1>10, <1>11, <1>12, <1>13, <1>14, <1>15, <1>16,
     <1>17, <1>19, RunStep
     DEF IInv

LEMMA AckRunKeeps == ASSUME IInv, AckRun PROVE IInv'
<1>1. /\ word = "ack_run" /\ pc.run \in Runs
      /\ UNCHANGED <<run, queue, flight, starts, charged, counters>>
  BY Words DEF AckRun, IInv, Handler
<1>2. PICK h \in Runs : h = pc.run
  BY <1>1
<1>3. /\ h # 0 /\ run[h] \in RunState /\ run[h].result # "rejected" /\ flight \in 0 .. NRuns
      /\ gw[h] \in {"none", "active", "released", "settled", "dismissed"}
      /\ run \in [Runs -> RunState] /\ gw = [r \in Runs |-> gw[r]]
      /\ ApprovePlaces /\ CancelPlaces /\ EndPlaces
      /\ Binds(h) /\ BeforeQueue(h) /\ Holds(h) /\ Closed(h) /\ (flight = h => Awaited(h))
      /\ BoundIn(h, {"failed"}) => BoundIn(h, Terminal)
  BY <1>2, Before
<1>4. PICK state : state = IF gw[h] \in {"released", "settled"} THEN "dismissed" ELSE gw[h]
  OBVIOUS
<1>5. word' = "idle" /\ goal' = "idle" /\ pc'.run \notin Runs /\ pc' \in PcType
  BY <1>1, <1>2, PollPath, Finishes, Stops DEF AckRun, IInv, Types, word, goal, left
<1>6. gw' = [gw EXCEPT ![h] = state]
  BY <1>1, <1>2, <1>3, <1>4 DEF AckRun, ReleaseTokens, Acknowledge, Here
<1>7. state \in {"none", "active", "released", "settled", "dismissed"}
  BY <1>3, <1>4
<1>8. /\ run'[h] = run[h] /\ gw'[h] = state /\ charged'[h] = charged[h]
      /\ Only(h) /\ Typed
  BY <1>1, <1>3, <1>5, <1>6, <1>7, GatewayStep
<1>9. /\ \A i : Bound(h, i)' <=> Bound(h, i)
      /\ \A S : BoundIn(h, S)' <=> BoundIn(h, S)
      /\ FailureFirst(h) => FailureFirst(h)'
  <2>1. run'[h].task = run[h].task /\ run'[h].dfail = run[h].dfail
    BY <1>8
  <2>2. QED
    BY <1>1, <1>8, <2>1, After
<1>10. Keeps(h)
  <2>1. Binds(h)'
    BY <1>1, <1>2, <1>3, <1>4, <1>5, <1>8, <1>9 DEF Binds, InProgress, Funded, Terminal
  <2>2. BeforeQueue(h)'
    BY <1>1, <1>2, <1>3, <1>4, <1>5, <1>8, <1>9
       DEF BeforeQueue, Funded, Early, Queued, EndPlaces, Ending, Terminal
  <2>3. Holds(h)'
    BY <1>1, <1>2, <1>3, <1>4, <1>5, <1>8, <1>9 DEF Holds, Funded, InProgress, Spent
  <2>4. Closed(h)'
    BY <1>1, <1>2, <1>3, <1>4, <1>5, <1>8, <1>9 DEF Closed, Terminal
  <2>5. QED
    BY <2>1, <2>2, <2>3, <2>4 DEF Keeps
<1>11. NoNewFailure(h)
  BY <1>1, <1>2, <1>3, <1>4, <1>5, <1>8, <1>9 DEF NoNewFailure, Terminal, Early
<1>12. Handler'
  BY <1>1, <1>2, <1>3, <1>4, <1>5, <1>8, <1>9
     DEF IInv, Handler, Spent, Queued, Terminal, InProgress, Approving, Compensating, Withdrawing,
         Releasing, Ending, Settling, Recording, Claiming
<1>13. Places'
  BY <1>1, <1>2, <1>3, <1>4, <1>5, <1>8, <1>9 DEF Places
<1>14. flight = 0
  BY <1>1, <1>2, <1>3, <1>4, <1>5, <1>8, <1>9
     DEF IInv, Handler, Withdrawing, Releasing, Approving, Compensating
<1>15. NoneOpen' /\ Dispatch'
  BY <1>1, <1>2, <1>3, <1>4, <1>5, <1>8, <1>9, <1>14, Quiet DEF Guarded
<1>16. QED
  BY <1>1, <1>2, <1>3, <1>4, <1>5, <1>8, <1>9, <1>14, <1>10, <1>11, <1>12, <1>13, <1>15, RunStep
     DEF IInv

LEMMA RecordResultKeeps == ASSUME IInv, RecordResult PROVE IInv'
<1>1. /\ word = "record" /\ pc.run \in Runs
      /\ UNCHANGED <<queue, gw, flight, starts, charged, counters>>
  BY Words DEF RecordResult, IInv, Handler
<1>2. PICK h \in Runs : h = pc.run
  BY <1>1
<1>3. /\ h # 0 /\ run[h] \in RunState /\ run[h].result # "rejected" /\ flight \in 0 .. NRuns
      /\ gw[h] \in {"none", "active", "released", "settled", "dismissed"}
      /\ run \in [Runs -> RunState] /\ gw = [r \in Runs |-> gw[r]]
      /\ ApprovePlaces /\ CancelPlaces /\ EndPlaces
      /\ Binds(h) /\ BeforeQueue(h) /\ Holds(h) /\ Closed(h) /\ (flight = h => Awaited(h))
      /\ BoundIn(h, {"failed"}) => BoundIn(h, Terminal)
  BY <1>2, Before
<1>4. PICK ends \in BOOLEAN : ends <=> InProgress(h)
  OBVIOUS
<1>5. PICK result : result = IF ends THEN pc.answer ELSE run[h].result
  OBVIOUS
<1>6. InProgress(h) => run[h].result = "none"
  BY <1>1, <1>2, <1>3, <1>4, <1>5 DEF IInv, NoneOpen, Recording, InProgress, Terminal
<1>7. result \in AllAnswers \cup {"none"} /\ result # "rejected" /\ (ends => result # "none")
  BY <1>1, <1>2, <1>3, <1>4, <1>5, <1>6 DEF IInv, Types, Handler, RunState
<1>8. \/ /\ InProgress(h) /\ word' = "finish" /\ goal' = "finish" /\ pc'.run = h /\ pc' \in PcType
         /\ run' = [run EXCEPT ![h] = [run[h] EXCEPT !.result = IF run[h].result = "none" THEN pc.answer ELSE run[h].result]]
      \/ ~InProgress(h) /\ UNCHANGED run /\ word' = "idle" /\ goal' = "idle" /\ pc'.run \notin Runs /\ pc' \in PcType
  BY <1>1, <1>2, <1>4, <1>5, <1>6, <1>7, Beginnings, Turns, Stops
     DEF RecordResult, Stop, Here, SetRun, IInv
<1>9. PICK record : record = IF ends THEN [run[h] EXCEPT !.result = result] ELSE run[h]
  OBVIOUS
<1>10. run' = [run EXCEPT ![h] = record]
  BY <1>1, <1>2, <1>3, <1>4, <1>5, <1>6, <1>7, <1>8, <1>9 DEF RecordResult, SetRun, Here
<1>11. /\ record \in RunState
       /\ record.status = run[h].status /\ record.approval = run[h].approval /\ record.task = run[h].task
       /\ record.res = run[h].res /\ record.result = result /\ record.dfail = run[h].dfail
       /\ record.cancel = run[h].cancel /\ record.comp = run[h].comp /\ record.artifact = run[h].artifact
  BY <1>4, <1>5, <1>6, <1>7, <1>9, <1>3 DEF RunState, Statuses, Terminal
<1>12. /\ run'[h] = record /\ gw'[h] = gw[h] /\ charged'[h] = charged[h]
       /\ Only(h) /\ Typed
  BY <1>1, <1>3, <1>4, <1>5, <1>6, <1>7, <1>8, <1>10, <1>11, RecordStep
<1>13. /\ \A i : Bound(h, i)' <=> Bound(h, i)
       /\ \A S : BoundIn(h, S)' <=> BoundIn(h, S)
       /\ FailureFirst(h) => FailureFirst(h)'
  <2>1. run'[h].task = run[h].task /\ run'[h].dfail = run[h].dfail
    BY <1>11, <1>12
  <2>2. QED
    BY <1>1, <1>12, <2>1, After
<1>14. run[h].task # 0 \/ ~InProgress(h)
  BY <1>1, <1>2, <1>3, <1>4, <1>5, <1>6, <1>7, <1>8, <1>11, <1>12, <1>13, BoundTask DEF Binds, IInv
<1>15. Awaited(h)
  BY <1>1, <1>2, <1>3, <1>4, <1>5, <1>6, <1>7, <1>8, <1>11, <1>12, <1>13, <1>14
     DEF IInv, Dispatch, Recording
<1>16. Keeps(h)
  <2>1. Binds(h)'
    BY <1>1, <1>2, <1>3, <1>4, <1>5, <1>6, <1>7, <1>8, <1>11, <1>12, <1>13, <1>14, <1>15
       DEF Binds, InProgress, Funded
  <2>2. BeforeQueue(h)'
    BY <1>1, <1>2, <1>3, <1>4, <1>5, <1>6, <1>7, <1>8, <1>11, <1>12, <1>13, <1>14, <1>15
       DEF BeforeQueue, Funded, Early, Queued, InProgress
  <2>3. Holds(h)'
    BY <1>1, <1>2, <1>3, <1>4, <1>5, <1>6, <1>7, <1>8, <1>11, <1>12, <1>13, <1>14, <1>15
       DEF Holds, Funded, InProgress, Spent, Awaited, BoundIn
  <2>4. Closed(h)'
    BY <1>1, <1>2, <1>3, <1>4, <1>5, <1>6, <1>7, <1>8, <1>11, <1>12, <1>13, <1>14, <1>15
       DEF Closed, Terminal, InProgress
  <2>5. QED
    BY <2>1, <2>2, <2>3, <2>4 DEF Keeps
<1>17. NoNewFailure(h)
  BY <1>1, <1>2, <1>3, <1>4, <1>5, <1>6, <1>7, <1>8, <1>11, <1>12, <1>13, <1>14, <1>15
     DEF NoNewFailure, Terminal, Early
<1>18. Handler'
  BY <1>1, <1>2, <1>3, <1>4, <1>5, <1>6, <1>7, <1>8, <1>11, <1>12, <1>13, <1>14, <1>15
     DEF IInv, Handler, Spent, Queued, Terminal, InProgress, Approving, Compensating, Withdrawing,
         Releasing, Ending, Settling, Recording, Claiming
<1>19. Places'
  <2>1. ApprovePlaces'
    BY <1>1, <1>2, <1>3, <1>4, <1>5, <1>6, <1>7, <1>8, <1>11, <1>12, <1>13, <1>14, <1>15
       DEF ApprovePlaces, Funded, Spent, Queued, Terminal, InProgress, Approving, Compensating,
           Withdrawing, Releasing, Ending, Settling, Recording, Claiming, Awaited, Holds
  <2>2. CancelPlaces'
    BY <1>1, <1>2, <1>3, <1>4, <1>5, <1>6, <1>7, <1>8, <1>11, <1>12, <1>13, <1>14, <1>15
       DEF CancelPlaces, Funded, Spent, Queued, Terminal, InProgress, Approving, Compensating,
           Withdrawing, Releasing, Ending, Settling, Recording, Claiming, Awaited, Holds
  <2>3. EndPlaces'
    BY <1>1, <1>2, <1>3, <1>4, <1>5, <1>6, <1>7, <1>8, <1>11, <1>12, <1>13, <1>14, <1>15
       DEF EndPlaces, Funded, Spent, Queued, Terminal, InProgress, Approving, Compensating,
           Withdrawing, Releasing, Ending, Settling, Recording, Claiming, Awaited, Holds
  <2>4. QED
    BY <2>1, <2>2, <2>3 DEF Places
<1>20. flight = 0
  BY <1>1, <1>2, <1>3, <1>4, <1>5, <1>6, <1>7, <1>8, <1>11, <1>12, <1>13, <1>14, <1>15
     DEF IInv, Handler, Withdrawing, Releasing, Approving, Compensating
<1>21. NoneOpen' /\ Dispatch'
  BY <1>1, <1>2, <1>3, <1>4, <1>5, <1>6, <1>7, <1>8, <1>11, <1>12, <1>13, <1>14, <1>15, <1>20, Quiet
     DEF Guarded
<1>22. QED
  BY <1>1, <1>2, <1>3, <1>4, <1>5, <1>6, <1>7, <1>8, <1>11, <1>12, <1>13, <1>14, <1>15, <1>20,
     <1>16, <1>17, <1>18, <1>19, <1>21, RunStep
     DEF IInv

LEMMA RecordFailureKeeps == ASSUME IInv, RecordFailure PROVE IInv'
<1>1. /\ word = "record_failure" /\ pc.run \in Runs
      /\ UNCHANGED <<queue, gw, flight, starts, charged, counters>>
  BY Words DEF RecordFailure, IInv, Handler
<1>2. PICK h \in Runs : h = pc.run
  BY <1>1
<1>3. /\ h # 0 /\ run[h] \in RunState /\ run[h].result # "rejected" /\ flight \in 0 .. NRuns
      /\ gw[h] \in {"none", "active", "released", "settled", "dismissed"}
      /\ run \in [Runs -> RunState] /\ gw = [r \in Runs |-> gw[r]]
      /\ ApprovePlaces /\ CancelPlaces /\ EndPlaces
      /\ Binds(h) /\ BeforeQueue(h) /\ Holds(h) /\ Closed(h) /\ (flight = h => Awaited(h))
      /\ BoundIn(h, {"failed"}) => BoundIn(h, Terminal)
  BY <1>2, Before
<1>4. PICK ends \in BOOLEAN : ends <=> (run[h].dfail \/ InProgress(h))
  OBVIOUS
<1>5. \/ ends /\ word' = "fail_dispatch" /\ goal' = goal /\ pc'.run = h /\ pc' \in PcType
      \/ ~ends /\ word' = "idle" /\ goal' = "idle" /\ pc'.run \notin Runs /\ pc' \in PcType
  BY <1>1, <1>2, <1>4, PollPath, Goes, Stops
     DEF RecordFailure, Stop, Here, IInv, Types, word, goal, left
<1>6. PICK record : record = IF ends THEN [run[h] EXCEPT !.dfail = TRUE] ELSE run[h]
  OBVIOUS
<1>7. run' = [run EXCEPT ![h] = record]
  BY <1>1, <1>2, <1>3, <1>4, <1>5, <1>6 DEF RecordFailure, SetRun, Here
<1>8. /\ record \in RunState
      /\ record.status = run[h].status /\ record.approval = run[h].approval /\ record.task = run[h].task
      /\ record.res = run[h].res /\ record.result = run[h].result /\ record.dfail = (ends \/ run[h].dfail)
      /\ record.cancel = run[h].cancel /\ record.comp = run[h].comp /\ record.artifact = run[h].artifact
  BY <1>4, <1>6, <1>3 DEF RunState, Statuses, Terminal
<1>9. /\ run'[h] = record /\ gw'[h] = gw[h] /\ charged'[h] = charged[h]
      /\ Only(h) /\ Typed
  BY <1>1, <1>3, <1>4, <1>5, <1>7, <1>8, RecordStep
<1>10. /\ \A i : Bound(h, i)' <=> Bound(h, i)
       /\ \A S : BoundIn(h, S)' <=> BoundIn(h, S)
  BY <1>1, <1>8, <1>9, SameTasks
<1>11. \A r \in Runs : InProgress(r) => run[r].result = "none"
  BY <1>1, <1>2, <1>3, <1>4, <1>5, <1>8, <1>9, <1>10
     DEF IInv, NoneOpen, Recording, InProgress, Terminal
<1>12. Keeps(h)
  <2>1. Binds(h)'
    BY <1>1, <1>2, <1>3, <1>4, <1>5, <1>8, <1>9, <1>10, <1>11 DEF Binds, InProgress, Funded
  <2>2. BeforeQueue(h)'
    BY <1>1, <1>2, <1>3, <1>4, <1>5, <1>8, <1>9, <1>10, <1>11
       DEF BeforeQueue, Funded, Early, Queued, InProgress
  <2>3. Holds(h)'
    BY <1>1, <1>2, <1>3, <1>4, <1>5, <1>8, <1>9, <1>10, <1>11 DEF Holds, Funded, InProgress, Spent
  <2>4. Closed(h)'
    BY <1>1, <1>2, <1>3, <1>4, <1>5, <1>8, <1>9, <1>10, <1>11 DEF Closed, Terminal
  <2>5. QED
    BY <2>1, <2>2, <2>3, <2>4 DEF Keeps
<1>13. NoNewFailure(h)
  BY <1>1, <1>2, <1>3, <1>4, <1>5, <1>8, <1>9, <1>10, <1>11 DEF NoNewFailure, Terminal, Early
<1>14. Handler'
  BY <1>1, <1>2, <1>3, <1>4, <1>5, <1>8, <1>9, <1>10, <1>11
     DEF IInv, Handler, Spent, Queued, Terminal, InProgress, Approving, Compensating, Withdrawing,
         Releasing, Ending, Settling, Recording, Claiming
<1>15. Places'
  <2>1. ApprovePlaces'
    BY <1>1, <1>2, <1>3, <1>4, <1>5, <1>8, <1>9, <1>10, <1>11
       DEF ApprovePlaces, Funded, Spent, Queued, Terminal, InProgress, Approving, Compensating,
           Withdrawing, Releasing, Ending, Settling, Recording, Claiming
  <2>2. CancelPlaces'
    BY <1>1, <1>2, <1>3, <1>4, <1>5, <1>8, <1>9, <1>10, <1>11
       DEF CancelPlaces, Funded, Spent, Queued, Terminal, InProgress, Approving, Compensating,
           Withdrawing, Releasing, Ending, Settling, Recording, Claiming
  <2>3. EndPlaces'
    BY <1>1, <1>2, <1>3, <1>4, <1>5, <1>8, <1>9, <1>10, <1>11
       DEF EndPlaces, Funded, Spent, Queued, Terminal, InProgress, Approving, Compensating,
           Withdrawing, Releasing, Ending, Settling, Recording, Claiming
  <2>4. QED
    BY <2>1, <2>2, <2>3 DEF Places
<1>16. NoneOpen' /\ Dispatch'
  <2>1. flight = 0 /\ \A r \in Runs : run[r].result # "none" => run[r].status \in Terminal
    BY <1>1, <1>2, <1>3, <1>4, <1>5, <1>8, <1>9, <1>10, <1>11
       DEF IInv, NoneOpen, Handler, Recording, Approving, Compensating, Withdrawing, Releasing
  <2>2. \A r \in Runs : run'[r].result # "none" => run'[r].status \in Terminal
    BY <1>1, <1>2, <1>3, <1>4, <1>5, <1>8, <1>9, <1>10, <1>11, <2>1 DEF Only
  <2>3. QED
    BY <1>1, <1>2, <1>3, <1>4, <1>5, <1>8, <1>9, <1>10, <1>11, <2>1, <2>2
       DEF NoneOpen, Dispatch, Claiming, Recording
<1>17. QED
  BY <1>1, <1>2, <1>3, <1>4, <1>5, <1>8, <1>9, <1>10, <1>11, <1>12, <1>13, <1>14, <1>15, <1>16,
     RunStep
     DEF IInv

LEMMA ClearResultKeeps == ASSUME IInv, ClearResult PROVE IInv'
<1>1. /\ word = "clear_result" /\ pc.run \in Runs
      /\ UNCHANGED <<queue, gw, flight, starts, charged, counters>>
  BY Words DEF ClearResult, IInv, Handler
<1>2. PICK h \in Runs : h = pc.run
  BY <1>1
<1>3. /\ h # 0 /\ run[h] \in RunState /\ run[h].result # "rejected" /\ flight \in 0 .. NRuns
      /\ gw[h] \in {"none", "active", "released", "settled", "dismissed"}
      /\ run \in [Runs -> RunState] /\ gw = [r \in Runs |-> gw[r]]
      /\ ApprovePlaces /\ CancelPlaces /\ EndPlaces
      /\ Binds(h) /\ BeforeQueue(h) /\ Holds(h) /\ Closed(h) /\ (flight = h => Awaited(h))
      /\ BoundIn(h, {"failed"}) => BoundIn(h, Terminal)
  BY <1>2, Before
<1>4. word' = "idle" /\ goal' = "idle" /\ pc'.run \notin Runs /\ pc' \in PcType
  BY <1>1, <1>2, PollPath, Finishes, Stops DEF ClearResult, IInv, Types, word, goal, left
<1>5. PICK record : record = [run[h] EXCEPT !.result = "none"]
  OBVIOUS
<1>6. run' = [run EXCEPT ![h] = record]
  BY <1>1, <1>2, <1>3, <1>4, <1>5 DEF ClearResult, SetRun, Here
<1>7. /\ record \in RunState
      /\ record.status = run[h].status /\ record.approval = run[h].approval /\ record.task = run[h].task
      /\ record.res = run[h].res /\ record.result = "none" /\ record.dfail = run[h].dfail
      /\ record.cancel = run[h].cancel /\ record.comp = run[h].comp /\ record.artifact = run[h].artifact
  BY <1>5, <1>3 DEF RunState, Statuses, Terminal
<1>8. /\ run'[h] = record /\ gw'[h] = gw[h] /\ charged'[h] = charged[h]
      /\ Only(h) /\ Typed
  BY <1>1, <1>3, <1>4, <1>6, <1>7, RecordStep
<1>9. /\ \A i : Bound(h, i)' <=> Bound(h, i)
      /\ \A S : BoundIn(h, S)' <=> BoundIn(h, S)
      /\ FailureFirst(h) => FailureFirst(h)'
  <2>1. run'[h].task = run[h].task /\ run'[h].dfail = run[h].dfail
    BY <1>7, <1>8
  <2>2. QED
    BY <1>1, <1>8, <2>1, After
<1>10. run[h].result = "failed" /\ InProgress(h) /\ (run[h].cancel \/ Funded(h))
  BY <1>1, <1>2, <1>3, <1>4, <1>7, <1>8, <1>9 DEF EndPlaces
<1>11. Keeps(h)
  <2>1. Binds(h)'
    BY <1>1, <1>2, <1>3, <1>4, <1>7, <1>8, <1>9, <1>10 DEF Binds, InProgress, Funded
  <2>2. BeforeQueue(h)'
    BY <1>1, <1>2, <1>3, <1>4, <1>7, <1>8, <1>9, <1>10
       DEF BeforeQueue, Funded, Early, Queued, InProgress
  <2>3. Holds(h)'
    BY <1>1, <1>2, <1>3, <1>4, <1>7, <1>8, <1>9, <1>10 DEF Holds, Funded, InProgress, Spent
  <2>4. Closed(h)'
    BY <1>1, <1>2, <1>3, <1>4, <1>7, <1>8, <1>9, <1>10 DEF Closed, Terminal, InProgress
  <2>5. QED
    BY <2>1, <2>2, <2>3, <2>4 DEF Keeps
<1>12. NoNewFailure(h)
  BY <1>1, <1>2, <1>3, <1>4, <1>7, <1>8, <1>9, <1>10 DEF NoNewFailure, Terminal, Early
<1>13. Handler'
  BY <1>1, <1>2, <1>3, <1>4, <1>7, <1>8, <1>9, <1>10
     DEF IInv, Handler, Spent, Queued, Terminal, InProgress, Approving, Compensating, Withdrawing,
         Releasing, Ending, Settling, Recording, Claiming
<1>14. Places'
  BY <1>1, <1>2, <1>3, <1>4, <1>7, <1>8, <1>9, <1>10 DEF Places
<1>15. flight = 0
  BY <1>1, <1>2, <1>3, <1>4, <1>7, <1>8, <1>9, <1>10
     DEF IInv, Handler, Withdrawing, Releasing, Approving, Compensating
<1>16. NoneOpen' /\ Dispatch'
  BY <1>1, <1>2, <1>3, <1>4, <1>7, <1>8, <1>9, <1>10, <1>15, Quiet DEF Guarded
<1>17. QED
  BY <1>1, <1>2, <1>3, <1>4, <1>7, <1>8, <1>9, <1>10, <1>15, <1>11, <1>12, <1>13, <1>14, <1>16,
     RunStep
     DEF IInv

LEMMA SettleKeeps == ASSUME IInv, Settle PROVE IInv'
<1>1. /\ word = "settle" /\ pc.run \in Runs
      /\ UNCHANGED <<run, queue, flight, starts, counters>>
  BY Words DEF Settle, IInv, Handler
<1>2. PICK h \in Runs : h = pc.run
  BY <1>1
<1>3. /\ h # 0 /\ run[h] \in RunState /\ run[h].result # "rejected" /\ flight \in 0 .. NRuns
      /\ gw[h] \in {"none", "active", "released", "settled", "dismissed"}
      /\ run \in [Runs -> RunState] /\ gw = [r \in Runs |-> gw[r]]
      /\ ApprovePlaces /\ CancelPlaces /\ EndPlaces
      /\ Binds(h) /\ BeforeQueue(h) /\ Holds(h) /\ Closed(h) /\ (flight = h => Awaited(h))
      /\ BoundIn(h, {"failed"}) => BoundIn(h, Terminal)
  BY <1>2, Before
<1>4. PICK ends \in BOOLEAN : ends <=> (run[h].res = "active" /\ gw[h] = "active")
  OBVIOUS
<1>5. PICK state : state = IF ends THEN "settled" ELSE gw[h]
  OBVIOUS
<1>6. PICK charge : charge = IF ends THEN charged[h] + 1 ELSE charged[h]
  OBVIOUS
<1>7. \/ /\ word' = "mark_settled" /\ goal' = goal /\ pc'.run = h /\ pc' \in PcType
         /\ run[h].res = "active" => gw[h] \in {"active", "settled"}
      \/ word' = "idle" /\ goal' = "idle" /\ pc'.run \notin Runs /\ pc' \in PcType
  BY <1>1, <1>2, <1>4, <1>5, <1>6, SettlePath, Goes, Stops
     DEF Settle, Stop, Here, IInv, Types, word, goal, left
<1>8. gw' = [gw EXCEPT ![h] = state]
  BY <1>1, <1>2, <1>3, <1>4, <1>5, <1>6 DEF Settle, ReleaseTokens, Acknowledge, Here
<1>9. state \in {"none", "active", "released", "settled", "dismissed"}
  BY <1>3, <1>4, <1>5, <1>6
<1>10. charge \in Nat /\ charged' = [charged EXCEPT ![h] = charge]
  BY <1>1, <1>2, <1>3, <1>4, <1>5, <1>6 DEF IInv, Types, Settle, Here
<1>11. /\ run'[h] = run[h] /\ gw'[h] = state /\ charged'[h] = charge
       /\ Only(h) /\ Typed
  BY <1>1, <1>3, <1>7, <1>8, <1>9, <1>10, SettleStep
<1>12. /\ \A i : Bound(h, i)' <=> Bound(h, i)
       /\ \A S : BoundIn(h, S)' <=> BoundIn(h, S)
       /\ FailureFirst(h) => FailureFirst(h)'
  <2>1. run'[h].task = run[h].task /\ run'[h].dfail = run[h].dfail
    BY <1>11
  <2>2. QED
    BY <1>1, <1>11, <2>1, After
<1>13. /\ run[h].status \in Queued /\ run[h].task # 0
       /\ run[h].res \in {"active", "released", "settled"}
  BY <1>1, <1>2, <1>3, <1>4, <1>5, <1>6, <1>7, <1>11, <1>12
     DEF EndPlaces, Ending, Settling, Binds, RunState
<1>14. goal \in {"complete_run", "end_cancelled", "fail_run"}
  BY <1>1, <1>2, <1>3, <1>4, <1>5, <1>6, <1>7, <1>11, <1>12, <1>13 DEF EndPlaces, Settling
<1>15. charged[h] = IF ends THEN 0 ELSE charged[h]
  BY <1>1, <1>2, <1>3, <1>4, <1>5, <1>6, <1>7, <1>11, <1>12, <1>13, <1>14 DEF Binds
<1>16. Keeps(h)
  <2>1. Binds(h)'
    BY <1>1, <1>2, <1>3, <1>4, <1>5, <1>6, <1>7, <1>11, <1>12, <1>13, <1>14, <1>15
       DEF Binds, InProgress, Funded, Terminal
  <2>2. BeforeQueue(h)'
    BY <1>1, <1>2, <1>3, <1>4, <1>5, <1>6, <1>7, <1>11, <1>12, <1>13, <1>14, <1>15
       DEF BeforeQueue, Funded, Early, Queued, Terminal
  <2>3. Holds(h)'
    BY <1>1, <1>2, <1>3, <1>4, <1>5, <1>6, <1>7, <1>11, <1>12, <1>13, <1>14, <1>15
       DEF Holds, Funded, InProgress, Spent, EndPlaces, Settling
  <2>4. Closed(h)'
    BY <1>1, <1>2, <1>3, <1>4, <1>5, <1>6, <1>7, <1>11, <1>12, <1>13, <1>14, <1>15
       DEF Closed, Terminal
  <2>5. QED
    BY <2>1, <2>2, <2>3, <2>4 DEF Keeps
<1>17. NoNewFailure(h)
  BY <1>1, <1>2, <1>3, <1>4, <1>5, <1>6, <1>7, <1>11, <1>12, <1>13, <1>14, <1>15
     DEF NoNewFailure, Terminal, Early
<1>18. Handler'
  BY <1>1, <1>2, <1>3, <1>4, <1>5, <1>6, <1>7, <1>11, <1>12, <1>13, <1>14, <1>15
     DEF IInv, Handler, Spent, Queued, Terminal, InProgress, Approving, Compensating, Withdrawing,
         Releasing, Ending, Settling, Recording, Claiming
<1>19. Places'
  <2>1. ApprovePlaces'
    BY <1>1, <1>2, <1>3, <1>4, <1>5, <1>6, <1>7, <1>11, <1>12, <1>13, <1>14, <1>15
       DEF ApprovePlaces, Funded, Spent, Queued, Terminal, InProgress, Approving, Compensating,
           Withdrawing, Releasing, Ending, Settling, Recording, Claiming
  <2>2. CancelPlaces'
    BY <1>1, <1>2, <1>3, <1>4, <1>5, <1>6, <1>7, <1>11, <1>12, <1>13, <1>14, <1>15
       DEF CancelPlaces, Funded, Spent, Queued, Terminal, InProgress, Approving, Compensating,
           Withdrawing, Releasing, Ending, Settling, Recording, Claiming
  <2>3. EndPlaces'
    BY <1>1, <1>2, <1>3, <1>4, <1>5, <1>6, <1>7, <1>11, <1>12, <1>13, <1>14, <1>15
       DEF EndPlaces, Funded, Spent, Queued, Terminal, InProgress, Approving, Compensating,
           Withdrawing, Releasing, Ending, Settling, Recording, Claiming
  <2>4. QED
    BY <2>1, <2>2, <2>3 DEF Places
<1>20. flight = 0
  BY <1>1, <1>2, <1>3, <1>4, <1>5, <1>6, <1>7, <1>11, <1>12, <1>13, <1>14, <1>15
     DEF IInv, Handler, Withdrawing, Releasing, Approving, Compensating
<1>21. NoneOpen' /\ Dispatch'
  BY <1>1, <1>2, <1>3, <1>4, <1>5, <1>6, <1>7, <1>11, <1>12, <1>13, <1>14, <1>15, <1>20, Quiet
     DEF Guarded
<1>22. QED
  BY <1>1, <1>2, <1>3, <1>4, <1>5, <1>6, <1>7, <1>11, <1>12, <1>13, <1>14, <1>15, <1>20, <1>16,
     <1>17, <1>18, <1>19, <1>21, RunStep
     DEF IInv

LEMMA MarkSettledKeeps == ASSUME IInv, MarkSettled PROVE IInv'
<1>1. /\ word = "mark_settled" /\ pc.run \in Runs
      /\ UNCHANGED <<queue, gw, flight, starts, charged, counters>>
  BY Words DEF MarkSettled, IInv, Handler
<1>2. PICK h \in Runs : h = pc.run
  BY <1>1
<1>3. /\ h # 0 /\ run[h] \in RunState /\ run[h].result # "rejected" /\ flight \in 0 .. NRuns
      /\ gw[h] \in {"none", "active", "released", "settled", "dismissed"}
      /\ run \in [Runs -> RunState] /\ gw = [r \in Runs |-> gw[r]]
      /\ ApprovePlaces /\ CancelPlaces /\ EndPlaces
      /\ Binds(h) /\ BeforeQueue(h) /\ Holds(h) /\ Closed(h) /\ (flight = h => Awaited(h))
      /\ BoundIn(h, {"failed"}) => BoundIn(h, Terminal)
  BY <1>2, Before
<1>4. PICK res : res = IF run[h].res = "active" THEN "settled" ELSE run[h].res
  OBVIOUS
<1>5. word' = "artifact" /\ goal' = goal /\ pc'.run = h /\ pc' \in PcType
  BY <1>1, <1>2, <1>4, MarkSettledPath, Goes DEF MarkSettled, IInv, Types, word, goal, left
<1>6. PICK record : record = [run[h] EXCEPT !.res = res]
  OBVIOUS
<1>7. run' = [run EXCEPT ![h] = record]
  BY <1>1, <1>2, <1>3, <1>4, <1>5, <1>6 DEF MarkSettled, SetRun, Here
<1>8. /\ record \in RunState
      /\ record.status = run[h].status /\ record.approval = run[h].approval /\ record.task = run[h].task
      /\ record.res = res /\ record.result = run[h].result /\ record.dfail = run[h].dfail
      /\ record.cancel = run[h].cancel /\ record.comp = run[h].comp /\ record.artifact = run[h].artifact
  BY <1>4, <1>6, <1>3 DEF RunState, Statuses, Terminal
<1>9. /\ run'[h] = record /\ gw'[h] = gw[h] /\ charged'[h] = charged[h]
      /\ Only(h) /\ Typed
  BY <1>1, <1>3, <1>4, <1>5, <1>7, <1>8, RecordStep
<1>10. /\ \A i : Bound(h, i)' <=> Bound(h, i)
       /\ \A S : BoundIn(h, S)' <=> BoundIn(h, S)
       /\ FailureFirst(h) => FailureFirst(h)'
  <2>1. run'[h].task = run[h].task /\ run'[h].dfail = run[h].dfail
    BY <1>8, <1>9
  <2>2. QED
    BY <1>1, <1>9, <2>1, After
<1>11. /\ run[h].status \in Queued /\ run[h].task # 0
       /\ run[h].res \in {"active", "released", "settled"}
  BY <1>1, <1>2, <1>3, <1>4, <1>5, <1>8, <1>9, <1>10
     DEF EndPlaces, Ending, Settling, Binds, RunState
<1>12. goal \in {"complete_run", "end_cancelled", "fail_run"}
  BY <1>1, <1>2, <1>3, <1>4, <1>5, <1>8, <1>9, <1>10, <1>11 DEF EndPlaces, Settling
<1>13. Keeps(h)
  <2>1. Binds(h)'
    BY <1>1, <1>2, <1>3, <1>4, <1>5, <1>8, <1>9, <1>10, <1>11, <1>12
       DEF Binds, InProgress, Funded, EndPlaces
  <2>2. BeforeQueue(h)'
    BY <1>1, <1>2, <1>3, <1>4, <1>5, <1>8, <1>9, <1>10, <1>11, <1>12
       DEF BeforeQueue, Funded, Early, Queued, Terminal
  <2>3. Holds(h)'
    BY <1>1, <1>2, <1>3, <1>4, <1>5, <1>8, <1>9, <1>10, <1>11, <1>12
       DEF Holds, Funded, InProgress, Spent, EndPlaces, Settling
  <2>4. Closed(h)'
    BY <1>1, <1>2, <1>3, <1>4, <1>5, <1>8, <1>9, <1>10, <1>11, <1>12 DEF Closed, Terminal
  <2>5. QED
    BY <2>1, <2>2, <2>3, <2>4 DEF Keeps
<1>14. NoNewFailure(h)
  BY <1>1, <1>2, <1>3, <1>4, <1>5, <1>8, <1>9, <1>10, <1>11, <1>12 DEF NoNewFailure, Terminal, Early
<1>15. Handler'
  BY <1>1, <1>2, <1>3, <1>4, <1>5, <1>8, <1>9, <1>10, <1>11, <1>12
     DEF IInv, Handler, Spent, Queued, Terminal, InProgress, Approving, Compensating, Withdrawing,
         Releasing, Ending, Settling, Recording, Claiming
<1>16. Places'
  <2>1. ApprovePlaces'
    BY <1>1, <1>2, <1>3, <1>4, <1>5, <1>8, <1>9, <1>10, <1>11, <1>12
       DEF ApprovePlaces, Funded, Spent, Queued, Terminal, InProgress, Approving, Compensating,
           Withdrawing, Releasing, Ending, Settling, Recording, Claiming
  <2>2. CancelPlaces'
    BY <1>1, <1>2, <1>3, <1>4, <1>5, <1>8, <1>9, <1>10, <1>11, <1>12
       DEF CancelPlaces, Funded, Spent, Queued, Terminal, InProgress, Approving, Compensating,
           Withdrawing, Releasing, Ending, Settling, Recording, Claiming
  <2>3. EndPlaces'
    BY <1>1, <1>2, <1>3, <1>4, <1>5, <1>8, <1>9, <1>10, <1>11, <1>12
       DEF EndPlaces, Funded, Spent, Queued, Terminal, InProgress, Approving, Compensating,
           Withdrawing, Releasing, Ending, Settling, Recording, Claiming
  <2>4. QED
    BY <2>1, <2>2, <2>3 DEF Places
<1>17. flight = 0
  BY <1>1, <1>2, <1>3, <1>4, <1>5, <1>8, <1>9, <1>10, <1>11, <1>12
     DEF IInv, Handler, Withdrawing, Releasing, Approving, Compensating
<1>18. NoneOpen' /\ Dispatch'
  BY <1>1, <1>2, <1>3, <1>4, <1>5, <1>8, <1>9, <1>10, <1>11, <1>12, <1>17, Quiet DEF Guarded
<1>19. QED
  BY <1>1, <1>2, <1>3, <1>4, <1>5, <1>8, <1>9, <1>10, <1>11, <1>12, <1>17, <1>13, <1>14, <1>15,
     <1>16, <1>18, RunStep
     DEF IInv

LEMMA AppendArtifactKeeps == ASSUME IInv, AppendArtifact PROVE IInv'
<1>1. /\ word = "artifact" /\ pc.run \in Runs
      /\ UNCHANGED <<queue, gw, flight, starts, charged, counters>>
  BY Words DEF AppendArtifact, IInv, Handler
<1>2. PICK h \in Runs : h = pc.run
  BY <1>1
<1>3. /\ h # 0 /\ run[h] \in RunState /\ run[h].result # "rejected" /\ flight \in 0 .. NRuns
      /\ gw[h] \in {"none", "active", "released", "settled", "dismissed"}
      /\ run \in [Runs -> RunState] /\ gw = [r \in Runs |-> gw[r]]
      /\ ApprovePlaces /\ CancelPlaces /\ EndPlaces
      /\ Binds(h) /\ BeforeQueue(h) /\ Holds(h) /\ Closed(h) /\ (flight = h => Awaited(h))
      /\ BoundIn(h, {"failed"}) => BoundIn(h, Terminal)
  BY <1>2, Before
<1>4. word' = goal /\ goal' = goal /\ pc'.run = h /\ pc' \in PcType /\ goal \in {"complete_run", "end_cancelled", "fail_run"}
  BY <1>1, <1>2, ArtifactPath, Goes DEF AppendArtifact, IInv, Types, word, goal, left
<1>5. PICK record : record = [run[h] EXCEPT !.artifact = TRUE]
  OBVIOUS
<1>6. run' = [run EXCEPT ![h] = record]
  BY <1>1, <1>2, <1>3, <1>4, <1>5 DEF AppendArtifact, SetRun, Here
<1>7. /\ record \in RunState
      /\ record.status = run[h].status /\ record.approval = run[h].approval /\ record.task = run[h].task
      /\ record.res = run[h].res /\ record.result = run[h].result /\ record.dfail = run[h].dfail
      /\ record.cancel = run[h].cancel /\ record.comp = run[h].comp /\ record.artifact = TRUE
  BY <1>5, <1>3 DEF RunState, Statuses, Terminal
<1>8. /\ run'[h] = record /\ gw'[h] = gw[h] /\ charged'[h] = charged[h]
      /\ Only(h) /\ Typed
  BY <1>1, <1>3, <1>4, <1>6, <1>7, RecordStep
<1>9. /\ \A i : Bound(h, i)' <=> Bound(h, i)
      /\ \A S : BoundIn(h, S)' <=> BoundIn(h, S)
      /\ FailureFirst(h) => FailureFirst(h)'
  <2>1. run'[h].task = run[h].task /\ run'[h].dfail = run[h].dfail
    BY <1>7, <1>8
  <2>2. QED
    BY <1>1, <1>8, <2>1, After
<1>10. Keeps(h)
  <2>1. Binds(h)'
    BY <1>1, <1>2, <1>3, <1>4, <1>7, <1>8, <1>9 DEF Binds, InProgress, Funded
  <2>2. BeforeQueue(h)'
    BY <1>1, <1>2, <1>3, <1>4, <1>7, <1>8, <1>9 DEF BeforeQueue, Funded, Early, Queued, Terminal
  <2>3. Holds(h)'
    BY <1>1, <1>2, <1>3, <1>4, <1>7, <1>8, <1>9 DEF Holds, Funded, InProgress, Spent
  <2>4. Closed(h)'
    BY <1>1, <1>2, <1>3, <1>4, <1>7, <1>8, <1>9 DEF Closed, Terminal
  <2>5. QED
    BY <2>1, <2>2, <2>3, <2>4 DEF Keeps
<1>11. NoNewFailure(h)
  BY <1>1, <1>2, <1>3, <1>4, <1>7, <1>8, <1>9 DEF NoNewFailure, Terminal, Early
<1>12. Handler'
  BY <1>1, <1>2, <1>3, <1>4, <1>7, <1>8, <1>9
     DEF IInv, Handler, Spent, Queued, Terminal, InProgress, Approving, Compensating, Withdrawing,
         Releasing, Ending, Settling, Recording, Claiming
<1>13. Places'
  <2>1. ApprovePlaces'
    BY <1>1, <1>2, <1>3, <1>4, <1>7, <1>8, <1>9
       DEF ApprovePlaces, Funded, Spent, Queued, Terminal, InProgress, Approving, Compensating,
           Withdrawing, Releasing, Ending, Settling, Recording, Claiming
  <2>2. CancelPlaces'
    BY <1>1, <1>2, <1>3, <1>4, <1>7, <1>8, <1>9
       DEF CancelPlaces, Funded, Spent, Queued, Terminal, InProgress, Approving, Compensating,
           Withdrawing, Releasing, Ending, Settling, Recording, Claiming
  <2>3. EndPlaces'
    BY <1>1, <1>2, <1>3, <1>4, <1>7, <1>8, <1>9
       DEF EndPlaces, Funded, Spent, Queued, Terminal, InProgress, Approving, Compensating,
           Withdrawing, Releasing, Ending, Settling, Recording, Claiming
  <2>4. QED
    BY <2>1, <2>2, <2>3 DEF Places
<1>14. flight = 0
  BY <1>1, <1>2, <1>3, <1>4, <1>7, <1>8, <1>9
     DEF IInv, Handler, Withdrawing, Releasing, Approving, Compensating
<1>15. NoneOpen' /\ Dispatch'
  BY <1>1, <1>2, <1>3, <1>4, <1>7, <1>8, <1>9, <1>14, Quiet DEF Guarded
<1>16. QED
  BY <1>1, <1>2, <1>3, <1>4, <1>7, <1>8, <1>9, <1>14, <1>10, <1>11, <1>12, <1>13, <1>15, RunStep
     DEF IInv

LEMMA EndCancelledKeeps == ASSUME IInv, EndCancelled PROVE IInv'
<1>1. /\ word = "end_cancelled" /\ pc.run \in Runs
      /\ UNCHANGED <<queue, gw, flight, starts, charged, counters>>
  BY Words DEF EndCancelled, IInv, Handler
<1>2. PICK h \in Runs : h = pc.run
  BY <1>1
<1>3. /\ h # 0 /\ run[h] \in RunState /\ run[h].result # "rejected" /\ flight \in 0 .. NRuns
      /\ gw[h] \in {"none", "active", "released", "settled", "dismissed"}
      /\ run \in [Runs -> RunState] /\ gw = [r \in Runs |-> gw[r]]
      /\ ApprovePlaces /\ CancelPlaces /\ EndPlaces
      /\ Binds(h) /\ BeforeQueue(h) /\ Holds(h) /\ Closed(h) /\ (flight = h => Awaited(h))
      /\ BoundIn(h, {"failed"}) => BoundIn(h, Terminal)
  BY <1>2, Before
<1>4. PICK ends \in BOOLEAN : ends <=> (run[h].status \notin Terminal)
  OBVIOUS
<1>5. PICK status : status = IF ends THEN "cancelled" ELSE run[h].status
  OBVIOUS
<1>6. \/ word' = "ack_run" /\ goal' = "ack_run" /\ pc'.run = h /\ pc' \in PcType
      \/ word' = "idle" /\ goal' = "idle" /\ pc'.run \notin Runs /\ pc' \in PcType
  BY <1>1, <1>2, <1>4, <1>5, Acknowledges, Stops
     DEF EndCancelled, Stop, Here, Continue, IInv, Types, word, goal, left
<1>7. PICK record : record = IF ends THEN [run[h] EXCEPT !.status = "cancelled"] ELSE run[h]
  OBVIOUS
<1>8. run' = [run EXCEPT ![h] = record]
  BY <1>1, <1>2, <1>3, <1>4, <1>5, <1>6, <1>7 DEF EndCancelled, SetRun, Here
<1>9. /\ record \in RunState
      /\ record.status = status /\ record.approval = run[h].approval /\ record.task = run[h].task
      /\ record.res = run[h].res /\ record.result = run[h].result /\ record.dfail = run[h].dfail
      /\ record.cancel = run[h].cancel /\ record.comp = run[h].comp /\ record.artifact = run[h].artifact
  BY <1>4, <1>5, <1>7, <1>3 DEF RunState, Statuses, Terminal
<1>10. /\ run'[h] = record /\ gw'[h] = gw[h] /\ charged'[h] = charged[h]
       /\ Only(h) /\ Typed
  BY <1>1, <1>3, <1>4, <1>5, <1>6, <1>8, <1>9, RecordStep
<1>11. /\ \A i : Bound(h, i)' <=> Bound(h, i)
       /\ \A S : BoundIn(h, S)' <=> BoundIn(h, S)
       /\ FailureFirst(h) => FailureFirst(h)'
  <2>1. run'[h].task = run[h].task /\ run'[h].dfail = run[h].dfail
    BY <1>9, <1>10
  <2>2. QED
    BY <1>1, <1>10, <2>1, After
<1>12. /\ run[h].res \in {"released", "settled"} /\ BoundIn(h, Terminal)
       /\ run[h].status \in Queued /\ run[h].task # 0
  BY <1>1, <1>2, <1>3, <1>4, <1>5, <1>6, <1>9, <1>10, <1>11 DEF EndPlaces, Ending
<1>13. Keeps(h)
  <2>1. Binds(h)'
    BY <1>1, <1>2, <1>3, <1>4, <1>5, <1>6, <1>9, <1>10, <1>11, <1>12
       DEF Binds, InProgress, Funded, Queued, Terminal
  <2>2. BeforeQueue(h)'
    BY <1>1, <1>2, <1>3, <1>4, <1>5, <1>6, <1>9, <1>10, <1>11, <1>12
       DEF BeforeQueue, Funded, Early, Queued, Terminal
  <2>3. Holds(h)'
    BY <1>1, <1>2, <1>3, <1>4, <1>5, <1>6, <1>9, <1>10, <1>11, <1>12
       DEF Holds, Funded, InProgress, Spent, Terminal
  <2>4. Closed(h)'
    BY <1>1, <1>2, <1>3, <1>4, <1>5, <1>6, <1>9, <1>10, <1>11, <1>12 DEF Closed, Terminal
  <2>5. QED
    BY <2>1, <2>2, <2>3, <2>4 DEF Keeps
<1>14. NoNewFailure(h)
  BY <1>1, <1>2, <1>3, <1>4, <1>5, <1>6, <1>9, <1>10, <1>11, <1>12 DEF NoNewFailure, Terminal, Early
<1>15. Handler'
  BY <1>1, <1>2, <1>3, <1>4, <1>5, <1>6, <1>9, <1>10, <1>11, <1>12
     DEF IInv, Handler, Spent, Queued, Terminal, InProgress, Approving, Compensating, Withdrawing,
         Releasing, Ending, Settling, Recording, Claiming
<1>16. Places'
  <2>1. ApprovePlaces'
    BY <1>1, <1>2, <1>3, <1>4, <1>5, <1>6, <1>9, <1>10, <1>11, <1>12
       DEF ApprovePlaces, Funded, Spent, Queued, Terminal, InProgress, Approving, Compensating,
           Withdrawing, Releasing, Ending, Settling, Recording, Claiming
  <2>2. CancelPlaces'
    BY <1>1, <1>2, <1>3, <1>4, <1>5, <1>6, <1>9, <1>10, <1>11, <1>12
       DEF CancelPlaces, Funded, Spent, Queued, Terminal, InProgress, Approving, Compensating,
           Withdrawing, Releasing, Ending, Settling, Recording, Claiming
  <2>3. EndPlaces'
    BY <1>1, <1>2, <1>3, <1>4, <1>5, <1>6, <1>9, <1>10, <1>11, <1>12
       DEF EndPlaces, Funded, Spent, Queued, Terminal, InProgress, Approving, Compensating,
           Withdrawing, Releasing, Ending, Settling, Recording, Claiming
  <2>4. QED
    BY <2>1, <2>2, <2>3 DEF Places
<1>17. flight = 0
  BY <1>1, <1>2, <1>3, <1>4, <1>5, <1>6, <1>9, <1>10, <1>11, <1>12
     DEF IInv, Handler, Withdrawing, Releasing, Approving, Compensating
<1>18. NoneOpen' /\ Dispatch'
  BY <1>1, <1>2, <1>3, <1>4, <1>5, <1>6, <1>9, <1>10, <1>11, <1>12, <1>17, Quiet DEF Guarded
<1>19. QED
  BY <1>1, <1>2, <1>3, <1>4, <1>5, <1>6, <1>9, <1>10, <1>11, <1>12, <1>17, <1>13, <1>14, <1>15,
     <1>16, <1>18, RunStep
     DEF IInv

LEMMA CompleteRunKeeps == ASSUME IInv, CompleteRun PROVE IInv'
<1>1. /\ word = "complete_run" /\ pc.run \in Runs
      /\ UNCHANGED <<queue, gw, flight, starts, charged, counters>>
  BY Words DEF CompleteRun, Finalize, InProgress, IInv, Handler
<1>2. PICK h \in Runs : h = pc.run
  BY <1>1
<1>3. /\ h # 0 /\ run[h] \in RunState /\ run[h].result # "rejected" /\ flight \in 0 .. NRuns
      /\ gw[h] \in {"none", "active", "released", "settled", "dismissed"}
      /\ run \in [Runs -> RunState] /\ gw = [r \in Runs |-> gw[r]]
      /\ ApprovePlaces /\ CancelPlaces /\ EndPlaces
      /\ Binds(h) /\ BeforeQueue(h) /\ Holds(h) /\ Closed(h) /\ (flight = h => Awaited(h))
      /\ BoundIn(h, {"failed"}) => BoundIn(h, Terminal)
  BY <1>2, Before
<1>4. PICK status : status = IF run[h].status = "queued" THEN "running" ELSE IF run[h].status = "running" THEN "completed" ELSE run[h].status
  OBVIOUS
<1>5. \/ run[h].status = "queued" /\ word' = "complete_run" /\ goal' = goal /\ pc'.run = h /\ pc' \in PcType
      \/ word' = "ack_run" /\ goal' = "ack_run" /\ pc'.run = h /\ pc' \in PcType
      \/ word' = "idle" /\ goal' = "idle" /\ pc'.run \notin Runs /\ pc' \in PcType
  BY <1>1, <1>2, <1>4, Acknowledges, Stops
     DEF CompleteRun, Finalize, Stop, Here, Continue, PcType, IInv, Types, word, goal, left
<1>6. PICK record : record = IF InProgress(h) THEN [run[h] EXCEPT !.status = status] ELSE run[h]
  OBVIOUS
<1>7. run' = [run EXCEPT ![h] = record]
  BY <1>1, <1>2, <1>3, <1>4, <1>5, <1>6 DEF CompleteRun, Finalize, InProgress, SetRun, Here
<1>8. /\ record \in RunState
      /\ record.status = status /\ record.approval = run[h].approval /\ record.task = run[h].task
      /\ record.res = run[h].res /\ record.result = run[h].result /\ record.dfail = run[h].dfail
      /\ record.cancel = run[h].cancel /\ record.comp = run[h].comp /\ record.artifact = run[h].artifact
  BY <1>4, <1>6, <1>3 DEF RunState, Statuses, Terminal, InProgress
<1>9. /\ run'[h] = record /\ gw'[h] = gw[h] /\ charged'[h] = charged[h]
      /\ Only(h) /\ Typed
  BY <1>1, <1>3, <1>4, <1>5, <1>7, <1>8, RecordStep
<1>10. /\ \A i : Bound(h, i)' <=> Bound(h, i)
       /\ \A S : BoundIn(h, S)' <=> BoundIn(h, S)
       /\ FailureFirst(h) => FailureFirst(h)'
  <2>1. run'[h].task = run[h].task /\ run'[h].dfail = run[h].dfail
    BY <1>8, <1>9
  <2>2. QED
    BY <1>1, <1>9, <2>1, After
<1>11. /\ run[h].res \in {"released", "settled"} /\ goal = "complete_run"
       /\ run[h].status \in Queued /\ run[h].task # 0
  BY <1>1, <1>2, <1>3, <1>4, <1>5, <1>8, <1>9, <1>10, PollPath
     DEF EndPlaces, Ending, IInv, Types, word, goal
<1>12. run[h].result = "ok" /\ run[h].artifact /\ (InProgress(h) => run[h].res = "settled")
  BY <1>1, <1>2, <1>3, <1>4, <1>5, <1>8, <1>9, <1>10, <1>11 DEF EndPlaces
<1>13. word' = "complete_run" =>
         /\ run'[h].status = "running" /\ run'[h].res = "settled" /\ run'[h].artifact
         /\ run'[h].result = "ok" /\ run'[h].task # 0 /\ ~run'[h].cancel
  BY <1>1, <1>2, <1>3, <1>4, <1>5, <1>8, <1>9, <1>10, <1>11, <1>12 DEF InProgress, EndPlaces
<1>14. Keeps(h)
  <2>1. Binds(h)'
    <3>1. CASE InProgress(h)
      BY <1>1, <1>2, <1>3, <1>4, <1>5, <1>8, <1>9, <1>10, <1>11, <1>12, <1>13, <3>1
         DEF Binds, InProgress, Funded, Queued, Terminal
    <3>2. CASE ~InProgress(h)
      BY <1>1, <1>2, <1>3, <1>4, <1>5, <1>8, <1>9, <1>10, <1>11, <1>12, <1>13, <3>2
         DEF Binds, InProgress, Funded, Queued, Terminal
    <3>3. QED
      BY <3>1, <3>2
  <2>2. BeforeQueue(h)'
    BY <1>1, <1>2, <1>3, <1>4, <1>5, <1>8, <1>9, <1>10, <1>11, <1>12, <1>13
       DEF BeforeQueue, Funded, Early, Queued, Terminal
  <2>3. Holds(h)'
    BY <1>1, <1>2, <1>3, <1>4, <1>5, <1>8, <1>9, <1>10, <1>11, <1>12, <1>13
       DEF Holds, Funded, InProgress, Spent, Terminal
  <2>4. Closed(h)'
    BY <1>1, <1>2, <1>3, <1>4, <1>5, <1>8, <1>9, <1>10, <1>11, <1>12, <1>13
       DEF Closed, Terminal, InProgress
  <2>5. QED
    BY <2>1, <2>2, <2>3, <2>4 DEF Keeps
<1>15. NoNewFailure(h)
  BY <1>1, <1>2, <1>3, <1>4, <1>5, <1>8, <1>9, <1>10, <1>11, <1>12, <1>13
     DEF NoNewFailure, Terminal, Early
<1>16. Handler'
  BY <1>1, <1>2, <1>3, <1>4, <1>5, <1>8, <1>9, <1>10, <1>11, <1>12, <1>13
     DEF IInv, Handler, Spent, Queued, Terminal, InProgress, Approving, Compensating, Withdrawing,
         Releasing, Ending, Settling, Recording, Claiming
<1>17. Places'
  <2>1. ApprovePlaces'
    BY <1>1, <1>2, <1>3, <1>4, <1>5, <1>8, <1>9, <1>10, <1>11, <1>12, <1>13
       DEF ApprovePlaces, Funded, Spent, Queued, Terminal, InProgress, Approving, Compensating,
           Withdrawing, Releasing, Ending, Settling, Recording, Claiming
  <2>2. CancelPlaces'
    BY <1>1, <1>2, <1>3, <1>4, <1>5, <1>8, <1>9, <1>10, <1>11, <1>12, <1>13
       DEF CancelPlaces, Funded, Spent, Queued, Terminal, InProgress, Approving, Compensating,
           Withdrawing, Releasing, Ending, Settling, Recording, Claiming
  <2>3. EndPlaces'
    <3>1. CASE word' = "complete_run"
      BY <1>1, <1>2, <1>3, <1>4, <1>5, <1>8, <1>9, <1>10, <1>11, <1>12, <1>13, <3>1
         DEF EndPlaces, Funded, Spent, Queued, Terminal, InProgress, Approving, Compensating,
             Withdrawing, Releasing, Ending, Settling, Recording, Claiming
    <3>2. CASE word' \in {"ack_run", "idle"}
      BY <1>1, <1>2, <1>3, <1>4, <1>5, <1>8, <1>9, <1>10, <1>11, <1>12, <1>13, <3>2
         DEF EndPlaces, Funded, Spent, Queued, Terminal, InProgress, Approving, Compensating,
             Withdrawing, Releasing, Ending, Settling, Recording, Claiming
    <3>3. QED
      BY <1>5, <3>1, <3>2
  <2>4. QED
    BY <2>1, <2>2, <2>3 DEF Places
<1>18. flight = 0
  BY <1>1, <1>2, <1>3, <1>4, <1>5, <1>8, <1>9, <1>10, <1>11, <1>12, <1>13
     DEF IInv, Handler, Withdrawing, Releasing, Approving, Compensating
<1>19. NoneOpen' /\ Dispatch'
  BY <1>1, <1>2, <1>3, <1>4, <1>5, <1>8, <1>9, <1>10, <1>11, <1>12, <1>13, <1>18, Quiet DEF Guarded
<1>20. QED
  BY <1>1, <1>2, <1>3, <1>4, <1>5, <1>8, <1>9, <1>10, <1>11, <1>12, <1>13, <1>18, <1>14, <1>15,
     <1>16, <1>17, <1>19, RunStep
     DEF IInv

LEMMA FailRunKeeps == ASSUME IInv, FailRun PROVE IInv'
<1>1. /\ word = "fail_run" /\ pc.run \in Runs
      /\ UNCHANGED <<queue, gw, flight, starts, charged, counters>>
  BY Words DEF FailRun, Finalize, InProgress, IInv, Handler
<1>2. PICK h \in Runs : h = pc.run
  BY <1>1
<1>3. /\ h # 0 /\ run[h] \in RunState /\ run[h].result # "rejected" /\ flight \in 0 .. NRuns
      /\ gw[h] \in {"none", "active", "released", "settled", "dismissed"}
      /\ run \in [Runs -> RunState] /\ gw = [r \in Runs |-> gw[r]]
      /\ ApprovePlaces /\ CancelPlaces /\ EndPlaces
      /\ Binds(h) /\ BeforeQueue(h) /\ Holds(h) /\ Closed(h) /\ (flight = h => Awaited(h))
      /\ BoundIn(h, {"failed"}) => BoundIn(h, Terminal)
  BY <1>2, Before
<1>4. PICK status : status = IF run[h].status = "queued" THEN "running" ELSE IF run[h].status = "running" THEN "failed" ELSE run[h].status
  OBVIOUS
<1>5. \/ run[h].status = "queued" /\ word' = "fail_run" /\ goal' = goal /\ pc'.run = h /\ pc' \in PcType
      \/ word' = "ack_run" /\ goal' = "ack_run" /\ pc'.run = h /\ pc' \in PcType
      \/ word' = "idle" /\ goal' = "idle" /\ pc'.run \notin Runs /\ pc' \in PcType
  BY <1>1, <1>2, <1>4, Acknowledges, Stops
     DEF FailRun, Finalize, Stop, Here, Continue, PcType, IInv, Types, word, goal, left
<1>6. PICK record : record = IF InProgress(h) THEN [run[h] EXCEPT !.status = status] ELSE run[h]
  OBVIOUS
<1>7. run' = [run EXCEPT ![h] = record]
  BY <1>1, <1>2, <1>3, <1>4, <1>5, <1>6 DEF FailRun, Finalize, InProgress, SetRun, Here
<1>8. /\ record \in RunState
      /\ record.status = status /\ record.approval = run[h].approval /\ record.task = run[h].task
      /\ record.res = run[h].res /\ record.result = run[h].result /\ record.dfail = run[h].dfail
      /\ record.cancel = run[h].cancel /\ record.comp = run[h].comp /\ record.artifact = run[h].artifact
  BY <1>4, <1>6, <1>3 DEF RunState, Statuses, Terminal, InProgress
<1>9. /\ run'[h] = record /\ gw'[h] = gw[h] /\ charged'[h] = charged[h]
      /\ Only(h) /\ Typed
  BY <1>1, <1>3, <1>4, <1>5, <1>7, <1>8, RecordStep
<1>10. /\ \A i : Bound(h, i)' <=> Bound(h, i)
       /\ \A S : BoundIn(h, S)' <=> BoundIn(h, S)
       /\ FailureFirst(h) => FailureFirst(h)'
  <2>1. run'[h].task = run[h].task /\ run'[h].dfail = run[h].dfail
    BY <1>8, <1>9
  <2>2. QED
    BY <1>1, <1>9, <2>1, After
<1>11. /\ run[h].res \in {"released", "settled"} /\ goal = "fail_run"
       /\ run[h].status \in Queued /\ run[h].task # 0
  BY <1>1, <1>2, <1>3, <1>4, <1>5, <1>8, <1>9, <1>10, PollPath
     DEF EndPlaces, Ending, IInv, Types, word, goal
<1>12. BoundIn(h, Terminal)
  BY <1>1, <1>2, <1>3, <1>4, <1>5, <1>8, <1>9, <1>10, <1>11 DEF EndPlaces
<1>13. Keeps(h)
  <2>1. Binds(h)'
    <3>1. CASE InProgress(h)
      BY <1>1, <1>2, <1>3, <1>4, <1>5, <1>8, <1>9, <1>10, <1>11, <1>12, <3>1
         DEF Binds, InProgress, Funded, Queued, Terminal
    <3>2. CASE ~InProgress(h)
      BY <1>1, <1>2, <1>3, <1>4, <1>5, <1>8, <1>9, <1>10, <1>11, <1>12, <3>2
         DEF Binds, InProgress, Funded, Queued, Terminal
    <3>3. QED
      BY <3>1, <3>2
  <2>2. BeforeQueue(h)'
    BY <1>1, <1>2, <1>3, <1>4, <1>5, <1>8, <1>9, <1>10, <1>11, <1>12
       DEF BeforeQueue, Funded, Early, Queued, Terminal
  <2>3. Holds(h)'
    BY <1>1, <1>2, <1>3, <1>4, <1>5, <1>8, <1>9, <1>10, <1>11, <1>12
       DEF Holds, Funded, InProgress, Spent, Terminal
  <2>4. Closed(h)'
    BY <1>1, <1>2, <1>3, <1>4, <1>5, <1>8, <1>9, <1>10, <1>11, <1>12
       DEF Closed, Terminal, InProgress
  <2>5. QED
    BY <2>1, <2>2, <2>3, <2>4 DEF Keeps
<1>14. NoNewFailure(h)
  BY <1>1, <1>2, <1>3, <1>4, <1>5, <1>8, <1>9, <1>10, <1>11, <1>12 DEF NoNewFailure, Terminal, Early
<1>15. Handler'
  BY <1>1, <1>2, <1>3, <1>4, <1>5, <1>8, <1>9, <1>10, <1>11, <1>12
     DEF IInv, Handler, Spent, Queued, Terminal, InProgress, Approving, Compensating, Withdrawing,
         Releasing, Ending, Settling, Recording, Claiming
<1>16. Places'
  <2>1. ApprovePlaces'
    BY <1>1, <1>2, <1>3, <1>4, <1>5, <1>8, <1>9, <1>10, <1>11, <1>12
       DEF ApprovePlaces, Funded, Spent, Queued, Terminal, InProgress, Approving, Compensating,
           Withdrawing, Releasing, Ending, Settling, Recording, Claiming
  <2>2. CancelPlaces'
    BY <1>1, <1>2, <1>3, <1>4, <1>5, <1>8, <1>9, <1>10, <1>11, <1>12
       DEF CancelPlaces, Funded, Spent, Queued, Terminal, InProgress, Approving, Compensating,
           Withdrawing, Releasing, Ending, Settling, Recording, Claiming
  <2>3. EndPlaces'
    <3>1. CASE word' = "fail_run"
      BY <1>1, <1>2, <1>3, <1>4, <1>5, <1>8, <1>9, <1>10, <1>11, <1>12, <3>1
         DEF EndPlaces, Funded, Spent, Queued, Terminal, InProgress, Approving, Compensating,
             Withdrawing, Releasing, Ending, Settling, Recording, Claiming
    <3>2. CASE word' \in {"ack_run", "idle"}
      BY <1>1, <1>2, <1>3, <1>4, <1>5, <1>8, <1>9, <1>10, <1>11, <1>12, <3>2
         DEF EndPlaces, Funded, Spent, Queued, Terminal, InProgress, Approving, Compensating,
             Withdrawing, Releasing, Ending, Settling, Recording, Claiming
    <3>3. QED
      BY <1>5, <3>1, <3>2
  <2>4. QED
    BY <2>1, <2>2, <2>3 DEF Places
<1>17. flight = 0
  BY <1>1, <1>2, <1>3, <1>4, <1>5, <1>8, <1>9, <1>10, <1>11, <1>12
     DEF IInv, Handler, Withdrawing, Releasing, Approving, Compensating
<1>18. NoneOpen' /\ Dispatch'
  BY <1>1, <1>2, <1>3, <1>4, <1>5, <1>8, <1>9, <1>10, <1>11, <1>12, <1>17, Quiet DEF Guarded
<1>19. QED
  BY <1>1, <1>2, <1>3, <1>4, <1>5, <1>8, <1>9, <1>10, <1>11, <1>12, <1>17, <1>13, <1>14, <1>15,
     <1>16, <1>18, RunStep
     DEF IInv

-----------------------------------------------------------------------------
(* Handlers begin, throw and stop *)

LEMMA HandlerKeeps ==
  ASSUME IInv, UNCHANGED <<run, queue, gw, charged>>, Counted, pc' \in PcType,
         flight' \in 0 .. NRuns, starts' \in [Runs -> Nat], Handler', NoneOpen', Dispatch', Places'
  PROVE  IInv'
BY HandlerStep DEF IInv

LEMMA BesideHandler ==
  ASSUME IInv, UNCHANGED <<run, queue, gw, flight>>, word' \notin Guarded
  PROVE  NoneOpen' /\ Dispatch'
<1>1. NoneOpen'
  BY DEF IInv, NoneOpen, Guarded, Claiming, Recording
<1>2. flight # 0 => Awaited(flight)'
  BY DEF IInv, Dispatch, Awaited, BoundIn, Bound, Funded
<1>3. Dispatch'
  BY <1>2 DEF Dispatch, Recording, Guarded, Awaited, BoundIn, Bound, Funded
<1>4. QED
  BY <1>1, <1>3

\* Whatever a handler leaves undone when it stops, the others go on from there.
LEMMA StopKeeps ==
  ASSUME IInv, UNCHANGED <<run, queue, gw, flight, starts, charged>>, Counted, pc' = Nobody
  PROVE  IInv'
<1>1. word' = "idle" /\ pc'.run \notin Runs /\ pc' \in PcType
  BY Stops
<1>2. flight \in 0 .. NRuns /\ starts \in [Runs -> Nat]
  BY DEF IInv, Types
<1>3. Handler' /\ Places'
  BY <1>1 DEF Handler, Places
<1>4. NoneOpen' /\ Dispatch'
  BY <1>1, BesideHandler DEF Guarded
<1>5. QED
  BY <1>1, <1>2, <1>3, <1>4, HandlerKeeps

LEMMA CountersType == ASSUME IInv, UNCHANGED counters PROVE Counted
BY DEF IInv, Types, Counted, counters

LEMMA ApproveKeeps == ASSUME IInv, NEW r \in Runs, Approve(r) PROVE IInv'
<1>1. /\ UNCHANGED <<run, queue, gw, flight, starts, charged, counters>>
      /\ run[r].status \in {"draft", "approved"} /\ r \in 0 .. NRuns
  BY LifecycleConstants DEF Approve, Runs
<1>2. word' = "decide" /\ goal' = "approve" /\ pc'.run = r /\ pc' \in PcType
  <2>1. Types /\ Begin(r, <<"decide", "approve">>)
    BY DEF IInv, Approve
  <2>2. QED
    BY <1>1, <2>1, Beginnings, Starting
<1>3. flight \in 0 .. NRuns /\ starts \in [Runs -> Nat]
  BY DEF IInv, Types
<1>4. Handler'
  BY <1>2 DEF Handler
<1>5. Places'
  BY <1>1, <1>2 DEF Places, ApprovePlaces, CancelPlaces, EndPlaces, Approving, Compensating,
                    Withdrawing, Releasing, Ending, Settling
<1>6. NoneOpen' /\ Dispatch'
  BY <1>1, <1>2, BesideHandler DEF Guarded
<1>7. QED
  BY <1>1, <1>2, <1>3, <1>4, <1>5, <1>6, HandlerKeeps, CountersType

LEMMA CancelKeeps == ASSUME IInv, NEW r \in Runs, Cancel(r) PROVE IInv'
<1>1. /\ UNCHANGED <<run, queue, gw, flight, starts, charged>> /\ r \in 0 .. NRuns /\ Counted
  BY LifecycleConstants DEF Cancel, Runs, Counted, IInv, Types
<1>2. word' = "request" /\ goal' = "cancelled" /\ pc'.run = r /\ pc' \in PcType
  <2>1. Types /\ Begin(r, Cancelling)
    BY DEF IInv, Cancel
  <2>2. QED
    BY <1>1, <2>1, Beginnings, Starting
<1>3. flight \in 0 .. NRuns /\ starts \in [Runs -> Nat]
  BY DEF IInv, Types
<1>4. Handler'
  BY <1>2 DEF Handler
<1>5. Places'
  BY <1>1, <1>2 DEF Places, ApprovePlaces, CancelPlaces, EndPlaces, Approving, Compensating,
                    Withdrawing, Releasing, Ending, Settling
<1>6. NoneOpen' /\ Dispatch'
  BY <1>1, <1>2, BesideHandler DEF Guarded
<1>7. QED
  BY <1>1, <1>2, <1>3, <1>4, <1>5, <1>6, HandlerKeeps

LEMMA PollKeeps == ASSUME IInv, Poll PROVE IInv'
<1>1. /\ UNCHANGED <<run, queue, gw, flight, starts, charged, counters>> /\ flight = 0
      /\ 0 \in 0 .. NRuns /\ 0 \notin Runs
  BY LifecycleConstants DEF Poll, Runs
<1>2. word' = "ack" /\ pc'.run = 0 /\ pc' \in PcType
  <2>1. Types /\ Begin(0, <<"ack", "look">>)
    BY DEF IInv, Poll
  <2>2. QED
    BY <1>1, <2>1, Beginnings, Starting
<1>3. starts \in [Runs -> Nat]
  BY DEF IInv, Types
<1>4. Handler' /\ Places'
  BY <1>1, <1>2 DEF Handler, Places
<1>5. NoneOpen' /\ Dispatch'
  BY <1>1, <1>2, BesideHandler DEF Guarded
<1>6. QED
  BY <1>1, <1>2, <1>3, <1>4, <1>5, HandlerKeeps, CountersType

\* The handler comes to its next write with an error to throw at the end.
LEMMA GoesWithError ==
  ASSUME Types, NEW w, Moves(pc.todo, w), pc' = [pc EXCEPT !.todo = Tail(pc.todo), !.err = TRUE]
  PROVE  /\ word' = w /\ goal' = goal /\ left' = left - 1
         /\ pc'.run = pc.run /\ pc'.err /\ pc' \in PcType
<1>1. Tail(pc.todo) \in Todos
  BY DEF Moves
<1>2. pc'.todo = Tail(pc.todo) /\ pc'.run = pc.run /\ pc'.err = TRUE /\ pc' \in PcType
  BY <1>1 DEF Types, PcType
<1>3. QED
  BY <1>2 DEF Moves, word, goal, left

LEMMA ThrowKeeps == ASSUME IInv, Throw PROVE IInv'
<1>1. UNCHANGED <<run, queue, gw, flight, starts, charged>> /\ Counted
  BY DEF Throw, Counted, IInv, Types
<1>2. flight \in 0 .. NRuns /\ starts \in [Runs -> Nat]
  BY DEF IInv, Types
<1>3. word # "idle" /\ word = Head(pc.todo)
  BY Words DEF IInv, Throw, word, Word, Idle
<1>4. CASE word \in {"comp_cancel", "cancel_task"}
  <2>1. pc' = [pc EXCEPT !.todo = Tail(pc.todo), !.err = TRUE]
    BY <1>3, <1>4 DEF Throw
  <2>2. /\ pc'.run = pc.run /\ pc'.err /\ pc' \in PcType /\ pc.run \in Runs
        /\ \/ word = "comp_cancel" /\ word' = "release" /\ goal' = goal
              /\ goal \in {"queue", "comp_clear"}
           \/ word = "cancel_task" /\ word' = "cancel_release" /\ goal' = goal
    BY <1>4, <2>1, CompCancelPath, CancelPath, GoesWithError
       DEF IInv, Types, Handler, word, goal
  <2>3. ApprovePlaces /\ CancelPlaces /\ EndPlaces
    BY <2>2 DEF IInv, Places
  <2>4. Handler'
    BY <1>1, <1>4, <2>2 DEF IInv, Handler, Approving, Compensating, Withdrawing, Releasing
  <2>5. Places'
    BY <1>1, <2>2, <2>3 DEF Places, ApprovePlaces, CancelPlaces, EndPlaces, Approving,
         Compensating, Withdrawing, Releasing, Ending, Settling
  <2>6. NoneOpen' /\ Dispatch'
    BY <1>1, <2>2, BesideHandler DEF Guarded
  <2>7. QED
    BY <1>1, <1>2, <2>2, <2>4, <2>5, <2>6, HandlerKeeps
<1>5. CASE word = "enqueue"
  <2>1. Then(<<"compensate">> \o Compensation)
    <3>1. pc' = [pc EXCEPT !.todo = <<"compensate">> \o Compensation]
      BY <1>3, <1>5 DEF Throw
    <3>2. <<"compensate">> \o Compensation # <<>>
      BY Beginnings DEF Is, Word
    <3>3. QED
      BY <3>1, <3>2 DEF Then
  <2>2. /\ word' = "compensate" /\ goal' = "comp_clear"
        /\ pc'.run = pc.run /\ pc' \in PcType /\ pc.run \in Runs
    BY <1>5, <2>1, Beginnings, Turns DEF IInv, Handler
  <2>3. ApprovePlaces
    BY <2>2 DEF IInv, Places
  <2>4. Handler'
    BY <2>2 DEF Handler, Approving
  <2>5. Places'
    BY <1>1, <1>5, <2>2, <2>3 DEF Places, ApprovePlaces, CancelPlaces, EndPlaces, Approving,
         Compensating, Withdrawing, Releasing, Ending, Settling
  <2>6. NoneOpen' /\ Dispatch'
    BY <1>1, <2>2, BesideHandler DEF Guarded
  <2>7. QED
    BY <1>1, <1>2, <2>2, <2>4, <2>5, <2>6, HandlerKeeps
<1>6. CASE word \notin {"comp_cancel", "cancel_task", "enqueue"}
  <2>1. pc' = Nobody
    BY <1>3, <1>6 DEF Throw
  <2>2. QED
    BY <1>1, <2>1, StopKeeps
<1>7. QED
  BY <1>4, <1>5, <1>6

\* The dispatch ends; its run is the handler's again.
LEMMA ReturnsKeeps == ASSUME IInv, NEW answer \in Answers, Returns(answer) PROVE IInv'
<1>1. /\ UNCHANGED <<run, queue, gw, starts, charged, counters>> /\ flight' = 0
      /\ flight # 0 /\ answer \in AllAnswers \ {"rejected"}
  BY LifecycleConstants DEF Returns
<1>2. flight \in Runs /\ flight \in 0 .. NRuns /\ 0 \in 0 .. NRuns /\ starts \in [Runs -> Nat]
  BY <1>1, LifecycleConstants DEF IInv, Types, Runs
<1>3. word' = "record" /\ goal' = "record" /\ pc'.run = flight /\ pc'.answer = answer /\ pc' \in PcType
  <2>1. <<"record">> \in Todos /\ Word(<<"record">>) = "record" /\ Goal(<<"record">>) = "record"
    BY Beginnings DEF Is
  <2>2. /\ pc'.todo = <<"record">> /\ pc'.run = flight /\ pc'.answer = answer
        /\ pc' \in PcType
    BY <1>1, <1>2, <2>1 DEF Returns, Nobody, PcType
  <2>3. QED
    BY <2>1, <2>2 DEF word, goal
<1>4. Handler'
  BY <1>1, <1>2, <1>3 DEF Handler, AllAnswers
<1>5. Places'
  BY <1>1, <1>3 DEF Places, ApprovePlaces, CancelPlaces, EndPlaces, Approving, Compensating,
                    Withdrawing, Releasing, Ending, Settling
<1>6. NoneOpen'
  BY <1>1, <1>3 DEF IInv, NoneOpen, Claiming
<1>7. Dispatch'
  <2>1. Awaited(flight)
    BY <1>1 DEF IInv, Dispatch
  <2>2. QED
    BY <1>1, <1>3, <2>1 DEF Dispatch, Awaited, BoundIn, Bound, Funded
<1>8. QED
  BY <1>1, <1>2, <1>3, <1>4, <1>5, <1>6, <1>7, HandlerKeeps, CountersType

LEMMA RejectsKeeps == ASSUME IInv, Rejects PROVE IInv'
<1>1. /\ UNCHANGED <<run, queue, gw, starts, charged, counters>> /\ flight' = 0 /\ flight # 0
  BY DEF Rejects
<1>2. flight \in Runs /\ flight \in 0 .. NRuns /\ 0 \in 0 .. NRuns /\ starts \in [Runs -> Nat]
  BY <1>1, LifecycleConstants DEF IInv, Types, Runs
<1>3. word' = "record_failure" /\ goal' = "fail_dispatch" /\ pc'.run = flight /\ pc' \in PcType
  <2>1. Types /\ Begin(flight, <<"record_failure", "fail_dispatch">>)
    BY DEF IInv, Rejects
  <2>2. QED
    BY <1>2, <2>1, Beginnings, Starting
<1>4. Handler'
  BY <1>1, <1>2, <1>3 DEF Handler
<1>5. Places'
  BY <1>1, <1>3 DEF Places, ApprovePlaces, CancelPlaces, EndPlaces, Approving, Compensating,
                    Withdrawing, Releasing, Ending, Settling
<1>6. NoneOpen'
  BY <1>1, <1>3 DEF IInv, NoneOpen, Claiming
<1>7. Dispatch'
  <2>1. Awaited(flight)
    BY <1>1 DEF IInv, Dispatch
  <2>2. QED
    BY <1>1, <1>3, <2>1 DEF Dispatch, Awaited, BoundIn, Bound, Funded
<1>8. QED
  BY <1>1, <1>2, <1>3, <1>4, <1>5, <1>6, <1>7, HandlerKeeps, CountersType

-----------------------------------------------------------------------------
(* The poll's decisions *)

\* The runs that are looked for among the stored ones.
LEMMA Looked ==
  /\ CancelPending \in 0 .. NRuns /\ FailurePending \in 0 .. NRuns /\ ResultPending \in 0 .. NRuns
  /\ CancelPending = 0 => \A r \in Runs : run[r].cancel => run[r].status = "cancelled"
  /\ FailurePending = 0 => \A r \in Runs : run[r].dfail => run[r].status \in Terminal
  /\ FailurePending # 0 => /\ FailurePending \in Runs /\ run[FailurePending].dfail
                           /\ run[FailurePending].status \notin Terminal
                           /\ \A q \in 1 .. FailurePending - 1 : run[q].dfail => run[q].status \in Terminal
  /\ ResultPending = 0 => \A r \in Runs : run[r].result # "none" => run[r].status \in Terminal
  /\ ResultPending # 0 => /\ ResultPending \in Runs /\ run[ResultPending].result # "none"
                          /\ run[ResultPending].status \notin Terminal
<1> DEFINE C == {r \in Runs : run[r].cancel /\ run[r].status # "cancelled"}
           D == {r \in Runs : run[r].dfail /\ run[r].status \notin Terminal}
           E == {r \in Runs : run[r].result # "none" /\ run[r].status \notin Terminal}
<1>1. Runs \subseteq Nat \ {0} /\ Runs \subseteq 0 .. NRuns /\ 0 \in 0 .. NRuns
  BY LifecycleConstants DEF Runs
<1>2. \A S \in SUBSET Runs : /\ S = {} => FirstIn(S) = 0
                             /\ S # {} => FirstIn(S) \in S /\ \A q \in S : FirstIn(S) <= q
                             /\ FirstIn(S) \in 0 .. NRuns /\ (FirstIn(S) = 0 => S = {})
  <2>1. SUFFICES ASSUME NEW S \in SUBSET Runs
        PROVE  /\ S = {} => FirstIn(S) = 0
               /\ S # {} => FirstIn(S) \in S /\ \A q \in S : FirstIn(S) <= q
               /\ FirstIn(S) \in 0 .. NRuns /\ (FirstIn(S) = 0 => S = {})
    OBVIOUS
  <2>2. S \in SUBSET (Nat \ {0})
    BY <1>1
  <2>3. /\ S = {} => FirstIn(S) = 0
        /\ S # {} => FirstIn(S) \in S /\ FirstIn(S) # 0 /\ \A q \in S : FirstIn(S) <= q
    BY <2>2, First
  <2>4. QED
    BY <1>1, <2>3
<1>3. CancelPending = FirstIn(C) /\ FailurePending = FirstIn(D) /\ ResultPending = FirstIn(E)
  BY DEF CancelPending, FailurePending, ResultPending
<1>4. C \in SUBSET Runs /\ D \in SUBSET Runs /\ E \in SUBSET Runs
  OBVIOUS
<1>5. /\ C = {} => \A r \in Runs : run[r].cancel => run[r].status = "cancelled"
      /\ D = {} => \A r \in Runs : run[r].dfail => run[r].status \in Terminal
      /\ E = {} => \A r \in Runs : run[r].result # "none" => run[r].status \in Terminal
  OBVIOUS
<1>6. ASSUME D # {}, NEW q \in 1 .. FirstIn(D) - 1, run[q].dfail PROVE run[q].status \in Terminal
  <2>1. FirstIn(D) \in D /\ FirstIn(D) \in Nat /\ \A k \in D : FirstIn(D) <= k
    BY <1>1, <1>2, <1>4, <1>6
  <2>2. q \in Runs
    <3>1. FirstIn(D) \in 1 .. NRuns
      BY <2>1 DEF Runs
    <3>2. QED
      BY <3>1, LifecycleConstants DEF Runs
  <2>3. q \notin D
    BY <2>1, <2>2, <1>1
  <2>4. QED
    BY <1>6, <2>2, <2>3
<1>7. /\ \A r \in C : r \in Runs
      /\ \A r \in D : r \in Runs /\ run[r].dfail /\ run[r].status \notin Terminal
      /\ \A r \in E : r \in Runs /\ run[r].result # "none" /\ run[r].status \notin Terminal
  OBVIOUS
<1> HIDE DEF C, D, E
<1>8. QED
  BY <1>2, <1>3, <1>4, <1>5, <1>6, <1>7

\* A stored result is worked off first; a run in progress always has its task.
LEMMA PendingKeeps == ASSUME IInv, Pending PROVE IInv'
<1>1. /\ UNCHANGED <<run, queue, gw, flight, starts, charged, counters>> /\ word = "pending"
      /\ Types /\ Tasks
  BY Words DEF IInv, Pending
<1>2. flight = 0 /\ flight \in 0 .. NRuns /\ starts \in [Runs -> Nat]
  BY <1>1 DEF IInv, Types, Handler, Approving, Compensating, Withdrawing, Releasing
<1>3. ASSUME ResultPending # 0
      PROVE  /\ ResultPending \in Runs /\ run[ResultPending].result # "none"
             /\ InProgress(ResultPending) /\ TaskAt(ResultPending) # 0
             /\ run[ResultPending].task # 0
  <2>1. PICK h \in Runs : h = ResultPending
    BY <1>3, Looked
  <2>2. run[h].result # "none" /\ run[h].status \notin Terminal /\ run[h].status \in Statuses
    BY <1>1, <1>3, <2>1, Looked DEF Types, RunState
  <2>3. Binds(h) /\ BeforeQueue(h)
    BY DEF IInv, EachRun
  <2>4. InProgress(h)
    BY <2>2, <2>3 DEF BeforeQueue, Early, InProgress, Statuses
  <2>5. PICK i \in DOMAIN queue : Bound(h, i)
    BY <2>3, <2>4 DEF Binds
  <2>6. TaskAt(h) = i /\ i # 0
    BY <1>1, <2>5, TaskPlace DEF Types
  <2>7. run[h].task # 0
    BY <1>1, <2>5, BoundTask
  <2>8. QED
    BY <2>1, <2>2, <2>4, <2>6, <2>7
<1>4. CASE ResultPending # 0
  <2>1. PICK h \in Runs : h = ResultPending
    BY <1>3, <1>4
  <2>2. h \in 0 .. NRuns /\ Begin(h, <<"finish">>)
    BY <1>3, <1>4, <2>1, Looked DEF Pending
  <2>3. word' = "finish" /\ goal' = "finish" /\ pc'.run = h /\ pc' \in PcType
    BY <1>1, <2>2, Beginnings, Starting
  <2>4. run[h].result # "none" /\ InProgress(h) /\ run[h].task # 0
    BY <1>3, <1>4, <2>1
  <2>5. run[h].result = "ok" => run[h].res # "released"
    BY <1>1, <2>4 DEF IInv, NoneOpen
  <2>6. Handler'
    BY <1>1, <1>2, <2>3 DEF Handler
  <2>7. Places'
    BY <1>1, <2>3, <2>4, <2>5 DEF Places, ApprovePlaces, CancelPlaces, EndPlaces, Approving,
         Compensating, Withdrawing, Releasing, Ending, Settling, InProgress, Queued
  <2>8. NoneOpen' /\ Dispatch'
    BY <1>1, <1>2, <2>3, Quiet DEF Guarded
  <2>9. QED
    BY <1>1, <1>2, <2>3, <2>6, <2>7, <2>8, HandlerKeeps, CountersType
<1>5. CASE ResultPending = 0
  <2>1. 0 \in 0 .. NRuns /\ 0 \notin Runs /\ Begin(0, <<"reconcile", "claim">>)
    BY <1>5, LifecycleConstants DEF Pending, Runs
  <2>2. word' = "reconcile" /\ goal' = "claim" /\ pc'.run = 0 /\ pc' \in PcType
    <3>1. Is(<<"reconcile", "claim">>, "reconcile", "claim")
      BY DEF Is, Todos, Word, Goal
    <3>2. QED
      BY <1>1, <2>1, <3>1, Starting
  <2>3. Handler' /\ Places'
    BY <1>1, <1>2, <2>1, <2>2 DEF Handler, Places
  <2>4. NoneOpen'
    <3>1. \A r \in Runs : run[r].result # "none" => run[r].status \in Terminal
      BY <1>5, Looked
    <3>2. \A r \in Runs : run[r].cancel => run[r].status = "cancelled"
      BY <1>1 DEF IInv, NoneOpen, Claiming
    <3>3. QED
      BY <1>1, <2>2, <3>1, <3>2 DEF NoneOpen
  <2>5. Dispatch'
    BY <1>1, <1>2, <2>2 DEF Dispatch, Recording
  <2>6. QED
    BY <1>1, <1>2, <2>2, <2>3, <2>4, <2>5, HandlerKeeps, CountersType
<1>6. QED
  BY <1>4, <1>5

\* What is left to do is decided once, from the stored result.
LEMMA FinishKeeps == ASSUME IInv, Finish PROVE IInv'
<1>1. /\ UNCHANGED <<run, queue, gw, flight, starts, charged, counters>> /\ word = "finish"
      /\ Types /\ pc.run \in Runs
  BY Words DEF IInv, Finish, Handler
<1>2. flight = 0 /\ flight \in 0 .. NRuns /\ starts \in [Runs -> Nat]
  BY <1>1 DEF IInv, Types, Handler, Approving, Compensating, Withdrawing, Releasing
<1>3. PICK h \in Runs : h = pc.run
  BY <1>1
<1>4. /\ run[h].result \in AllAnswers \ {"rejected"} /\ run[h].cancel \in BOOLEAN
      /\ run[h].status \in Queued /\ run[h].task # 0
      /\ InProgress(h) /\ ~run[h].cancel /\ run[h].result = "ok" => run[h].res # "released"
  <2>1. run[h] \in RunState /\ run[h].result # "rejected"
    BY <1>1 DEF Types
  <2>2. run[h].result # "none"
    BY <1>1, <1>3 DEF IInv, Places, EndPlaces
  <2>3. /\ run[h].status \in Queued /\ run[h].task # 0
        /\ InProgress(h) /\ ~run[h].cancel /\ run[h].result = "ok" => run[h].res # "released"
    BY <1>1, <1>3 DEF IInv, Places, EndPlaces, Ending
  <2>4. QED
    BY <2>1, <2>2, <2>3 DEF RunState
<1>5. Then(Finishing(run[h].result, run[h].cancel))
  BY <1>3 DEF Finish, Here
<1>6. /\ pc'.run = h /\ pc' \in PcType
      /\ \/ word' = "release" /\ goal' = "fail_run" /\ left' = 5 /\ run[h].result \in Spent
         \/ /\ word' = "cancel_worker" /\ goal' = "fail_run" /\ run[h].result \in Spent
            /\ run[h].cancel
         \/ /\ word' = "fail_task" /\ goal' = "fail_run" /\ ~run[h].cancel /\ Failed(run[h].result)
            /\ pc'.todo[2] = "drop_task" <=> OverBudget(run[h].result)
         \/ word' = "drop_task" /\ goal' = "fail_run" /\ left' = 5 /\ run[h].result \in Spent
         \/ word' = "cancel_worker" /\ goal' = "end_cancelled" /\ run[h].cancel
         \/ /\ word' = "complete" /\ goal' = "complete_run" /\ run[h].result = "ok"
            /\ ~run[h].cancel
  <2> DEFINE t == Finishing(run[h].result, run[h].cancel)
  <2>1. \A w, g : Is(t, w, g) /\ w # "idle" =>
          /\ word' = w /\ goal' = g /\ left' = Len(t) /\ pc'.todo = t
          /\ pc'.run = h /\ pc' \in PcType
    <3> HIDE DEF t
    <3>1. Then(t)
      BY <1>5 DEF t
    <3>2. QED
      BY <1>1, <1>3, <3>1, Turns
  <2>2. \/ run[h].result = "refused" /\ Is(t, "release", "fail_run") /\ Len(t) = 5
        \/ OverBudget(run[h].result) /\ run[h].cancel /\ Is(t, "cancel_worker", "fail_run")
        \/ /\ OverBudget(run[h].result) /\ ~run[h].cancel /\ Failed(run[h].result)
           /\ Is(t, "fail_task", "fail_run") /\ t[2] = "drop_task"
        \/ /\ OverBudget(run[h].result) /\ ~run[h].cancel
           /\ Is(t, "drop_task", "fail_run") /\ Len(t) = 5
        \/ /\ run[h].result \in {"ok", "failed"} /\ run[h].cancel
           /\ Is(t, "cancel_worker", "end_cancelled")
        \/ /\ run[h].result = "failed" /\ ~run[h].cancel
           /\ Is(t, "fail_task", "fail_run") /\ t[2] = "settle"
        \/ run[h].result = "ok" /\ ~run[h].cancel /\ Is(t, "complete", "complete_run")
    BY <1>4, FinishingPath, Zenon
  <2> HIDE DEF t
  <2>3. CASE run[h].result = "refused" /\ Is(t, "release", "fail_run") /\ Len(t) = 5
    BY <2>1, <2>3 DEF Spent, OverBudget, Failed
  <2>4. CASE OverBudget(run[h].result) /\ run[h].cancel /\ Is(t, "cancel_worker", "fail_run")
    BY <2>1, <2>4 DEF Spent, OverBudget, Failed
  <2>5. CASE /\ OverBudget(run[h].result) /\ ~run[h].cancel /\ Failed(run[h].result)
             /\ Is(t, "fail_task", "fail_run") /\ t[2] = "drop_task"
    BY <2>1, <2>5 DEF Spent, OverBudget, Failed
  <2>6. CASE /\ OverBudget(run[h].result) /\ ~run[h].cancel
             /\ Is(t, "drop_task", "fail_run") /\ Len(t) = 5
    BY <2>1, <2>6 DEF Spent, OverBudget, Failed
  <2>7. CASE /\ run[h].result \in {"ok", "failed"} /\ run[h].cancel
             /\ Is(t, "cancel_worker", "end_cancelled")
    BY <2>1, <2>7 DEF Spent, OverBudget, Failed
  <2>8. CASE /\ run[h].result = "failed" /\ ~run[h].cancel
             /\ Is(t, "fail_task", "fail_run") /\ t[2] = "settle"
    BY <2>1, <2>8 DEF Spent, OverBudget, Failed
  <2>9. CASE run[h].result = "ok" /\ ~run[h].cancel /\ Is(t, "complete", "complete_run")
    BY <2>1, <2>9 DEF Spent, OverBudget, Failed
  <2>10. QED
    BY <2>2, <2>3, <2>4, <2>5, <2>6, <2>7, <2>8, <2>9
<1>7. Handler'
  BY <1>1, <1>2, <1>6 DEF Handler
<1>8. Places'
  <2>1. ApprovePlaces' /\ CancelPlaces'
    BY <1>1, <1>6 DEF ApprovePlaces, CancelPlaces, Approving, Compensating, Withdrawing, Releasing
  <2>2. EndPlaces'
    BY <1>1, <1>4, <1>6 DEF EndPlaces, Ending, Settling, InProgress
  <2>3. QED
    BY <2>1, <2>2 DEF Places
<1>9. NoneOpen' /\ Dispatch'
  BY <1>1, <1>2, <1>6, Quiet DEF Guarded
<1>10. QED
  BY <1>1, <1>2, <1>6, <1>7, <1>8, <1>9, HandlerKeeps, CountersType

-----------------------------------------------------------------------------
(* A run is prepared, looked at and started *)

LEMMA PrepareKeeps == ASSUME IInv, NEW h \in Runs, Prepare(h) PROVE IInv'
<1>1. /\ UNCHANGED <<queue, gw, flight, starts, charged, counters>> /\ run[h] = Absent
      /\ Types /\ h \in 0 .. NRuns /\ h # 0 /\ flight \in 0 .. NRuns
  BY LifecycleConstants DEF Prepare, IInv, Types, Runs
<1>2. word' = "approval" /\ goal' = "approval" /\ pc'.run = h /\ pc' \in PcType
  <2>1. Begin(h, <<"approval">>)
    BY DEF Prepare
  <2>2. Is(<<"approval">>, "approval", "approval")
    BY Beginnings
  <2>3. QED
    BY <1>1, <2>1, <2>2, Starting
<1>3. PICK record : record = [run[h] EXCEPT !.status = "draft"]
  OBVIOUS
<1>4. run' = [run EXCEPT ![h] = record]
  BY <1>3 DEF Prepare, IInv, Types
<1>5. /\ record \in RunState /\ record.result = "none" /\ ~record.dfail
      /\ record.status = "draft" /\ record.task = 0 /\ record.res = "none"
      /\ run[h].task = 0 /\ run[h].res = "none" /\ run[h].result = "none"
      /\ run[h].status = "absent"
  <2>1. run[h] \in RunState
    BY <1>1 DEF Types
  <2>2. record = [Absent EXCEPT !.status = "draft"]
    BY <1>1, <1>3
  <2>3. 0 \in 0 .. MaxTasks + 1
    BY LifecycleConstants
  <2>4. /\ run[h].task = 0 /\ run[h].res = "none" /\ run[h].result = "none"
        /\ run[h].status = "absent"
    BY <1>1 DEF Absent
  <2>5. record = [status |-> "draft", approval |-> "none", task |-> 0, res |-> "none",
           result |-> "none", dfail |-> FALSE, cancel |-> FALSE, comp |-> FALSE,
           artifact |-> FALSE]
    BY <2>2 DEF Absent
  <2>6. record \in RunState
    BY <2>3, <2>5 DEF RunState, Statuses
  <2>7. QED
    BY <2>4, <2>5, <2>6
<1>6. /\ run'[h] = record /\ gw'[h] = gw[h] /\ charged'[h] = charged[h]
      /\ Only(h) /\ Typed
  BY <1>1, <1>2, <1>4, <1>5, RecordStep
<1>7. Binds(h)
  BY DEF IInv, EachRun
<1>8. Keeps(h)
  <2>1. Binds(h)'
    BY <1>5, <1>6, <1>7 DEF Binds, InProgress, Queued, Terminal
  <2>2. BeforeQueue(h)' /\ Holds(h)' /\ Closed(h)'
    BY <1>5, <1>6 DEF BeforeQueue, Holds, Closed, InProgress, Terminal, Early
  <2>3. QED
    BY <2>1, <2>2 DEF Keeps
<1>9. NoNewFailure(h)
  BY <1>5, <1>6 DEF NoNewFailure
<1>10. Handler' /\ Places'
  BY <1>2 DEF Handler, Places, ApprovePlaces, CancelPlaces, EndPlaces, Approving, Compensating,
              Withdrawing, Releasing, Ending, Settling
<1>11. flight = h => Awaited(h)'
  BY <1>5, <1>6 DEF Awaited
<1>12. NoneOpen' /\ Dispatch'
  BY <1>1, <1>2, <1>5, <1>6, <1>11, BesideRun DEF Guarded
<1>13. QED
  BY <1>1, <1>6, <1>8, <1>9, <1>10, <1>12, RunStep DEF IInv

\* Only a reservation that is over already is acknowledged.
LEMMA AckTerminalKeeps == ASSUME IInv, AckTerminal PROVE IInv'
<1> DEFINE over == {r \in Runs : /\ run[r].status \in Terminal /\ run[r].task # 0
                                 /\ run[r].res # "active" /\ gw[r] \in {"released", "settled"}}
<1>1. /\ UNCHANGED <<run, queue, flight, starts, charged, counters>> /\ word = "ack"
      /\ Types
  BY Words DEF IInv, AckTerminal
<1>2. flight = 0 /\ flight \in 0 .. NRuns /\ starts \in [Runs -> Nat] /\ pc \in PcType
  BY <1>1 DEF IInv, Types, Handler, Approving, Compensating, Withdrawing, Releasing, PcType
<1>3. CASE over = {}
  <2>1. UNCHANGED gw /\ word' = "look" /\ goal' = goal /\ pc'.run = pc.run /\ pc' \in PcType
    <3>1. Continue /\ UNCHANGED gw
      BY <1>3 DEF AckTerminal
    <3>2. Moves(pc.todo, "look")
      BY <1>1, PollPath DEF Types, word
    <3>3. QED
      BY <1>1, <3>1, <3>2, Goes
  <2>2. Handler'
    BY <1>1, <1>2, <2>1 DEF Handler
  <2>3. Places'
    BY <1>1, <2>1 DEF IInv, Places, ApprovePlaces, CancelPlaces, EndPlaces, Approving,
         Compensating, Withdrawing, Releasing, Ending, Settling
  <2>4. NoneOpen' /\ Dispatch'
    BY <1>1, <1>2, <2>1, Quiet DEF Guarded
  <2>5. QED
    BY <1>1, <1>2, <2>1, <2>2, <2>3, <2>4, HandlerKeeps, CountersType
<1>4. CASE over # {}
  <2>1. PICK h \in Runs : h = FirstIn(over) /\ h \in over
    <3>1. over \in SUBSET (Nat \ {0})
      BY LifecycleConstants DEF Runs
    <3>2. FirstIn(over) \in over
      BY <1>4, <3>1, First
    <3>3. QED
      BY <3>2
  <2>2. /\ UNCHANGED pc
        /\ gw' = [gw EXCEPT ![h] = "dismissed"] /\ gw[h] \in {"released", "settled"}
        /\ run[h].status \in Terminal
    <3>1. UNCHANGED pc /\ Acknowledge(h)
      BY <1>4, <2>1 DEF AckTerminal
    <3>2. gw[h] \in {"released", "settled"} /\ run[h].status \in Terminal
      BY <2>1
    <3>3. QED
      BY <3>1, <3>2 DEF Acknowledge
  <2>3. word' = word /\ goal' = goal /\ pc'.run = pc.run /\ pc' \in PcType
    BY <1>2, <2>2 DEF word, goal
  <2>4. /\ run'[h] = run[h] /\ gw'[h] = "dismissed" /\ charged'[h] = charged[h]
        /\ Only(h) /\ Typed
    BY <1>1, <1>2, <2>2, <2>3, GatewayStep
  <2>5. Binds(h) /\ Closed(h)
    BY DEF IInv, EachRun
  <2>6. \A S : BoundIn(h, S)' <=> BoundIn(h, S)
    BY <1>1, <2>4, SameTasks
  <2>7. Keeps(h)
    <3>1. Binds(h)'
      BY <2>2, <2>4, <2>5 DEF Binds, InProgress, Terminal
    <3>2. BeforeQueue(h)' /\ Holds(h)'
      BY <2>2, <2>4 DEF BeforeQueue, Holds, InProgress, Terminal, Early
    <3>3. Closed(h)'
      BY <2>4, <2>5, <2>6 DEF Closed
    <3>4. QED
      BY <3>1, <3>2, <3>3 DEF Keeps
  <2>8. NoNewFailure(h)
    BY <2>4 DEF NoNewFailure
  <2>9. Handler'
    BY <1>1, <1>2, <2>3 DEF Handler
  <2>10. Places'
    BY <1>1, <2>3 DEF IInv, Places, ApprovePlaces, CancelPlaces, EndPlaces, Approving,
         Compensating, Withdrawing, Releasing, Ending, Settling
  <2>11. NoneOpen' /\ Dispatch'
    BY <1>1, <1>2, <2>3, Quiet DEF Guarded
  <2>12. QED
    BY <1>1, <2>4, <2>7, <2>8, <2>9, <2>10, <2>11, RunStep DEF IInv
<1>5. QED
  BY <1>3, <1>4

\* A run with a stored result has ended; otherwise its dispatch is paid for.
LEMMA StartKeeps == ASSUME IInv, Start PROVE IInv'
<1>1. /\ UNCHANGED <<queue, gw, charged, counters>> /\ word = "start" /\ Types /\ Tasks
      /\ pc.run \in Runs
  BY Words DEF IInv, Start, Handler
<1>2. PICK h \in Runs : h = pc.run
  BY <1>1
<1>3. /\ h # 0 /\ run[h] \in RunState /\ run[h].result # "rejected" /\ flight \in 0 .. NRuns
      /\ h \in 0 .. NRuns /\ starts \in [Runs -> Nat]
      /\ Binds(h) /\ BeforeQueue(h) /\ Holds(h) /\ Closed(h)
  BY <1>2, Before, LifecycleConstants DEF IInv, Types, Runs
<1>4. flight = 0
  BY <1>1 DEF IInv, Handler, Approving, Compensating, Withdrawing, Releasing
<1>5. PICK i \in DOMAIN queue : Bound(h, i) /\ queue[i].status = "running"
  BY <1>1, <1>2 DEF IInv, Places, EndPlaces
<1>6. /\ \A r \in Runs : run[r].result # "none" => run[r].status \in Terminal
      /\ \A r \in Runs : run[r].cancel => run[r].status = "cancelled"
  BY <1>1 DEF IInv, NoneOpen, Claiming
<1>7. run[h].task # 0
  BY <1>1, <1>5, BoundTask
<1>8. CASE run[h].result # "none"
  <2>1. UNCHANGED <<run, flight, starts>> /\ Then(<<"finish">>)
    BY <1>2, <1>8 DEF Start, Here
  <2>2. word' = "finish" /\ goal' = "finish" /\ pc'.run = h /\ pc' \in PcType
    BY <1>1, <1>2, <2>1, Beginnings, Turns
  <2>3. Handler'
    BY <1>4, <2>1, <2>2 DEF Handler
  <2>4. run[h].status \in Terminal
    BY <1>6, <1>8
  <2>5. Places'
    BY <1>1, <1>7, <1>8, <2>1, <2>2, <2>4 DEF Places, ApprovePlaces, CancelPlaces, EndPlaces,
         Approving, Compensating, Withdrawing, Releasing, Ending, Settling, Queued, InProgress, Terminal
  <2>6. NoneOpen' /\ Dispatch'
    BY <1>4, <2>1, <2>2, Quiet DEF Guarded
  <2>7. QED
    BY <1>1, <1>3, <2>1, <2>2, <2>3, <2>5, <2>6, HandlerKeeps, CountersType
<1>9. CASE run[h].result = "none"
  <2>1. PICK status : status = IF run[h].status = "queued" THEN "running" ELSE run[h].status
    OBVIOUS
  <2>2. PICK record : record = [run[h] EXCEPT !.status = status]
    OBVIOUS
  <2>3. /\ run' = [run EXCEPT ![h] = record] /\ pc' = Nobody
        /\ flight' = h /\ starts' = [starts EXCEPT ![h] = @ + 1]
    BY <1>2, <1>9, <2>1, <2>2 DEF Start, Here, SetRun, Stop
  <2>4. /\ record \in RunState /\ record.result = "none" /\ record.status = status
        /\ record.task = run[h].task /\ record.res = run[h].res /\ record.dfail = run[h].dfail
        /\ record.cancel = run[h].cancel /\ record.comp = run[h].comp
        /\ record.artifact = run[h].artifact
    BY <1>3, <1>9, <2>1, <2>2 DEF RunState, Statuses, Terminal
  <2>5. word' = "idle" /\ goal' = "idle" /\ pc'.run \notin Runs /\ pc' \in PcType
    BY <2>3, Stops
  <2>6. run'[h] = record /\ gw'[h] = gw[h] /\ charged'[h] = charged[h] /\ Only(h) /\ Typed
    <3>1. /\ run \in [Runs -> RunState] /\ \A r \in Runs : run[r].result # "rejected"
          /\ gw \in [Runs -> {"none", "active", "released", "settled", "dismissed"}]
          /\ charged \in [Runs -> Nat]
      BY <1>1 DEF Types
    <3>2. starts' \in [Runs -> Nat]
      BY <1>3, <2>3
    <3>3. run'[h] = record /\ run' \in [Runs -> RunState] /\ \A q \in Runs : q # h => run'[q] = run[q]
      BY <2>3, <2>4, <3>1
    <3>4. Only(h)
      BY <1>1, <3>3 DEF Only
    <3>5. flight' \in 0 .. NRuns /\ record.result # "rejected"
      BY <1>3, <2>3, <2>4
    <3>6. Typed
      BY <1>1, <2>4, <2>5, <3>1, <3>2, <3>3, <3>5 DEF Typed
    <3>7. QED
      BY <1>1, <3>3, <3>4, <3>6
  <2>7. /\ \A k : Bound(h, k)' <=> Bound(h, k)
        /\ \A S : BoundIn(h, S)' <=> BoundIn(h, S)
    BY <1>1, <2>4, <2>6, SameTasks
  <2>8. Keeps(h)
    <3>1. Binds(h)'
      BY <1>1, <1>3, <1>5, <2>1, <2>4, <2>6, <2>7 DEF Binds, InProgress, Terminal, Queued
    <3>2. BeforeQueue(h)'
      BY <1>3, <2>1, <2>4, <2>6 DEF BeforeQueue, Early, Funded
    <3>3. Holds(h)'
      BY <1>3, <1>9, <2>1, <2>4, <2>6, <2>7 DEF Holds, InProgress, Funded
    <3>4. Closed(h)'
      BY <1>3, <1>9, <2>1, <2>4, <2>6, <2>7 DEF Closed, Terminal
    <3>5. QED
      BY <3>1, <3>2, <3>3, <3>4 DEF Keeps
  <2>9. NoNewFailure(h)
    BY <2>1, <2>4, <2>6 DEF NoNewFailure, Terminal
  <2>10. Handler' /\ Places'
    BY <2>5 DEF Handler, Places
  <2>11. Awaited(h)'
    <3>1. BoundIn(h, {"running"})
      BY <1>1, <1>5 DEF Tasks, BoundIn, Bound
    <3>2. ~BoundIn(h, {"failed"})
      BY <1>5 DEF BoundIn
    <3>3. InProgress(h) => Funded(h)
      BY <1>3, <1>6, <1>9, <3>2 DEF Holds, InProgress
    <3>4. status # "queued" /\ (status = "running" => InProgress(h))
      BY <2>1 DEF InProgress
    <3>5. QED
      BY <2>4, <2>6, <2>7, <3>1, <3>3, <3>4 DEF Awaited, Funded
  <2>12. NoneOpen'
    <3>1. \A r \in Runs : run'[r].result # "none" => run'[r].status \in Terminal
      BY <1>6, <2>4, <2>6 DEF Only
    <3>2. QED
      BY <2>5, <3>1 DEF NoneOpen, Claiming
  <2>13. Dispatch'
    BY <2>3, <2>5, <2>11 DEF Dispatch, Recording, Awaited, BoundIn, Bound, Funded
  <2>14. QED
    BY <1>1, <2>6, <2>8, <2>9, <2>10, <2>12, <2>13, RunStep DEF IInv
<1>10. QED
  BY <1>8, <1>9

-----------------------------------------------------------------------------
(* A cancellation goes first, then a dispatch failure *)

LEMMA LookKeeps == ASSUME IInv, Look PROVE IInv'
<1> DEFINE f == FailurePending
<1>1. /\ UNCHANGED <<queue, gw, flight, starts, charged, counters>> /\ word = "look"
      /\ Types /\ Tasks
  BY Words DEF IInv, Look
<1>2. flight = 0 /\ flight \in 0 .. NRuns /\ starts \in [Runs -> Nat] /\ 0 \notin Runs
  BY <1>1 DEF IInv, Types, Handler, Approving, Compensating, Withdrawing, Releasing, Runs
<1>3. CASE CancelPending # 0
  <2>1. PICK h \in 0 .. NRuns : h = CancelPending /\ h \in Runs
    BY <1>3, Looked, LifecycleConstants DEF Runs
  <2>2. UNCHANGED run /\ Begin(h, Cancelling)
    BY <1>3, <2>1 DEF Look
  <2>3. word' = "request" /\ goal' = "cancelled" /\ pc'.run = h /\ pc' \in PcType
    <3>1. Is(Cancelling, "request", "cancelled")
      BY Beginnings
    <3>2. QED
      BY <1>1, <2>2, <3>1, Starting
  <2>4. Handler' /\ Places'
    BY <1>1, <1>2, <2>1, <2>3
       DEF Handler, Places, ApprovePlaces, CancelPlaces, EndPlaces, Approving,
         Compensating, Withdrawing, Releasing, Ending, Settling
  <2>5. NoneOpen' /\ Dispatch'
    BY <1>1, <1>2, <2>3, Quiet DEF Guarded
  <2>6. QED
    BY <1>1, <1>2, <2>2, <2>3, <2>4, <2>5, HandlerKeeps, CountersType
<1>4. CASE CancelPending = 0 /\ f # 0 /\ TaskStatus(f) = "failed"
  <2>1. PICK h \in Runs : h = f
    BY <1>4, Looked
  <2>2. /\ UNCHANGED run /\ Begin(h, FailedRun) /\ TaskStatus(h) = "failed" /\ h \in 0 .. NRuns
        /\ run[h].dfail /\ run[h].status \notin Terminal /\ FailureFirst(h)
    BY <1>4, <2>1, Looked DEF Look, FailureFirst
  <2>3. word' = "release" /\ goal' = "fail_run" /\ left' = 4 /\ pc'.run = h /\ pc' \in PcType
    <3>1. Is(FailedRun, "release", "fail_run") /\ Len(FailedRun) = 4
      BY Beginnings
    <3>2. Begin(h, FailedRun) /\ h \in 0 .. NRuns
      BY <2>2
    <3>3. PICK t : t = FailedRun
      OBVIOUS
    <3>4. Types /\ Is(t, "release", "fail_run") /\ Len(t) = 4 /\ Begin(h, t) /\ h \in 0 .. NRuns
      BY <1>1, <3>1, <3>2, <3>3
    <3>5. pc' = [Nobody EXCEPT !.run = h, !.todo = t] /\ t \in Todos
      BY <3>4 DEF Begin, Is
    <3>6. pc'.todo = t /\ pc'.run = h /\ pc' \in PcType
      BY <3>4, <3>5 DEF Nobody, PcType
    <3>7. QED
      BY <3>4, <3>6 DEF Is, word, goal, left
  <2>4. BoundIn(h, {"failed"}) /\ BoundIn(h, Terminal) /\ run[h].task # 0
    <3>1. TaskAt(h) \in DOMAIN queue /\ Bound(h, TaskAt(h)) /\ BoundIn(h, {"failed"})
      BY <1>1, <2>2, TaskPlace
    <3>2. run[h].task # 0
      BY <1>1, <3>1, BoundTask
    <3>3. QED
      BY <3>1, <3>2 DEF BoundIn, Terminal
  <2>5. run[h].status \in Queued
    <3>1. run[h].status \in Statuses /\ run[h].dfail
      BY <1>1, <2>2 DEF Types, RunState
    <3>2. BeforeQueue(h)
      BY DEF IInv, EachRun
    <3>3. run[h].status \notin Early
      BY <3>1, <3>2 DEF BeforeQueue
    <3>4. QED
      BY <3>1, <3>3 DEF Early, Queued, Statuses
  <2>6. Handler'
    BY <1>1, <1>2, <2>3 DEF Handler
  <2>7. /\ \A S : BoundIn(h, S)' <=> BoundIn(h, S)
        /\ FailureFirst(h)'
    BY <1>1, <2>2 DEF BoundIn, Bound, FailureFirst
  <2>8. Places'
    BY <1>1, <2>2, <2>3, <2>4, <2>5, <2>7
       DEF Places, ApprovePlaces, CancelPlaces, EndPlaces, Approving,
         Compensating, Withdrawing, Releasing, Ending, Settling
  <2>9. NoneOpen' /\ Dispatch'
    BY <1>1, <1>2, <2>3, Quiet DEF Guarded
  <2>10. QED
    BY <1>1, <1>2, <2>2, <2>3, <2>6, <2>8, <2>9, HandlerKeeps, CountersType
<1>5. CASE CancelPending = 0 /\ ~(f # 0 /\ TaskStatus(f) = "failed")
  <2>1. /\ Begin(0, <<"pending">>)
        /\ IF f # 0 /\ TaskStatus(f) = "queued"
             THEN run' = [run EXCEPT ![f].dfail = FALSE] ELSE UNCHANGED run
    BY <1>5 DEF Look
  <2>2. word' = "pending" /\ goal' = "pending" /\ pc'.run = 0 /\ pc' \in PcType
    <3>1. Is(<<"pending">>, "pending", "pending") /\ 0 \in 0 .. NRuns
      BY Beginnings, LifecycleConstants
    <3>2. QED
      BY <1>1, <2>1, <3>1, Starting
  <2>3. Handler' /\ Places'
    BY <1>1, <1>2, <2>2 DEF Handler, Places
  <2>4. Dispatch'
    BY <1>1, <1>2, <2>2 DEF Dispatch, Recording
  \* No run whose tokens are gone has a good result: such a run is the first failure, and
  \* its task failed.
  <2>5. ASSUME NEW r \in Runs, InProgress(r), run[r].result = "ok" PROVE run[r].res # "released"
    <3>1. SUFFICES ASSUME run[r].res = "released" PROVE FALSE
      OBVIOUS
    <3>2. ~run[r].cancel
      BY <1>5, <2>5, Looked DEF InProgress
    <3>3. Binds(r) /\ Holds(r)
      BY DEF IInv, EachRun
    <3>4. BoundIn(r, {"failed"}) /\ FailureFirst(r)
      BY <2>5, <3>1, <3>2, <3>3 DEF Holds
    <3>5. f # 0 /\ f \in Runs /\ run[f].dfail /\ run[f].status \notin Terminal
          /\ \A q \in 1 .. f - 1 : run[q].dfail => run[q].status \in Terminal
      BY <2>5, <3>4, Looked DEF FailureFirst, InProgress, Terminal
    <3>6. f = r
      <4>1. run[r].dfail /\ run[r].status \notin Terminal
        BY <2>5, <3>4 DEF FailureFirst, InProgress, Terminal
      <4>2. \A q \in 1 .. r - 1 : run[q].dfail => run[q].status \in Terminal
        BY <3>4 DEF FailureFirst
      <4>3. r \in 1 .. NRuns /\ f \in 1 .. NRuns
        BY <3>5 DEF Runs
      <4>4. ~(f < r) /\ ~(r < f)
        BY <3>5, <4>1, <4>2, <4>3, LifecycleConstants
      <4>5. QED
        BY <4>3, <4>4, LifecycleConstants
    <3>7. PICK i \in DOMAIN queue : Bound(r, i)
      BY <2>5, <3>3 DEF Binds
    <3>8. TaskStatus(r) = "failed"
      BY <1>1, <3>4, <3>7, TaskPlace DEF BoundIn
    <3>9. QED
      BY <1>5, <3>5, <3>6, <3>8
  <2>6. \A r \in Runs : run[r].cancel => run[r].status = "cancelled"
    BY <1>5, Looked
  <2>7. CASE f # 0 /\ TaskStatus(f) = "queued"
    <3>1. PICK h \in Runs : h = f
      BY <2>7, Looked
    <3>2. PICK record : record = [run[h] EXCEPT !.dfail = FALSE]
      OBVIOUS
    <3>3. run' = [run EXCEPT ![h] = record]
      BY <1>1, <2>1, <2>7, <3>1, <3>2 DEF Types
    <3>4. run[h] \in RunState /\ run[h].result # "rejected"
      BY <1>1 DEF Types
    <3>5. /\ record \in RunState /\ record.result = run[h].result /\ ~record.dfail
          /\ record.status = run[h].status /\ record.task = run[h].task
          /\ record.res = run[h].res /\ record.cancel = run[h].cancel
          /\ record.comp = run[h].comp /\ record.artifact = run[h].artifact
      BY <3>2, <3>4 DEF RunState
    <3>6. /\ run'[h] = record /\ gw'[h] = gw[h] /\ charged'[h] = charged[h]
          /\ Only(h) /\ Typed
      BY <1>1, <1>2, <2>2, <3>3, <3>4, <3>5, RecordStep
    <3>7. /\ \A i : Bound(h, i)' <=> Bound(h, i)
          /\ \A S : BoundIn(h, S)' <=> BoundIn(h, S)
      BY <1>1, <3>5, <3>6, SameTasks
    <3>8. Binds(h) /\ BeforeQueue(h) /\ Holds(h) /\ Closed(h)
      BY DEF IInv, EachRun
    <3>9. ~BoundIn(h, {"failed"})
      <4>1. \A S : TaskStatus(h) \in S /\ "missing" \notin S =>
               Bound(h, TaskAt(h)) /\ TaskAt(h) \in DOMAIN queue
               /\ queue[TaskAt(h)].status = TaskStatus(h)
        BY <1>1, TaskPlace
      <4>2. /\ Bound(h, TaskAt(h)) /\ TaskAt(h) \in DOMAIN queue
            /\ queue[TaskAt(h)].status = "queued"
        BY <2>7, <3>1, <4>1
      <4>3. QED
        BY <4>2 DEF BoundIn
    <3>10. Keeps(h)
      <4>1. Binds(h)' /\ Closed(h)'
        BY <1>1, <3>5, <3>6, <3>7, <3>8 DEF Binds, Closed, InProgress
      <4>2. BeforeQueue(h)'
        BY <3>5, <3>6, <3>8 DEF BeforeQueue, Funded
      <4>3. Holds(h)'
        BY <3>5, <3>6, <3>7, <3>8, <3>9 DEF Holds, Funded, InProgress
      <4>4. QED
        BY <4>1, <4>2, <4>3 DEF Keeps
    <3>11. NoNewFailure(h)
      BY <3>5, <3>6 DEF NoNewFailure
    <3>12. NoneOpen'
      <4>1. \A r \in Runs : /\ run'[r].cancel = run[r].cancel /\ run'[r].status = run[r].status
                            /\ run'[r].result = run[r].result /\ run'[r].res = run[r].res
        BY <3>5, <3>6 DEF Only
      <4>2. \A r \in Runs : run'[r].cancel => run'[r].status = "cancelled"
        BY <2>6, <4>1
      <4>3. \A r \in Runs : InProgress(r)' /\ run'[r].result = "ok" => run'[r].res # "released"
        BY <2>5, <4>1 DEF InProgress
      <4>4. QED
        BY <1>1, <1>2, <2>2, <4>2, <4>3 DEF NoneOpen, Recording
    <3>13. QED
      BY <1>1, <2>3, <2>4, <3>6, <3>10, <3>11, <3>12, RunStep DEF IInv
  <2>8. CASE ~(f # 0 /\ TaskStatus(f) = "queued")
    <3>1. UNCHANGED run
      BY <2>1, <2>8
    <3>2. NoneOpen'
      BY <1>1, <1>2, <2>2, <2>5, <2>6, <3>1 DEF NoneOpen, Recording, InProgress
    <3>3. QED
      BY <1>1, <1>2, <2>2, <2>3, <2>4, <3>1, <3>2, HandlerKeeps, CountersType
  <2>9. QED
    BY <2>7, <2>8
<1>6. QED
  BY <1>3, <1>4, <1>5

-----------------------------------------------------------------------------
(* The supervisor's list changes *)

Moved == TasksMove /\ Tasks' /\ queue' \in Seq(Task) /\ Len(queue') <= MaxTasks

LEMMA NoMove == ASSUME IInv, UNCHANGED <<run, queue>> PROVE Moved
BY DEF IInv, Types, Tasks, Moved, TasksMove

\* One task that is not over changes, and keeps its run and its id.
LEMMA OneTask ==
  ASSUME IInv, UNCHANGED run, NEW i \in DOMAIN queue, NEW t \in Task,
         t.run = queue[i].run, t.task = queue[i].task, queue[i].status \notin Terminal,
         t.status = "queued" => t.attempt < MaxAttempts, queue' = [queue EXCEPT ![i] = t]
  PROVE  /\ Moved /\ DOMAIN queue' = DOMAIN queue
         /\ \A r, j : Bound(r, j)' <=> Bound(r, j)
         /\ \A r, S : Bound(r, i) => (BoundIn(r, S)' <=> t.status \in S)
         /\ \A r, S : ~Bound(r, i) => (BoundIn(r, S)' <=> BoundIn(r, S))
<1>1. queue \in Seq(Task) /\ Len(queue) <= MaxTasks /\ Tasks
  BY DEF IInv, Types
<1>2. /\ DOMAIN queue' = DOMAIN queue /\ queue'[i] = t
      /\ \A j : j # i => queue'[j] = queue[j]
  BY <1>1
<1>3. queue' \in Seq(Task) /\ Len(queue') <= MaxTasks
  BY <1>1
<1>4. \A j : queue'[j].run = queue[j].run /\ queue'[j].task = queue[j].task
  BY <1>2
<1>5. TasksMove
  BY <1>2, <1>4 DEF TasksMove
<1>6. Tasks'
  BY <1>1, <1>2, <1>4 DEF Tasks
<1>7. \A r, j : Bound(r, j)' <=> Bound(r, j)
  BY <1>4 DEF Bound
<1>8. ASSUME NEW r, NEW S, Bound(r, i) PROVE BoundIn(r, S)' <=> t.status \in S
  <2>1. \A j \in DOMAIN queue : Bound(r, j) => j = i
    BY <1>1, <1>8 DEF Tasks, Bound
  <2>2. QED
    BY <1>2, <1>7, <1>8, <2>1 DEF BoundIn
<1>9. ASSUME NEW r, NEW S, ~Bound(r, i) PROVE BoundIn(r, S)' <=> BoundIn(r, S)
  BY <1>2, <1>7, <1>9 DEF BoundIn
<1>10. QED
  BY <1>2, <1>3, <1>5, <1>6, <1>7, <1>8, <1>9 DEF Moved

\* The task of the handler's run is closed.
LEMMA Closes ==
  ASSUME IInv, UNCHANGED run, NEW h \in Runs, h = pc.run, NEW s \in Terminal, TaskOpen(h) \/ TaskStatus(h) = "running",
         SetTask(s)
  PROVE  /\ Moved /\ BoundIn(h, {s})' /\ BoundIn(h, Terminal)'
         /\ \A r \in Runs : \A S : r # h => (BoundIn(r, S)' <=> BoundIn(r, S))
<1>1. PICK i : i = TaskAt(h)
  OBVIOUS
<1>2. /\ i \in DOMAIN queue /\ Bound(h, i) /\ queue[i].status \in {"queued", "running"}
      /\ queue \in Seq(Task) /\ queue[i] \in Task
  <2>1. Types /\ Tasks
    BY DEF IInv
  <2>2. TaskStatus(h) \in {"queued", "running"}
    BY DEF TaskOpen
  <2>3. /\ i \in DOMAIN queue /\ Bound(h, i) /\ queue[i].status = TaskStatus(h)
    BY <1>1, <2>1, <2>2, TaskPlace
  <2>4. queue \in Seq(Task)
    BY <2>1 DEF Types
  <2>5. queue[i] \in Task
    BY <2>3, <2>4
  <2>6. QED
    BY <2>2, <2>3, <2>4, <2>5
<1>3. PICK t : t = [queue[i] EXCEPT !.status = s]
  OBVIOUS
<1>4. /\ t \in Task /\ t.run = queue[i].run /\ t.task = queue[i].task /\ t.status = s
      /\ s # "queued" /\ queue[i].status \notin Terminal
  BY <1>2, <1>3 DEF Task, TaskStatuses, Terminal
<1>5. queue' = [queue EXCEPT ![i] = t]
  BY <1>1, <1>2, <1>3 DEF SetTask
<1>6. \A r \in Runs : r # h => ~Bound(r, i)
  BY <1>2 DEF Bound
<1>7. /\ Moved
      /\ \A r, S : Bound(r, i) => (BoundIn(r, S)' <=> t.status \in S)
      /\ \A r, S : ~Bound(r, i) => (BoundIn(r, S)' <=> BoundIn(r, S))
  BY <1>2, <1>4, <1>5, OneTask
<1>8. QED
  BY <1>2, <1>4, <1>6, <1>7

\* The end of an attempt: the task is tried again while attempts are left.
LEMMA EndOfAttempt ==
  ASSUME NEW t \in Task
  PROVE  /\ Ended(t) \in Task /\ Ended(t).run = t.run /\ Ended(t).task = t.task
         /\ \/ Ended(t).status = "failed"
            \/ Ended(t).status = "queued" /\ Ended(t).attempt < MaxAttempts
<1>1. CASE t.attempt >= MaxAttempts
  BY <1>1 DEF Ended, Task, TaskStatuses, Terminal
<1>2. CASE ~(t.attempt >= MaxAttempts)
  <2>1. Ended(t) = [t EXCEPT !.status = "queued", !.due = FALSE]
    BY <1>2 DEF Ended
  <2>2. t.attempt < MaxAttempts
    BY <1>2, LifecycleConstants DEF Task
  <2>3. QED
    BY <2>1, <2>2 DEF Task, TaskStatuses, Terminal
<1>3. QED
  BY <1>1, <1>2

\* Attempts end.
LEMMA AttemptsEnd ==
  ASSUME IInv, UNCHANGED run, DOMAIN queue' = DOMAIN queue,
         \E P \in SUBSET DOMAIN queue : queue' = [i \in DOMAIN queue |->
            IF queue[i].status = "running" /\ i \in P THEN Ended(queue[i]) ELSE queue[i]]
  PROVE  Moved
<1>1. PICK P \in SUBSET DOMAIN queue : queue' = [i \in DOMAIN queue |->
            IF queue[i].status = "running" /\ i \in P THEN Ended(queue[i]) ELSE queue[i]]
  OBVIOUS
<1>2. queue \in Seq(Task) /\ Len(queue) <= MaxTasks /\ Tasks
  BY DEF IInv, Types
<1>3. ASSUME NEW i \in DOMAIN queue
      PROVE  /\ queue'[i] \in Task /\ queue'[i].run = queue[i].run /\ queue'[i].task = queue[i].task
             /\ queue[i].status \in Terminal => queue'[i].status = queue[i].status
             /\ queue'[i].status = "queued" => queue'[i].attempt < MaxAttempts
  <2>1. queue[i] \in Task /\ (queue[i].status = "queued" => queue[i].attempt < MaxAttempts)
    BY <1>2 DEF Tasks
  <2>2. queue'[i] = queue[i] \/ (queue[i].status = "running" /\ queue'[i] = Ended(queue[i]))
    BY <1>1
  <2>3. QED
    BY <2>1, <2>2, EndOfAttempt DEF Terminal
<1>4. queue' \in Seq(Task) /\ Len(queue') <= MaxTasks
  <2>1. PICK n \in Nat : n = Len(queue) /\ DOMAIN queue = 1 .. n
    BY <1>2
  <2>2. queue' \in [1 .. n -> Task]
    BY <1>1, <1>3, <2>1
  <2>3. queue' \in Seq(Task) /\ Len(queue') = n
    BY <2>1, <2>2
  <2>4. QED
    BY <1>2, <2>1, <2>3
<1>5. TasksMove
  BY <1>3 DEF TasksMove
<1>6. Tasks'
  BY <1>2, <1>3 DEF Tasks
<1>7. QED
  BY <1>4, <1>5, <1>6 DEF Moved

LEMMA TaskKeeps ==
  ASSUME IInv, UNCHANGED <<run, gw, charged>>, Counted, Moved, pc' \in PcType,
         flight' \in 0 .. NRuns, starts' \in [Runs -> Nat], Handler', NoneOpen', Dispatch', Places'
  PROVE  IInv'
BY TaskStep DEF IInv, Moved

\* Only the tasks of other runs than the dispatched one change.
LEMMA BesideTask ==
  ASSUME IInv, UNCHANGED <<run, gw, flight>>, word' \notin Guarded,
         flight # 0 /\ run[flight].status = "running" =>
           (BoundIn(flight, {"running"}) => BoundIn(flight, {"running"})')
  PROVE  NoneOpen' /\ Dispatch'
<1>1. NoneOpen'
  BY DEF IInv, NoneOpen, Guarded, Claiming, Recording
<1>2. flight # 0 => Awaited(flight)'
  BY DEF IInv, Dispatch, Awaited, Funded, BoundIn, Bound
<1>3. Dispatch'
  BY <1>2 DEF Dispatch, Recording, Guarded, Awaited, BoundIn, Bound, Funded
<1>4. QED
  BY <1>1, <1>3

-----------------------------------------------------------------------------
(* Writes to the supervisor's list: the operator's handlers *)

LEMMA CompCancelKeeps == ASSUME IInv, CompCancel PROVE IInv'
<1>1. /\ UNCHANGED <<run, gw, flight, starts, charged, counters>> /\ word = "comp_cancel"
      /\ Types /\ pc.run \in Runs /\ Continue
      /\ flight \in 0 .. NRuns /\ starts \in [Runs -> Nat]
  BY Words DEF IInv, CompCancel, Handler, Types
<1>2. PICK h \in Runs : h = pc.run
  BY <1>1
<1>3. /\ word' = "release" /\ goal' \in {"queue", "comp_clear"}
      /\ pc'.run = h /\ pc' \in PcType
  BY <1>1, <1>2, CompCancelPath, Goes DEF Types, word, goal
<1>4. run[h].status = "approved" /\ run[h].comp
  BY <1>1, <1>2 DEF IInv, Places, ApprovePlaces, Approving, Compensating
<1>5. /\ Moved
      /\ \A r \in Runs : r # h => (BoundIn(r, {"running"}) => BoundIn(r, {"running"})')
  <2>1. CASE TaskOpen(h)
    <3>1. SetTask("cancelled") /\ "cancelled" \in Terminal
      BY <1>2, <2>1 DEF CompCancel, Terminal
    <3>2. QED
      BY <1>1, <1>2, <2>1, <3>1, Closes
  <2>2. CASE ~TaskOpen(h)
    <3>1. UNCHANGED queue
      BY <1>2, <2>2 DEF CompCancel
    <3>2. Moved
      BY <1>1, <3>1, NoMove
    <3>3. QED
      BY <1>1, <3>1, <3>2 DEF BoundIn, Bound
  <2>3. QED
    BY <2>1, <2>2
<1>6. Handler'
  BY <1>3 DEF Handler, Approving
<1>7. Places'
  BY <1>1, <1>3, <1>4 DEF Places, ApprovePlaces, CancelPlaces, EndPlaces, Approving, Compensating,
                          Withdrawing, Releasing, Ending, Settling
<1>8. NoneOpen' /\ Dispatch'
  <2>1. flight # 0 /\ run[flight].status = "running" => flight \in Runs /\ flight # h
    BY <1>1, <1>4, LifecycleConstants DEF Runs
  <2>2. QED
    BY <1>1, <1>3, <1>5, <2>1, BesideTask DEF Guarded
<1>9. QED
  BY <1>1, <1>3, <1>5, <1>6, <1>7, <1>8, TaskKeeps, CountersType

\* The task of a run is cancelled unless it is over; one that is not there is an error.
LEMMA CancelTaskKeeps == ASSUME IInv, CancelTask PROVE IInv'
<1>1. /\ UNCHANGED <<run, gw, flight, starts, charged, counters>> /\ word = "cancel_task"
      /\ Types /\ Tasks /\ pc.run \in Runs
      /\ flight \in 0 .. NRuns /\ starts \in [Runs -> Nat]
  BY Words DEF IInv, CancelTask, Handler, Types
<1>2. PICK h \in Runs : h = pc.run
  BY <1>1
<1>3. /\ run[h].cancel /\ ~(flight = h /\ run[h].status = "running")
      /\ run[h].task = 0 => gw[h] # "active"
  BY <1>1, <1>2 DEF IInv, Places, CancelPlaces, Withdrawing
<1>4. /\ Moved
      /\ \A r \in Runs : r # h => (BoundIn(r, {"running"}) => BoundIn(r, {"running"})')
      /\ word' = "cancel_release" /\ goal' = goal
      /\ pc'.run = h /\ pc' \in PcType
      /\ pc'.err \/ BoundIn(h, Terminal)'
  <2>1. Moves(pc.todo, "cancel_release")
    BY <1>1, CancelPath DEF Types, word
  <2>2. CASE run[h].task = 0 \/ TaskStatus(h) \in Terminal
    <3>1. UNCHANGED queue /\ Continue
      BY <1>2, <2>2 DEF CancelTask, Here
    <3>2. BoundIn(h, Terminal)
      <4>1. CASE run[h].task = 0
        BY <1>1, <4>1, BoundTask DEF BoundIn
      <4>2. CASE TaskStatus(h) \in Terminal
        <5>1. "missing" \notin Terminal
          BY DEF Terminal
        <5>2. QED
          BY <1>1, <4>2, <5>1, TaskPlace
      <4>3. QED
        BY <2>2, <4>1, <4>2
    <3>3. Moved
      BY <1>1, <3>1, NoMove
    <3>4. /\ word' = "cancel_release" /\ goal' = goal /\ pc'.run = h /\ pc' \in PcType
      BY <1>1, <1>2, <2>1, <3>1, Goes
    <3>5. QED
      BY <1>1, <3>1, <3>2, <3>3, <3>4 DEF BoundIn, Bound
  <2>3. CASE ~(run[h].task = 0 \/ TaskStatus(h) \in Terminal) /\ TaskOpen(h)
    <3>1. SetTask("cancelled") /\ Continue /\ "cancelled" \in Terminal
      BY <1>2, <2>3 DEF CancelTask, Here, Terminal
    <3>2. /\ word' = "cancel_release" /\ goal' = goal /\ pc'.run = h /\ pc' \in PcType
      BY <1>1, <1>2, <2>1, <3>1, Goes
    <3>3. QED
      BY <1>1, <1>2, <2>3, <3>1, <3>2, Closes
  <2>4. CASE ~(run[h].task = 0 \/ TaskStatus(h) \in Terminal) /\ ~TaskOpen(h)
    <3>1. UNCHANGED queue /\ pc' = [pc EXCEPT !.todo = Tail(pc.todo), !.err = TRUE]
      BY <1>2, <2>4 DEF CancelTask, Here
    <3>2. Moved
      BY <1>1, <3>1, NoMove
    <3>3. /\ word' = "cancel_release" /\ goal' = goal /\ pc'.run = h /\ pc' \in PcType
          /\ pc'.err
      BY <1>1, <1>2, <2>1, <3>1, GoesWithError
    <3>4. QED
      BY <1>1, <3>1, <3>2, <3>3 DEF BoundIn, Bound
  <2>5. QED
    BY <2>2, <2>3, <2>4
<1>5. Handler'
  BY <1>4 DEF Handler, Withdrawing, Releasing
<1>6. Places'
  BY <1>1, <1>2, <1>3, <1>4
     DEF IInv, Places, ApprovePlaces, CancelPlaces, EndPlaces, Approving, Compensating,
                          Withdrawing, Releasing, Ending, Settling
<1>7. NoneOpen' /\ Dispatch'
  <2>1. flight # 0 /\ run[flight].status = "running" => flight \in Runs /\ flight # h
    BY <1>1, <1>3, LifecycleConstants DEF Runs
  <2>2. QED
    BY <1>1, <1>4, <2>1, BesideTask DEF Guarded
<1>8. QED
  BY <1>1, <1>4, <1>5, <1>6, <1>7, TaskKeeps, CountersType

\* A new task; or a full list, and the approval is compensated.
LEMMA EnqueueKeeps == ASSUME IInv, Enqueue PROVE IInv'
<1>1. /\ UNCHANGED <<run, gw, flight, starts, charged, counters>> /\ word = "enqueue"
      /\ Types /\ Tasks /\ pc.run \in Runs
      /\ flight \in 0 .. NRuns /\ starts \in [Runs -> Nat]
  BY Words DEF IInv, Enqueue, Handler, Types
<1>2. PICK h \in Runs : h = pc.run
  BY <1>1
<1>3. /\ run[h].status = "approved" /\ run[h].task # 0
      /\ run[h].cancel \/ Funded(h)
  BY <1>1, <1>2 DEF IInv, Places, ApprovePlaces, Approving
<1>4. Moves(pc.todo, "queue") /\ goal = "queue"
  BY <1>1, ApprovePath DEF Types, word, goal
<1>5. ASSUME Moved, Continue, \E i \in DOMAIN queue' : Bound(h, i)',
             \A r \in Runs : r # h => (BoundIn(r, {"running"}) => BoundIn(r, {"running"})')
      PROVE  IInv'
  <2>1. word' = "queue" /\ goal' = "queue" /\ pc'.run = h /\ pc' \in PcType
    BY <1>1, <1>2, <1>4, <1>5, Goes
  <2>2. Handler'
    BY <2>1 DEF Handler, Approving
  <2>3. Places'
    BY <1>1, <1>3, <1>5, <2>1 DEF Places, ApprovePlaces, CancelPlaces, EndPlaces, Approving,
         Compensating, Withdrawing, Releasing, Ending, Settling, Funded
  <2>4. NoneOpen' /\ Dispatch'
    <3>1. flight # 0 /\ run[flight].status = "running" => flight \in Runs /\ flight # h
      BY <1>1, <1>3, LifecycleConstants DEF Runs
    <3>2. QED
      BY <1>1, <1>5, <2>1, <3>1, BesideTask DEF Guarded
  <2>5. QED
    BY <1>1, <1>5, <2>1, <2>2, <2>3, <2>4, TaskKeeps, CountersType
<1>6. CASE TaskAt(h) # 0
  <2>1. UNCHANGED queue /\ Continue
    BY <1>2, <1>6 DEF Enqueue
  <2>2. Moved
    BY <1>1, <2>1, NoMove
  <2>3. TaskAt(h) \in DOMAIN queue /\ Bound(h, TaskAt(h))
    BY <1>1, <1>6, TaskPlace
  <2>4. QED
    BY <1>1, <1>5, <2>1, <2>2, <2>3 DEF BoundIn, Bound
<1>7. CASE TaskAt(h) = 0 /\ Len(queue) < MaxTasks
  <2>1. PICK t : t = NewTask(h)
    OBVIOUS
  <2>2. queue' = Append(queue, t) /\ Continue
    BY <1>2, <1>7, <2>1 DEF Enqueue
  <2>3. t \in Task /\ t.run = h /\ t.task = run[h].task /\ t.attempt < MaxAttempts
    <3>1. run[h].task \in 1 .. MaxTasks + 1
      BY <1>1, <1>3, LifecycleConstants DEF Types, RunState
    <3>2. QED
      BY <2>1, <3>1, LifecycleConstants DEF NewTask, Task, TaskStatuses
  <2>4. PICK n \in Nat : /\ n = Len(queue) /\ DOMAIN queue = 1 .. n /\ n < MaxTasks
                         /\ queue \in Seq(Task)
    BY <1>1, <1>7 DEF Types
  <2>5. /\ DOMAIN queue' = 1 .. n + 1 /\ queue'[n + 1] = t /\ queue' \in Seq(Task)
        /\ \A i \in 1 .. n : queue'[i] = queue[i]
        /\ Len(queue') = n + 1 /\ n + 1 \notin 1 .. n
    BY <2>2, <2>3, <2>4
  <2>6. \A i \in DOMAIN queue : ~Bound(h, i)
    BY <1>1, <1>7, TaskPlace DEF Types
  <2>7. /\ \A i \in 1 .. n : queue[i].run = h => queue[i].task # run[h].task
        /\ \A i \in 1 .. n : queue'[i].run = queue[i].run /\ queue'[i].task = queue[i].task
                             /\ queue'[i].status = queue[i].status
    BY <2>4, <2>5, <2>6 DEF Bound
  <2>8. TasksMove
    BY <1>3, <2>3, <2>4, <2>5, <2>7 DEF TasksMove, Early
  <2>9. Tasks'
    <3>1. \A i \in 1 .. n + 1 : i = n + 1 \/ i \in 1 .. n
      OBVIOUS
    <3>2. \A i, j \in 1 .. n : queue[i].run = queue[j].run /\ queue[i].task = queue[j].task => i = j
      BY <1>1, <2>4 DEF Tasks
    <3>3. ASSUME NEW i \in 1 .. n + 1, NEW j \in 1 .. n + 1,
                 queue'[i].run = queue'[j].run, queue'[i].task = queue'[j].task
          PROVE  i = j
      BY <2>3, <2>5, <2>7, <3>1, <3>2, <3>3
    <3>4. \A i \in 1 .. n + 1 : queue'[i].status = "queued" => queue'[i].attempt < MaxAttempts
      BY <1>1, <2>3, <2>4, <2>5, <3>1 DEF Tasks
    <3>5. QED
      BY <2>5, <3>3, <3>4 DEF Tasks
  <2>10. Moved
    BY <2>4, <2>5, <2>8, <2>9, LifecycleConstants DEF Moved
  <2>11. \E i \in DOMAIN queue' : Bound(h, i)'
    BY <1>1, <2>3, <2>5 DEF Bound
  <2>12. \A r \in Runs : r # h => (BoundIn(r, {"running"}) => BoundIn(r, {"running"})')
    <3>1. SUFFICES ASSUME NEW r \in Runs, r # h, BoundIn(r, {"running"}),
                          NEW i \in DOMAIN queue', Bound(r, i)'
                   PROVE  queue'[i].status \in {"running"}
      BY DEF BoundIn
    <3>2. i \in 1 .. n
      BY <2>3, <2>5, <3>1 DEF Bound
    <3>3. Bound(r, i)
      BY <1>1, <2>7, <3>1, <3>2 DEF Bound
    <3>4. QED
      BY <2>4, <2>7, <3>1, <3>2, <3>3 DEF BoundIn
  <2>13. QED
    BY <1>5, <2>2, <2>10, <2>11, <2>12
<1>8. CASE TaskAt(h) = 0 /\ ~(Len(queue) < MaxTasks)
  <2>1. Then(<<"compensate">> \o Compensation) /\ UNCHANGED queue
    BY <1>2, <1>8 DEF Enqueue
  <2>2. /\ word' = "compensate" /\ goal' = "comp_clear"
        /\ pc'.run = h /\ pc' \in PcType
    BY <1>1, <1>2, <2>1, Beginnings, Turns
  <2>3. Handler'
    BY <2>2 DEF Handler, Approving
  <2>4. Places'
    BY <1>1, <1>3, <2>1, <2>2 DEF Places, ApprovePlaces, CancelPlaces, EndPlaces, Approving,
         Compensating, Withdrawing, Releasing, Ending, Settling
  <2>5. NoneOpen' /\ Dispatch'
    BY <1>1, <2>1, <2>2, BesideHandler DEF Guarded
  <2>6. QED
    BY <1>1, <2>1, <2>2, <2>3, <2>4, <2>5, HandlerKeeps, CountersType
<1>9. QED
  BY <1>6, <1>7, <1>8

-----------------------------------------------------------------------------
(* Writes to the supervisor's list: the end of a run *)

\* supervisor.cancel of the worker of a cancelled run.
LEMMA CancelWorkerKeeps == ASSUME IInv, CancelWorker PROVE IInv'
<1>1. /\ UNCHANGED <<run, gw, flight, starts, charged, counters>> /\ word = "cancel_worker"
      /\ Types /\ Tasks /\ pc.run \in Runs /\ starts \in [Runs -> Nat]
  BY Words DEF IInv, CancelWorker, Handler, Types
<1>2. flight = 0 /\ flight \in 0 .. NRuns
  BY <1>1 DEF IInv, Types, Handler, Approving, Compensating, Withdrawing, Releasing
<1>3. PICK h \in Runs : h = pc.run
  BY <1>1
<1>4. CASE TaskOpen(h)
  <2>1. SetTask("cancelled") /\ Continue /\ "cancelled" \in Terminal
    BY <1>3, <1>4 DEF CancelWorker, Terminal
  <2>2. Moved /\ BoundIn(h, Terminal)'
    BY <1>1, <1>3, <1>4, <2>1, Closes
  <2>3. /\ run[h].status \in Queued /\ run[h].task # 0 /\ run[h].cancel
        /\ goal = "fail_run" => run[h].result \in Spent
    BY <1>1, <1>3 DEF IInv, Places, EndPlaces, Ending
  <2>4. /\ pc'.run = h /\ pc' \in PcType
        /\ \/ word' = "drop_task" /\ goal = "fail_run" /\ goal' = "fail_run" /\ left' # 3
           \/ word' = "settle" /\ goal' = "end_cancelled"
    <3>1. \/ Moves(pc.todo, "drop_task") /\ goal = "fail_run" /\ left = 6
          \/ Moves(pc.todo, "settle") /\ goal = "end_cancelled"
      BY <1>1, CancelWorkerPath DEF Types, word, goal, left
    <3>2. CASE Moves(pc.todo, "drop_task") /\ goal = "fail_run" /\ left = 6
      BY <1>1, <1>3, <2>1, <3>2, Goes
    <3>3. CASE Moves(pc.todo, "settle") /\ goal = "end_cancelled"
      BY <1>1, <1>3, <2>1, <3>3, Goes
    <3>4. QED
      BY <3>1, <3>2, <3>3
  <2>5. Handler'
    BY <1>1, <1>2, <2>4 DEF Handler
  <2>6. Places'
    BY <1>1, <2>2, <2>3, <2>4 DEF Places, ApprovePlaces, CancelPlaces, EndPlaces, Approving,
         Compensating, Withdrawing, Releasing, Ending, Settling
  <2>7. NoneOpen' /\ Dispatch'
    BY <1>1, <1>2, <2>4, Quiet DEF Guarded
  <2>8. QED
    BY <1>1, <1>2, <2>2, <2>4, <2>5, <2>6, <2>7, TaskKeeps, CountersType
<1>5. CASE ~TaskOpen(h)
  <2>1. UNCHANGED queue /\ pc' = Nobody
    BY <1>3, <1>5 DEF CancelWorker, Stop
  <2>2. QED
    BY <1>1, <2>1, StopKeeps, CountersType
<1>6. QED
  BY <1>4, <1>5

\* supervisor.fail: with attempts left, the run is tried again.
LEMMA FailTaskKeeps == ASSUME IInv, FailTask PROVE IInv'
<1>1. /\ UNCHANGED <<run, gw, flight, starts, charged, counters>> /\ word = "fail_task"
      /\ Types /\ Tasks /\ pc.run \in Runs /\ starts \in [Runs -> Nat]
  BY Words DEF IInv, FailTask, Handler, Types
<1>2. flight = 0 /\ flight \in 0 .. NRuns
  BY <1>1 DEF IInv, Types, Handler, Approving, Compensating, Withdrawing, Releasing
<1>3. PICK h \in Runs : h = pc.run
  BY <1>1
<1>4. CASE TaskStatus(h) # "running"
  <2>1. UNCHANGED queue /\ pc' = Nobody
    BY <1>3, <1>4 DEF FailTask, Stop
  <2>2. QED
    BY <1>1, <2>1, StopKeeps, CountersType
<1>5. CASE TaskStatus(h) = "running"
  <2>1. PICK i : i = TaskAt(h)
    OBVIOUS
  <2>2. i \in DOMAIN queue /\ Bound(h, i) /\ queue[i].status = "running" /\ queue[i] \in Task
    <3>1. i \in DOMAIN queue /\ Bound(h, i) /\ queue[i].status = "running"
      BY <1>1, <1>5, <2>1, TaskPlace
    <3>2. QED
      BY <1>1, <3>1 DEF Types
  <2>3. PICK ended : ended = Ended(queue[i])
    OBVIOUS
  <2>4. /\ queue' = [queue EXCEPT ![i] = ended]
        /\ IF ended.status = "queued" /\ ~OverBudget(run[h].result)
             THEN Then(<<"clear_result">>) ELSE Continue
    BY <1>3, <1>5, <2>1, <2>3 DEF FailTask, Here
  <2>5. /\ ended \in Task /\ ended.run = queue[i].run /\ ended.task = queue[i].task
        /\ \/ ended.status = "failed"
           \/ ended.status = "queued" /\ ended.attempt < MaxAttempts
    BY <2>2, <2>3, EndOfAttempt
  <2>6. Moved /\ (\A S : BoundIn(h, S)' <=> ended.status \in S)
    <3>1. queue[i].status \notin Terminal
      BY <2>2 DEF Terminal
    <3>2. QED
      BY <1>1, <2>2, <2>4, <2>5, <3>1, OneTask
  <2>7. /\ run[h].status \in Queued /\ run[h].task # 0 /\ Failed(run[h].result) /\ ~run[h].cancel
        /\ pc.todo[2] = "drop_task" <=> OverBudget(run[h].result)
    BY <1>1, <1>3 DEF IInv, Places, EndPlaces, Ending
  <2>8. InProgress(h) /\ (run[h].result = "failed" => Funded(h))
    <3>1. Holds(h) /\ Closed(h)
      BY DEF IInv, EachRun
    <3>2. ~BoundIn(h, Terminal) /\ ~BoundIn(h, {"failed"})
      BY <2>2 DEF BoundIn, Terminal
    <3>3. InProgress(h)
      BY <2>7, <3>1, <3>2 DEF Closed, Failed, Queued, InProgress
    <3>4. QED
      BY <2>7, <3>1, <3>2, <3>3 DEF Holds
  <2>9. CASE ended.status = "queued" /\ ~OverBudget(run[h].result)
    <3>1. word' = "clear_result" /\ goal' = "clear_result" /\ pc'.run = h /\ pc' \in PcType
      <4>1. Then(<<"clear_result">>)
        BY <2>4, <2>9
      <4>2. QED
        BY <1>1, <1>3, <4>1, Beginnings, Turns
    <3>2. run[h].result = "failed" /\ Funded(h)
      BY <2>7, <2>8, <2>9 DEF Failed, OverBudget
    <3>3. Handler'
      BY <1>1, <1>2, <3>1 DEF Handler
    <3>4. Places'
      BY <1>1, <2>7, <2>8, <3>1, <3>2 DEF Places, ApprovePlaces, CancelPlaces, EndPlaces,
           Approving, Compensating, Withdrawing, Releasing, Ending, Settling, Funded, InProgress
    <3>5. NoneOpen' /\ Dispatch'
      BY <1>1, <1>2, <3>1, Quiet DEF Guarded
    <3>6. QED
      BY <1>1, <1>2, <2>6, <3>1, <3>3, <3>4, <3>5, TaskKeeps, CountersType
  <2>10. CASE ~(ended.status = "queued" /\ ~OverBudget(run[h].result))
    <3>1. Continue
      BY <2>4, <2>10
    <3>2. /\ pc'.run = h /\ pc' \in PcType /\ goal' = "fail_run"
          /\ \/ word' = "drop_task" /\ left' # 3 /\ OverBudget(run[h].result)
             \/ word' = "settle" /\ ~OverBudget(run[h].result)
      <4>1. \/ Moves(pc.todo, "drop_task") /\ goal = "fail_run" /\ left = 6
               /\ pc.todo[2] = "drop_task"
            \/ Moves(pc.todo, "settle") /\ goal = "fail_run" /\ pc.todo[2] = "settle"
        BY <1>1, FailTaskPath DEF Types, word, goal, left
      <4>2. CASE Moves(pc.todo, "drop_task") /\ goal = "fail_run" /\ left = 6
                 /\ pc.todo[2] = "drop_task"
        BY <1>1, <1>3, <2>7, <3>1, <4>2, Goes
      <4>3. CASE Moves(pc.todo, "settle") /\ goal = "fail_run" /\ pc.todo[2] = "settle"
        BY <1>1, <1>3, <2>7, <3>1, <4>3, Goes
      <4>4. QED
        BY <4>1, <4>2, <4>3
    <3>3. /\ OverBudget(run[h].result) => run[h].result \in Spent
          /\ ~OverBudget(run[h].result) => run[h].result = "failed" /\ BoundIn(h, {"failed"})'
      <4>1. ~OverBudget(run[h].result) => ended.status = "failed"
        BY <2>5, <2>10
      <4>2. QED
        BY <2>6, <2>7, <4>1 DEF Failed, OverBudget, Spent
    <3>4. Handler'
      BY <1>1, <1>2, <3>2 DEF Handler
    <3>5. Places'
      BY <1>1, <2>7, <3>2, <3>3 DEF Places, ApprovePlaces, CancelPlaces, EndPlaces,
           Approving, Compensating, Withdrawing, Releasing, Ending, Settling
    <3>6. NoneOpen' /\ Dispatch'
      BY <1>1, <1>2, <3>2, Quiet DEF Guarded
    <3>7. QED
      BY <1>1, <1>2, <2>6, <3>2, <3>4, <3>5, <3>6, TaskKeeps, CountersType
  <2>11. QED
    BY <2>9, <2>10
<1>6. QED
  BY <1>4, <1>5

\* The task of a run whose tokens are used up, or were refused.
LEMMA DropTaskKeeps == ASSUME IInv, DropTask PROVE IInv'
<1>1. /\ UNCHANGED <<run, gw, flight, starts, charged, counters>> /\ word = "drop_task"
      /\ Types /\ Tasks /\ pc.run \in Runs /\ starts \in [Runs -> Nat]
  BY Words DEF IInv, DropTask, Handler, Types
<1>2. flight = 0 /\ flight \in 0 .. NRuns
  BY <1>1 DEF IInv, Types, Handler, Approving, Compensating, Withdrawing, Releasing
<1>3. PICK h \in Runs : h = pc.run
  BY <1>1
<1>4. CASE TaskStatus(h) = "missing"
  <2>1. UNCHANGED queue /\ pc' = Nobody
    BY <1>3, <1>4 DEF DropTask, Stop
  <2>2. QED
    BY <1>1, <2>1, StopKeeps, CountersType
<1>5. CASE TaskStatus(h) # "missing"
  <2>1. Continue /\ IF TaskOpen(h) THEN SetTask("cancelled") ELSE UNCHANGED queue
    BY <1>3, <1>5 DEF DropTask
  <2>2. Moved /\ BoundIn(h, Terminal)'
    <3>1. CASE TaskOpen(h)
      <4>1. SetTask("cancelled") /\ "cancelled" \in Terminal
        BY <2>1, <3>1 DEF Terminal
      <4>2. QED
        BY <1>1, <1>3, <3>1, <4>1, Closes
    <3>2. CASE ~TaskOpen(h)
      <4>1. UNCHANGED queue
        BY <2>1, <3>2
      <4>2. TaskStatus(h) \in TaskStatuses \cup {"missing"}
        BY <1>1, TaskPlace
      <4>3. TaskStatus(h) \in Terminal /\ "missing" \notin Terminal
        BY <1>5, <3>2, <4>2 DEF TaskOpen, TaskStatuses, Terminal
      <4>4. BoundIn(h, Terminal)
        BY <1>1, <4>3, TaskPlace
      <4>5. Moved
        BY <1>1, <4>1, NoMove
      <4>6. QED
        BY <1>1, <4>1, <4>4, <4>5 DEF BoundIn, Bound
    <3>3. QED
      BY <3>1, <3>2
  <2>3. /\ run[h].status \in Queued /\ run[h].task # 0 /\ run[h].result \in Spent
        /\ left = 3 => run[h].res \in {"released", "settled"}
    BY <1>1, <1>3 DEF IInv, Places, EndPlaces, Ending
  <2>4. /\ pc'.run = h /\ pc' \in PcType /\ goal' = "fail_run"
        /\ \/ word' = "fail_run" /\ left = 3
           \/ word' = "release" /\ left' = 4
    <3>1. \/ Moves(pc.todo, "fail_run") /\ goal = "fail_run" /\ left = 3
          \/ Moves(pc.todo, "release") /\ goal = "fail_run" /\ left = 5
      BY <1>1, DropTaskPath DEF Types, word, goal, left
    <3>2. CASE Moves(pc.todo, "fail_run") /\ goal = "fail_run" /\ left = 3
      BY <1>1, <1>3, <2>1, <3>2, Goes
    <3>3. CASE Moves(pc.todo, "release") /\ goal = "fail_run" /\ left = 5
      BY <1>1, <1>3, <2>1, <3>3, Goes
    <3>4. QED
      BY <3>1, <3>2, <3>3
  <2>5. Handler'
    BY <1>1, <1>2, <2>4 DEF Handler
  <2>6. Places'
    BY <1>1, <2>2, <2>3, <2>4 DEF Places, ApprovePlaces, CancelPlaces, EndPlaces, Approving,
         Compensating, Withdrawing, Releasing, Ending, Settling
  <2>7. NoneOpen' /\ Dispatch'
    BY <1>1, <1>2, <2>4, Quiet DEF Guarded
  <2>8. QED
    BY <1>1, <1>2, <2>2, <2>4, <2>5, <2>6, <2>7, TaskKeeps, CountersType
<1>6. QED
  BY <1>4, <1>5

LEMMA CompleteTaskKeeps == ASSUME IInv, CompleteTask PROVE IInv'
<1>1. /\ UNCHANGED <<run, gw, flight, starts, charged, counters>> /\ word = "complete"
      /\ Types /\ pc.run \in Runs /\ starts \in [Runs -> Nat]
  BY Words DEF IInv, CompleteTask, Handler, Types
<1>2. flight = 0 /\ flight \in 0 .. NRuns
  BY <1>1 DEF IInv, Types, Handler, Approving, Compensating, Withdrawing, Releasing
<1>3. PICK h \in Runs : h = pc.run
  BY <1>1
<1>4. CASE TaskStatus(h) = "missing"
  <2>1. UNCHANGED queue /\ pc' = Nobody
    BY <1>3, <1>4 DEF CompleteTask, Stop
  <2>2. QED
    BY <1>1, <2>1, StopKeeps, CountersType
<1>5. CASE TaskStatus(h) # "missing"
  <2>1. Continue /\ IF TaskStatus(h) = "running" THEN SetTask("completed") ELSE UNCHANGED queue
    BY <1>3, <1>5 DEF CompleteTask
  <2>2. Moved
    <3>1. CASE TaskStatus(h) = "running"
      <4>1. SetTask("completed") /\ "completed" \in Terminal
        BY <2>1, <3>1 DEF Terminal
      <4>2. QED
        BY <1>1, <1>3, <3>1, <4>1, Closes
    <3>2. CASE TaskStatus(h) # "running"
      BY <1>1, <2>1, <3>2, NoMove
    <3>3. QED
      BY <3>1, <3>2
  <2>3. /\ word' = "settle" /\ goal = "complete_run" /\ goal' = "complete_run"
        /\ pc'.run = h /\ pc' \in PcType
    BY <1>1, <1>3, <2>1, CompletePath, Goes DEF Types, word, goal
  <2>4. /\ run[h].status \in Queued /\ run[h].task # 0 /\ run[h].result = "ok" /\ ~run[h].cancel
        /\ InProgress(h) => run[h].res # "released"
    BY <1>1, <1>3, <2>3 DEF IInv, Places, EndPlaces, Ending
  <2>5. Handler'
    BY <1>1, <1>2, <2>3 DEF Handler
  <2>6. Places'
    BY <1>1, <2>3, <2>4 DEF Places, ApprovePlaces, CancelPlaces, EndPlaces, Approving,
         Compensating, Withdrawing, Releasing, Ending, Settling, InProgress
  <2>7. NoneOpen' /\ Dispatch'
    BY <1>1, <1>2, <2>3, Quiet DEF Guarded
  <2>8. QED
    BY <1>1, <1>2, <2>2, <2>3, <2>5, <2>6, <2>7, TaskKeeps, CountersType
<1>6. QED
  BY <1>4, <1>5

\* A rejected dispatch: only the last attempt ends the task, and then the run.
LEMMA FailDispatchKeeps == ASSUME IInv, FailDispatch PROVE IInv'
<1>1. /\ UNCHANGED <<run, gw, flight, starts, charged, counters>> /\ word = "fail_dispatch"
      /\ Types /\ Tasks /\ pc.run \in Runs /\ starts \in [Runs -> Nat]
  BY Words DEF IInv, FailDispatch, Handler, Types
<1>2. flight = 0 /\ flight \in 0 .. NRuns
  BY <1>1 DEF IInv, Types, Handler, Approving, Compensating, Withdrawing, Releasing
<1>3. PICK h \in Runs : h = pc.run
  BY <1>1
<1>4. PICK spent \in BOOLEAN :
        spent <=> TaskStatus(h) = "running" /\ queue[TaskAt(h)].attempt >= MaxAttempts
  OBVIOUS
<1>5. /\ IF spent THEN SetTask("failed") ELSE UNCHANGED queue
      /\ IF spent \/ TaskStatus(h) = "failed" THEN Then(FailedRun) ELSE pc' = Nobody
  BY <1>3, <1>4 DEF FailDispatch, Stop
<1>6. CASE ~(spent \/ TaskStatus(h) = "failed")
  BY <1>1, <1>5, <1>6, StopKeeps, CountersType
<1>7. CASE spent \/ TaskStatus(h) = "failed"
  <2>1. Moved /\ BoundIn(h, {"failed"})'
    <3>1. CASE spent
      <4>1. SetTask("failed") /\ "failed" \in Terminal /\ TaskStatus(h) = "running"
        BY <1>4, <1>5, <3>1 DEF Terminal
      <4>2. QED
        BY <1>1, <1>3, <4>1, Closes
    <3>2. CASE ~spent
      <4>1. UNCHANGED queue /\ TaskStatus(h) = "failed"
        BY <1>5, <1>7, <3>2
      <4>2. BoundIn(h, {"failed"})
        <5>1. TaskStatus(h) \in {"failed"} /\ "missing" \notin {"failed"}
          BY <4>1
        <5>2. QED
          BY <1>1, <5>1, TaskPlace
      <4>3. Moved
        BY <1>1, <4>1, NoMove
      <4>4. QED
        BY <1>1, <4>1, <4>2, <4>3 DEF BoundIn, Bound
    <3>3. QED
      BY <3>1, <3>2
  <2>2. run[h].task # 0
    <3>1. TaskStatus(h) \in {"running", "failed"} /\ "missing" \notin {"running", "failed"}
      BY <1>4, <1>7
    <3>2. TaskAt(h) \in DOMAIN queue /\ Bound(h, TaskAt(h))
      BY <1>1, <3>1, TaskPlace
    <3>3. QED
      BY <1>1, <3>2, BoundTask
  <2>3. run[h].dfail
    BY <1>1, <1>3 DEF IInv, Places, EndPlaces
  <2>4. run[h].status \in Queued
    <3>1. run[h].status \in Statuses
      BY <1>1 DEF Types, RunState
    <3>2. BeforeQueue(h)
      BY DEF IInv, EachRun
    <3>3. QED
      BY <2>3, <3>1, <3>2 DEF BeforeQueue, Early, Queued, Statuses
  <2>5. InProgress(h) => run[h].result = "none"
    BY <1>1 DEF IInv, NoneOpen, InProgress, Terminal
  <2>6. BoundIn(h, Terminal)'
    BY <2>1 DEF BoundIn, Terminal
  <2>7. /\ word' = "release" /\ goal' = "fail_run" /\ left' = 4
        /\ pc'.run = h /\ pc' \in PcType
    <3>1. PICK t : t = FailedRun
      OBVIOUS
    <3>2. Is(t, "release", "fail_run") /\ Len(t) = 4 /\ Then(t)
      BY <1>5, <1>7, <3>1, Beginnings
    <3>3. QED
      BY <1>1, <1>3, <3>2, Turns
  <2>8. Handler'
    BY <1>1, <1>2, <2>7 DEF Handler
  <2>9. Places'
    BY <1>1, <2>1, <2>2, <2>3, <2>4, <2>5, <2>6, <2>7 DEF Places, ApprovePlaces, CancelPlaces,
         EndPlaces, Approving, Compensating, Withdrawing, Releasing, Ending, Settling, InProgress
  <2>10. NoneOpen' /\ Dispatch'
    BY <1>1, <1>2, <2>7, Quiet DEF Guarded
  <2>11. QED
    BY <1>1, <1>2, <2>1, <2>7, <2>8, <2>9, <2>10, TaskKeeps, CountersType
<1>8. QED
  BY <1>6, <1>7

-----------------------------------------------------------------------------
(* Writes to the supervisor's list: timeouts, claims, recovery *)

LEMMA ReconcileKeeps == ASSUME IInv, Reconcile PROVE IInv'
<1>1. /\ UNCHANGED <<run, gw, flight, starts, charged, counters>> /\ word = "reconcile"
      /\ Types /\ Continue /\ starts \in [Runs -> Nat]
  BY Words DEF IInv, Reconcile, Types
<1>2. flight = 0 /\ flight \in 0 .. NRuns
  BY <1>1 DEF IInv, Types, Handler, Approving, Compensating, Withdrawing, Releasing
<1>3. word' = "claim" /\ goal' = goal /\ pc'.run = pc.run /\ pc' \in PcType
  BY <1>1, PollPath, Goes DEF Types, word
<1>4. Moved
  <2>1. queue' = [i \in DOMAIN queue |->
          IF queue[i].status = "running" /\ queue[i].due THEN Ended(queue[i]) ELSE queue[i]]
    BY DEF Reconcile
  <2>2. PICK P \in SUBSET DOMAIN queue : P = {i \in DOMAIN queue : queue[i].due}
    OBVIOUS
  <2>3. queue' = [i \in DOMAIN queue |->
          IF queue[i].status = "running" /\ i \in P THEN Ended(queue[i]) ELSE queue[i]]
    BY <2>1, <2>2
  <2>4. DOMAIN queue' = DOMAIN queue
    BY <2>3
  <2>5. QED
    BY <1>1, <2>3, <2>4, AttemptsEnd
<1>5. Handler'
  BY <1>1, <1>2, <1>3 DEF Handler
<1>6. Places'
  BY <1>1, <1>3 DEF IInv, Places, ApprovePlaces, CancelPlaces, EndPlaces, Approving, Compensating,
                    Withdrawing, Releasing, Ending, Settling
<1>7. NoneOpen' /\ Dispatch'
  <2>1. NoneOpen
    BY DEF IInv
  <2>2. NoneOpen'
    BY <1>1, <1>2, <1>3, <2>1 DEF NoneOpen, Claiming, Recording, InProgress
  <2>3. QED
    BY <1>1, <1>2, <1>3, <2>2 DEF Dispatch, Recording
<1>8. QED
  BY <1>1, <1>2, <1>3, <1>4, <1>5, <1>6, <1>7, TaskKeeps, CountersType

\* A claim raises the attempt, and never beyond the last one.
LEMMA ClaimKeeps == ASSUME IInv, Claim PROVE IInv'
<1> DEFINE ready == {j \in DOMAIN queue : queue[j].status = "queued" /\ queue[j].due}
<1>1. PICK i : i = FirstIn(ready)
  OBVIOUS
<1>2. /\ Doing("claim") /\ UNCHANGED <<run, gw, flight, starts, charged, counters>>
      /\ IF i = 0 \/ run[queue[i].run].task # queue[i].task THEN Stop /\ UNCHANGED queue
         ELSE /\ Begin(queue[i].run, <<"start">>)
              /\ queue' = [queue EXCEPT ![i].status = "running", ![i].attempt = @ + 1,
                                        ![i].due = FALSE]
  BY <1>1, Zenon DEF Claim
<1>3. /\ UNCHANGED <<run, gw, flight, starts, charged, counters>> /\ word = "claim"
      /\ Types /\ Tasks /\ starts \in [Runs -> Nat]
  BY <1>2, Words DEF IInv, Types
<1>4. flight = 0 /\ flight \in 0 .. NRuns
  BY <1>3 DEF IInv, Types, Handler, Approving, Compensating, Withdrawing, Releasing
<1>5. CASE i = 0 \/ run[queue[i].run].task # queue[i].task
  <2>1. UNCHANGED queue /\ pc' = Nobody
    BY <1>2, <1>5 DEF Stop
  <2>2. QED
    BY <1>3, <2>1, StopKeeps, CountersType
<1>6. CASE ~(i = 0 \/ run[queue[i].run].task # queue[i].task)
  <2>1. i \in DOMAIN queue /\ queue[i].status = "queued"
    <3>1. ready \in SUBSET (Nat \ {0})
      BY <1>3 DEF Types
    <3>2. FirstIn(ready) \in ready
      BY <1>1, <1>6, <3>1, First
    <3>3. QED
      BY <1>1, <3>2
  <2>2. queue[i] \in Task /\ queue[i].attempt < MaxAttempts
    BY <1>3, <2>1 DEF Types, Tasks
  <2>3. PICK h \in Runs : h = queue[i].run
    BY <2>2 DEF Task
  <2>4. Bound(h, i) /\ h \in 0 .. NRuns
    BY <1>6, <2>3, LifecycleConstants DEF Bound, Runs
  <2>5. PICK n \in 0 .. MaxAttempts : n = queue[i].attempt + 1
    BY <2>2, LifecycleConstants DEF Task
  <2>6. PICK t \in Task : t = [queue[i] EXCEPT !.status = "running", !.attempt = n, !.due = FALSE]
    BY <2>2 DEF Task, TaskStatuses
  <2>7. /\ Begin(h, <<"start">>)
        /\ queue' = [queue EXCEPT ![i].status = "running", ![i].attempt = @ + 1, ![i].due = FALSE]
    BY <1>2, <1>6, <2>3
  <2>8. queue' = [queue EXCEPT ![i] = t]
    BY <1>3, <2>1, <2>2, <2>5, <2>6, <2>7 DEF Types, Task
  <2>9. /\ t.run = queue[i].run /\ t.task = queue[i].task /\ t.status = "running"
        /\ queue[i].status \notin Terminal
    BY <2>1, <2>2, <2>6 DEF Task, Terminal
  <2>10. Moved /\ Bound(h, i)' /\ i \in DOMAIN queue' /\ queue'[i].status = "running"
    <3>1. Moved /\ Bound(h, i)' /\ DOMAIN queue' = DOMAIN queue
      BY <1>3, <2>1, <2>4, <2>9, <2>8, OneTask
    <3>2. queue'[i] = t
      BY <1>3, <2>1, <2>8 DEF Types
    <3>3. QED
      BY <2>1, <2>9, <3>1, <3>2
  <2>11. word' = "start" /\ goal' = "start" /\ pc'.run = h /\ pc' \in PcType
    BY <1>3, <2>4, <2>7, Beginnings, Starting
  <2>12. Handler'
    BY <1>3, <1>4, <2>11 DEF Handler
  <2>13. Places'
    BY <1>3, <2>10, <2>11
       DEF Places, ApprovePlaces, CancelPlaces, EndPlaces, Approving, Compensating,
         Withdrawing, Releasing, Ending, Settling
  <2>14. NoneOpen' /\ Dispatch'
    <3>1. NoneOpen
      BY DEF IInv
    <3>2. NoneOpen'
      BY <1>3, <1>4, <2>11, <3>1 DEF NoneOpen, Claiming, Recording, InProgress
    <3>3. QED
      BY <1>3, <1>4, <2>11, <3>2 DEF Dispatch, Recording
  <2>15. QED
    BY <1>3, <1>4, <2>10, <2>11, <2>12, <2>13, <2>14, TaskKeeps, CountersType
<1>7. QED
  BY <1>5, <1>6

LEMMA TimePassesKeeps == ASSUME IInv, NEW i \in 1 .. MaxTasks, TimePasses(i) PROVE IInv'
<1>1. /\ UNCHANGED <<run, gw, pc, flight, starts, charged, counters>> /\ i \in DOMAIN queue
      /\ queue[i].status \notin Terminal /\ Types /\ Tasks /\ starts \in [Runs -> Nat]
      /\ pc \in PcType /\ flight \in 0 .. NRuns
  BY DEF IInv, TimePasses, Types, PcType
<1>2. queue[i] \in Task /\ (queue[i].status = "queued" => queue[i].attempt < MaxAttempts)
  BY <1>1 DEF Types, Tasks
<1>3. PICK t : t = [queue[i] EXCEPT !.due = TRUE]
  OBVIOUS
<1>4. /\ t \in Task /\ t.run = queue[i].run /\ t.task = queue[i].task
      /\ t.status = queue[i].status /\ t.attempt = queue[i].attempt
  BY <1>2, <1>3 DEF Task
<1>5. queue' = [queue EXCEPT ![i] = t]
  BY <1>1, <1>3 DEF TimePasses, Types
<1>6. Moved /\ DOMAIN queue' = DOMAIN queue /\ \A r, j : Bound(r, j)' <=> Bound(r, j)
  BY <1>1, <1>2, <1>4, <1>5, OneTask
<1>7. \A j \in DOMAIN queue : queue'[j].status = queue[j].status
  BY <1>1, <1>4, <1>5 DEF Types
<1>8. /\ \A r, S : BoundIn(r, S)' <=> BoundIn(r, S)
      /\ \A r : (\E j \in DOMAIN queue : Bound(r, j))' <=> (\E j \in DOMAIN queue : Bound(r, j))
      /\ \A r : (\E j \in DOMAIN queue : Bound(r, j) /\ queue[j].status = "running")'
                  <=> (\E j \in DOMAIN queue : Bound(r, j) /\ queue[j].status = "running")
  BY <1>6, <1>7 DEF BoundIn
<1>9. word' = word /\ goal' = goal /\ left' = left /\ pc' \in PcType
  BY <1>1 DEF word, goal, left
<1>10. Handler'
  BY <1>1, <1>9 DEF IInv, Handler, Approving, Compensating, Withdrawing, Releasing
<1>11. NoneOpen' /\ Dispatch'
  BY <1>1, <1>8, <1>9 DEF IInv, NoneOpen, Dispatch, Awaited, Funded, InProgress, Recording, Claiming
<1>12. Places'
  <2>1. SUFFICES ASSUME pc.run \in Runs PROVE ApprovePlaces' /\ CancelPlaces' /\ EndPlaces'
    BY <1>1 DEF Places
  <2>2. ApprovePlaces /\ CancelPlaces /\ EndPlaces
    BY <2>1 DEF IInv, Places
  <2>3. Approving' <=> Approving
    BY <1>9 DEF Approving, Compensating
  <2>4. Ending' <=> Ending
    BY <1>9 DEF Ending, Settling
  <2>5. ApprovePlaces'
    BY <1>1, <1>8, <1>9, <2>2, <2>3 DEF ApprovePlaces, Funded, Compensating
  <2>6. CancelPlaces'
    BY <1>1, <1>8, <1>9, <2>2 DEF CancelPlaces, Withdrawing, Releasing
  <2>7. EndPlaces'
    BY <1>1, <1>8, <1>9, <2>2, <2>4 DEF EndPlaces, Funded, InProgress, Settling, FailureFirst
  <2>8. QED
    BY <2>5, <2>6, <2>7
<1>13. QED
  BY <1>1, <1>6, <1>9, <1>10, <1>11, <1>12, TaskKeeps, CountersType

\* supervisor.recover() ends the attempts that the process died in.
LEMMA RestartKeeps == ASSUME IInv, Restart PROVE IInv'
<1>1. /\ UNCHANGED <<run, gw, starts, charged>> /\ pc' = Nobody /\ flight' = 0
      /\ starts \in [Runs -> Nat] /\ Counted /\ 0 \in 0 .. NRuns
  BY LifecycleConstants DEF IInv, Restart, Types, Counted
<1>2. word' = "idle" /\ pc'.run \notin Runs /\ pc' \in PcType
  BY <1>1, Stops
<1>3. Moved
  <2>1. queue' = [i \in DOMAIN queue |->
          IF queue[i].status = "running" THEN Ended(queue[i]) ELSE queue[i]]
    BY DEF Restart
  <2>2. PICK P \in SUBSET DOMAIN queue : P = DOMAIN queue
    OBVIOUS
  <2>3. queue' = [i \in DOMAIN queue |->
          IF queue[i].status = "running" /\ i \in P THEN Ended(queue[i]) ELSE queue[i]]
    BY <2>1, <2>2
  <2>4. DOMAIN queue' = DOMAIN queue
    BY <2>3
  <2>5. QED
    BY <1>1, <2>3, <2>4, AttemptsEnd
<1>4. Handler' /\ Places'
  BY <1>1, <1>2 DEF Handler, Places
<1>5. NoneOpen' /\ Dispatch'
  BY <1>1, <1>2, Quiet DEF Guarded
<1>6. QED
  BY <1>1, <1>2, <1>3, <1>4, <1>5, TaskKeeps

-----------------------------------------------------------------------------
(* The theorems *)

LEMMA InitIInv == Init => IInv
<1> SUFFICES ASSUME Init PROVE IInv
  OBVIOUS
<1>1. /\ pc = Nobody /\ flight = 0 /\ queue = <<>> /\ 0 \in 0 .. NRuns /\ 0 \notin Runs
      /\ pc.run = 0 /\ pc.todo = <<>> /\ 0 \in 0 .. MaxTasks + 1
  BY LifecycleConstants DEF Init, Nobody, Runs
<1>2. word = "idle" /\ goal = "idle" /\ <<>> \in Todos
  BY <1>1 DEF word, goal, Word, Goal, Todos
<1>3. \A r \in Runs : /\ run[r].status = "absent" /\ run[r].task = 0 /\ run[r].res = "none"
                      /\ run[r].result = "none" /\ ~run[r].dfail /\ ~run[r].cancel
                      /\ gw[r] = "none" /\ charged[r] = 0
  BY DEF Init, Absent
<1>4. Types
  <2>1. Absent \in RunState
    BY <1>1 DEF Absent, RunState, Statuses
  <2>2. /\ run \in [Runs -> RunState]
        /\ gw \in [Runs -> {"none", "active", "released", "settled", "dismissed"}]
        /\ starts \in [Runs -> Nat] /\ charged \in [Runs -> Nat]
        /\ cancels \in Nat /\ throws \in Nat /\ restarts \in Nat
    BY <2>1 DEF Init
  <2>3. queue \in Seq(Task) /\ Len(queue) <= MaxTasks
    BY <1>1, LifecycleConstants
  <2>4. pc \in PcType
    BY <1>1, <1>2 DEF Nobody, PcType
  <2>5. QED
    BY <1>1, <1>3, <2>2, <2>3, <2>4 DEF Types, PcType
<1>5. Handler /\ Places
  BY <1>1, <1>2 DEF Handler, Places
<1>6. Tasks
  BY <1>1 DEF Tasks
<1>7. EachRun
  BY <1>3 DEF EachRun, Binds, BeforeQueue, Holds, Closed, InProgress, Terminal, Early
<1>8. NoneOpen /\ Dispatch
  BY <1>1, <1>2 DEF NoneOpen, Dispatch, Claiming, Recording
<1>9. QED
  BY <1>4, <1>5, <1>6, <1>7, <1>8 DEF IInv

LEMMA WritesKeep == ASSUME IInv, Writes PROVE IInv'
<1>1. CASE \/ WriteApproval \/ Decide \/ ApproveRevision \/ CompCancel \/ Release \/ MarkReleased
           \/ CompClear \/ ClearReleased \/ Reserve \/ Bind \/ Enqueue \/ Compensate \/ Queue
  BY <1>1, WriteApprovalKeeps, DecideKeeps, ApproveRevisionKeeps, CompCancelKeeps, ReleaseKeeps,
     MarkReleasedKeeps, CompClearKeeps, ClearReleasedKeeps, ReserveKeeps, BindKeeps, EnqueueKeeps,
     CompensateKeeps, QueueKeeps
<1>2. CASE \/ Request \/ CancelOrphan \/ CancelTask \/ CancelRelease \/ CancelMark
           \/ CancelAck \/ Cancelled
  BY <1>2, RequestKeeps, CancelOrphanKeeps, CancelTaskKeeps, CancelReleaseKeeps, CancelMarkKeeps,
     CancelAckKeeps, CancelledKeeps
<1>3. CASE \/ AckTerminal \/ Look \/ Pending \/ Reconcile \/ Claim \/ Start
           \/ RecordResult \/ RecordFailure \/ FailDispatch \/ Finish
  BY <1>3, AckTerminalKeeps, LookKeeps, PendingKeeps, ReconcileKeeps, ClaimKeeps, StartKeeps,
     RecordResultKeeps, RecordFailureKeeps, FailDispatchKeeps, FinishKeeps
<1>4. CASE \/ CancelWorker \/ FailTask \/ DropTask \/ ClearResult \/ CompleteTask
           \/ Settle \/ MarkSettled \/ AppendArtifact \/ EndCancelled
           \/ CompleteRun \/ FailRun \/ AckRun
  BY <1>4, CancelWorkerKeeps, FailTaskKeeps, DropTaskKeeps, ClearResultKeeps, CompleteTaskKeeps,
     SettleKeeps, MarkSettledKeeps, AppendArtifactKeeps, EndCancelledKeeps, CompleteRunKeeps,
     FailRunKeeps, AckRunKeeps
<1>5. QED
  BY <1>1, <1>2, <1>3, <1>4 DEF Writes

LEMMA StepIInv == IInv /\ [Next]_vars => IInv'
<1> SUFFICES ASSUME IInv, [Next]_vars PROVE IInv'
  OBVIOUS
<1>1. CASE \E r \in Runs : Prepare(r) \/ Approve(r) \/ Cancel(r)
  BY <1>1, PrepareKeeps, ApproveKeeps, CancelKeeps
<1>2. CASE Writes
  BY <1>2, WritesKeep
<1>3. CASE DispatchEnds
  BY <1>3, RejectsKeeps, ReturnsKeeps DEF DispatchEnds
<1>4. CASE Poll
  BY <1>4, PollKeeps
<1>5. CASE \E i \in 1 .. MaxTasks : TimePasses(i)
  BY <1>5, TimePassesKeeps
<1>6. CASE Throw
  BY <1>6, ThrowKeeps
<1>7. CASE Restart
  BY <1>7, RestartKeeps
<1>8. CASE UNCHANGED vars
  <2>1. /\ UNCHANGED <<run, queue, gw, pc, flight, starts, charged, counters>>
        /\ pc' \in PcType /\ flight' \in 0 .. NRuns /\ starts' \in [Runs -> Nat]
    BY <1>8 DEF vars, counters, IInv, Types, PcType
  <2>2. word' = word /\ goal' = goal /\ left' = left
    BY <2>1 DEF word, goal, left
  <2>3. /\ \A r, i : Bound(r, i)' <=> Bound(r, i)
        /\ \A r, S : BoundIn(r, S)' <=> BoundIn(r, S)
    BY <2>1 DEF Bound, BoundIn
  <2>4. Handler'
    BY <2>1, <2>2 DEF IInv, Handler, Approving, Compensating, Withdrawing, Releasing
  <2>5. NoneOpen' /\ Dispatch'
    BY <2>1, <2>2, <2>3
       DEF IInv, NoneOpen, Dispatch, Awaited, Funded, InProgress, Recording, Claiming
  <2>6. Places'
    <3>1. SUFFICES ASSUME pc.run \in Runs PROVE ApprovePlaces' /\ CancelPlaces' /\ EndPlaces'
      BY <2>1 DEF Places
    <3>2. ApprovePlaces /\ CancelPlaces /\ EndPlaces
      BY <3>1 DEF IInv, Places
    <3>3. (Approving' <=> Approving) /\ (Ending' <=> Ending)
      BY <2>2 DEF Approving, Compensating, Ending, Settling
    <3>4. ApprovePlaces' /\ CancelPlaces'
      BY <2>1, <2>2, <2>3, <3>2, <3>3
         DEF ApprovePlaces, CancelPlaces, Funded, Compensating, Withdrawing, Releasing
    <3>5. EndPlaces'
      BY <2>1, <2>2, <2>3, <3>2, <3>3 DEF EndPlaces, Funded, InProgress, Settling, FailureFirst
    <3>6. QED
      BY <3>4, <3>5
  <2>7. QED
    BY <2>1, <2>4, <2>5, <2>6, HandlerKeeps, CountersType
<1>9. QED
  BY <1>1, <1>2, <1>3, <1>4, <1>5, <1>6, <1>7, <1>8 DEF Next

\* The binding, the reservation, the result and the task of a run agree at every write of
\* every handler, whatever dies, throws or is cancelled in between.
THEOREM Inductive == Spec => []IInv
BY InitIInv, StepIInv, PTL DEF Spec

\* The variables keep their types.
THEOREM TypeCorrect == Spec => []TypeOK
<1>1. IInv => TypeOK
  <2> SUFFICES ASSUME IInv PROVE TypeOK
    OBVIOUS
  <2>1. Types
    BY DEF IInv
  <2>2. ASSUME NEW i \in DOMAIN queue
        PROVE  /\ queue[i].run \in Runs /\ queue[i].status \in TaskStatuses
               /\ queue[i].attempt \in 0 .. MaxAttempts
    <3>1. queue[i] \in Task
      BY <2>1 DEF Types
    <3>2. QED
      BY <3>1 DEF Task
  <2>3. QED
    BY <2>1, <2>2 DEF Types, TypeOK
<1>2. QED
  BY <1>1, Inductive, PTL

\* A running dispatch is paid for until its answer is in (runOrchestrator.ts:456).
THEOREM DispatchIsFunded == Spec => []FundedDispatch
<1>1. IInv => FundedDispatch
  BY DEF IInv, Dispatch, Awaited, Funded, FundedDispatch
<1>2. QED
  BY <1>1, Inductive, PTL

\* Every end of a run comes after the release or the settlement of its tokens.
THEOREM EndedRunsHoldNothing == Spec => []TerminalHoldsNothing
<1>1. IInv => TerminalHoldsNothing
  BY DEF IInv, EachRun, Binds, TerminalHoldsNothing
<1>2. QED
  BY <1>1, Inductive, PTL

\* A repeated settlement charges once, and a run completes only charged
\* (runOrchestrator.ts:342-358).
THEOREM RunsAreChargedOnce == Spec => []ChargedOnce
<1>1. IInv => ChargedOnce
  <2> SUFFICES ASSUME IInv, NEW r \in Runs
               PROVE  /\ charged[r] <= 1
                      /\ run[r].status = "completed" =>
                           charged[r] = 1 /\ run[r].res = "settled" /\ run[r].artifact
    BY DEF ChargedOnce
  <2>1. Binds(r)
    BY DEF IInv, EachRun
  <2>2. charged[r] = 0 \/ charged[r] = 1
    BY <2>1 DEF Binds
  <2>3. QED
    BY <2>1, <2>2 DEF Binds
<1>2. QED
  BY <1>1, Inductive, PTL

-----------------------------------------------------------------------------
(* What no step does *)

Final == \A r \in Runs : run[r].status \in Terminal =>
           run'[r].status = run[r].status /\ starts'[r] = starts[r]

LEMMA NoStart == UNCHANGED <<run, starts>> => Final
BY DEF Final

LEMMA OneRecord ==
  ASSUME Types, NEW h \in Runs, NEW record, run' = [run EXCEPT ![h] = record], UNCHANGED starts,
         run[h].status \in Terminal => record.status = run[h].status
  PROVE  Final
<1>1. \A r \in Runs : IF r = h THEN run'[r] = record ELSE run'[r] = run[r]
  BY DEF Types
<1>2. QED
  BY <1>1 DEF Final

\* The writes of the approval.
LEMMA ApprovalFinal ==
  ASSUME IInv,
         \/ WriteApproval \/ Decide \/ ApproveRevision \/ CompCancel \/ Release \/ MarkReleased
         \/ CompClear \/ ClearReleased \/ Reserve \/ Bind \/ Enqueue \/ Compensate \/ Queue
  PROVE  Final /\ UNCHANGED starts
<1>1. Types /\ (word \notin {"idle", "ack", "look", "pending", "reconcile", "claim"} => pc.run \in Runs)
  BY DEF IInv, Handler
<1>2. UNCHANGED starts
  BY DEF WriteApproval, Decide, ApproveRevision, CompCancel, Release, MarkReleased, CompClear,
         ClearReleased, Reserve, Bind, Enqueue, Compensate, Queue
<1>3. CASE CompCancel \/ Release \/ Reserve \/ Enqueue
  BY <1>2, <1>3, NoStart DEF CompCancel, Release, Reserve, Enqueue
<1>4. UNCHANGED run => Final
  BY <1>2, NoStart
<1>5. ASSUME pc.run \in Runs
      PROVE  /\ run[pc.run] \in RunState /\ Unbound(Here).status = Here.status
             /\ word = "approve" => Here.status \notin Terminal
             /\ word = "queue" => Here.status \notin Terminal
  <2>1. ApprovePlaces
    BY <1>5 DEF IInv, Places
  <2>2. run[pc.run] \in RunState
    BY <1>1, <1>5 DEF Types
  <2>3. Unbound(Here).status = Here.status
    BY <2>2 DEF Unbound, Here, RunState
  <2>4. QED
    BY <2>1, <2>2, <2>3 DEF ApprovePlaces, Approving, Terminal, Here
<1>6. CASE WriteApproval
  BY <1>1, <1>2, <1>4, <1>5, <1>6, Words DEF SetRun, Final, Types, WriteApproval, Here, RunState
<1>7. CASE Decide
  BY <1>1, <1>2, <1>4, <1>5, <1>7, Words DEF SetRun, Final, Types, Decide, Here, RunState
<1>8. CASE ApproveRevision
  BY <1>1, <1>2, <1>4, <1>5, <1>8, Words DEF SetRun, Final, Types, ApproveRevision, Here, RunState
<1>9. CASE MarkReleased
  BY <1>1, <1>2, <1>4, <1>5, <1>9, Words DEF SetRun, Final, Types, MarkReleased, Here, RunState
<1>10. CASE CompClear
  <2>1. pc.run \in Runs
    BY <1>1, <1>10, Words DEF CompClear
  <2>2. CASE SetRun(Unbound(Here))
    BY <1>1, <1>2, <1>5, <2>1, <2>2 DEF SetRun, Final, Types, Here
  <2>3. CASE SetRun(Here)
    BY <1>1, <1>2, <2>1, <2>3 DEF SetRun, Final, Types, Here
  <2>4. QED
    BY <1>4, <1>10, <2>2, <2>3 DEF CompClear
<1>11. CASE ClearReleased
  <2>1. pc.run \in Runs
    BY <1>1, <1>11, Words DEF ClearReleased
  <2>2. CASE SetRun(Unbound(Here))
    BY <1>2, <1>4, <1>5, <2>1, <2>2 DEF SetRun, Final, Types, Here
  <2>3. CASE SetRun(Here)
    BY <1>2, <1>4, <2>1, <2>3 DEF SetRun, Final, Types, Here
  <2>4. QED
    BY <1>11, <2>2, <2>3 DEF ClearReleased
<1>12. CASE Bind
  <2>1. pc.run \in Runs
    BY <1>1, <1>12, Words DEF Bind
  <2>2. PICK n : n = Cardinality({i \in DOMAIN queue : queue[i].run = pc.run}) + 1
    OBVIOUS
  <2>3. PICK record : record = [Here EXCEPT !.res = "active", !.task = n]
    OBVIOUS
  <2>4. record.status = Here.status
    BY <1>5, <2>1, <2>3 DEF Here, RunState
  <2>5. CASE SetRun(record)
    BY <1>2, <1>4, <2>1, <2>4, <2>5 DEF SetRun, Final, Types, Here
  <2>6. CASE SetRun(Here)
    BY <1>2, <1>4, <2>1, <2>6 DEF SetRun, Final, Types, Here
  <2>7. QED
    BY <1>12, <2>2, <2>3, <2>5, <2>6 DEF Bind
<1>13. CASE Compensate
  BY <1>1, <1>2, <1>4, <1>5, <1>13, Words DEF SetRun, Final, Types, Compensate, Here, RunState
<1>14. CASE Queue
  BY <1>1, <1>2, <1>4, <1>5, <1>14, Words DEF SetRun, Final, Types, Queue, Here, RunState
<1>15. QED
  BY <1>2, <1>3, <1>6, <1>7, <1>8, <1>9, <1>10, <1>11, <1>12, <1>13, <1>14

\* The writes of a cancellation: a run that ended otherwise is left alone.
LEMMA CancellationFinal ==
  ASSUME IInv,
         \/ Request \/ CancelOrphan \/ CancelTask \/ CancelRelease \/ CancelMark
         \/ CancelAck \/ Cancelled
  PROVE  Final /\ UNCHANGED starts
<1>1. Types /\ (word \notin {"idle", "ack", "look", "pending", "reconcile", "claim"} => pc.run \in Runs)
  BY DEF IInv, Handler
<1>2. UNCHANGED starts
  BY DEF Request, CancelOrphan, CancelTask, CancelRelease, CancelMark, CancelAck, Cancelled
<1>3. CASE CancelOrphan \/ CancelTask \/ CancelRelease \/ CancelAck
  BY <1>2, <1>3, NoStart DEF CancelOrphan, CancelTask, CancelRelease, CancelAck
<1>4. UNCHANGED run => Final
  BY <1>2, NoStart
<1>5. pc.run \in Runs => run[pc.run] \in RunState
  BY <1>1 DEF Types
<1>6. CASE Request
  BY <1>1, <1>2, <1>4, <1>5, <1>6, Words DEF SetRun, Final, Types, Request, Here, RunState
<1>7. CASE CancelMark
  BY <1>1, <1>2, <1>4, <1>5, <1>7, Words DEF SetRun, Final, Types, CancelMark, Here, RunState
<1>8. CASE Cancelled
  <2>1. pc.run \in Runs
    BY <1>1, <1>8, Words DEF Cancelled
  <2>2. CASE SetRun(Here)
    BY <1>2, <1>4, <2>1, <2>2 DEF SetRun, Final, Types, Here
  <2>3. CASE Here.status \notin Terminal /\ SetRun([Here EXCEPT !.status = "cancelled"])
    BY <1>2, <1>4, <2>1, <2>3 DEF SetRun, Final, Types, Here
  <2>4. QED
    BY <1>8, <2>2, <2>3 DEF Cancelled
<1>9. QED
  BY <1>2, <1>3, <1>6, <1>7, <1>8

\* The writes of the end of a run: an ended run does not end otherwise.
LEMMA EndFinal ==
  ASSUME IInv,
         \/ RecordResult \/ RecordFailure \/ FailDispatch \/ Finish
         \/ CancelWorker \/ FailTask \/ DropTask \/ ClearResult \/ CompleteTask
         \/ Settle \/ MarkSettled \/ AppendArtifact \/ EndCancelled
         \/ CompleteRun \/ FailRun \/ AckRun
  PROVE  Final /\ UNCHANGED starts
<1>1. Types /\ (word \notin {"idle", "ack", "look", "pending", "reconcile", "claim"} => pc.run \in Runs)
  BY DEF IInv, Handler
<1>2. UNCHANGED starts
  BY DEF RecordResult, RecordFailure, FailDispatch, Finish, CancelWorker, FailTask, DropTask,
         ClearResult, CompleteTask, Settle, MarkSettled, AppendArtifact, EndCancelled, CompleteRun,
         FailRun, AckRun, Finalize
<1>3. CASE \/ FailDispatch \/ Finish \/ CancelWorker \/ FailTask \/ DropTask \/ CompleteTask
           \/ Settle \/ AckRun
  BY <1>2, <1>3, NoStart DEF FailDispatch, Finish, CancelWorker, FailTask, DropTask, CompleteTask,
                             Settle, AckRun
<1>4. UNCHANGED run => Final
  BY <1>2, NoStart
<1>5. pc.run \in Runs => run[pc.run] \in RunState
  BY <1>1 DEF Types
<1>6. CASE RecordResult
  <2>1. pc.run \in Runs
    BY <1>1, <1>6, Words DEF RecordResult
  <2>2. PICK result : result = IF Here.result = "none" THEN pc.answer ELSE Here.result
    OBVIOUS
  <2>3. CASE SetRun([Here EXCEPT !.result = result])
    BY <1>1, <1>2, <1>5, <2>1, <2>3 DEF SetRun, Final, Types, Here, RunState
  <2>4. QED
    BY <1>4, <1>6, <2>2, <2>3 DEF RecordResult
<1>7. CASE RecordFailure
  <2>1. pc.run \in Runs
    BY <1>1, <1>7, Words DEF RecordFailure
  <2>2. CASE SetRun([Here EXCEPT !.dfail = TRUE])
    BY <1>1, <1>2, <1>5, <2>1, <2>2 DEF SetRun, Final, Types, Here, RunState
  <2>3. QED
    BY <1>4, <1>7, <2>2 DEF RecordFailure
<1>8. CASE ClearResult
  BY <1>1, <1>2, <1>4, <1>5, <1>8, Words DEF SetRun, Final, Types, ClearResult, Here, RunState
<1>9. CASE MarkSettled
  BY <1>1, <1>2, <1>4, <1>5, <1>9, Words DEF SetRun, Final, Types, MarkSettled, Here, RunState
<1>10. CASE AppendArtifact
  BY <1>1, <1>2, <1>4, <1>5, <1>10, Words DEF SetRun, Final, Types, AppendArtifact, Here, RunState
<1>11. CASE EndCancelled
  <2>1. pc.run \in Runs
    BY <1>1, <1>11, Words DEF EndCancelled
  <2>2. CASE Here.status \notin Terminal /\ SetRun([Here EXCEPT !.status = "cancelled"])
    BY <1>1, <1>2, <2>1, <2>2 DEF SetRun, Final, Types, Here
  <2>3. QED
    BY <1>4, <1>11, <2>2 DEF EndCancelled
<1>12. CASE CompleteRun \/ FailRun
  <2>1. pc.run \in Runs
    BY <1>1, <1>12, Words DEF CompleteRun, FailRun, Finalize
  <2>2. "queued" \notin Terminal /\ "running" \notin Terminal
    BY DEF Terminal
  <2>3. CASE Here.status \in {"queued", "running"} /\ SetRun([Here EXCEPT !.status = "running"])
    BY <1>1, <1>2, <2>1, <2>2, <2>3 DEF SetRun, Final, Types, Here
  <2>4. CASE Here.status \in {"queued", "running"} /\ SetRun([Here EXCEPT !.status = "completed"])
    BY <1>1, <1>2, <2>1, <2>2, <2>4 DEF SetRun, Final, Types, Here
  <2>5. CASE Here.status \in {"queued", "running"} /\ SetRun([Here EXCEPT !.status = "failed"])
    BY <1>1, <1>2, <2>1, <2>2, <2>5 DEF SetRun, Final, Types, Here
  <2>6. QED
    BY <1>4, <1>12, <2>3, <2>4, <2>5 DEF CompleteRun, FailRun, Finalize
<1>13. QED
  BY <1>2, <1>3, <1>6, <1>7, <1>8, <1>9, <1>10, <1>11, <1>12

\* A dispatch starts with the task of a run in progress, and without a stored result.
LEMMA StartFinal ==
  ASSUME IInv, Start
  PROVE  Final /\ \A r \in Runs : run[r].result # "none" => starts'[r] = starts[r]
<1>1. Types /\ word = "start" /\ pc.run \in Runs
  BY Words DEF IInv, Start, Handler
<1>2. PICK h \in Runs : h = pc.run
  BY <1>1
<1>3. CASE run[h].result # "none"
  <2>1. UNCHANGED <<run, starts>>
    BY <1>2, <1>3 DEF Start, Here
  <2>2. QED
    BY <2>1, NoStart
<1>4. CASE run[h].result = "none"
  <2>1. PICK record : record = [run[h] EXCEPT !.status =
                                  IF run[h].status = "queued" THEN "running" ELSE run[h].status]
    OBVIOUS
  <2>2. run' = [run EXCEPT ![h] = record] /\ starts' = [starts EXCEPT ![h] = @ + 1]
    BY <1>2, <1>4, <2>1 DEF Start, Here, SetRun
  <2>3. run[h].status \notin Terminal
    <3>1. PICK i \in DOMAIN queue : Bound(h, i) /\ queue[i].status = "running"
      BY <1>1, <1>2 DEF IInv, Places, EndPlaces
    <3>2. Closed(h)
      BY DEF IInv, EachRun
    <3>3. ~BoundIn(h, Terminal)
      BY <3>1 DEF BoundIn, Terminal
    <3>4. QED
      BY <1>4, <3>2, <3>3 DEF Closed
  <2>4. \A r \in Runs : r # h => run'[r] = run[r] /\ starts'[r] = starts[r]
    BY <1>1, <2>2 DEF Types
  <2>5. QED
    BY <1>4, <2>3, <2>4 DEF Final
<1>5. QED
  BY <1>3, <1>4

LEMMA StepFinal ==
  ASSUME IInv, [Next]_vars
  PROVE  Final /\ \A r \in Runs : run[r].result # "none" => starts'[r] = starts[r]
<1>1. Types
  BY DEF IInv
<1>2. CASE \E r \in Runs : Prepare(r)
  <2>1. PICK h \in Runs : Prepare(h)
    BY <1>2
  <2>2. PICK record : record = [run[h] EXCEPT !.status = "draft"]
    OBVIOUS
  <2>3. run' = [run EXCEPT ![h] = record] /\ UNCHANGED starts /\ run[h].status \notin Terminal
    BY <1>1, <2>1, <2>2 DEF Prepare, Types, Absent, Terminal
  <2>4. QED
    BY <1>1, <2>3, OneRecord
<1>3. CASE \E r \in Runs : Approve(r) \/ Cancel(r)
  BY <1>3, NoStart DEF Approve, Cancel
<1>4. CASE Writes
  <2>1. CASE Start
    BY <2>1, StartFinal
  <2>2. CASE AckTerminal \/ Pending \/ Reconcile \/ Claim
    <3>1. UNCHANGED <<run, starts>>
      BY <2>2, Zenon DEF AckTerminal, Pending, Reconcile, Claim
    <3>2. QED
      BY <3>1, NoStart
  <2>3. CASE Look
    <3>1. UNCHANGED starts
      BY <2>3 DEF Look
    <3>2. CASE CancelPending # 0
      <4>1. UNCHANGED run
        BY <2>3, <3>2 DEF Look
      <4>2. QED
        BY <3>1, <4>1, NoStart
    <3>3. CASE CancelPending = 0 /\ FailurePending # 0 /\ TaskStatus(FailurePending) = "failed"
      <4>1. UNCHANGED run
        BY <2>3, <3>3 DEF Look
      <4>2. QED
        BY <3>1, <4>1, NoStart
    <3>4. CASE CancelPending = 0 /\ ~(FailurePending # 0 /\ TaskStatus(FailurePending) = "failed")
      <4>1. IF FailurePending # 0 /\ TaskStatus(FailurePending) = "queued"
              THEN run' = [run EXCEPT ![FailurePending].dfail = FALSE] ELSE UNCHANGED run
        BY <2>3, <3>4 DEF Look
      <4>2. CASE FailurePending # 0 /\ TaskStatus(FailurePending) = "queued"
        <5>1. PICK h \in Runs : h = FailurePending
          BY <4>2, Looked
        <5>2. PICK record : record = [run[h] EXCEPT !.dfail = FALSE]
          OBVIOUS
        <5>3. run' = [run EXCEPT ![h] = record] /\ record.status = run[h].status
          BY <1>1, <4>1, <4>2, <5>1, <5>2 DEF Types, RunState
        <5>4. QED
          BY <1>1, <3>1, <5>3, OneRecord
      <4>3. CASE ~(FailurePending # 0 /\ TaskStatus(FailurePending) = "queued")
        <5>1. UNCHANGED run
          BY <4>1, <4>3
        <5>2. QED
          BY <3>1, <5>1, NoStart
      <4>4. QED
        BY <4>2, <4>3
    <3>5. Final
      BY <3>2, <3>3, <3>4
    <3>6. QED
      BY <3>1, <3>5
  <2>4. QED
    BY <1>4, <2>1, <2>2, <2>3, ApprovalFinal, CancellationFinal, EndFinal DEF Writes
<1>5. CASE DispatchEnds \/ Poll \/ Throw \/ Restart \/ UNCHANGED vars
  <2>1. UNCHANGED <<run, starts>>
    BY <1>5, Zenon DEF DispatchEnds, Returns, Rejects, Poll, Throw, Restart, vars
  <2>2. QED
    BY <2>1, NoStart
<1>6. CASE \E i \in 1 .. MaxTasks : TimePasses(i)
  BY <1>6, NoStart DEF TimePasses
<1>7. QED
  BY <1>2, <1>3, <1>4, <1>5, <1>6 DEF Next

\* A stored result is worked off, not dispatched over (runOrchestrator.ts:390, 412).
THEOREM ResultIsNotDispatchedOver == Spec => NoDispatchOverResult
<1>1. IInv /\ [Next]_vars =>
        [\A r \in Runs : run[r].result # "none" => starts'[r] = starts[r]]_vars
  BY StepFinal
<1>2. QED
  BY <1>1, Inductive, PTL DEF Spec, NoDispatchOverResult

\* What a run ended as, it stays, and no worker is started for it again.
THEOREM RunsEndOnce == Spec => RunEndIsFinal
<1>1. IInv /\ [Next]_vars =>
        [\A r \in Runs : run[r].status \in Terminal =>
           run'[r].status = run[r].status /\ starts'[r] = starts[r]]_vars
  BY StepFinal DEF Final
<1>2. QED
  BY <1>1, Inductive, PTL DEF Spec, RunEndIsFinal

-----------------------------------------------------------------------------
(* The abstract specification: every write is one of its steps, or none *)

Seen == Promise!Next \/ UNCHANGED Promise!vars

\* A run that was not approved has no task, and nobody works on one that was not drafted.
Drafted == \A r \in Runs :
  /\ run[r].status \in {"absent", "draft"} => run[r].task = 0
  /\ run[r].status = "absent" => ~run[r].cancel /\ pc.run # r /\ flight # r

\* The handler goes on with its run, or is over.
SameRun == pc'.run \in {0, pc.run}

LEMMA RunGoesOn ==
  ASSUME Types, \/ Continue \/ Stop \/ (\E t : Then(t))
                \/ \E t, e : pc' = [pc EXCEPT !.todo = t, !.err = e]
  PROVE  SameRun
<1>1. pc = [run |-> pc.run, todo |-> pc.todo, err |-> pc.err, answer |-> pc.answer]
  BY DEF Types
<1>2. CASE Continue \/ Stop \/ \E t : Then(t)
  <2>1. CASE Stop
    BY <2>1 DEF Stop, Nobody, SameRun
  <2>2. ASSUME NEW t, Then(t) PROVE SameRun
    <3>1. pc' = Nobody \/ pc' = [pc EXCEPT !.todo = t]
      BY <2>2 DEF Then
    <3>2. pc' = Nobody => pc'.run = 0
      BY Stops
    <3>3. pc' = [pc EXCEPT !.todo = t] => pc'.run = pc.run
      BY <1>1
    <3>4. QED
      BY <3>1, <3>2, <3>3 DEF SameRun
  <2>3. QED
    BY <1>2, <2>1, <2>2 DEF Continue
<1>3. CASE \E t, e : pc' = [pc EXCEPT !.todo = t, !.err = e]
  BY <1>1, <1>3 DEF SameRun
<1>4. QED
  BY <1>2, <1>3

LEMMA NothingSeen ==
  ASSUME UNCHANGED <<run, gw, charged, flight, starts>> PROVE Seen
BY DEF Seen, Stage, Held, Promise!vars

LEMMA DraftedStays ==
  ASSUME Types, Drafted, UNCHANGED run, flight' \in {0, flight},
         SameRun \/ (pc'.run \in Runs => run[pc'.run].status # "absent")
  PROVE  Drafted'
BY DEF Drafted, Runs, SameRun

\* A write to the record of the handler's run.
LEMMA DraftedRecord ==
  ASSUME Types, Drafted, NEW h \in Runs, h = pc.run, NEW record, run' = [run EXCEPT ![h] = record],
         UNCHANGED flight, SameRun,
         record.status # "absent",
         record.status = "draft" => run[h].status = "draft" /\ record.task \in {0, run[h].task}
  PROVE  Drafted'
<1>1. \A r \in Runs : run'[r] = IF r = h THEN record ELSE run[r]
  BY DEF Types
<1>2. 0 \notin Runs
  BY DEF Runs
<1>3. ASSUME NEW r \in Runs
      PROVE  /\ run'[r].status \in {"absent", "draft"} => run'[r].task = 0
             /\ run'[r].status = "absent" => ~run'[r].cancel /\ pc'.run # r /\ flight' # r
  <2>1. CASE r = h
    BY <1>1, <2>1 DEF Drafted
  <2>2. CASE r # h
    BY <1>1, <1>2, <2>2 DEF Drafted, SameRun
  <2>3. QED
    BY <2>1, <2>2
<1>4. QED
  BY <1>3 DEF Drafted

LEMMA StageOf ==
  ASSUME Types, NEW h \in Runs, NEW record, run' = [run EXCEPT ![h] = record]
  PROVE  Stage' = [Stage EXCEPT ![h] = record.status]
<1>1. \A r \in Runs : run'[r] = IF r = h THEN record ELSE run[r]
  BY DEF Types
<1>2. \A r \in Runs : run'[r].status = IF r = h THEN record.status ELSE run[r].status
  BY <1>1
<1>3. [r \in Runs |-> run'[r].status] = [[r \in Runs |-> run[r].status] EXCEPT ![h] = record.status]
  BY <1>2
<1>4. QED
  BY <1>3 DEF Stage

LEMMA StageAt == \A r \in Runs : Stage[r] = run[r].status
BY DEF Stage

LEMMA HeldOf ==
  ASSUME Types, NEW h \in Runs, NEW v, gw' = [gw EXCEPT ![h] = v]
  PROVE  /\ v = "active" => Held' = Held \cup {h}
         /\ v # "active" => Held' = Held \ {h}
<1>1. \A r \in Runs : gw'[r] = IF r = h THEN v ELSE gw[r]
  BY DEF Types
<1>2. QED
  BY <1>1 DEF Held

\* A record is rewritten and keeps its status.
LEMMA StatusKept ==
  ASSUME Types, Drafted, NEW h \in Runs, h = pc.run, NEW record, run' = [run EXCEPT ![h] = record],
         record.status = run[h].status,
         record.status = "draft" => record.task \in {0, run[h].task},
         SameRun, UNCHANGED <<gw, charged, flight, starts>>
  PROVE  Seen /\ Drafted'
<1>1. run[h].status # "absent"
  BY DEF Drafted
<1>2. Drafted'
  BY <1>1, DraftedRecord
<1>3. Stage' = [Stage EXCEPT ![h] = record.status]
  BY StageOf
<1>4. Stage' = Stage /\ Held' = Held
  BY <1>3 DEF Stage, Held
<1>5. QED
  BY <1>2, <1>4 DEF Seen, Promise!vars

\* The status of a run changes, and the abstract specification says how.
LEMMA StatusGoes ==
  ASSUME Types, Drafted, NEW h \in Runs, h = pc.run, NEW s, s \notin {"absent", "draft"},
         run' = [run EXCEPT ![h] = [run[h] EXCEPT !.status = s]],
         SameRun, UNCHANGED <<gw, charged, flight, starts>>
  PROVE  Promise!Goes(h, s) /\ Drafted'
<1>1. [run[h] EXCEPT !.status = s].status = s
  BY DEF Types, RunState
<1>2. PICK record : record = [run[h] EXCEPT !.status = s]
  OBVIOUS
<1>3. Drafted'
  BY <1>1, <1>2, DraftedRecord
<1>4. Stage' = [Stage EXCEPT ![h] = s]
  BY <1>1, <1>2, StageOf
<1>5. Held' = Held
  BY DEF Held
<1>6. QED
  BY <1>3, <1>4, <1>5 DEF Promise!Goes

\* Tokens that are given back are not those of a worker: they stay until its answer is in.
LEMMA GivenBack ==
  ASSUME IInv, IInv', Drafted, NEW h \in Runs, NEW v, v # "active", gw' = [gw EXCEPT ![h] = v],
         SameRun, UNCHANGED <<run, charged, flight, starts>>
  PROVE  Seen /\ Drafted'
<1>1. Types /\ Dispatch'
  BY DEF IInv
<1>2. Drafted'
  BY <1>1, DraftedStays
<1>3. Held' = Held \ {h} /\ Stage' = Stage
  BY <1>1, HeldOf DEF Stage
<1>4. ~(flight = h /\ Stage[h] = "running")
  <2> SUFFICES ASSUME flight = h, run[h].status = "running" PROVE FALSE
    BY StageAt
  <2>1. flight' # 0 /\ flight' = h /\ run'[h].status = "running"
    BY DEF Runs
  <2>2. Awaited(h)'
    BY <1>1, <2>1 DEF Dispatch, Awaited
  <2>3. gw'[h] = "active"
    BY <2>1, <2>2 DEF Awaited, Funded
  <2>4. QED
    BY <1>1, <2>3 DEF Types
<1>5. Promise!GiveBack(h)
  BY <1>3, <1>4 DEF Promise!GiveBack, Promise!Working
<1>6. QED
  BY <1>2, <1>5 DEF Seen, Promise!Next

LEMMA Unseen ==
  ASSUME Types, Drafted, UNCHANGED <<run, gw, charged, flight, starts>>,
         SameRun \/ (pc'.run \in Runs => run[pc'.run].status # "absent")
  PROVE  Seen /\ Drafted'
BY NothingSeen, DraftedStays

\* An acknowledged reservation was given back or settled before.
LEMMA AckSeen ==
  ASSUME IInv, IInv', Drafted, NEW h \in Runs, Acknowledge(h), SameRun,
         UNCHANGED <<run, charged, flight, starts>>
  PROVE  Seen /\ Drafted'
<1>1. Types
  BY DEF IInv
<1>2. PICK v : v = IF gw[h] \in {"released", "settled"} THEN "dismissed" ELSE gw[h]
  OBVIOUS
<1>3. gw' = [gw EXCEPT ![h] = v]
  BY <1>2 DEF Acknowledge
<1>4. CASE v = "active"
  <2>1. UNCHANGED gw
    BY <1>1, <1>2, <1>3, <1>4 DEF Types
  <2>2. QED
    BY <1>1, <2>1, Unseen
<1>5. CASE v # "active"
  BY <1>3, <1>5, GivenBack
<1>6. QED
  BY <1>4, <1>5

\* The writes to the supervisor's list.
LEMMA TaskWritesSeen ==
  ASSUME IInv, Drafted,
         \/ CompCancel \/ Enqueue \/ CancelTask \/ Reconcile \/ FailDispatch \/ Finish
         \/ CancelWorker \/ FailTask \/ DropTask \/ CompleteTask
  PROVE  Seen /\ Drafted'
<1>1. UNCHANGED <<run, gw, charged, flight, starts>>
  BY DEF CompCancel, Enqueue, CancelTask, Reconcile, FailDispatch, Finish, CancelWorker,
         FailTask, DropTask, CompleteTask
<1>2. \/ Continue \/ Stop \/ (\E t : Then(t))
      \/ \E t, e : pc' = [pc EXCEPT !.todo = t, !.err = e]
  BY Zenon DEF CompCancel, Enqueue, CancelTask, Reconcile, FailDispatch, Finish, CancelWorker,
               FailTask, DropTask, CompleteTask
<1>3. Types
  BY DEF IInv
<1>4. QED
  BY <1>1, <1>2, <1>3, RunGoesOn, Unseen

\* The writes of the approval.
LEMMA ApprovalSeen ==
  ASSUME IInv, IInv', Drafted,
         \/ WriteApproval \/ Decide \/ ApproveRevision \/ Release \/ MarkReleased
         \/ CompClear \/ ClearReleased \/ Reserve \/ Bind \/ Compensate \/ Queue
  PROVE  Seen /\ Drafted'
<1>1. Types /\ pc.run \in Runs
  BY Words DEF IInv, Handler, WriteApproval, Decide, ApproveRevision, Release, MarkReleased,
               CompClear, ClearReleased, Reserve, Bind, Compensate, Queue
<1>2. PICK h \in Runs : h = pc.run
  BY <1>1
<1>3. run[h] \in RunState /\ Here = run[h]
  BY <1>1, <1>2 DEF Types, Here
<1>4. SameRun
  <2>1. \/ Continue \/ Stop \/ (\E t : Then(t))
    BY Zenon DEF WriteApproval, Decide, ApproveRevision, Release, MarkReleased, CompClear,
                 ClearReleased, Reserve, Bind, Compensate, Queue
  <2>2. QED
    BY <1>1, <2>1, RunGoesOn
<1>5. UNCHANGED <<charged, flight, starts>>
  BY DEF WriteApproval, Decide, ApproveRevision, Release, MarkReleased, CompClear,
         ClearReleased, Reserve, Bind, Compensate, Queue
<1>6. ASSUME UNCHANGED gw, NEW record, SetRun(record), record.status = run[h].status,
             record.status = "draft" => record.task \in {0, run[h].task}
      PROVE  Seen /\ Drafted'
  BY <1>1, <1>2, <1>4, <1>5, <1>6, StatusKept DEF SetRun
<1>7. ApprovePlaces
  BY <1>1 DEF IInv, Places
<1>8. Unbound(Here).status = run[h].status /\ Unbound(Here).task = 0
  BY <1>3 DEF Unbound, RunState
<1>9. CASE WriteApproval
  <2>1. PICK record : record = [Here EXCEPT !.approval = "pending"]
    OBVIOUS
  <2>2. QED
    BY <1>3, <1>6, <1>9, <2>1 DEF WriteApproval, RunState
<1>10. CASE Decide
  <2>1. PICK record : record = [Here EXCEPT !.approval = "approved"]
    OBVIOUS
  <2>2. QED
    BY <1>3, <1>6, <1>10, <2>1 DEF Decide, RunState
<1>11. CASE MarkReleased
  <2>1. PICK res : res = IF Here.res = "active" THEN "released" ELSE Here.res
    OBVIOUS
  <2>2. PICK record : record = [Here EXCEPT !.res = res]
    OBVIOUS
  <2>3. QED
    BY <1>3, <1>6, <1>11, <2>1, <2>2 DEF MarkReleased, RunState
<1>12. CASE Compensate
  <2>1. PICK record : record = [Here EXCEPT !.comp = TRUE]
    OBVIOUS
  <2>2. QED
    BY <1>3, <1>6, <1>12, <2>1 DEF Compensate, RunState
<1>13. CASE CompClear
  <2>1. UNCHANGED gw /\ (UNCHANGED run \/ SetRun(Here) \/ SetRun(Unbound(Here)))
    BY <1>13 DEF CompClear
  <2>2. QED
    BY <1>1, <1>3, <1>4, <1>5, <1>6, <1>8, <2>1, Unseen
<1>14. CASE ClearReleased
  <2>1. UNCHANGED gw /\ (SetRun(Here) \/ SetRun(Unbound(Here)))
    BY <1>14 DEF ClearReleased
  <2>2. QED
    BY <1>3, <1>6, <1>8, <2>1
<1>15. CASE Bind
  <2>1. run[h].status = "approved" /\ UNCHANGED gw
    BY <1>1, <1>2, <1>7, <1>15, Words DEF Bind, ApprovePlaces, Approving
  <2>2. PICK n : n = Cardinality({i \in DOMAIN queue : queue[i].run = pc.run}) + 1
    OBVIOUS
  <2>3. PICK record : record = [Here EXCEPT !.res = "active", !.task = n]
    OBVIOUS
  <2>4. record.status = run[h].status
    BY <1>3, <2>3 DEF RunState
  <2>5. SetRun(Here) \/ SetRun(record)
    BY <1>15, <2>2, <2>3 DEF Bind
  <2>6. QED
    BY <1>3, <1>6, <2>1, <2>4, <2>5
<1>16. CASE ApproveRevision
  <2>1. run[h].status \in {"draft", "approved"}
    BY <1>1, <1>2, <1>7, <1>16, Words DEF ApproveRevision, ApprovePlaces
  <2>2. run' = [run EXCEPT ![h] = [run[h] EXCEPT !.status = "approved"]] /\ UNCHANGED gw
    BY <1>2, <1>3, <1>16 DEF ApproveRevision, SetRun
  <2>3. Promise!Goes(h, "approved") /\ Drafted'
    <3>1. "approved" \notin {"absent", "draft"}
      OBVIOUS
    <3>2. QED
      BY <1>1, <1>2, <1>4, <1>5, <2>2, <3>1, StatusGoes
  <2>4. CASE run[h].status = "draft"
    BY <2>3, <2>4, StageAt DEF Seen, Promise!Next, Promise!Approve
  <2>5. CASE run[h].status = "approved"
    <3>1. PICK record : record = [Here EXCEPT !.status = "approved"]
      OBVIOUS
    <3>2. record.status = run[h].status /\ SetRun(record)
      BY <1>3, <1>16, <2>5, <3>1 DEF RunState, ApproveRevision
    <3>3. QED
      BY <1>6, <2>2, <2>5, <3>2
  <2>6. QED
    BY <2>1, <2>4, <2>5
<1>17. CASE Queue
  <2>1. run[h].status = "approved"
    BY <1>1, <1>2, <1>7, <1>17, Words DEF Queue, ApprovePlaces, Approving
  <2>2. run' = [run EXCEPT ![h] = [run[h] EXCEPT !.status = "queued"]] /\ UNCHANGED gw
    BY <1>2, <1>3, <1>17 DEF Queue, SetRun
  <2>3. Promise!Goes(h, "queued") /\ Drafted'
    <3>1. "queued" \notin {"absent", "draft"}
      OBVIOUS
    <3>2. QED
      BY <1>1, <1>2, <1>4, <1>5, <2>2, <3>1, StatusGoes
  <2>4. QED
    BY <2>1, <2>3, StageAt DEF Seen, Promise!Next, Promise!Queue
<1>18. CASE Reserve
  <2>1. run[h].status = "approved" /\ UNCHANGED run
    BY <1>1, <1>2, <1>7, <1>18, Words DEF Reserve, ApprovePlaces, Approving
  <2>2. CASE UNCHANGED gw
    BY <1>1, <1>4, <1>5, <2>1, <2>2, Unseen
  <2>3. CASE gw' = [gw EXCEPT ![h] = "active"]
    <3>1. Held' = Held \cup {h} /\ Stage' = Stage
      BY <1>1, <2>1, <2>3, HeldOf DEF Stage
    <3>2. Promise!Reserve(h)
      BY <1>5, <2>1, <3>1, StageAt DEF Promise!Reserve
    <3>3. Drafted'
      BY <1>1, <1>4, <1>5, <2>1, DraftedStays
    <3>4. QED
      BY <3>2, <3>3 DEF Seen, Promise!Next
  <2>4. QED
    BY <1>2, <1>18, <2>2, <2>3 DEF Reserve
<1>19. CASE Release
  <2>1. UNCHANGED run /\ (UNCHANGED gw \/ ReleaseTokens)
    BY <1>19 DEF Release
  <2>2. PICK v : v = IF gw[h] = "active" THEN "released" ELSE gw[h]
    OBVIOUS
  <2>3. v # "active" /\ (ReleaseTokens => gw' = [gw EXCEPT ![h] = v])
    BY <1>2, <2>2 DEF ReleaseTokens
  <2>4. QED
    BY <1>1, <1>4, <1>5, <2>1, <2>3, GivenBack, Unseen
<1>20. QED
  BY <1>9, <1>10, <1>11, <1>12, <1>13, <1>14, <1>15, <1>16, <1>17, <1>18, <1>19

\* A run is cancelled without its tokens, and not under its worker (runOrchestrator.ts:451-476).
LEMMA CancellationSeen ==
  ASSUME IInv, IInv', Drafted,
         \/ Request \/ CancelOrphan \/ CancelRelease \/ CancelMark \/ CancelAck \/ Cancelled
  PROVE  Seen /\ Drafted'
<1>1. Types /\ pc.run \in Runs
  BY Words DEF IInv, Handler, Request, CancelOrphan, CancelRelease, CancelMark, CancelAck, Cancelled
<1>2. PICK h \in Runs : h = pc.run
  BY <1>1
<1>3. run[h] \in RunState /\ Here = run[h]
  BY <1>1, <1>2 DEF Types, Here
<1>4. SameRun
  <2>1. \/ Continue \/ Stop \/ (\E t : Then(t))
    BY Zenon DEF Request, CancelOrphan, CancelRelease, CancelMark, CancelAck, Cancelled
  <2>2. QED
    BY <1>1, <2>1, RunGoesOn
<1>5. UNCHANGED <<charged, flight, starts>>
  BY DEF Request, CancelOrphan, CancelRelease, CancelMark, CancelAck, Cancelled
<1>6. ASSUME UNCHANGED gw, NEW record, SetRun(record), record.status = run[h].status,
             record.task = run[h].task
      PROVE  Seen /\ Drafted'
  BY <1>1, <1>2, <1>4, <1>5, <1>6, StatusKept DEF SetRun
<1>7. CASE Request
  <2>1. PICK record : record = [Here EXCEPT !.cancel = TRUE]
    OBVIOUS
  <2>2. QED
    BY <1>3, <1>6, <1>7, <2>1 DEF Request, RunState
<1>8. CASE CancelMark
  <2>1. PICK record : record = [Here EXCEPT !.res = "released"]
    OBVIOUS
  <2>2. QED
    BY <1>3, <1>6, <1>8, <2>1 DEF CancelMark, RunState
<1>9. CASE CancelOrphan \/ CancelRelease \/ CancelAck
  <2>1. /\ UNCHANGED run
        /\ UNCHANGED gw \/ ReleaseTokens \/ Acknowledge(h)
    BY <1>2, <1>9 DEF CancelOrphan, CancelRelease, CancelAck
  <2>2. PICK v : v = IF gw[h] = "active" THEN "released" ELSE gw[h]
    OBVIOUS
  <2>3. v # "active" /\ (ReleaseTokens => gw' = [gw EXCEPT ![h] = v])
    BY <1>2, <2>2 DEF ReleaseTokens
  <2>4. CASE Acknowledge(h)
    BY <1>4, <1>5, <2>1, <2>4, AckSeen
  <2>5. QED
    BY <1>1, <1>4, <1>5, <2>1, <2>3, <2>4, GivenBack, Unseen
<1>10. CASE Cancelled
  <2>1. /\ CancelPlaces /\ word = "cancelled" /\ UNCHANGED gw
        /\ SetRun(Here) \/ (Here.status \notin Terminal /\ SetRun([Here EXCEPT !.status = "cancelled"]))
    BY <1>1, <1>10, Words DEF IInv, Places, Cancelled
  <2>2. CASE SetRun(Here)
    BY <1>3, <1>6, <2>1, <2>2
  <2>3. CASE Here.status \notin Terminal /\ SetRun([Here EXCEPT !.status = "cancelled"])
    <3>1. run' = [run EXCEPT ![h] = [run[h] EXCEPT !.status = "cancelled"]]
      BY <1>2, <1>3, <2>3 DEF SetRun
    <3>2. "cancelled" \notin {"absent", "draft"}
      OBVIOUS
    <3>3. Promise!Goes(h, "cancelled") /\ Drafted'
      BY <1>1, <1>2, <1>4, <1>5, <2>1, <3>1, <3>2, StatusGoes
    <3>4. Stage[h] \notin Promise!Over \cup {"absent"}
      BY <1>2, <1>3, <2>3, StageAt DEF Drafted, Promise!Over, Terminal
    <3>5. ~(flight = h /\ Stage[h] = "running") /\ h \notin Held
      BY <1>2, <2>1, StageAt DEF CancelPlaces, Withdrawing, Releasing, Held
    <3>6. Promise!Cancel(h)
      BY <3>3, <3>4, <3>5 DEF Promise!Cancel, Promise!Ends, Promise!Working
    <3>7. QED
      BY <3>3, <3>6 DEF Seen, Promise!Next
  <2>4. QED
    BY <2>1, <2>2, <2>3
<1>11. QED
  BY <1>7, <1>8, <1>9, <1>10

\* The tokens of a run in progress are charged once.
LEMMA SettleSeen ==
  ASSUME IInv, Drafted, Settle PROVE Seen /\ Drafted'
<1>1. Types /\ pc.run \in Runs /\ word = "settle" /\ flight = 0
  BY Words DEF IInv, Handler, Settle, Approving, Compensating, Withdrawing, Releasing
<1>2. PICK h \in Runs : h = pc.run
  BY <1>1
<1>3. SameRun /\ UNCHANGED <<run, flight, starts>>
  BY <1>1, RunGoesOn, Zenon DEF Settle
<1>4. CASE UNCHANGED <<gw, charged>>
  BY <1>1, <1>3, <1>4, Unseen
<1>5. CASE /\ gw[h] = "active" /\ gw' = [gw EXCEPT ![h] = "settled"]
           /\ charged' = [charged EXCEPT ![h] = @ + 1]
  <2>1. Binds(h)
    BY DEF IInv, EachRun
  <2>2. charged[h] = 0
    BY <1>5, <2>1 DEF Binds
  <2>3. run[h].status \in {"queued", "running"}
    <3>1. run[h].status \in Queued
      BY <1>1, <1>2 DEF IInv, Places, EndPlaces, Ending, Settling
    <3>2. QED
      BY <1>5, <2>1, <3>1 DEF Binds, Queued
  <2>4. Held' = Held \ {h} /\ Stage' = Stage
    <3>1. "settled" # "active"
      OBVIOUS
    <3>2. Held' = Held \ {h}
      BY <1>1, <1>5, <3>1, HeldOf
    <3>3. QED
      BY <1>3, <3>2 DEF Stage
  <2>5. charged' = [charged EXCEPT ![h] = 1]
    BY <1>1, <1>5, <2>2 DEF Types
  <2>6. h \in Held /\ flight # h
    BY <1>1, <1>5 DEF Held, Runs
  <2>7. Promise!Charge(h)
    BY <1>3, <2>2, <2>3, <2>4, <2>5, <2>6, StageAt DEF Promise!Charge
  <2>8. Drafted'
    BY <1>1, <1>3, DraftedStays
  <2>9. QED
    BY <2>7, <2>8 DEF Seen, Promise!Next
<1>6. QED
  BY <1>2, <1>4, <1>5 DEF Settle, Here

\* A run ends without its tokens and without a worker; a completed one is charged
\* (runOrchestrator.ts:342-358).
LEMMA EndSeen ==
  ASSUME IInv, IInv', Drafted,
         \/ RecordResult \/ RecordFailure \/ ClearResult \/ MarkSettled \/ AppendArtifact
         \/ EndCancelled \/ CompleteRun \/ FailRun \/ AckRun
  PROVE  Seen /\ Drafted'
<1>1. Types /\ pc.run \in Runs
  BY Words DEF IInv, Handler, RecordResult, RecordFailure, ClearResult, MarkSettled,
               AppendArtifact, EndCancelled, CompleteRun, FailRun, AckRun, Finalize
<1>2. PICK h \in Runs : h = pc.run
  BY <1>1
<1>3. run[h] \in RunState /\ Here = run[h]
  BY <1>1, <1>2 DEF Types, Here
<1>4. SameRun
  <2>1. \/ Continue \/ Stop \/ (\E t : Then(t)) \/ UNCHANGED pc
    BY Zenon DEF RecordResult, RecordFailure, ClearResult, MarkSettled, AppendArtifact,
                 EndCancelled, CompleteRun, FailRun, AckRun, Finalize
  <2>2. QED
    BY <1>1, <2>1, RunGoesOn DEF SameRun
<1>5. UNCHANGED <<charged, flight, starts>>
  BY DEF RecordResult, RecordFailure, ClearResult, MarkSettled, AppendArtifact,
         EndCancelled, CompleteRun, FailRun, AckRun, Finalize
<1>6. ASSUME UNCHANGED gw, NEW record, SetRun(record), record.status = run[h].status,
             record.task = run[h].task
      PROVE  Seen /\ Drafted'
  BY <1>1, <1>2, <1>4, <1>5, <1>6, StatusKept DEF SetRun
<1>7. UNCHANGED <<run, gw>> => Seen /\ Drafted'
  BY <1>1, <1>4, <1>5, Unseen
<1>8. CASE RecordResult
  <2>1. PICK result : result = IF Here.result = "none" THEN pc.answer ELSE Here.result
    OBVIOUS
  <2>2. PICK record : record = [Here EXCEPT !.result = result]
    OBVIOUS
  <2>3. record.status = run[h].status /\ record.task = run[h].task
    BY <1>3, <2>2 DEF RunState
  <2>4. UNCHANGED gw /\ (UNCHANGED run \/ SetRun(record))
    BY <1>8, <2>1, <2>2 DEF RecordResult
  <2>5. QED
    BY <1>6, <1>7, <2>3, <2>4
<1>9. CASE RecordFailure
  <2>1. PICK record : record = [Here EXCEPT !.dfail = TRUE]
    OBVIOUS
  <2>2. record.status = run[h].status /\ record.task = run[h].task
    BY <1>3, <2>1 DEF RunState
  <2>3. UNCHANGED gw /\ (UNCHANGED run \/ SetRun(record))
    BY <1>9, <2>1 DEF RecordFailure
  <2>4. QED
    BY <1>6, <1>7, <2>2, <2>3
<1>10. CASE ClearResult
  <2>1. PICK record : record = [Here EXCEPT !.result = "none"]
    OBVIOUS
  <2>2. QED
    BY <1>3, <1>6, <1>10, <2>1 DEF ClearResult, RunState
<1>11. CASE MarkSettled
  <2>1. PICK res : res = IF Here.res = "active" THEN "settled" ELSE Here.res
    OBVIOUS
  <2>2. PICK record : record = [Here EXCEPT !.res = res]
    OBVIOUS
  <2>3. QED
    BY <1>3, <1>6, <1>11, <2>1, <2>2 DEF MarkSettled, RunState
<1>12. CASE AppendArtifact
  <2>1. PICK record : record = [Here EXCEPT !.artifact = TRUE]
    OBVIOUS
  <2>2. QED
    BY <1>3, <1>6, <1>12, <2>1 DEF AppendArtifact, RunState
<1>13. CASE AckRun
  <2>1. UNCHANGED run /\ Acknowledge(h)
    BY <1>2, <1>13 DEF AckRun
  <2>2. QED
    BY <1>1, <1>2, <1>4, <1>5, <2>1, AckSeen
<1>14. ASSUME word \in {"end_cancelled", "complete_run", "fail_run"}
       PROVE  ~(flight = h /\ Stage[h] = "running") /\ h \notin Held /\ flight # h
              /\ run[h].status \in Queued
  <2>1. flight = 0
    BY <1>14 DEF IInv, Handler, Approving, Compensating, Withdrawing, Releasing
  <2>2. run[h].res \in {"released", "settled"} /\ run[h].status \in Queued
    BY <1>1, <1>2, <1>14 DEF IInv, Places, EndPlaces, Ending
  <2>3. Binds(h)
    BY DEF IInv, EachRun
  <2>4. h \notin Held
    BY <2>2, <2>3 DEF Binds, Held
  <2>5. QED
    BY <2>1, <2>2, <2>4 DEF Runs
<1>15. ASSUME NEW s \in {"running", "completed", "failed", "cancelled"}, UNCHANGED gw,
              SetRun([Here EXCEPT !.status = s])
       PROVE  Promise!Goes(h, s) /\ Drafted' /\ run'[h].status = s
  <2>1. run' = [run EXCEPT ![h] = [run[h] EXCEPT !.status = s]]
    BY <1>2, <1>3, <1>15 DEF SetRun
  <2>2. s \notin {"absent", "draft"}
    OBVIOUS
  <2>3. run'[h].status = s
    BY <1>1, <1>3, <2>1 DEF Types, RunState
  <2>4. QED
    BY <1>1, <1>2, <1>4, <1>5, <1>15, <2>1, <2>2, <2>3, StatusGoes
<1>16. CASE EndCancelled
  <2>1. UNCHANGED gw /\ word = "end_cancelled"
    BY <1>1, <1>16, Words DEF EndCancelled
  <2>2. CASE Here.status \notin Terminal /\ SetRun([Here EXCEPT !.status = "cancelled"])
    <3>1. Promise!Goes(h, "cancelled") /\ Drafted'
      BY <1>15, <2>1, <2>2
    <3>2. Stage[h] \notin Promise!Over \cup {"absent"}
      BY <1>2, <1>3, <2>2, StageAt DEF Drafted, Promise!Over, Terminal
    <3>3. Promise!Cancel(h)
      BY <1>14, <2>1, <3>1, <3>2 DEF Promise!Cancel, Promise!Ends, Promise!Working
    <3>4. QED
      BY <3>1, <3>3 DEF Seen, Promise!Next
  <2>3. UNCHANGED run \/ (Here.status \notin Terminal /\ SetRun([Here EXCEPT !.status = "cancelled"]))
    BY <1>16 DEF EndCancelled
  <2>4. QED
    BY <1>7, <2>1, <2>2, <2>3
<1>17. CASE CompleteRun \/ FailRun
  <2>1. UNCHANGED gw /\ word \in {"complete_run", "fail_run"}
    BY <1>1, <1>17, Words DEF CompleteRun, FailRun, Finalize
  <2>2. CASE Here.status = "queued" /\ SetRun([Here EXCEPT !.status = "running"])
    <3>1. Promise!Goes(h, "running") /\ Drafted'
      BY <1>15, <2>1, <2>2
    <3>2. Promise!Resume(h)
      BY <1>3, <1>14, <2>1, <2>2, <3>1, StageAt DEF Promise!Resume
    <3>3. QED
      BY <3>1, <3>2 DEF Seen, Promise!Next
  <2>3. CASE Here.status = "running" /\ SetRun([Here EXCEPT !.status = "completed"])
    <3>1. Promise!Goes(h, "completed") /\ Drafted' /\ run'[h].status = "completed"
      BY <1>15, <2>1, <2>3
    <3>2. Binds(h)'
      BY DEF IInv, EachRun
    <3>3. charged[h] = 1
      BY <1>5, <3>1, <3>2 DEF Binds
    <3>4. Promise!Complete(h)
      BY <1>3, <1>14, <2>1, <2>3, <3>1, <3>3, StageAt
         DEF Promise!Complete, Promise!Ends, Promise!Working
    <3>5. QED
      BY <3>1, <3>4 DEF Seen, Promise!Next
  <2>4. CASE Here.status = "running" /\ SetRun([Here EXCEPT !.status = "failed"])
    <3>1. Promise!Goes(h, "failed") /\ Drafted'
      BY <1>15, <2>1, <2>4
    <3>2. Promise!Fail(h)
      BY <1>3, <1>14, <2>1, <2>4, <3>1, StageAt DEF Promise!Fail, Promise!Ends, Promise!Working
    <3>3. QED
      BY <3>1, <3>2 DEF Seen, Promise!Next
  <2>5. \/ UNCHANGED run
        \/ Here.status = "queued" /\ SetRun([Here EXCEPT !.status = "running"])
        \/ Here.status = "running" /\ SetRun([Here EXCEPT !.status = "completed"])
        \/ Here.status = "running" /\ SetRun([Here EXCEPT !.status = "failed"])
    BY <1>17 DEF CompleteRun, FailRun, Finalize
  <2>6. QED
    BY <1>7, <2>1, <2>2, <2>3, <2>4, <2>5
<1>18. QED
  BY <1>8, <1>9, <1>10, <1>11, <1>12, <1>13, <1>16, <1>17

\* A worker is started for a run in progress with its tokens, and when no other is awaited.
LEMMA StartSeen ==
  ASSUME IInv, Drafted, Start PROVE Seen /\ Drafted'
<1>1. Types /\ word = "start" /\ pc.run \in Runs /\ flight = 0
  BY Words DEF IInv, Start, Handler, Approving, Compensating, Withdrawing, Releasing
<1>2. PICK h \in Runs : h = pc.run
  BY <1>1
<1>3. run[h] \in RunState /\ Here = run[h]
  BY <1>1, <1>2 DEF Types, Here
<1>4. SameRun /\ UNCHANGED <<gw, charged>>
  BY <1>1, RunGoesOn, Zenon DEF Start
<1>5. CASE run[h].result # "none"
  <2>1. UNCHANGED <<run, flight, starts>>
    BY <1>3, <1>5 DEF Start
  <2>2. QED
    BY <1>1, <1>4, <2>1, Unseen
<1>6. CASE run[h].result = "none"
  <2>1. PICK s : s = IF run[h].status = "queued" THEN "running" ELSE run[h].status
    OBVIOUS
  <2>2. PICK record : record = [run[h] EXCEPT !.status = s]
    OBVIOUS
  <2>3. /\ run' = [run EXCEPT ![h] = record] /\ starts' = [starts EXCEPT ![h] = @ + 1]
        /\ flight' = h
    BY <1>2, <1>3, <1>6, <2>1, <2>2 DEF Start, SetRun
  <2>4. record.status = s /\ record.task = run[h].task /\ record.cancel = run[h].cancel
    BY <1>3, <2>2 DEF RunState
  <2>5. PICK i \in DOMAIN queue : Bound(h, i) /\ queue[i].status = "running"
    BY <1>1, <1>2 DEF IInv, Places, EndPlaces
  <2>6. run[h].status \notin {"absent", "draft"}
    <3>1. queue[i] \in Task
      BY <1>1, <2>5 DEF Types
    <3>2. run[h].task # 0
      BY <2>5, <3>1, LifecycleConstants DEF Bound, Task
    <3>3. QED
      BY <3>2 DEF Drafted
  <2>7. run[h].status \notin Terminal
    <3>1. Closed(h)
      BY DEF IInv, EachRun
    <3>2. ~BoundIn(h, Terminal)
      BY <2>5 DEF BoundIn, Terminal
    <3>3. QED
      BY <1>6, <3>1, <3>2 DEF Closed
  <2>8. run[h].status \in {"approved", "queued", "running"}
    BY <1>3, <2>6, <2>7 DEF RunState, Statuses
  <2>9. run[h].status # "approved" => h \in Held
    <3> SUFFICES ASSUME run[h].status # "approved" PROVE gw[h] = "active"
      BY DEF Held
    <3>1. InProgress(h)
      BY <2>8 DEF InProgress
    <3>2. ~run[h].cancel
      BY <1>1, <2>8 DEF IInv, NoneOpen, Claiming
    <3>3. Funded(h) \/ BoundIn(h, {"failed"})
      BY <1>6, <3>1, <3>2 DEF IInv, EachRun, Holds
    <3>4. QED
      BY <2>5, <3>3 DEF BoundIn, Funded
  <2>10. Stage' = [Stage EXCEPT ![h] = s] /\ Held' = Held
    <3>1. Stage' = [Stage EXCEPT ![h] = record.status]
      BY <1>1, <2>3, StageOf
    <3>2. QED
      BY <1>4, <2>4, <3>1 DEF Held
  <2>11. Stage' = [Stage EXCEPT ![h] = IF @ = "queued" THEN "running" ELSE @]
    BY <2>1, <2>10, StageAt
  <2>12. Promise!Start(h)
    BY <1>1, <1>4, <2>3, <2>8, <2>9, <2>10, <2>11, StageAt DEF Promise!Start
  <2>13. Drafted'
    <3>1. \A r \in Runs : run'[r] = IF r = h THEN record ELSE run[r]
      BY <1>1, <2>3 DEF Types
    <3>2. s \notin {"absent", "draft"}
      BY <2>1, <2>6
    <3>3. 0 \notin Runs
      BY DEF Runs
    <3>4. ASSUME NEW r \in Runs
          PROVE  /\ run'[r].status \in {"absent", "draft"} => run'[r].task = 0
                 /\ run'[r].status = "absent" => ~run'[r].cancel /\ pc'.run # r /\ flight' # r
      <4>1. CASE r = h
        BY <2>4, <3>1, <3>2, <4>1
      <4>2. CASE r # h
        BY <1>2, <1>4, <2>3, <3>1, <3>3, <4>2 DEF Drafted, SameRun
      <4>3. QED
        BY <4>1, <4>2
    <3>5. QED
      BY <3>4 DEF Drafted
  <2>14. QED
    BY <2>12, <2>13 DEF Seen, Promise!Next
<1>7. QED
  BY <1>5, <1>6

\* The poll turns to a run that has a cancellation, a failure or a result: it was drafted.
LEMMA LookSeen ==
  ASSUME IInv, Drafted, Look PROVE Seen /\ Drafted'
<1>1. Types /\ UNCHANGED <<gw, charged, flight, starts>>
  BY DEF IInv, Look
<1>2. CASE CancelPending # 0
  <2>1. UNCHANGED run /\ Begin(CancelPending, Cancelling)
    BY <1>2 DEF Look
  <2>2. pc'.run = CancelPending
    BY <2>1 DEF Begin, Nobody
  <2>3. run[CancelPending].cancel /\ CancelPending \in Runs
    <3>1. PICK C \in SUBSET Runs : C = {r \in Runs : run[r].cancel /\ run[r].status # "cancelled"}
      OBVIOUS
    <3>2. C \in SUBSET (Nat \ {0})
      BY <3>1, LifecycleConstants DEF Runs
    <3>3. CancelPending = FirstIn(C)
      BY <3>1 DEF CancelPending
    <3>4. CancelPending \in C
      BY <1>2, <3>2, <3>3, First
    <3>5. QED
      BY <3>1, <3>4
  <2>4. run[CancelPending].status # "absent"
    BY <2>3 DEF Drafted
  <2>5. QED
    BY <1>1, <2>1, <2>2, <2>4, Unseen
<1>3. CASE FailurePending # 0
  <2>1. PICK h \in Runs : h = FailurePending /\ run[h].dfail
    BY <1>3, Looked
  <2>2. BeforeQueue(h)
    BY DEF IInv, EachRun
  <2>3. run[h].status # "absent" /\ run[h] \in RunState
    BY <1>1, <2>1, <2>2 DEF BeforeQueue, Early, Types
  <2>4. CASE UNCHANGED run /\ Begin(h, FailedRun)
    <3>1. pc'.run = h
      BY <2>4 DEF Begin, Nobody
    <3>2. QED
      BY <1>1, <2>3, <2>4, <3>1, Unseen
  <2>5. CASE /\ UNCHANGED run \/ run' = [run EXCEPT ![h].dfail = FALSE]
             /\ Begin(0, <<"pending">>)
    <3>1. pc'.run = 0
      BY <2>5 DEF Begin, Nobody
    <3>2. CASE UNCHANGED run
      BY <1>1, <3>1, <3>2, Unseen DEF SameRun
    <3>3. CASE run' = [run EXCEPT ![h].dfail = FALSE]
      <4>1. PICK record : record = [run[h] EXCEPT !.dfail = FALSE]
        OBVIOUS
      <4>2. /\ record.status = run[h].status /\ record.task = run[h].task
            /\ record.cancel = run[h].cancel
        BY <2>3, <4>1 DEF RunState
      <4>3. run' = [run EXCEPT ![h] = record]
        BY <1>1, <3>3, <4>1 DEF Types
      <4>4. \A r \in Runs : run'[r] = IF r = h THEN record ELSE run[r]
        BY <1>1, <4>3 DEF Types
      <4>5. \A r \in Runs : /\ run'[r].status = run[r].status /\ run'[r].task = run[r].task
                            /\ run'[r].cancel = run[r].cancel
        BY <4>2, <4>4
      <4>6. Stage' = Stage /\ Held' = Held
        BY <1>1, <4>5 DEF Stage, Held
      <4>7. Drafted'
        BY <1>1, <3>1, <4>5 DEF Drafted, Runs
      <4>8. QED
        BY <1>1, <4>6, <4>7 DEF Seen, Promise!vars
    <3>4. QED
      BY <2>5, <3>2, <3>3
  <2>6. CASE CancelPending = 0
    <3>1. \/ UNCHANGED run /\ Begin(h, FailedRun)
          \/ /\ UNCHANGED run \/ run' = [run EXCEPT ![h].dfail = FALSE]
             /\ Begin(0, <<"pending">>)
      BY <2>1, <2>6, Zenon DEF Look
    <3>2. QED
      BY <2>4, <2>5, <3>1
  <2>7. QED
    BY <1>2, <2>6
<1>4. CASE CancelPending = 0 /\ FailurePending = 0
  <2>1. UNCHANGED run /\ Begin(0, <<"pending">>)
    BY <1>4 DEF Look
  <2>2. pc'.run = 0
    BY <2>1 DEF Begin, Nobody
  <2>3. QED
    BY <1>1, <2>1, <2>2, Unseen DEF SameRun
<1>5. QED
  BY <1>2, <1>3, <1>4

LEMMA PendingSeen ==
  ASSUME IInv, Drafted, Pending PROVE Seen /\ Drafted'
<1>1. Types /\ UNCHANGED <<run, gw, charged, flight, starts>>
  BY DEF IInv, Pending
<1>2. CASE ResultPending # 0 /\ Begin(ResultPending, <<"finish">>)
  <2>1. PICK h \in Runs : h = ResultPending /\ run[h].result # "none"
    BY <1>2, Looked
  <2>2. BeforeQueue(h)
    BY DEF IInv, EachRun
  <2>3. run[h].status # "absent" /\ pc'.run = h
    BY <1>2, <2>1, <2>2 DEF BeforeQueue, Early, Begin, Nobody
  <2>4. QED
    BY <1>1, <2>3, Unseen
<1>3. CASE Begin(0, <<"reconcile", "claim">>)
  <2>1. pc'.run = 0
    BY <1>3 DEF Begin, Nobody
  <2>2. QED
    BY <1>1, <2>1, Unseen DEF SameRun
<1>4. QED
  BY <1>2, <1>3 DEF Pending

\* A claimed task is bound to a run that was approved.
LEMMA ClaimSeen ==
  ASSUME IInv, Drafted, Claim PROVE Seen /\ Drafted'
<1> DEFINE ready == {j \in DOMAIN queue : queue[j].status = "queued" /\ queue[j].due}
<1>1. PICK i : i = FirstIn(ready)
  OBVIOUS
<1>2. /\ UNCHANGED <<run, gw, flight, starts, charged>>
      /\ IF i = 0 \/ run[queue[i].run].task # queue[i].task THEN Stop
         ELSE Begin(queue[i].run, <<"start">>)
  BY <1>1, Zenon DEF Claim
<1>3. Types
  BY DEF IInv
<1>4. CASE Stop
  BY <1>2, <1>3, <1>4, RunGoesOn, Unseen
<1>5. CASE i # 0 /\ run[queue[i].run].task = queue[i].task /\ Begin(queue[i].run, <<"start">>)
  <2>1. i \in DOMAIN queue
    <3>1. ready \in SUBSET (Nat \ {0})
      BY <1>3 DEF Types
    <3>2. FirstIn(ready) \in ready
      BY <1>1, <1>5, <3>1, First
    <3>3. QED
      BY <1>1, <3>2
  <2>2. queue[i] \in Task
    BY <1>3, <2>1 DEF Types
  <2>3. PICK h \in Runs : h = queue[i].run
    BY <2>2 DEF Task
  <2>4. run[h].task # 0
    BY <1>5, <2>2, <2>3, LifecycleConstants DEF Task
  <2>5. run[h].status # "absent" /\ pc'.run = h
    BY <1>5, <2>3, <2>4 DEF Drafted, Begin, Nobody
  <2>6. QED
    BY <1>2, <1>3, <2>5, Unseen
<1>6. QED
  BY <1>2, <1>4, <1>5

LEMMA AckTerminalSeen ==
  ASSUME IInv, IInv', Drafted, AckTerminal PROVE Seen /\ Drafted'
<1> DEFINE over == {r \in Runs : /\ run[r].status \in Terminal /\ run[r].task # 0
                                 /\ run[r].res # "active" /\ gw[r] \in {"released", "settled"}}
<1>1. Types /\ UNCHANGED <<run, charged, flight, starts>>
  BY DEF IInv, AckTerminal
<1>2. CASE over = {}
  <2>1. UNCHANGED gw /\ Continue
    BY <1>2 DEF AckTerminal
  <2>2. QED
    BY <1>1, <2>1, RunGoesOn, Unseen
<1>3. CASE over # {}
  <2>1. PICK h \in Runs : h = FirstIn(over)
    <3>1. over \in SUBSET (Nat \ {0})
      BY LifecycleConstants DEF Runs
    <3>2. FirstIn(over) \in over
      BY <1>3, <3>1, First
    <3>3. QED
      BY <3>2
  <2>2. Acknowledge(h) /\ UNCHANGED pc
    BY <1>3, <2>1 DEF AckTerminal
  <2>3. QED
    BY <1>1, <2>2, AckSeen DEF SameRun
<1>4. QED
  BY <1>2, <1>3

LEMMA WritesSeen ==
  ASSUME IInv, IInv', Drafted, Writes PROVE Seen /\ Drafted'
<1>1. CASE \/ WriteApproval \/ Decide \/ ApproveRevision \/ Release \/ MarkReleased
           \/ CompClear \/ ClearReleased \/ Reserve \/ Bind \/ Compensate \/ Queue
  BY <1>1, ApprovalSeen
<1>2. CASE \/ CompCancel \/ Enqueue \/ CancelTask \/ Reconcile \/ FailDispatch \/ Finish
           \/ CancelWorker \/ FailTask \/ DropTask \/ CompleteTask
  BY <1>2, TaskWritesSeen
<1>3. CASE Request \/ CancelOrphan \/ CancelRelease \/ CancelMark \/ CancelAck \/ Cancelled
  BY <1>3, CancellationSeen
<1>4. CASE AckTerminal \/ Look \/ Pending \/ Claim \/ Start \/ Settle
  BY <1>4, AckTerminalSeen, LookSeen, PendingSeen, ClaimSeen, StartSeen, SettleSeen
<1>5. CASE \/ RecordResult \/ RecordFailure \/ ClearResult \/ MarkSettled \/ AppendArtifact
           \/ EndCancelled \/ CompleteRun \/ FailRun \/ AckRun
  BY <1>5, EndSeen
<1>6. QED
  BY <1>1, <1>2, <1>3, <1>4, <1>5 DEF Writes

\* The worker's answer is in, or the worker is lost with the process.
LEMMA AnswerSeen ==
  ASSUME IInv, Drafted, DispatchEnds \/ Restart PROVE Seen /\ Drafted'
<1>1. /\ Types /\ UNCHANGED <<run, gw, charged, starts>> /\ flight' = 0
      /\ pc'.run \in {0, flight}
  <2>1. CASE \E answer \in Answers : Returns(answer)
    BY <2>1 DEF IInv, Returns, Nobody
  <2>2. CASE Rejects
    BY <2>2 DEF IInv, Rejects, Begin, Nobody
  <2>3. CASE Restart
    BY <2>3, Stops DEF IInv, Restart
  <2>4. QED
    BY <2>1, <2>2, <2>3 DEF DispatchEnds
<1>2. pc'.run \in Runs => run[pc'.run].status # "absent"
  BY <1>1 DEF Drafted, Runs
<1>3. Drafted'
  BY <1>1, <1>2, DraftedStays
<1>4. Promise!Answer
  BY <1>1 DEF Promise!Answer, Stage, Held
<1>5. QED
  BY <1>3, <1>4 DEF Seen, Promise!Next

LEMMA PrepareSeen ==
  ASSUME IInv, Drafted, NEW h \in Runs, Prepare(h) PROVE Seen /\ Drafted'
<1>1. Types /\ UNCHANGED <<gw, charged, flight, starts>> /\ run[h] = Absent
  BY DEF IInv, Prepare
<1>2. PICK record : record = [run[h] EXCEPT !.status = "draft"]
  OBVIOUS
<1>3. record.status = "draft" /\ record.task = 0
  BY <1>1, <1>2 DEF Absent
<1>4. run' = [run EXCEPT ![h] = record] /\ pc'.run = h
  BY <1>2 DEF Prepare, Begin, Nobody
<1>5. \A r \in Runs : run'[r] = IF r = h THEN record ELSE run[r]
  BY <1>1, <1>4 DEF Types
<1>6. Drafted'
  BY <1>1, <1>3, <1>4, <1>5 DEF Drafted
<1>7. Stage' = [Stage EXCEPT ![h] = "draft"] /\ Held' = Held
  <2>1. Stage' = [Stage EXCEPT ![h] = record.status]
    BY <1>1, <1>4, StageOf
  <2>2. QED
    BY <1>1, <1>3, <2>1 DEF Held
<1>8. Stage[h] = "absent"
  BY <1>1, StageAt DEF Absent
<1>9. Promise!Draft(h)
  BY <1>1, <1>7, <1>8 DEF Promise!Draft, Promise!Goes
<1>10. QED
  BY <1>6, <1>9 DEF Seen, Promise!Next

LEMMA StepSeen ==
  ASSUME IInv, Drafted, [Next]_vars PROVE Seen /\ Drafted'
<1>1. Types /\ IInv'
  BY StepIInv DEF IInv
<1>2. CASE \E r \in Runs : Prepare(r)
  BY <1>2, PrepareSeen
<1>3. CASE \E r \in Runs : Approve(r) \/ Cancel(r)
  <2>1. PICK h \in Runs : Approve(h) \/ Cancel(h)
    BY <1>3
  <2>2. /\ UNCHANGED <<run, gw, charged, flight, starts>> /\ pc'.run = h
        /\ run[h].status # "absent"
    BY <2>1 DEF Approve, Cancel, Begin, Nobody
  <2>3. QED
    BY <1>1, <2>2, Unseen
<1>4. CASE Writes
  BY <1>1, <1>4, WritesSeen
<1>5. CASE DispatchEnds \/ Restart
  BY <1>5, AnswerSeen
<1>6. CASE Poll \/ Throw \/ (\E i \in 1 .. MaxTasks : TimePasses(i)) \/ UNCHANGED vars
  <2>1. UNCHANGED <<run, gw, charged, flight, starts>>
    BY <1>6, Zenon DEF Poll, Throw, TimePasses, vars
  <2>2. SameRun
    <3>1. CASE Poll
      BY <3>1 DEF Poll, Begin, Nobody, SameRun
    <3>2. CASE Throw
      BY <1>1, <3>2, Stops DEF Throw, Types, SameRun
    <3>3. CASE (\E i \in 1 .. MaxTasks : TimePasses(i)) \/ UNCHANGED vars
      BY <3>3, Zenon DEF TimePasses, vars, SameRun
    <3>4. QED
      BY <1>6, <3>1, <3>2, <3>3
  <2>3. QED
    BY <1>1, <2>1, <2>2, Unseen
<1>7. QED
  BY <1>2, <1>3, <1>4, <1>5, <1>6 DEF Next

LEMMA InitSeen == Init => Promise!Init /\ Drafted
BY LifecycleConstants DEF Init, Promise!Init, Drafted, Stage, Held, Absent, Nobody, Runs

\* Whatever write throws, is repeated or is the last of its process, the control plane as a
\* whole does what it promises of a run: it works for it with its tokens, charges them once,
\* and ends it without them and without a worker (runOrchestrator.ts:290-476).
THEOREM PromiseIsKept == Spec => ImplementsPromise
<1>1. Init => Promise!Init /\ Drafted
  BY InitSeen
<1>2. IInv /\ Drafted /\ [Next]_vars => [Promise!Next]_Promise!vars /\ Drafted'
  BY StepSeen DEF Seen
<1>3. QED
  BY <1>1, <1>2, Inductive, PTL DEF Spec, ImplementsPromise, Promise!Spec

=============================================================================
