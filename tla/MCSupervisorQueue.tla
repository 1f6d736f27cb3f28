------------------------- MODULE MCSupervisorQueue -------------------------
(* Three tasks: t1 with one attempt, t2 with two, t3 with two and approval; any two of
   them fit into the list; two callers of runOnce, so that a dispatch can be overtaken by the timeout of its task. *)
EXTENDS SupervisorQueue

MCTasks == {"t1", "t2", "t3"}
MCAttempts == [t \in MCTasks |-> IF t = "t1" THEN 1 ELSE 2]
MCApproval == {"t3"}
=============================================================================
