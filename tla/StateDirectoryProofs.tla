------------------------ MODULE StateDirectoryProofs ------------------------
(***************************************************************************)
(* Proofs about the state directory: its maintenance lock, for any set of  *)
(* processes, creations of the lock and deaths; its maintenance, retention *)
(* and restoration, for any log, sizes and limits, failing calls, decaying *)
(* backups and deaths; and the ingestion of spooled incidents, the first   *)
(* stage of maintenance, for any number of incidents and any limits.       *)
(***************************************************************************)
EXTENDS StateLock, StateMaintenance, IncidentSpool, FiniteSetTheorems, TLAPS

-----------------------------------------------------------------------------
(* The lock *)

\* The initial state, with no lock directory and every process idle,
\* satisfies the inductive invariant.
LEMMA InitLockIInv == LockInit => LockIInv
<1>1. SUFFICES ASSUME LockInit PROVE LockIInv
  OBVIOUS
<1>2. LockTypeOK
  <2>1. 0 \in 0 .. MaxTokens /\ 1 \in 1 .. (MaxTokens + 1) /\ 0 \in 0 .. MaxDied
    BY MaxTokensAssumption, MaxDiedAssumption
  <2>2. drawn \in [Procs -> SUBSET Tokens]
    BY <1>1 DEF LockInit
  <2>3. pc \in [Procs -> PCs]
    BY <1>1 DEF LockInit, PCs
  <2>4. QED
    BY <1>1, <2>1, <2>2, <2>3 DEF LockInit, LockTypeOK
<1>3. QED
  BY <1>1, <1>2 DEF LockInit, LockIInv, OneGuardian, GuardianRecord, ProbedDead, MarkerExcludes,
    CatchOnlyStranded, TokensFresh, NoDirNoFiles, SnapCurrent, LeaseDepth,
    Guardians, Section, Holding, Leased, Marking

\* Every step of every process preserves the ranges of the variables.
LEMMA TypeStep == LockIInv /\ [LockNext]_lockVars => LockTypeOK'
<1> SUFFICES ASSUME LockIInv, [LockNext]_lockVars PROVE LockTypeOK'
  OBVIOUS
<1> USE MaxTokensAssumption, MaxDiedAssumption
        DEF LockIInv, LockTypeOK, Calls, fsVars, leaseVars, fileVars
<1>0. 0 \in 0 .. MaxTokens
  OBVIOUS
<1>1. CASE UNCHANGED lockVars
  BY <1>1 DEF lockVars
<1> SUFFICES ASSUME NEW p \in Procs,
                    Acquiring(p) \/ Reclaims(p) \/ Works(p) \/ Die(p) \/ Restart(p)
             PROVE  LockTypeOK'
  BY <1>1 DEF LockNext
<1>2. CASE Acquire(p)
  BY <1>2 DEF Acquire, PCs, Reclaiming, Section, Tokens
<1>3. CASE MkdirWins(p)
  BY <1>3 DEF MkdirWins, PCs, Reclaiming, Section, Tokens
<1>4. CASE MkdirExists(p)
  BY <1>4 DEF MkdirExists, PCs, Reclaiming, Section, Tokens
<1>5. CASE MkdirFails(p)
  BY <1>5 DEF MkdirFails, PCs, Reclaiming, Section, Tokens
<1>6. CASE OpenOwner(p)
  BY <1>6 DEF OpenOwner, PCs, Reclaiming, Section, Tokens
<1>7. CASE WriteOwner(p)
  BY <1>7 DEF WriteOwner, PCs, Reclaiming, Section, Tokens
<1>8. CASE WriteOwnerFails(p)
  BY <1>8 DEF WriteOwnerFails, PCs, Reclaiming, Section, Tokens
<1>9. CASE UndoOwner(p)
  BY <1>0, <1>9 DEF UndoOwner, PCs, Reclaiming, Section, Tokens
<1>10. CASE UndoDir(p)
  BY <1>10 DEF UndoDir, PCs, Reclaiming, Section, Tokens
<1>11. CASE Retry(p)
  BY <1>11 DEF Retry, PCs, Reclaiming, Section, Tokens
<1>12. CASE TimeOut(p)
  BY <1>12 DEF TimeOut, PCs, Reclaiming, Section, Tokens
<1>13. CASE ReadOwner(p)
  BY <1>13 DEF ReadOwner, PCs, Reclaiming, Section, Tokens
<1>14. CASE ProbeOwner(p)
  BY <1>14 DEF ProbeOwner, PCs, Reclaiming, Section, Tokens
<1>15. CASE MarkReclaim(p)
  BY <1>15 DEF MarkReclaim, PCs, Reclaiming, Section, Tokens
<1>16. CASE RereadOwner(p)
  BY <1>16 DEF RereadOwner, PCs, Reclaiming, Section, Tokens
<1>17. CASE Unmark(p)
  BY <1>17 DEF Unmark, PCs, Reclaiming, Section, Tokens
<1>18. CASE DropOwner(p)
  BY <1>0, <1>18 DEF DropOwner, PCs, Reclaiming, Section, Tokens
<1>19. CASE DropMark(p)
  BY <1>19 DEF DropMark, PCs, Reclaiming, Section, Tokens
<1>20. CASE RmdirDead(p)
  BY <1>20 DEF RmdirDead, PCs, Reclaiming, Section, Tokens
<1>21. CASE CatchReclaim(p)
  BY <1>21 DEF CatchReclaim, PCs, Reclaiming, Section, Tokens
<1>22. CASE ReadState(p)
  BY <1>22 DEF ReadState, PCs, Reclaiming, Section, Tokens
<1>23. CASE AcquireNested(p)
  BY <1>23 DEF AcquireNested, PCs, Reclaiming, Section, Tokens
<1>24. CASE RenameState(p)
  BY <1>24 DEF RenameState, PCs, Reclaiming, Section, Tokens
<1>25. CASE Release(p)
  BY <1>25 DEF Release, LeaseDepth, PCs, Reclaiming, Section, Tokens
<1>26. CASE CheckOwner(p)
  BY <1>26 DEF CheckOwner, PCs, Reclaiming, Section, Tokens
<1>27. CASE UnlinkOwner(p)
  BY <1>0, <1>27 DEF UnlinkOwner, PCs, Reclaiming, Section, Tokens
<1>28. CASE Rmdir(p)
  BY <1>28 DEF Rmdir, PCs, Reclaiming, Section, Tokens
<1>29. CASE Die(p)
  BY <1>29 DEF Die, PCs, Reclaiming, Section, Tokens
<1>30. CASE Restart(p)
  BY <1>30 DEF Restart, PCs, Reclaiming, Section, Tokens
<1>31. QED
  BY <1>2, <1>3, <1>4, <1>5, <1>6, <1>7, <1>8, <1>9, <1>10, <1>11, <1>12, <1>13, <1>14, <1>15, <1>16, <1>17, <1>18, <1>19, <1>20, <1>21, <1>22, <1>23, <1>24, <1>25, <1>26, <1>27, <1>28, <1>29, <1>30 DEF Acquiring, Reclaims, Works

\* Every step preserves the rest of the invariant.  The interesting cases are
\* the reclaimers': RereadOwner makes a guardian only out of the one process
\* that holds the marker, and RmdirDead reaches the catch clause only when the
\* lock is stranded.
LEMMA InvStep == LockIInv /\ [LockNext]_lockVars => LockIInv'
<1> SUFFICES ASSUME LockIInv, [LockNext]_lockVars PROVE LockIInv'
  OBVIOUS
<1>1. LockTypeOK'
  BY TypeStep
<1>2. CASE UNCHANGED lockVars
  BY <1>1, <1>2 DEF lockVars, fsVars, leaseVars, fileVars, LockIInv, OneGuardian, GuardianRecord,
    ProbedDead, MarkerExcludes, CatchOnlyStranded, TokensFresh, NoDirNoFiles, SnapCurrent,
    LeaseDepth, OwnerlessLock
<1> SUFFICES ASSUME NEW p \in Procs,
                    Acquiring(p) \/ Reclaims(p) \/ Works(p) \/ Die(p) \/ Restart(p)
             PROVE  LockIInv'
  BY <1>2 DEF LockNext
<1> USE DEF LockTypeOK, Calls, fsVars, leaseVars, fileVars, LockIInv, OneGuardian, GuardianRecord,
    ProbedDead, MarkerExcludes, CatchOnlyStranded, TokensFresh, NoDirNoFiles, SnapCurrent,
    LeaseDepth, OwnerlessLock, Guardians, Section, Holding, Leased, Marking, Tokens
<1>3. CASE Acquire(p)
  BY <1>1, <1>3 DEF Acquire, RmdirSucceeds
<1>4. CASE MkdirWins(p)
  BY <1>1, <1>4 DEF MkdirWins, RmdirSucceeds
<1>5. CASE MkdirExists(p)
  BY <1>1, <1>5 DEF MkdirExists, RmdirSucceeds
<1>6. CASE MkdirFails(p)
  BY <1>1, <1>6 DEF MkdirFails, RmdirSucceeds
<1>7. CASE OpenOwner(p)
  BY <1>1, <1>7 DEF OpenOwner, RmdirSucceeds
<1>8. CASE WriteOwner(p)
  BY <1>1, <1>8 DEF WriteOwner, RmdirSucceeds
<1>9. CASE WriteOwnerFails(p)
  BY <1>1, <1>9 DEF WriteOwnerFails, RmdirSucceeds
<1>10. CASE UndoOwner(p)
  BY <1>1, <1>10 DEF UndoOwner, RmdirSucceeds
<1>11. CASE UndoDir(p)
  <2>1. CASE RmdirSucceeds
    <3>1. \A q \in Procs : pc[q] \notin Marking /\ pc[q] # "catch"
      BY <1>11, <2>1 DEF UndoDir, RmdirSucceeds
    <3>2. \A q \in Procs \ {p} : pc[q] \notin Guardians
      BY <1>11 DEF UndoDir
    <3>3. QED
      <4>1. ~lockDir' /\ owner' = 0 /\ ~filled' /\ ~reclaim' /\ UNCHANGED <<drawn, nextToken, leaseVars, fileVars>>
        BY <1>11, <2>1 DEF UndoDir, RmdirSucceeds
      <4>2. pc' = [pc EXCEPT ![p] = "idle"]
        BY <1>11 DEF UndoDir
      <4>3. OneGuardian' /\ GuardianRecord' /\ CatchOnlyStranded'
        BY <1>1, <3>1, <3>2, <4>1, <4>2
      <4>4. ProbedDead' /\ MarkerExcludes' /\ NoDirNoFiles'
        BY <1>1, <3>1, <4>1, <4>2
      <4>5. TokensFresh' /\ SnapCurrent' /\ LeaseDepth'
        BY <1>1, <4>1, <4>2
      <4>6. QED
        BY <1>1, <4>3, <4>4, <4>5
  <2>2. CASE ~RmdirSucceeds
    BY <1>1, <1>11, <2>2 DEF UndoDir
  <2>3. QED
    BY <2>1, <2>2
<1>12. CASE Retry(p)
  BY <1>1, <1>12 DEF Retry, RmdirSucceeds
<1>13. CASE TimeOut(p)
  BY <1>1, <1>13 DEF TimeOut, RmdirSucceeds
<1>14. CASE ReadOwner(p)
  BY <1>1, <1>14 DEF ReadOwner, RmdirSucceeds
<1>15. CASE ProbeOwner(p)
  BY <1>1, <1>15 DEF ProbeOwner, RmdirSucceeds
<1>16. CASE MarkReclaim(p)
  BY <1>1, <1>16 DEF MarkReclaim, RmdirSucceeds
<1>17. CASE RereadOwner(p)
  BY <1>1, <1>17 DEF RereadOwner, RmdirSucceeds
<1>18. CASE Unmark(p)
  BY <1>1, <1>18 DEF Unmark, RmdirSucceeds
<1>19. CASE DropOwner(p)
  BY <1>1, <1>19 DEF DropOwner, RmdirSucceeds
<1>20. CASE DropMark(p)
  BY <1>1, <1>20 DEF DropMark, RmdirSucceeds
<1>21. CASE RmdirDead(p)
  BY <1>1, <1>21 DEF RmdirDead, RmdirSucceeds
<1>22. CASE CatchReclaim(p)
  BY <1>1, <1>22 DEF CatchReclaim, RmdirSucceeds
<1>23. CASE ReadState(p)
  BY <1>1, <1>23 DEF ReadState, RmdirSucceeds
<1>24. CASE AcquireNested(p)
  BY <1>1, <1>24 DEF AcquireNested, RmdirSucceeds
<1>25. CASE RenameState(p)
  BY <1>1, <1>25 DEF RenameState, RmdirSucceeds
<1>26. CASE Release(p)
  BY <1>1, <1>26 DEF Release, RmdirSucceeds
<1>27. CASE CheckOwner(p)
  BY <1>1, <1>27 DEF CheckOwner, RmdirSucceeds
<1>28. CASE UnlinkOwner(p)
  BY <1>1, <1>28 DEF UnlinkOwner, RmdirSucceeds
<1>29. CASE Rmdir(p)
  <2>1. CASE RmdirSucceeds
    <3>1. \A q \in Procs : pc[q] \notin Marking /\ pc[q] # "catch"
      BY <1>29, <2>1 DEF Rmdir, RmdirSucceeds
    <3>2. \A q \in Procs \ {p} : pc[q] \notin Guardians
      BY <1>29 DEF Rmdir
    <3>3. QED
      <4>1. ~lockDir' /\ owner' = 0 /\ ~filled' /\ ~reclaim' /\ UNCHANGED <<drawn, nextToken, leaseVars, fileVars>>
        BY <1>29, <2>1 DEF Rmdir, RmdirSucceeds
      <4>2. pc' = [pc EXCEPT ![p] = "idle"]
        BY <1>29 DEF Rmdir
      <4>3. OneGuardian' /\ GuardianRecord' /\ CatchOnlyStranded'
        BY <1>1, <3>1, <3>2, <4>1, <4>2
      <4>4. ProbedDead' /\ MarkerExcludes' /\ NoDirNoFiles'
        BY <1>1, <3>1, <4>1, <4>2
      <4>5. TokensFresh' /\ SnapCurrent' /\ LeaseDepth'
        BY <1>1, <4>1, <4>2
      <4>6. QED
        BY <1>1, <4>3, <4>4, <4>5
  <2>2. CASE ~RmdirSucceeds
    BY <1>1, <1>29, <2>2 DEF Rmdir
  <2>3. QED
    BY <2>1, <2>2
<1>30. CASE Die(p)
  BY <1>1, <1>30 DEF Die, RmdirSucceeds
<1>31. CASE Restart(p)
  BY <1>1, <1>31 DEF Restart, RmdirSucceeds
<1>32. QED
  BY <1>3, <1>4, <1>5, <1>6, <1>7, <1>8, <1>9, <1>10, <1>11, <1>12, <1>13, <1>14, <1>15, <1>16, <1>17, <1>18, <1>19, <1>20, <1>21, <1>22, <1>23, <1>24, <1>25, <1>26, <1>27, <1>28, <1>29, <1>30, <1>31 DEF Acquiring, Reclaims, Works

\* The inductive invariant holds in every reachable state.
THEOREM Invariance == LockSpec => []LockIInv
<1>1. LockInit => LockIInv
  BY InitLockIInv
<1>2. LockIInv /\ [LockNext]_lockVars => LockIInv'
  BY InvStep
<1>3. QED
  BY <1>1, <1>2, PTL DEF LockSpec

\* Every variable of the lock protocol keeps its type.
THEOREM TypeCorrect == LockSpec => []LockTypeOK
<1>1. LockIInv => LockTypeOK
  BY DEF LockIInv
<1>2. QED
  BY <1>1, Invariance, PTL

\* For any number of processes, deaths and restarts, two processes are never
\* inside withStateMaintenanceLock together.
THEOREM MutualExclusionHolds == LockSpec => []MutualExclusion
<1>1. LockIInv => MutualExclusion
  BY DEF LockIInv, OneGuardian, MutualExclusion, Guardians
<1>2. QED
  BY <1>1, Invariance, PTL

\* No reclaimer ever takes the record away from a process that is alive and in
\* its section.
THEOREM HolderKeepsRecordHolds == LockSpec => []HolderKeepsRecord
<1>1. LockIInv => HolderKeepsRecord
  BY DEF LockIInv, GuardianRecord, HolderKeepsRecord, Guardians, Holding, Leased
<1>2. QED
  BY <1>1, Invariance, PTL

\* The read-modify-write cycles of all processes are serialised: the version of
\* the protected file counts every publication ever made.
THEOREM NoLostUpdateHolds == LockSpec => []NoLostUpdate
<1>1. LockIInv => NoLostUpdate
  BY DEF LockIInv, SnapCurrent, NoLostUpdate
<1>2. QED
  BY <1>1, Invariance, PTL

-----------------------------------------------------------------------------
(* The lock implements the serial store.                                   *)

\* A step that leaves the file alone and moves one process between calls that are both in
\* the section, or both outside it, is a stutter of the store.
LEMMA StutterStep ==
  ASSUME LockTypeOK, NEW p \in Procs, NEW l, pc' = [pc EXCEPT ![p] = l],
         pc[p] \in Section <=> l \in Section, file' = file, commits' = commits
  PROVE  UNCHANGED Store!vars
<1>1. \A q \in Procs : pc'[q] \in Section <=> pc[q] \in Section
  BY DEF LockTypeOK
<1>2. QED
  BY <1>1 DEF Store!vars, Inside

\* Initial states map to initial states.
LEMMA StoreInit == LockInit => Store!Init
BY DEF LockInit, Store!Init, Inside, Section

\* Every step maps to a step of the store or to a stutter: the owner record that is written
\* is the entry, the rename the publication, the outermost release or a death in the section
\* the leave.
LEMMA StoreStep == LockIInv /\ [LockNext]_lockVars => [Store!Next]_Store!vars
<1> SUFFICES ASSUME LockIInv, [LockNext]_lockVars PROVE [Store!Next]_Store!vars
  OBVIOUS
<1>1. CASE UNCHANGED lockVars
  BY <1>1 DEF lockVars, fileVars, Store!vars, Inside
<1> SUFFICES ASSUME NEW p \in Procs,
                    Acquiring(p) \/ Reclaims(p) \/ Works(p) \/ Die(p) \/ Restart(p)
             PROVE  [Store!Next]_Store!vars
  BY <1>1 DEF LockNext
<1>2. LockTypeOK
  BY DEF LockIInv
<1>3. pc[p] \in Section => Inside = {p}
  BY DEF LockIInv, OneGuardian, Guardians, Inside
<1>4. CASE WriteOwner(p)
  <2>1. pc[p] = "writeOwner" /\ pc' = [pc EXCEPT ![p] = "held"] /\ file' = file /\ commits' = commits
    BY <1>4 DEF WriteOwner, Calls, fileVars
  <2>2. \A q \in Procs : pc[q] \notin Section
    BY <2>1 DEF LockIInv, OneGuardian, Guardians, Section
  <2>3. Inside = {}
    BY <2>2 DEF Inside
  <2>4. Inside' = {p}
    BY <1>2, <2>1, <2>2 DEF Inside, LockTypeOK, Section
  <2>5. Store!Enter(p)
    BY <2>1, <2>3, <2>4 DEF Store!Enter
  <2>6. QED
    BY <2>5 DEF Store!Next
<1>5. CASE RenameState(p)
  <2>1. pc[p] = "nested" /\ pc' = [pc EXCEPT ![p] = "done"] /\ file' = snap[p] + 1 /\ commits' = commits + 1
    BY <1>5 DEF RenameState, Calls
  <2>2. file' = file + 1
    BY <2>1 DEF LockIInv, SnapCurrent
  <2>3. \A q \in Procs : pc'[q] \in Section <=> pc[q] \in Section
    BY <1>2, <2>1 DEF LockTypeOK, Section
  <2>4. Inside' = Inside
    BY <2>3 DEF Inside
  <2>5. Store!Publish(p)
    BY <1>3, <2>1, <2>2, <2>4 DEF Store!Publish, Section
  <2>6. QED
    BY <2>5 DEF Store!Next
<1>6. ASSUME NEW l, l \notin Section, pc' = [pc EXCEPT ![p] = l], file' = file, commits' = commits,
             pc[p] \in Section
      PROVE  Store!Next
  <2>1. Inside' = {}
    BY <1>2, <1>3, <1>6 DEF Inside, LockTypeOK
  <2>2. Store!Leave(p)
    BY <1>3, <1>6, <2>1 DEF Store!Leave
  <2>3. QED
    BY <2>2 DEF Store!Next
<1>7. CASE Release(p)
  <2>1. pc[p] \in Section /\ file' = file /\ commits' = commits
    BY <1>7 DEF Release, fileVars
  <2>2. CASE depth[p] > 1
    BY <1>2, <1>7, <2>1, <2>2, StutterStep DEF Release, Calls, Section
  <2>3. CASE ~(depth[p] > 1)
    <3>1. pc' = [pc EXCEPT ![p] = "checkOwner"] /\ "checkOwner" \notin Section
      BY <1>7, <2>3 DEF Release, Calls, Section
    <3>2. QED
      BY <1>6, <2>1, <3>1
  <2>4. QED
    BY <2>2, <2>3
<1>8. CASE Die(p)
  <2>1. pc' = [pc EXCEPT ![p] = "dead"] /\ file' = file /\ commits' = commits /\ "dead" \notin Section
    BY <1>8 DEF Die, Calls, Section
  <2>2. CASE pc[p] \in Section
    BY <1>6, <2>1, <2>2
  <2>3. CASE pc[p] \notin Section
    BY <1>2, <2>1, <2>3, StutterStep
  <2>4. QED
    BY <2>2, <2>3
<1>9. CASE Restart(p)
  BY <1>2, <1>9, StutterStep DEF Restart, Calls, fileVars, Section
<1>10. CASE Acquire(p)
  BY <1>2, <1>10, StutterStep DEF Acquire, Calls, fileVars, Section
<1>11. CASE MkdirWins(p)
  BY <1>2, <1>11, StutterStep DEF MkdirWins, Calls, fileVars, Section
<1>12. CASE MkdirExists(p)
  BY <1>2, <1>12, StutterStep DEF MkdirExists, Calls, fileVars, Section
<1>13. CASE MkdirFails(p)
  BY <1>2, <1>13, StutterStep DEF MkdirFails, Calls, fileVars, Section
<1>14. CASE OpenOwner(p)
  BY <1>2, <1>14, StutterStep DEF OpenOwner, Calls, fileVars, Section
<1>15. CASE WriteOwnerFails(p)
  BY <1>2, <1>15, StutterStep DEF WriteOwnerFails, Calls, fileVars, Section
<1>16. CASE UndoOwner(p)
  BY <1>2, <1>16, StutterStep DEF UndoOwner, Calls, fileVars, Section
<1>17. CASE UndoDir(p)
  BY <1>2, <1>17, StutterStep DEF UndoDir, Calls, fileVars, Section
<1>18. CASE Retry(p)
  BY <1>2, <1>18, StutterStep DEF Retry, Calls, fileVars, Section
<1>19. CASE TimeOut(p)
  BY <1>2, <1>19, StutterStep DEF TimeOut, Calls, fileVars, Section
<1>20. CASE ReadOwner(p)
  BY <1>2, <1>20, StutterStep DEF ReadOwner, Calls, fileVars, Section
<1>21. CASE ProbeOwner(p)
  BY <1>2, <1>21, StutterStep DEF ProbeOwner, Calls, fileVars, Section
<1>22. CASE MarkReclaim(p)
  BY <1>2, <1>22, StutterStep DEF MarkReclaim, Calls, fileVars, Section
<1>23. CASE RereadOwner(p)
  BY <1>2, <1>23, StutterStep DEF RereadOwner, Calls, fileVars, Section
<1>24. CASE Unmark(p)
  BY <1>2, <1>24, StutterStep DEF Unmark, Calls, fileVars, Section
<1>25. CASE DropOwner(p)
  BY <1>2, <1>25, StutterStep DEF DropOwner, Calls, fileVars, Section
<1>26. CASE DropMark(p)
  BY <1>2, <1>26, StutterStep DEF DropMark, Calls, fileVars, Section
<1>27. CASE RmdirDead(p)
  BY <1>2, <1>27, StutterStep DEF RmdirDead, Calls, fileVars, Section
<1>28. CASE CatchReclaim(p)
  BY <1>2, <1>28, StutterStep DEF CatchReclaim, Calls, fileVars, Section
<1>29. CASE ReadState(p)
  BY <1>2, <1>29, StutterStep DEF ReadState, Calls, fileVars, Section
<1>30. CASE AcquireNested(p)
  BY <1>2, <1>30, StutterStep DEF AcquireNested, Calls, fileVars, Section
<1>31. CASE CheckOwner(p)
  BY <1>2, <1>31, StutterStep DEF CheckOwner, Calls, fileVars, Section
<1>32. CASE UnlinkOwner(p)
  BY <1>2, <1>32, StutterStep DEF UnlinkOwner, Calls, fileVars, Section
<1>33. CASE Rmdir(p)
  BY <1>2, <1>33, StutterStep DEF Rmdir, Calls, fileVars, Section
<1>34. QED
  BY <1>4, <1>5, <1>7, <1>8, <1>9, <1>10, <1>11, <1>12, <1>13, <1>14, <1>15, <1>16, <1>17, <1>18, <1>19, <1>20, <1>21, <1>22, <1>23, <1>24, <1>25, <1>26, <1>27, <1>28, <1>29, <1>30, <1>31, <1>32, <1>33
     DEF Acquiring, Reclaims, Works

\* For any processes, deaths and restarts the lock protocol implements the serial store.
THEOREM StoreImplemented == LockSpec => ImplementsStore
<1>1. LockInit => Store!Init
  BY StoreInit
<1>2. LockIInv /\ [LockNext]_lockVars => [Store!Next]_Store!vars
  BY StoreStep
<1>3. QED
  BY <1>1, <1>2, Invariance, PTL DEF LockSpec, ImplementsStore, Store!Spec

-----------------------------------------------------------------------------
(* Maintenance *)

Backup == [lines : SUBSET Nat, sound : BOOLEAN]
Rotation == [pc : Stages, tail : Seq(Nat), archived : Seq(Nat)]
Restoration == [pc : {"idle", "copy", "check", "remove", "rename"}, existed : BOOLEAN,
                sound : BOOLEAN]

Types ==
  /\ log \in Seq(Nat) /\ archives \in Seq(Seq(Nat)) /\ written \in Nat /\ loose \subseteq Nat
  /\ backups \in Seq(Backup) /\ mt \in Rotation /\ restore \in Restoration
  /\ age \in 0 .. KeepBackups

\* From its creation to the end of the rotation the newest backup has the log, but for the
\* lines that were written since without the lock.
Backed == mt.pc \in {"validate", "rotate", "rename"} =>
  backups # <<>> /\ ToSet(log) \subseteq Last(backups).lines \cup loose

Validated == mt.pc \in {"rotate", "rename"} => Last(backups).sound

\* The backup that has what rotation took away is older than those made since, among which
\* is the one that may still go to quarantine.
Kept == age < KeepBackups /\ gone # {} =>
  \E n \in DOMAIN backups :
    /\ n >= Len(backups) - age /\ gone \subseteq backups[n].lines
    /\ mt.pc = "validate" => n < Len(backups)

\* Only a copy that was found valid replaces the target.
CopyChecked == restore.pc \in {"remove", "rename"} => restore.sound

IInv == Types /\ Backed /\ Validated /\ Kept /\ CopyChecked /\ RestoreIsWhole

-----------------------------------------------------------------------------
(* Sequences *)

LEMMA Numbers ==
  /\ KeepBackups \in Nat \ {0} /\ KeepArchives \in Nat
  /\ 0 \in 0 .. KeepBackups /\ Idle \in Rotation /\ NoRestore \in Restoration
BY MaintenanceConstants DEF Idle, NoRestore, Rotation, Restoration, Stages

LEMMA NewestType ==
  ASSUME NEW S, NEW s \in Seq(S), NEW n \in Nat
  PROVE  /\ Newest(s, n) \in Seq(S)
         /\ Len(s) > n => /\ Len(Newest(s, n)) = n
                          /\ \A k \in 1 .. n : Newest(s, n)[k] = s[Len(s) - n + k]
         /\ Len(s) <= n => Newest(s, n) = s
<1>1. CASE Len(s) <= n
  BY <1>1 DEF Newest
<1>2. CASE Len(s) > n
  <2>1. Newest(s, n) = SubSeq(s, Len(s) - n + 1, Len(s))
    BY <1>2 DEF Newest
  <2>2. Len(s) - n + 1 \in 1 .. Len(s) + 1
    BY <1>2
  <2>3. QED
    BY <1>2, <2>1, <2>2
<1>3. QED
  BY <1>1, <1>2

LEMMA FrontOf ==
  ASSUME NEW S, NEW s \in Seq(S), NEW m \in 0 .. Len(s)
  PROVE  /\ SubSeq(s, 1, m) \in Seq(S) /\ Len(SubSeq(s, 1, m)) = m
         /\ \A n \in 1 .. m : n \in DOMAIN SubSeq(s, 1, m) /\ SubSeq(s, 1, m)[n] = s[n]
<1>1. 1 \in 1 .. Len(s) + 1
  OBVIOUS
<1>2. QED
  BY <1>1

LEMMA FrontType ==
  ASSUME NEW S, NEW s \in Seq(S), Len(s) \in Nat \ {0}
  PROVE  /\ Front(s) \in Seq(S) /\ Len(Front(s)) = Len(s) - 1
         /\ \A n \in 1 .. Len(s) - 1 : n \in DOMAIN Front(s) /\ Front(s)[n] = s[n]
<1>1. PICK m \in Nat : m = Len(s) - 1
  OBVIOUS
<1>2. Front(s) = SubSeq(s, 1, m) /\ m \in 0 .. Len(s)
  BY <1>1 DEF Front
<1>3. /\ SubSeq(s, 1, m) \in Seq(S) /\ Len(SubSeq(s, 1, m)) = m
      /\ \A n \in 1 .. m : n \in DOMAIN SubSeq(s, 1, m) /\ SubSeq(s, 1, m)[n] = s[n]
  BY <1>2, FrontOf
<1>4. QED
  BY <1>1, <1>2, <1>3

LEMMA WindowType ==
  ASSUME NEW lines \in Seq(Nat), NEW max
  PROVE  Window(lines, max) \in Seq(Nat)
<1> DEFINE from == SizeOf(lines) - max
           behind == {n \in DOMAIN lines : SizeOf(SubSeq(lines, 1, n - 1)) > from}
<1>1. Cardinality(behind) \in Nat
  <2>1. IsFiniteSet(DOMAIN lines)
    BY FS_Interval
  <2>2. behind \subseteq DOMAIN lines
    OBVIOUS
  <2>3. QED
    BY <2>1, <2>2, FS_Subset, FS_CardinalityType
<1>2. Newest(lines, Cardinality(behind)) \in Seq(Nat)
  BY <1>1, NewestType
<1>3. QED
  BY <1>2 DEF Window

\* Another backup counts one more, up to the limit.
LEMMA Older ==
  ASSUME Types
  PROVE  /\ Min({age + 1, KeepBackups}) \in 0 .. KeepBackups
         /\ Min({age + 1, KeepBackups}) < KeepBackups => Min({age + 1, KeepBackups}) = age + 1
<1>1. age + 1 \in Nat /\ age + 1 <= KeepBackups + 1 /\ KeepBackups \in Nat
  BY Numbers DEF Types
<1>2. PICK m \in {age + 1, KeepBackups} : \A k \in {age + 1, KeepBackups} : m <= k
  BY <1>1
<1>3. Min({age + 1, KeepBackups}) \in {age + 1, KeepBackups}
  /\ \A k \in {age + 1, KeepBackups} : Min({age + 1, KeepBackups}) <= k
  BY <1>2 DEF Min
<1>4. QED
  BY <1>1, <1>3

-----------------------------------------------------------------------------
(* Backups *)

\* A backup is appended.
LEMMA AppendKeeps ==
  ASSUME Types, Kept, NEW b \in Backup, age' = Min({age + 1, KeepBackups}), UNCHANGED gone,
         backups' = Append(backups, b)
  PROVE  /\ backups' \in Seq(Backup) /\ age' \in 0 .. KeepBackups
         /\ backups' # <<>> /\ Last(backups') = b
         /\ age' < KeepBackups /\ gone' # {} =>
              \E n \in DOMAIN backups' :
                n >= Len(backups') - age' /\ gone' \subseteq backups'[n].lines /\ n < Len(backups')
<1>1. /\ backups' \in Seq(Backup) /\ Len(backups') = Len(backups) + 1
      /\ backups'[Len(backups) + 1] = b /\ \A n \in DOMAIN backups : backups'[n] = backups[n]
      /\ DOMAIN backups = 1 .. Len(backups) /\ Len(backups) \in Nat
  BY DEF Types
<1>2. backups' # <<>> /\ Last(backups') = b
  BY <1>1 DEF Last
<1>3. ASSUME age' < KeepBackups, gone # {}
      PROVE  \E n \in DOMAIN backups' :
               n >= Len(backups') - age' /\ gone \subseteq backups'[n].lines /\ n < Len(backups')
  <2>1. age' = age + 1 /\ age < KeepBackups /\ age \in Nat
    BY <1>3, Older, Numbers DEF Types
  <2>2. PICK n \in DOMAIN backups : n >= Len(backups) - age /\ gone \subseteq backups[n].lines
    BY <1>3, <2>1 DEF Kept
  <2>3. n \in DOMAIN backups' /\ n >= Len(backups') - age' /\ n < Len(backups')
    BY <1>1, <2>1, <2>2
  <2>4. QED
    BY <1>1, <2>2, <2>3
<1>4. QED
  BY <1>1, <1>2, <1>3, Older

\* Old backups are pruned; the one that is needed is not among them.
LEMMA PrunedKeeps ==
  ASSUME NEW s \in Seq(Backup), NEW a \in Nat, a < KeepBackups, NEW lost,
         NEW n \in DOMAIN s, n >= Len(s) - a, lost \subseteq s[n].lines
  PROVE  \E k \in DOMAIN Pruned(s) : k >= Len(Pruned(s)) - a /\ lost \subseteq Pruned(s)[k].lines
<1>1. KeepBackups \in Nat /\ Len(s) \in Nat /\ DOMAIN s = 1 .. Len(s)
  BY Numbers
<1>2. CASE Len(s) <= KeepBackups
  BY <1>1, <1>2, NewestType DEF Pruned
<1>3. CASE Len(s) > KeepBackups
  <2> DEFINE k == n - (Len(s) - KeepBackups)
  <2>1. k \in 1 .. KeepBackups /\ k >= KeepBackups - a /\ Len(s) - KeepBackups + k = n
    BY <1>1, <1>3
  <2>2. /\ Pruned(s) \in Seq(Backup) /\ Len(Pruned(s)) = KeepBackups
        /\ Pruned(s)[k] = s[Len(s) - KeepBackups + k]
    BY <1>1, <1>3, <2>1, NewestType DEF Pruned
  <2>3. k \in DOMAIN Pruned(s) /\ Pruned(s)[k] = s[n]
    BY <2>1, <2>2
  <2>4. QED
    BY <2>1, <2>2, <2>3
<1>4. QED
  BY <1>1, <1>2, <1>3

-----------------------------------------------------------------------------
(* The steps *)

LEMMA ToSetType == ASSUME NEW S, NEW s \in Seq(S) PROVE ToSet(s) \subseteq S
BY DEF ToSet

LEMMA LastIn == ASSUME NEW S, NEW s \in Seq(S), s # <<>> PROVE Len(s) \in DOMAIN s /\ Last(s) \in S
BY DEF Last

LEMMA SnapshotType ==
  ASSUME Types PROVE Snapshot \in Backup /\ ToSet(log) \subseteq Snapshot.lines /\ Snapshot.sound
<1>1. ToSet(log) \subseteq Nat
  BY ToSetType DEF Types
<1>2. \A n \in DOMAIN archives : archives[n] \in Seq(Nat)
  BY DEF Types
<1>3. \A n \in DOMAIN archives : ToSet(archives[n]) \subseteq Nat
  BY <1>2, ToSetType
<1>4. Lines \subseteq Nat /\ ToSet(log) \subseteq Lines
  BY <1>1, <1>3 DEF Lines
<1>5. QED
  BY <1>4 DEF Snapshot, Backup

\* A writer adds a line; one that does not wait for the lock is noted.
LEMMA WriteLineKeeps == ASSUME IInv, WriteLine PROVE IInv'
<1>1. /\ log \in Seq(Nat) /\ written + 1 \in Nat /\ log' = Append(log, written + 1)
      /\ written' = written + 1
      /\ loose' = IF LockFree THEN loose ELSE loose \cup {written + 1}
      /\ UNCHANGED <<archives, backups, gone, age, mt, restore, target>>
  BY DEF WriteLine, IInv, Types, restoration
<1>2. log' \in Seq(Nat) /\ ToSet(log') \subseteq ToSet(log) \cup {written + 1}
  BY <1>1 DEF ToSet
<1>3. Types'
  BY <1>1, <1>2 DEF IInv, Types
<1>4. Backed'
  <2>1. SUFFICES ASSUME mt.pc \in {"validate", "rotate", "rename"}
                 PROVE  backups # <<>> /\ ToSet(log') \subseteq Last(backups).lines \cup loose'
    BY <1>1 DEF Backed
  <2>2. loose' = loose \cup {written + 1}
    BY <1>1, <2>1 DEF LockFree
  <2>3. QED
    BY <1>2, <2>1, <2>2 DEF IInv, Backed
<1>5. QED
  BY <1>1, <1>3, <1>4 DEF IInv, Validated, Kept, CopyChecked, RestoreIsWhole

LEMMA CreateKeeps == ASSUME IInv, Create PROVE IInv'
<1>1. UNCHANGED <<log, archives, written, loose, gone, restore, target>>
  BY DEF Create, restoration
<1>2. CASE mt' = Idle /\ UNCHANGED <<backups, age>>
  BY <1>1, <1>2, Numbers DEF IInv, Types, Backed, Validated, Kept, CopyChecked, RestoreIsWhole, Idle
<1>3. CASE Goto("validate") /\ backups' = Append(backups, Snapshot)
           /\ age' = Min({age + 1, KeepBackups})
  <2>1. /\ backups' \in Seq(Backup) /\ age' \in 0 .. KeepBackups
        /\ backups' # <<>> /\ Last(backups') = Snapshot
        /\ age' < KeepBackups /\ gone' # {} =>
             \E n \in DOMAIN backups' :
               n >= Len(backups') - age' /\ gone' \subseteq backups'[n].lines /\ n < Len(backups')
    BY <1>1, <1>3, SnapshotType, AppendKeeps DEF IInv
  <2>2. mt' \in Rotation /\ mt'.pc = "validate"
    BY <1>3 DEF IInv, Types, Goto, Rotation, Stages
  <2>3. Types'
    BY <1>1, <2>1, <2>2 DEF IInv, Types
  <2>4. Backed'
    BY <1>1, <2>1, SnapshotType DEF IInv, Backed
  <2>5. Kept'
    BY <2>1 DEF Kept
  <2>6. QED
    BY <1>1, <2>2, <2>3, <2>4, <2>5 DEF IInv, Validated, CopyChecked, RestoreIsWhole
<1>4. QED
  BY <1>2, <1>3 DEF Create

LEMMA ValidateKeeps == ASSUME IInv, Validate PROVE IInv'
<1>1. mt.pc = "validate" /\ UNCHANGED <<log, archives, written, loose, gone, age, restore, target>>
  BY DEF Validate, restoration
<1>2. CASE Last(backups).sound /\ Goto("rotate") /\ UNCHANGED backups
  <2>1. mt' \in Rotation /\ mt'.pc = "rotate"
    BY <1>2 DEF IInv, Types, Goto, Rotation, Stages
  <2>2. QED
    BY <1>1, <1>2, <2>1
       DEF IInv, Types, Backed, Validated, Kept, CopyChecked, RestoreIsWhole
<1>3. CASE mt' = Idle /\ backups' = Front(backups)
  <2>1. backups \in Seq(Backup) /\ Len(backups) \in Nat \ {0}
    BY <1>1 DEF IInv, Types, Backed
  <2>2. /\ backups' \in Seq(Backup) /\ Len(backups') = Len(backups) - 1
        /\ \A n \in 1 .. Len(backups) - 1 : n \in DOMAIN backups' /\ backups'[n] = backups[n]
    BY <1>3, <2>1, FrontType
  <2>3. Kept'
    <3>1. SUFFICES ASSUME age < KeepBackups, gone # {}
                   PROVE  \E n \in DOMAIN backups' :
                            n >= Len(backups') - age /\ gone \subseteq backups'[n].lines
      BY <1>1, <1>3 DEF Kept, Idle
    <3>2. PICK n \in DOMAIN backups :
            n >= Len(backups) - age /\ gone \subseteq backups[n].lines /\ n < Len(backups)
      BY <1>1, <3>1 DEF IInv, Kept
    <3>3. n \in 1 .. Len(backups) - 1 /\ n >= Len(backups') - age
      BY <2>1, <2>2, <3>2 DEF IInv, Types
    <3>4. QED
      BY <2>2, <3>2, <3>3
  <2>4. Types'
    BY <1>1, <1>3, <2>2, Numbers DEF IInv, Types
  <2>5. QED
    BY <1>1, <1>3, <2>3, <2>4 DEF IInv, Backed, Validated, CopyChecked, RestoreIsWhole, Idle
<1>4. QED
  BY <1>2, <1>3 DEF Validate

LEMMA RotateKeeps == ASSUME IInv, Rotate PROVE IInv'
<1>1. /\ mt.pc = "rotate"
      /\ UNCHANGED <<log, written, backups, loose, gone, age, restore, target>>
  BY DEF Rotate, restoration
<1>2. CASE Goto("prune") /\ UNCHANGED archives
  <2>1. mt' \in Rotation /\ mt'.pc = "prune"
    BY <1>2 DEF IInv, Types, Goto, Rotation, Stages
  <2>2. QED
    BY <1>1, <1>2, <2>1
       DEF IInv, Types, Backed, Validated, Kept, CopyChecked, RestoreIsWhole
<1>3. ASSUME NEW tail, NEW archived, tail = Window(log, RotateMax),
             archived = Window(SubSeq(log, 1, Len(log) - Len(tail)), RotateMax),
             archives' = IF archived = <<>> THEN archives ELSE Append(archives, archived),
             mt' = [mt EXCEPT !.pc = "rename", !.tail = tail, !.archived = archived]
      PROVE  IInv'
  <2>1. log \in Seq(Nat) /\ tail \in Seq(Nat)
    BY <1>3, WindowType DEF IInv, Types
  <2>2. SubSeq(log, 1, Len(log) - Len(tail)) \in Seq(Nat)
    <3>1. Len(log) - Len(tail) \in Int /\ Len(log) - Len(tail) <= Len(log)
      BY <2>1
    <3>2. QED
      BY <2>1, <3>1
  <2>3. archived \in Seq(Nat)
    BY <1>3, <2>2, WindowType
  <2>4. mt' \in Rotation /\ mt'.pc = "rename"
    BY <1>3, <2>1, <2>3 DEF IInv, Types, Rotation, Stages
  <2>5. archives' \in Seq(Seq(Nat))
    BY <1>3, <2>3 DEF IInv, Types
  <2>6. QED
    BY <1>1, <2>4, <2>5
       DEF IInv, Types, Backed, Validated, Kept, CopyChecked, RestoreIsWhole
<1>4. QED
  BY <1>2, <1>3 DEF Rotate

\* What the log loses is in the newest backup.
LEMMA RenameKeeps ==
  ASSUME IInv, Rename
  PROVE  /\ IInv'
         /\ backups # <<>> /\ Last(backups).sound /\ ToSet(log) \subseteq Last(backups).lines \cup loose
<1>1. /\ mt.pc = "rename" /\ log' = mt.tail /\ gone' = (ToSet(log) \ ToSet(log')) \ loose
      /\ age' = 0 /\ mt' = [Idle EXCEPT !.pc = "archives"]
      /\ UNCHANGED <<archives, written, backups, loose, restore, target>>
  BY DEF Rename, restoration
<1>2. backups # <<>> /\ Last(backups).sound /\ ToSet(log) \subseteq Last(backups).lines \cup loose
  BY <1>1 DEF IInv, Backed, Validated
<1>3. mt' \in Rotation /\ mt'.pc = "archives" /\ log' \in Seq(Nat)
  BY <1>1, Numbers DEF IInv, Types, Rotation, Stages, Idle
<1>4. Kept'
  <2>1. Len(backups) \in DOMAIN backups /\ Last(backups) = backups[Len(backups)]
    BY <1>2 DEF IInv, Types, Last
  <2>2. gone' \subseteq backups[Len(backups)].lines
    BY <1>1, <1>2, <2>1
  <2>3. Len(backups) >= Len(backups) - age'
    BY <1>1 DEF IInv, Types
  <2>4. QED
    BY <1>1, <1>3, <2>1, <2>2, <2>3 DEF Kept
<1>5. QED
  BY <1>1, <1>2, <1>3, <1>4, Numbers
     DEF IInv, Types, Backed, Validated, CopyChecked, RestoreIsWhole

LEMMA DropArchivesKeeps == ASSUME IInv, DropArchives PROVE IInv'
<1>1. /\ mt.pc = "archives" /\ Goto("prune") /\ archives' = Newest(archives, KeepArchives)
      /\ UNCHANGED <<log, written, backups, loose, gone, age, restore, target>>
  BY DEF DropArchives, restoration
<1>2. mt' \in Rotation /\ mt'.pc = "prune" /\ archives' \in Seq(Seq(Nat))
  BY <1>1, Numbers, NewestType DEF IInv, Types, Goto, Rotation, Stages
<1>3. QED
  BY <1>1, <1>2 DEF IInv, Types, Backed, Validated, Kept, CopyChecked, RestoreIsWhole

\* Maintenance is over; backups and log are left as they are.
LEMMA MaintenanceEnds ==
  ASSUME IInv, mt' = Idle, archives' \in Seq(Seq(Nat)), backups' \in Seq(Backup),
         Kept', UNCHANGED <<log, written, loose, age, restore, target>>
  PROVE  IInv'
BY Numbers DEF IInv, Types, Backed, Validated, CopyChecked, RestoreIsWhole, Idle

LEMMA PruneKeeps == ASSUME IInv, Prune PROVE IInv'
<1>1. /\ mt.pc = "prune" /\ mt' = Idle /\ backups' = Pruned(backups)
      /\ UNCHANGED <<log, written, archives, loose, gone, age, restore, target>>
  BY DEF Prune, restoration
<1>2. backups' \in Seq(Backup)
  BY <1>1, Numbers, NewestType DEF IInv, Types, Pruned
<1>3. Kept'
  <2>1. SUFFICES ASSUME age < KeepBackups, gone # {}
                 PROVE  \E n \in DOMAIN backups' :
                          n >= Len(backups') - age /\ gone \subseteq backups'[n].lines
    BY <1>1 DEF Kept, Idle
  <2>2. PICK n \in DOMAIN backups : n >= Len(backups) - age /\ gone \subseteq backups[n].lines
    BY <2>1 DEF IInv, Kept
  <2>3. age \in Nat /\ backups \in Seq(Backup)
    BY Numbers DEF IInv, Types
  <2>4. QED
    BY <1>1, <2>1, <2>2, <2>3, PrunedKeeps
<1>4. QED
  BY <1>1, <1>2, <1>3, MaintenanceEnds DEF IInv, Types

LEMMA FailsKeeps == ASSUME IInv, Fails PROVE IInv'
<1>1. /\ mt' = Idle /\ UNCHANGED <<log, written, backups, loose, gone, age, restore, target>>
      /\ archives' = IF mt.pc = "rename" /\ mt.archived # <<>> THEN Front(archives) ELSE archives
  BY DEF Fails, restoration
<1>2. archives' \in Seq(Seq(Nat))
  <2>1. archives \in Seq(Seq(Nat))
    BY DEF IInv, Types
  <2>2. Front(archives) \in Seq(Seq(Nat))
    <3>1. CASE archives = <<>>
      <4>1. Len(archives) - 1 < 1 /\ Len(archives) - 1 \in Int
        BY <3>1
      <4>2. QED
        BY <2>1, <4>1 DEF Front
    <3>2. CASE archives # <<>>
      BY <2>1, <3>2, FrontType
    <3>3. QED
      BY <3>1, <3>2
  <2>3. QED
    BY <1>1, <2>1, <2>2
<1>3. Kept'
  BY <1>1 DEF IInv, Kept, Idle
<1>4. QED
  BY <1>1, <1>2, <1>3, MaintenanceEnds DEF IInv, Types

LEMMA CrashKeeps == ASSUME IInv, Crash PROVE IInv'
<1>1. mt' = Idle /\ UNCHANGED <<log, written, archives, backups, loose, gone, age, restore, target>>
  BY DEF Crash, rotation, restoration
<1>2. Kept'
  BY <1>1 DEF IInv, Kept, Idle
<1>3. QED
  BY <1>1, <1>2, MaintenanceEnds DEF IInv, Types

LEMMA StartKeeps == ASSUME IInv, Start PROVE IInv'
<1>1. /\ mt.pc = "idle" /\ Goto("create") /\ loose' = {}
      /\ UNCHANGED <<log, written, archives, gone, backups, age, restore, target>>
  BY DEF Start, restoration
<1>2. mt' \in Rotation /\ mt'.pc = "create"
  BY <1>1 DEF IInv, Types, Goto, Rotation, Stages
<1>3. QED
  BY <1>1, <1>2 DEF IInv, Types, Backed, Validated, Kept, CopyChecked, RestoreIsWhole

LEMMA OwnerBackupKeeps == ASSUME IInv, OwnerBackup PROVE IInv'
<1> DEFINE more == Append(backups, Snapshot)
<1>1. /\ mt.pc = "idle" /\ backups' = Pruned(more) /\ age' = Min({age + 1, KeepBackups})
      /\ UNCHANGED <<log, written, archives, loose, gone, mt, restore, target>>
  BY DEF OwnerBackup, LockFree, restoration
<1>2. /\ more \in Seq(Backup) /\ Len(more) = Len(backups) + 1
      /\ \A n \in DOMAIN backups : n \in DOMAIN more /\ more[n] = backups[n]
  BY SnapshotType DEF IInv, Types
<1>3. backups' \in Seq(Backup) /\ age' \in 0 .. KeepBackups
  BY <1>1, <1>2, Numbers, NewestType, Older DEF Pruned, IInv
<1>4. Kept'
  <2>1. SUFFICES ASSUME age' < KeepBackups, gone # {}
                 PROVE  \E n \in DOMAIN backups' :
                          n >= Len(backups') - age' /\ gone \subseteq backups'[n].lines
    BY <1>1 DEF Kept
  <2>2. age \in Nat /\ age < KeepBackups /\ age' \in Nat /\ age' = age + 1
    BY <1>1, <1>3, <2>1, Older, Numbers DEF IInv, Types
  <2>3. PICK n \in DOMAIN backups : n >= Len(backups) - age /\ gone \subseteq backups[n].lines
    BY <2>1, <2>2 DEF IInv, Kept
  <2>4. n \in DOMAIN more /\ n >= Len(more) - age' /\ gone \subseteq more[n].lines
    BY <1>2, <2>2, <2>3 DEF IInv, Types
  <2>5. QED
    BY <1>1, <1>2, <2>1, <2>2, <2>4, PrunedKeeps
<1>5. QED
  BY <1>1, <1>3, <1>4 DEF IInv, Types, Backed, Validated, CopyChecked, RestoreIsWhole

LEMMA DecayKeeps == ASSUME IInv, Decay PROVE IInv'
<1>1. PICK k \in DOMAIN backups : backups' = [backups EXCEPT ![k].sound = FALSE]
  BY DEF Decay
<1>2. /\ mt.pc \in {"idle", "validate"}
      /\ UNCHANGED <<log, written, archives, loose, gone, age, mt, restore, target>>
  BY DEF Decay, restoration
<1>3. backups \in Seq(Backup) /\ backups[k] \in Backup
  BY DEF IInv, Types
<1>4. /\ backups' \in Seq(Backup) /\ Len(backups') = Len(backups)
      /\ DOMAIN backups' = DOMAIN backups
      /\ \A n \in DOMAIN backups : backups'[n].lines = backups[n].lines
  <2>1. [backups[k] EXCEPT !.sound = FALSE] \in Backup
    BY <1>3 DEF Backup
  <2>2. [backups[k] EXCEPT !.sound = FALSE].lines = backups[k].lines
    BY <1>3 DEF Backup
  <2>3. backups' = [backups EXCEPT ![k] = [backups[k] EXCEPT !.sound = FALSE]]
    BY <1>1, <1>3
  <2>4. QED
    BY <1>3, <2>1, <2>2, <2>3
<1>5. Types' /\ Kept' /\ Validated'
  BY <1>2, <1>4 DEF IInv, Types, Kept, Validated
<1>6. Backed'
  <2>1. backups # <<>> => Last(backups').lines = Last(backups).lines /\ backups' # <<>>
    BY <1>3, <1>4 DEF Last
  <2>2. QED
    BY <1>2, <2>1 DEF IInv, Backed
<1>7. QED
  BY <1>2, <1>5, <1>6 DEF IInv, CopyChecked, RestoreIsWhole

\* A restoration leaves log and backups alone.
LEMMA RestoreStepKeeps ==
  ASSUME IInv, UNCHANGED others, restore' \in Restoration, CopyChecked', RestoreIsWhole'
  PROVE  IInv'
BY DEF others, rotation, IInv, Types, Backed, Validated, Kept

LEMMA RestoreKeeps == ASSUME IInv, Restore PROVE IInv'
<1> USE DEF At
<1>1. restore \in Restoration /\ NoRestore \in Restoration /\ NoRestore.pc = "idle"
  BY Numbers DEF IInv, Types, NoRestore
<1>2. UNCHANGED others
  BY DEF Restore, RestoreBegin, RestoreCopy, RestoreCheck, RestoreRemove, RestoreRename,
         RestoreFails, RestoreCrash, ForeignWrite, others
<1>3. CASE RestoreBegin
  <2>1. restore' \in Restoration /\ restore'.pc = "copy"
    BY <1>3 DEF RestoreBegin, NoRestore, Restoration
  <2>2. QED
    BY <1>2, <1>3, <2>1, RestoreStepKeeps
       DEF RestoreBegin, IInv, CopyChecked, RestoreIsWhole
<1>4. CASE RestoreCopy
  <2>1. ASSUME NEW n \in DOMAIN backups,
               restore' = [restore EXCEPT !.pc = "check", !.sound = backups[n].sound]
        PROVE  restore' \in Restoration /\ restore'.pc = "check"
    <3>1. backups[n] \in Backup /\ restore.existed \in BOOLEAN
      BY <1>1 DEF IInv, Types, Restoration
    <3>2. backups[n].sound \in BOOLEAN
      BY <3>1, Zenon DEF Backup
    <3>3. restore' = [pc |-> "check", existed |-> restore.existed, sound |-> backups[n].sound]
      BY <1>1, <2>1 DEF Restoration
    <3>4. QED
      BY <3>1, <3>2, <3>3, ZenonT(30) DEF Restoration
  <2>2. restore' \in Restoration /\ restore'.pc \in {"check", "idle"}
    BY <1>1, <1>4, <2>1 DEF RestoreCopy
  <2>3. QED
    BY <1>2, <1>4, <2>2, RestoreStepKeeps DEF RestoreCopy, IInv, CopyChecked, RestoreIsWhole
<1>5. CASE RestoreCheck
  <2>1. restore' \in Restoration /\ (restore'.pc = "idle" \/ restore'.sound)
    BY <1>1, <1>5 DEF RestoreCheck, Restoration
  <2>2. QED
    BY <1>2, <1>5, <2>1, RestoreStepKeeps DEF RestoreCheck, IInv, CopyChecked, RestoreIsWhole
<1>6. CASE RestoreRemove
  <2>1. restore' \in Restoration /\ (restore'.pc = "idle" \/ restore'.sound)
    BY <1>1, <1>6 DEF RestoreRemove, Restoration, IInv, CopyChecked
  <2>2. QED
    BY <1>2, <1>6, <2>1, RestoreStepKeeps DEF RestoreRemove, IInv, CopyChecked, RestoreIsWhole
<1>7. CASE RestoreRename
  BY <1>1, <1>2, <1>7, RestoreStepKeeps DEF RestoreRename, IInv, CopyChecked, RestoreIsWhole
<1>8. CASE RestoreFails \/ RestoreCrash
  BY <1>1, <1>2, <1>8, RestoreStepKeeps
     DEF RestoreFails, RestoreCrash, IInv, CopyChecked, RestoreIsWhole
<1>9. CASE ForeignWrite
  BY <1>1, <1>2, <1>9, RestoreStepKeeps DEF ForeignWrite, IInv, CopyChecked, RestoreIsWhole
<1>10. QED
  BY <1>3, <1>4, <1>5, <1>6, <1>7, <1>8, <1>9 DEF Restore

-----------------------------------------------------------------------------
(* The theorems *)

LEMMA InitIInv == Init => IInv
<1> SUFFICES ASSUME Init PROVE IInv
  OBVIOUS
<1>1. Types
  BY Numbers DEF Init, Types
<1>2. Idle.pc = "idle" /\ NoRestore.pc = "idle"
  BY DEF Idle, NoRestore
<1>3. QED
  BY <1>1, <1>2
     DEF Init, IInv, Backed, Validated, Kept, CopyChecked, RestoreIsWhole

LEMMA StutterKeeps == IInv /\ UNCHANGED vars => IInv'
BY DEF vars, rotation, restoration, IInv, Types, Backed, Validated, Kept, CopyChecked,
       RestoreIsWhole

LEMMA StepIInv == IInv /\ [Next]_vars => IInv'
<1> SUFFICES ASSUME IInv, [Next]_vars PROVE IInv'
  OBVIOUS
<1>1. CASE Start
  BY <1>1, StartKeeps
<1>2. CASE Create
  BY <1>2, CreateKeeps
<1>3. CASE Validate
  BY <1>3, ValidateKeeps
<1>4. CASE Rotate
  BY <1>4, RotateKeeps
<1>5. CASE Rename
  BY <1>5, RenameKeeps
<1>6. CASE DropArchives
  BY <1>6, DropArchivesKeeps
<1>7. CASE Prune
  BY <1>7, PruneKeeps
<1>8. CASE Fails
  BY <1>8, FailsKeeps
<1>9. CASE Crash
  BY <1>9, CrashKeeps
<1>10. CASE WriteLine
  BY <1>10, WriteLineKeeps
<1>11. CASE OwnerBackup
  BY <1>11, OwnerBackupKeeps
<1>12. CASE Decay
  BY <1>12, DecayKeeps
<1>13. CASE Restore
  BY <1>13, RestoreKeeps
<1>14. CASE UNCHANGED vars
  BY <1>14, StutterKeeps
<1>15. QED
  BY <1>1, <1>2, <1>3, <1>4, <1>5, <1>6, <1>7, <1>8, <1>9, <1>10, <1>11, <1>12, <1>13, <1>14
     DEF Next, Maintenance

\* Every step of maintenance, backups, restores, writers and faults keeps the newest backup
\* ahead of the rotation, and the backup that has what was rotated away within retention.
THEOREM Inductive == Spec => []IInv
<1>1. QED
  BY InitIInv, StepIInv, PTL DEF Spec

\* What rotation took away stays restorable until KeepBackups more backups are made, for
\* every log, every limit and however often maintenance fails or dies in between.
THEOREM Restorable == Spec => []GoneIsRestorable
<1>1. ASSUME IInv, age < KeepBackups
      PROVE  \E n \in DOMAIN backups \cup {0} :
               IF n = 0 THEN gone = {} ELSE gone \subseteq backups[n].lines
  <2>1. CASE gone = {}
    <3>1. 0 \in DOMAIN backups \cup {0}
      OBVIOUS
    <3>2. QED
      BY <2>1, <3>1
  <2>2. CASE gone # {}
    <3>1. PICK n \in DOMAIN backups : gone \subseteq backups[n].lines
      BY <1>1, <2>2 DEF IInv, Kept
    <3>2. n # 0 /\ n \in DOMAIN backups \cup {0}
      BY <1>1 DEF IInv, Types
    <3>3. QED
      BY <3>1, <3>2
  <2>3. QED
    BY <2>1, <2>2
<1>2. IInv => GoneIsRestorable
  BY <1>1 DEF GoneIsRestorable
<1>3. QED
  BY <1>2, Inductive, PTL

\* No restore leaves part of an archive, or one that decayed, at its target.
THEOREM Whole == Spec => []RestoreIsWhole
<1>1. IInv => RestoreIsWhole
  BY DEF IInv
<1>2. QED
  BY <1>1, Inductive, PTL

\* Whatever somebody else put at the target of a restore stays.
THEOREM Foreign == Spec => ForeignStays
<1>1. ASSUME [Next]_vars, target = "foreign" PROVE target' = "foreign"
  <2>1. CASE Restore
    BY <1>1, <2>1
       DEF Restore, RestoreBegin, RestoreCopy, RestoreCheck, RestoreRemove, RestoreRename,
           RestoreFails, RestoreCrash, ForeignWrite
  <2>2. CASE ~Restore
    BY <1>1, <2>2
       DEF Next, Maintenance, vars, restoration, Start, Create, Validate, Rotate, Rename,
           DropArchives, Prune, Fails, Crash, WriteLine, OwnerBackup, Decay
  <2>3. QED
    BY <2>1, <2>2
<1>2. [Next]_vars => [target = "foreign" => target' = "foreign"]_vars
  BY <1>1
<1>3. QED
  BY <1>2, PTL DEF Spec, ForeignStays

\* A step that takes lines from the log is the end of a rotation, over a backup that was
\* found valid and has them.
THEOREM Over == Spec => RotatesOverBackup
<1> DEFINE Backs == ToSet(log) \ ToSet(log') # {} =>
             /\ backups # <<>> /\ Last(backups).sound
             /\ ToSet(log) \ ToSet(log') \subseteq Last(backups).lines \cup loose
<1>1. ASSUME IInv, [Next]_vars PROVE Backs
  <2>1. CASE Rename
    BY <1>1, <2>1 DEF Rename, IInv, Backed, Validated
  <2>2. CASE WriteLine
    <3>1. written + 1 \in Nat /\ log \in Seq(Nat) /\ log' = Append(log, written + 1)
      BY <1>1, <2>2 DEF WriteLine, IInv, Types
    <3>2. ToSet(log) \subseteq ToSet(log')
      BY <3>1 DEF ToSet
    <3>3. QED
      BY <3>2
  <2>3. CASE ~Rename /\ ~WriteLine
    <3>1. log' = log
      BY <1>1, <2>3
         DEF Next, Maintenance, Restore, vars, rotation, others, Start, Create, Validate,
             Rotate, DropArchives, Prune, Fails, Crash, OwnerBackup, Decay, RestoreBegin,
             RestoreCopy, RestoreCheck, RestoreRemove, RestoreRename, RestoreFails,
             RestoreCrash, ForeignWrite
    <3>2. QED
      BY <3>1
  <2>4. QED
    BY <2>1, <2>2, <2>3
<1>2. IInv /\ [Next]_vars => [Backs]_vars
  BY <1>1
<1>3. Spec => [][Backs]_vars
  BY <1>2, Inductive, PTL DEF Spec
<1>4. QED
  BY <1>3 DEF RotatesOverBackup

-----------------------------------------------------------------------------
(* The incident store and its spool *)

Incident == [id : Ids, status : {"open", "acknowledged"}]

\* Whoever is in the store was recorded, and an acknowledged incident was in the store; the
\* files maintenance looks at are there.
Bookkeeping ==
  /\ names \subseteq spool
  /\ IdsOf(store) \cup spool \subseteq recorded
  /\ acked \subseteq IdsOf(store) \cup trimmed

\* A file is removed only when the store has, or has had, its incident.
IngestedFirst == phase = "unlink" => \A i \in names : First(i) => i \in IdsOf(store) \cup trimmed

SpoolIInv ==
  /\ SpoolTypeOK /\ NoDuplicates /\ IncidentKept /\ AcknowledgedStays
  /\ Bookkeeping /\ IngestedFirst

-----------------------------------------------------------------------------
(* Recording incidents *)

\* recordAutopilotIncident, of an incident the store does not have: the store stays within its
\* limit and without duplicates, and who is pushed out is noted.
LEMMA StoredKeeps ==
  ASSUME SpoolTypeOK, NoDuplicates, NEW i \in Ids, i \notin IdsOf(store), Stored(i)
  PROVE  /\ store' \in Seq(Incident) /\ Len(store') <= MaxIncidents /\ trimmed' \subseteq Ids
         /\ NoDuplicates'
         /\ trimmed \subseteq trimmed'
         /\ IdsOf(store) \cup {i} \subseteq IdsOf(store') \cup trimmed'
         /\ \A n \in DOMAIN store' :
              \/ store'[n].id = i
              \/ \E m \in DOMAIN store : store'[n] = store[m]
<1> DEFINE new == [id |-> i, status |-> "open"]
           longer == Append(store, new)
           over == Len(longer) - MaxIncidents
<1>1. /\ store \in Seq(Incident) /\ Len(store) <= MaxIncidents /\ trimmed \subseteq Ids
      /\ MaxIncidents \in Nat \ {0} /\ new \in Incident
  BY SpoolConstants DEF SpoolTypeOK, Incident
<1>2. /\ longer \in Seq(Incident) /\ Len(longer) = Len(store) + 1
      /\ longer[Len(store) + 1] = new
      /\ \A n \in DOMAIN store : longer[n] = store[n]
  BY <1>1
<1>3. \A m, n \in DOMAIN longer : longer[m].id = longer[n].id => m = n
  BY <1>1, <1>2 DEF NoDuplicates, IdsOf
<1>4. \A n \in DOMAIN longer : longer[n] = new \/ \E m \in DOMAIN store : longer[n] = store[m]
  BY <1>1, <1>2
<1>5. IdsOf(longer) = IdsOf(store) \cup {i} /\ IdsOf(longer) \subseteq Ids
  <2>1. \A n \in DOMAIN longer : longer[n].id \in Ids
    <3>1. \A n \in DOMAIN store : store[n] \in Incident
      BY <1>1
    <3>2. QED
      BY <1>1, <1>4, <3>1 DEF Incident
  <2>2. IdsOf(longer) = IdsOf(store) \cup {i}
    BY <1>1, <1>2, <1>4 DEF IdsOf
  <2>3. QED
    BY <2>1, <2>2 DEF IdsOf
<1>6. CASE over <= 0
  <2>1. store' = longer
    BY <1>1, <1>2, <1>6 DEF Stored
  <2>2. Len(store') <= MaxIncidents
    BY <1>1, <1>2, <1>6, <2>1
  <2>3. NoDuplicates'
    BY <1>3, <2>1 DEF NoDuplicates
  <2>4. trimmed' = trimmed
    BY <2>1 DEF Stored
  <2>5. QED
    BY <1>1, <1>2, <1>4, <1>5, <2>1, <2>2, <2>3, <2>4
<1>7. CASE over > 0
  <2>1. over = 1 /\ Len(longer) = MaxIncidents + 1
    BY <1>1, <1>2, <1>7
  <2>2. store' = SubSeq(longer, 2, MaxIncidents + 1)
    BY <1>7, <2>1 DEF Stored
  <2>3. /\ store' \in Seq(Incident) /\ Len(store') = MaxIncidents
        /\ \A n \in DOMAIN store' : n + 1 \in DOMAIN longer /\ store'[n] = longer[n + 1]
    BY <1>1, <1>2, <2>1, <2>2
  <2>4. NoDuplicates'
    BY <1>3, <2>3, SMTT(30) DEF NoDuplicates
  <2>5. \A n \in DOMAIN store' :
          store'[n].id = i \/ \E m \in DOMAIN store : store'[n] = store[m]
    BY <1>4, <2>3
  <2>6. trimmed' = trimmed \cup (IdsOf(longer) \ IdsOf(store'))
    BY DEF Stored
  <2>7. QED
    BY <1>1, <1>5, <2>3, <2>4, <2>5, <2>6
<1>8. QED
  BY <1>1, <1>2, <1>6, <1>7

\* Recording one more incident, or ingesting one, that the store does not have and that is
\* acknowledged only if it was pushed out, keeps what relates store and acknowledgements.
LEMMA StoredAcknowledged ==
  ASSUME SpoolIInv, NEW i \in Ids, i \notin IdsOf(store), Stored(i), UNCHANGED acked
  PROVE  AcknowledgedStays' /\ acked' \subseteq IdsOf(store') \cup trimmed'
<1>1. i \in acked => i \in trimmed
  BY DEF SpoolIInv, Bookkeeping
<1>2. /\ trimmed \subseteq trimmed'
      /\ IdsOf(store) \subseteq IdsOf(store') \cup trimmed'
      /\ \A n \in DOMAIN store' :
           store'[n].id = i \/ \E m \in DOMAIN store : store'[n] = store[m]
  BY StoredKeeps DEF SpoolIInv
<1>3. QED
  BY <1>1, <1>2 DEF SpoolIInv, AcknowledgedStays, Bookkeeping

\* The store as SpoolTypeOK has it.
LEMMA StoreType == SpoolTypeOK <=>
  /\ store \in Seq(Incident) /\ Len(store) <= MaxIncidents
  /\ spool \subseteq Ids /\ junk \subseteq Ids /\ names \subseteq Ids
  /\ recorded \subseteq Ids /\ trimmed \subseteq Ids /\ acked \subseteq Ids
  /\ phase \in {"idle", "ingest", "unlink", "failed"}
BY DEF SpoolTypeOK, Incident

LEMMA RecordedKeeps ==
  ASSUME SpoolIInv, Recorded, UNCHANGED <<junk, names, acked>>,
         phase' = phase \/ (phase' = "idle" /\ phase = "failed")
  PROVE  SpoolIInv'
<1>1. PICK i \in Fresh :
        /\ \/ Unlocked /\ Stored(i) /\ UNCHANGED spool
           \/ spool' = spool \cup {i} /\ UNCHANGED <<store, trimmed>>
        /\ recorded' = recorded \cup {i}
  BY DEF Recorded
<1>2. i \in Ids /\ i \notin recorded /\ i \notin IdsOf(store)
  BY DEF Fresh, SpoolIInv, Bookkeeping
<1>3. CASE Unlocked /\ Stored(i) /\ UNCHANGED spool
  <2>1. /\ store' \in Seq(Incident) /\ Len(store') <= MaxIncidents /\ trimmed' \subseteq Ids
        /\ NoDuplicates'
        /\ trimmed \subseteq trimmed' /\ IdsOf(store) \cup {i} \subseteq IdsOf(store') \cup trimmed'
        /\ \A n \in DOMAIN store' :
             store'[n].id = i \/ \E m \in DOMAIN store : store'[n] = store[m]
    BY <1>2, <1>3, StoredKeeps DEF SpoolIInv
  <2>2. SpoolTypeOK'
    <3>1. recorded' \subseteq Ids /\ phase' \in {"idle", "ingest", "unlink", "failed"}
      BY <1>1, <1>2, StoreType DEF SpoolIInv
    <3>2. QED
      BY <1>3, <2>1, <3>1, StoreType DEF SpoolIInv, SpoolTypeOK, Incident
  <2>3. IncidentKept'
    BY <1>1, <1>3, <2>1 DEF SpoolIInv, IncidentKept
  <2>4. AcknowledgedStays' /\ acked' \subseteq IdsOf(store') \cup trimmed'
    BY <1>2, <1>3, StoredAcknowledged
  <2>5. IdsOf(store') \cup spool' \subseteq recorded'
    BY <1>1, <1>3, <2>1 DEF SpoolIInv, Bookkeeping, IdsOf
  <2>6. IngestedFirst'
    BY <1>3 DEF IngestedFirst, Unlocked
  <2>7. QED
    BY <1>3, <2>1, <2>2, <2>3, <2>4, <2>5, <2>6 DEF SpoolIInv, Bookkeeping
<1>4. CASE spool' = spool \cup {i} /\ UNCHANGED <<store, trimmed>>
  <2>1. SpoolTypeOK'
    BY <1>1, <1>2, <1>4 DEF SpoolIInv, SpoolTypeOK
  <2>2. QED
    BY <1>1, <1>4, <2>1 DEF SpoolIInv, NoDuplicates, IncidentKept, AcknowledgedStays, Bookkeeping,
       IngestedFirst, First
<1>5. QED
  BY <1>1, <1>3, <1>4

LEMMA AcknowledgeKeeps == ASSUME SpoolIInv, Acknowledge PROVE SpoolIInv'
<1>1. PICK n \in DOMAIN store :
        /\ Unlocked /\ store' = [store EXCEPT ![n].status = "acknowledged"]
        /\ acked' = acked \cup {store[n].id}
        /\ UNCHANGED <<spool, junk, phase, names, recorded, trimmed, thrown, deaths>>
  BY DEF Acknowledge
<1>2. store \in Seq(Incident) /\ store[n] \in Incident
  BY StoreType DEF SpoolIInv
<1>3. /\ DOMAIN store' = DOMAIN store /\ Len(store') = Len(store) /\ store' \in Seq(Incident)
      /\ \A m \in DOMAIN store : m # n => store'[m] = store[m]
      /\ store'[n].id = store[n].id /\ store'[n].status = "acknowledged"
  <2>1. [store[n] EXCEPT !.status = "acknowledged"] \in Incident
    BY <1>2 DEF Incident
  <2>2. store' = [store EXCEPT ![n] = [store[n] EXCEPT !.status = "acknowledged"]]
    BY <1>1
  <2>3. QED
    BY <1>2, <2>1, <2>2 DEF Incident
<1>4. SpoolTypeOK'
  BY <1>1, <1>2, <1>3 DEF SpoolIInv, SpoolTypeOK, Incident
<1>5. IdsOf(store') = IdsOf(store)
  BY <1>3 DEF IdsOf
<1>6. NoDuplicates'
  BY <1>3 DEF SpoolIInv, NoDuplicates
<1>7. AcknowledgedStays'
  BY <1>1, <1>3 DEF SpoolIInv, AcknowledgedStays, NoDuplicates
<1>8. QED
  BY <1>1, <1>4, <1>5, <1>6, <1>7 DEF SpoolIInv, IncidentKept, Bookkeeping, IngestedFirst, Unlocked, IdsOf

-----------------------------------------------------------------------------
(* Ingesting them *)

LEMMA IngestKeeps == ASSUME SpoolIInv, Ingest PROVE SpoolIInv'
<1>1. PICK i \in names :
        /\ First(i)
        /\ \/ i \in IdsOf(store) /\ UNCHANGED <<store, trimmed>>
           \/ i \notin IdsOf(store) /\ Stored(i)
  BY DEF Ingest
<1>2. i \in Ids /\ Ids \subseteq Nat
  BY SpoolConstants DEF SpoolIInv, SpoolTypeOK
<1>3. \A j \in names : First(j) => j = i
  BY <1>1, <1>2 DEF First, SpoolIInv, SpoolTypeOK
<1>4. CASE i \in IdsOf(store) /\ UNCHANGED <<store, trimmed>>
  BY <1>3, <1>4 DEF SpoolIInv, SpoolTypeOK, NoDuplicates, IncidentKept, AcknowledgedStays, Bookkeeping,
     IngestedFirst, First, Ingest
<1>5. CASE i \notin IdsOf(store) /\ Stored(i)
  <2>1. /\ store' \in Seq(Incident) /\ Len(store') <= MaxIncidents /\ trimmed' \subseteq Ids
        /\ NoDuplicates'
        /\ trimmed \subseteq trimmed' /\ IdsOf(store) \cup {i} \subseteq IdsOf(store') \cup trimmed'
        /\ \A n \in DOMAIN store' :
             store'[n].id = i \/ \E m \in DOMAIN store : store'[n] = store[m]
    BY <1>2, <1>5, StoredKeeps DEF SpoolIInv
  <2>2. SpoolTypeOK'
    BY <2>1 DEF Ingest, SpoolIInv, SpoolTypeOK, Incident
  <2>3. IncidentKept'
    BY <2>1 DEF SpoolIInv, IncidentKept, Ingest
  <2>4. AcknowledgedStays' /\ acked' \subseteq IdsOf(store') \cup trimmed'
    BY <1>2, <1>5, StoredAcknowledged DEF Ingest
  <2>5. i \in recorded
    BY DEF SpoolIInv, Bookkeeping
  <2>6. IdsOf(store') \cup spool' \subseteq recorded'
    BY <2>1, <2>5 DEF SpoolIInv, Bookkeeping, IdsOf, Ingest
  <2>7. IngestedFirst'
    BY <1>3, <2>1 DEF IngestedFirst, First, Ingest
  <2>8. QED
    BY <2>1, <2>2, <2>3, <2>4, <2>6, <2>7 DEF SpoolIInv, Bookkeeping, Ingest
<1>6. QED
  BY <1>1, <1>4, <1>5

LEMMA UnlinkKeeps == ASSUME SpoolIInv, Unlink PROVE SpoolIInv'
<1>1. PICK i \in names : First(i) /\ spool' = spool \ {i} /\ names' = names \ {i}
  BY DEF Unlink
<1>2. i \in IdsOf(store) \cup trimmed
  BY <1>1 DEF SpoolIInv, IngestedFirst, Unlink
<1>3. QED
  BY <1>1, <1>2 DEF SpoolIInv, SpoolTypeOK, NoDuplicates, IncidentKept, AcknowledgedStays, Bookkeeping,
     IngestedFirst, Unlink

\* The steps that leave store and spool alone.
LEMMA OthersKeep ==
  ASSUME SpoolIInv, UNCHANGED <<store, spool, recorded, trimmed, acked>>, junk' \subseteq Ids,
         names' \subseteq spool, phase' \in {"idle", "ingest", "failed"}
  PROVE  SpoolIInv'
BY DEF SpoolIInv, SpoolTypeOK, NoDuplicates, IncidentKept, AcknowledgedStays, Bookkeeping, IngestedFirst

-----------------------------------------------------------------------------
(* The theorems of the spool *)

\* The invariant of store, spool and maintenance.
THEOREM SpoolInductive == SpoolSpec => []SpoolIInv
<1>1. SpoolInit => SpoolIInv
  BY SpoolConstants DEF SpoolInit, SpoolIInv, SpoolTypeOK, NoDuplicates, IncidentKept, AcknowledgedStays,
     Bookkeeping, IngestedFirst, IdsOf
<1>2. SpoolIInv /\ [SpoolNext]_spoolVars => SpoolIInv'
  <2>1. SUFFICES ASSUME SpoolIInv, [SpoolNext]_spoolVars PROVE SpoolIInv'
    OBVIOUS
  <2>2. CASE StartIngestion
    BY <2>1, <2>2, OthersKeep DEF StartIngestion, NamesToIngest, SpoolIInv, SpoolTypeOK
  <2>3. CASE Ingest
    BY <2>1, <2>3, IngestKeeps
  <2>4. CASE Unlink
    BY <2>1, <2>4, UnlinkKeeps
  <2>5. CASE Rest
    BY <2>1, <2>5, OthersKeep DEF Rest, SpoolIInv, SpoolTypeOK
  <2>6. CASE Report
    <3>1. CASE Recorded
      BY <2>1, <2>6, <3>1, RecordedKeeps DEF Report
    <3>2. CASE UNCHANGED <<store, spool, recorded, trimmed>>
      BY <2>1, <2>6, <3>2, OthersKeep DEF Report, SpoolIInv, SpoolTypeOK, Bookkeeping
    <3>3. QED
      BY <2>6, <3>1, <3>2 DEF Report
  <2>7. CASE StageThrows
    BY <2>1, <2>7, OthersKeep DEF StageThrows, SpoolIInv, SpoolTypeOK
  <2>8. CASE IngestionDies
    BY <2>1, <2>8, OthersKeep DEF IngestionDies, SpoolIInv, SpoolTypeOK
  <2>9. CASE RecordIncident
    BY <2>1, <2>9, RecordedKeeps DEF RecordIncident
  <2>10. CASE SpoolCutShort
    BY <2>1, <2>10 DEF SpoolCutShort, Fresh, SpoolIInv, SpoolTypeOK, NoDuplicates, IncidentKept,
       AcknowledgedStays, Bookkeeping, IngestedFirst, First
  <2>11. CASE Acknowledge
    BY <2>1, <2>11, AcknowledgeKeeps
  <2>12. CASE UNCHANGED spoolVars
    BY <2>1, <2>12 DEF spoolVars, SpoolIInv, SpoolTypeOK, NoDuplicates, IncidentKept, AcknowledgedStays,
       Bookkeeping, IngestedFirst, First
  <2>13. QED
    BY <2>1, <2>2, <2>3, <2>4, <2>5, <2>6, <2>7, <2>8, <2>9, <2>10, <2>11, <2>12
       DEF SpoolNext, Ingestion
<1>3. QED
  BY <1>1, <1>2, PTL DEF SpoolSpec

\* The variables keep their types, and the store its limit.
THEOREM SpoolTypeCorrect == SpoolSpec => []SpoolTypeOK
BY SpoolInductive, PTL DEF SpoolIInv

\* No recorded incident is lost but by the limit of the store, for any limit.
THEOREM IncidentsAreKept == SpoolSpec => []IncidentKept
BY SpoolInductive, PTL DEF SpoolIInv

\* No incident is in the store twice.
THEOREM IncidentsAreUnique == SpoolSpec => []NoDuplicates
BY SpoolInductive, PTL DEF SpoolIInv

\* An acknowledged incident stays acknowledged.
THEOREM AcknowledgedIncidentsStay == SpoolSpec => []AcknowledgedStays
BY SpoolInductive, PTL DEF SpoolIInv
=============================================================================
