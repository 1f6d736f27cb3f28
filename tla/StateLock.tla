------------------------------ MODULE StateLock ------------------------------
(***************************************************************************)
(* The maintenance lock every persistent writer of the control plane       *)
(* shares (src/data/delivery-system/stateMaintenanceLock.ts).              *)
(*                                                                         *)
(* The lock is the directory .state-maintenance.lock; the process that     *)
(* creates it publishes owner.json inside it.  A contender that finds an   *)
(* owner record whose process is dead reclaims the lock under the marker   *)
(* file .reclaim.  Nothing else coordinates the processes, so each action  *)
(* below is one file-system call, and any process may die between two of   *)
(* them.  A restarted process keeps its identity (a container reuses its   *)
(* process id): the record of its previous life then looks alive.          *)
(*                                                                         *)
(* Inside the section a process does what the stores do: read the file,    *)
(* and publish the next version through writeStateFileAtomically, which    *)
(* takes the lock again (reentrantly) around the rename.                   *)
(***************************************************************************)
EXTENDS Naturals, FiniteSets

CONSTANTS
  Procs,       \* operating-system processes that use the state directory
  MaxTokens,   \* bound on the number of times the lock directory is created
  MaxDied      \* bound on the number of process deaths

ASSUME MaxTokensAssumption == MaxTokens \in Nat
ASSUME MaxDiedAssumption == MaxDied \in Nat

VARIABLES
  lockDir,    \* the lock directory exists
  owner,      \* token of owner.json, 0 when the file does not exist
  filled,     \* owner.json has its contents (it is created empty)
  reclaim,    \* the marker .reclaim exists
  drawn,      \* the tokens each process drew: the token and pid of a record
  nextToken,  \* the token the next creation draws (randomBytes: never reused)
  pc,         \* the call each process is about to make
  token,      \* localLeases: the token of the process's lease
  depth,      \* localLeases: how often the lease is held
  seen,       \* reclaimDeadOwner: the owner bytes read first (0: none usable)
  file,       \* version of the protected state file
  snap,       \* the version a process read inside its section
  commits,    \* number of versions published
  died

fsVars == <<lockDir, owner, filled, reclaim, drawn, nextToken>>
leaseVars == <<token, depth, seen>>
fileVars == <<file, snap, commits>>
lockVars == <<fsVars, pc, leaseVars, fileVars, died>>

Tokens == 1 .. MaxTokens

\* Reclaiming: every pc between the first read of the record and the return.
Reclaiming == {"probe", "mark", "reread", "unmark", "dropOwner", "dropMark",
               "rmdirDead", "catch"}
\* The pcs at which a process believes that it holds the lock.
Section == {"held", "read", "nested", "done"}
PCs == {"idle", "mkdir", "openOwner", "writeOwner", "undoOwner", "undoDir",
        "readOwner", "retry", "unlinkOwner", "rmdir", "checkOwner", "dead"}
         \cup Reclaiming \cup Section

LockInit ==
  /\ lockDir = FALSE /\ owner = 0 /\ filled = FALSE /\ reclaim = FALSE
  /\ drawn = [p \in Procs |-> {}]
  /\ nextToken = 1
  /\ pc = [p \in Procs |-> "idle"]
  /\ token = [p \in Procs |-> 0]
  /\ depth = [p \in Procs |-> 0]
  /\ seen = [p \in Procs |-> 0]
  /\ file = 0 /\ snap = [p \in Procs |-> 0] /\ commits = 0
  /\ died = 0

Calls(p, l) == pc' = [pc EXCEPT ![p] = l]

-----------------------------------------------------------------------------
(* acquireStateMaintenanceLock *)

\* The call: no lease of this process, so it enters the mkdir loop.
Acquire(p) ==
  /\ pc[p] = "idle"
  /\ Calls(p, "mkdir")
  /\ UNCHANGED <<fsVars, leaseVars, fileVars, died>>

\* mkdirSync succeeds: the directory is new, with a fresh token.
MkdirWins(p) ==
  /\ pc[p] = "mkdir" /\ ~lockDir /\ nextToken <= MaxTokens
  /\ lockDir' = TRUE
  /\ drawn' = [drawn EXCEPT ![p] = @ \cup {nextToken}]
  /\ token' = [token EXCEPT ![p] = nextToken]
  /\ nextToken' = nextToken + 1
  /\ Calls(p, "openOwner")
  /\ UNCHANGED <<owner, filled, reclaim, depth, seen, fileVars, died>>

\* Any other error: state_lock_invalid.
MkdirFails(p) ==
  /\ pc[p] = "mkdir"
  /\ Calls(p, "idle")
  /\ UNCHANGED <<fsVars, leaseVars, fileVars, died>>

\* EEXIST: look at the owner, perhaps reclaim.
MkdirExists(p) ==
  /\ pc[p] = "mkdir" /\ lockDir
  /\ Calls(p, "readOwner")
  /\ UNCHANGED <<fsVars, leaseVars, fileVars, died>>

\* writeOwner, openSync(owner.json, "wx"): creates an empty record.
OpenOwner(p) ==
  /\ pc[p] = "openOwner" /\ lockDir /\ owner = 0
  /\ owner' = token[p] /\ filled' = FALSE
  /\ Calls(p, "writeOwner")
  /\ UNCHANGED <<lockDir, reclaim, drawn, nextToken, leaseVars, fileVars, died>>

\* writeOwner, writeFileSync: the record is readable and the lease is taken.
WriteOwner(p) ==
  /\ pc[p] = "writeOwner"
  /\ filled' = TRUE
  /\ depth' = [depth EXCEPT ![p] = 1]
  /\ Calls(p, "held")
  /\ UNCHANGED <<lockDir, owner, reclaim, drawn, nextToken, token, seen, fileVars, died>>

\* Mutant: the failed creator returns without removing its lock directory.
WriteOwnerFailsKeepingDir(p) ==
  /\ pc[p] \in {"openOwner", "writeOwner"}
  /\ Calls(p, "idle")
  /\ UNCHANGED <<fsVars, leaseVars, fileVars, died>>

\* writeOwner throws (wx conflict, full disk): removeIncompleteLock follows.
WriteOwnerFails(p) ==
  /\ pc[p] \in {"openOwner", "writeOwner"}
  /\ Calls(p, "undoOwner")
  /\ UNCHANGED <<fsVars, leaseVars, fileVars, died>>

\* removeIncompleteLock, tryUnlink(owner.json).
UndoOwner(p) ==
  /\ pc[p] = "undoOwner"
  /\ owner' = 0 /\ filled' = FALSE
  /\ Calls(p, "undoDir")
  /\ UNCHANGED <<lockDir, reclaim, drawn, nextToken, leaseVars, fileVars, died>>

\* rmdirSync succeeds exactly on an existing, empty directory.
RmdirSucceeds == lockDir /\ owner = 0 /\ ~reclaim

\* removeIncompleteLock, rmdirSync: a failure is swallowed; state_lock_invalid.
UndoDir(p) ==
  /\ pc[p] = "undoDir"
  /\ lockDir' = IF RmdirSucceeds THEN FALSE ELSE lockDir
  /\ Calls(p, "idle")
  /\ UNCHANGED <<owner, filled, reclaim, drawn, nextToken, leaseVars, fileVars, died>>

-----------------------------------------------------------------------------
(* reclaimDeadOwner *)

\* readBoundedOwner: a missing or still empty record cannot be parsed.
ReadOwner(p) ==
  /\ pc[p] = "readOwner"
  /\ seen' = [seen EXCEPT ![p] = IF filled THEN owner ELSE 0]
  /\ Calls(p, IF filled /\ owner # 0 THEN "probe" ELSE "retry")
  /\ UNCHANGED <<fsVars, token, depth, fileVars, died>>

\* Mutant: every failing probe (EPERM too) counts as a dead owner.
ProbeOwnerDead(p) ==
  /\ pc[p] = "probe"
  /\ Calls(p, "mark")
  /\ UNCHANGED <<fsVars, leaseVars, fileVars, died>>

\* pidIsProvablyDead: process.kill(pid, 0) fails with ESRCH.
ProbeOwner(p) ==
  /\ pc[p] = "probe"
  /\ Calls(p, IF \E q \in Procs : seen[p] \in drawn[q] /\ pc[q] # "dead"
                THEN "retry" ELSE "mark")
  /\ UNCHANGED <<fsVars, leaseVars, fileVars, died>>

\* openSync(.reclaim, "wx"): fails when the marker or the directory's absence
\* says that somebody else is at work.
MarkReclaim(p) ==
  /\ pc[p] = "mark"
  /\ IF lockDir /\ ~reclaim
       THEN reclaim' = TRUE /\ Calls(p, "reread")
       ELSE reclaim' = reclaim /\ Calls(p, "retry")
  /\ UNCHANGED <<lockDir, owner, filled, drawn, nextToken, leaseVars, fileVars, died>>

\* Mutant: the owner bytes are not compared again under the marker.
RereadOwnerTrusting(p) ==
  /\ pc[p] = "reread"
  /\ Calls(p, "dropOwner")
  /\ UNCHANGED <<fsVars, leaseVars, fileVars, died>>

\* The second read must return the same bytes.
RereadOwner(p) ==
  /\ pc[p] = "reread"
  /\ Calls(p, IF filled /\ owner = seen[p] THEN "dropOwner" ELSE "unmark")
  /\ UNCHANGED <<fsVars, leaseVars, fileVars, died>>

\* Changed bytes: tryUnlink(.reclaim) and return.
Unmark(p) ==
  /\ pc[p] = "unmark"
  /\ reclaim' = FALSE
  /\ Calls(p, "retry")
  /\ UNCHANGED <<lockDir, owner, filled, drawn, nextToken, leaseVars, fileVars, died>>

\* unlinkSync(owner.json); ENOENT goes to the catch.
DropOwner(p) ==
  /\ pc[p] = "dropOwner"
  /\ owner' = 0 /\ filled' = FALSE
  /\ Calls(p, IF owner # 0 THEN "dropMark" ELSE "catch")
  /\ UNCHANGED <<lockDir, reclaim, drawn, nextToken, leaseVars, fileVars, died>>

\* unlinkSync(.reclaim).
DropMark(p) ==
  /\ pc[p] = "dropMark"
  /\ reclaim' = FALSE
  /\ Calls(p, IF reclaim THEN "rmdirDead" ELSE "catch")
  /\ UNCHANGED <<lockDir, owner, filled, drawn, nextToken, leaseVars, fileVars, died>>

\* rmdirSync of the reclaimed lock.
RmdirDead(p) ==
  /\ pc[p] = "rmdirDead"
  /\ IF RmdirSucceeds
       THEN lockDir' = FALSE /\ Calls(p, "retry")
       ELSE lockDir' = lockDir /\ Calls(p, "catch")
  /\ UNCHANGED <<owner, filled, reclaim, drawn, nextToken, leaseVars, fileVars, died>>

\* The catch clause: tryUnlink(.reclaim), whoever created it.
CatchReclaim(p) ==
  /\ pc[p] = "catch"
  /\ reclaim' = FALSE
  /\ Calls(p, "retry")
  /\ UNCHANGED <<lockDir, owner, filled, drawn, nextToken, leaseVars, fileVars, died>>

\* Back in the loop: sleep and try again ...
Retry(p) ==
  /\ pc[p] = "retry"
  /\ Calls(p, "mkdir")
  /\ UNCHANGED <<fsVars, leaseVars, fileVars, died>>

\* ... or give up with state_lock_timeout.
TimeOut(p) ==
  /\ pc[p] = "retry"
  /\ Calls(p, "idle")
  /\ UNCHANGED <<fsVars, leaseVars, fileVars, died>>

-----------------------------------------------------------------------------
(* The section: withStateMaintenanceLock(read; writeStateFileAtomically). *)

\* Mutant: the section works on the copy that an earlier section left behind.
ReadStateCached(p) ==
  /\ pc[p] = "held"
  /\ Calls(p, "read")
  /\ UNCHANGED <<fsVars, leaseVars, fileVars, died>>

ReadState(p) ==
  /\ pc[p] = "held"
  /\ snap' = [snap EXCEPT ![p] = file]
  /\ Calls(p, "read")
  /\ UNCHANGED <<fsVars, leaseVars, file, commits, died>>

\* writeStateFileAtomically takes the lock again: depth only, no file call.
AcquireNested(p) ==
  /\ pc[p] = "read"
  /\ depth' = [depth EXCEPT ![p] = @ + 1]
  /\ Calls(p, "nested")
  /\ UNCHANGED <<fsVars, token, seen, fileVars, died>>

\* renameSync publishes the temporary file: the commit point.
RenameState(p) ==
  /\ pc[p] = "nested"
  /\ file' = snap[p] + 1
  /\ commits' = commits + 1
  /\ Calls(p, "done")
  /\ UNCHANGED <<fsVars, leaseVars, snap, died>>

\* lease.release(), in the finally clause, so also when the callback throws:
\* only the outermost release reaches releaseOwnedLock.
Release(p) ==
  /\ pc[p] \in Section
  /\ depth' = [depth EXCEPT ![p] = @ - 1]
  /\ Calls(p, IF depth[p] > 1 THEN "done" ELSE "checkOwner")
  /\ UNCHANGED <<fsVars, token, seen, fileVars, died>>

\* releaseOwnedLock: the record must still carry this lease's token.
CheckOwner(p) ==
  /\ pc[p] = "checkOwner"
  /\ Calls(p, IF filled /\ owner = token[p] THEN "unlinkOwner" ELSE "idle")
  /\ UNCHANGED <<fsVars, leaseVars, fileVars, died>>

UnlinkOwner(p) ==
  /\ pc[p] = "unlinkOwner"
  /\ owner' = 0 /\ filled' = FALSE
  /\ Calls(p, IF owner # 0 THEN "rmdir" ELSE "idle")
  /\ UNCHANGED <<lockDir, reclaim, drawn, nextToken, leaseVars, fileVars, died>>

\* A non-empty lock is retained; the failure is swallowed.
Rmdir(p) ==
  /\ pc[p] = "rmdir"
  /\ lockDir' = IF RmdirSucceeds THEN FALSE ELSE lockDir
  /\ Calls(p, "idle")
  /\ UNCHANGED <<owner, filled, reclaim, drawn, nextToken, leaseVars, fileVars, died>>

-----------------------------------------------------------------------------
(* Environment: the process dies between any two calls and may come back.  *)

Die(p) ==
  /\ pc[p] # "dead" /\ died < MaxDied
  /\ died' = died + 1
  /\ Calls(p, "dead")
  /\ token' = [token EXCEPT ![p] = 0]
  /\ depth' = [depth EXCEPT ![p] = 0]
  /\ seen' = [seen EXCEPT ![p] = 0]
  /\ snap' = [snap EXCEPT ![p] = 0]
  /\ UNCHANGED <<fsVars, file, commits>>

Restart(p) ==
  /\ pc[p] = "dead"
  /\ Calls(p, "idle")
  /\ UNCHANGED <<fsVars, leaseVars, fileVars, died>>

-----------------------------------------------------------------------------
Acquiring(p) ==
  \/ Acquire(p) \/ MkdirWins(p) \/ MkdirExists(p) \/ MkdirFails(p)
  \/ OpenOwner(p)
  \/ WriteOwner(p) \/ WriteOwnerFails(p) \/ UndoOwner(p) \/ UndoDir(p)
  \/ Retry(p) \/ TimeOut(p)

Reclaims(p) ==
  \/ ReadOwner(p) \/ ProbeOwner(p) \/ MarkReclaim(p) \/ RereadOwner(p)
  \/ Unmark(p) \/ DropOwner(p) \/ DropMark(p) \/ RmdirDead(p) \/ CatchReclaim(p)

Works(p) ==
  \/ ReadState(p) \/ AcquireNested(p) \/ RenameState(p)
  \/ Release(p) \/ CheckOwner(p) \/ UnlinkOwner(p) \/ Rmdir(p)

LockNext == \E p \in Procs :
  Acquiring(p) \/ Reclaims(p) \/ Works(p) \/ Die(p) \/ Restart(p)

LockSpec == LockInit /\ [][LockNext]_lockVars

-----------------------------------------------------------------------------
(* Scheduling: the calls are synchronous, so a live process that has started *)
(* an acquisition, a reclaim or a section runs on to its return.             *)
Proceeds(p) ==
  (Acquiring(p) /\ pc[p] # "idle") \/ Reclaims(p) \/ Works(p)

FairLockSpec == LockSpec /\ \A p \in Procs : WF_lockVars(Proceeds(p))

-----------------------------------------------------------------------------
LockTypeOK ==
  /\ lockDir \in BOOLEAN /\ filled \in BOOLEAN /\ reclaim \in BOOLEAN
  /\ owner \in 0 .. MaxTokens
  /\ nextToken \in 1 .. (MaxTokens + 1)
  /\ drawn \in [Procs -> SUBSET Tokens]
  /\ pc \in [Procs -> PCs]
  /\ token \in [Procs -> 0 .. MaxTokens]
  /\ seen \in [Procs -> 0 .. MaxTokens]
  /\ depth \in [Procs -> Nat]
  /\ file \in Nat /\ commits \in Nat /\ snap \in [Procs -> Nat]
  /\ died \in 0 .. MaxDied

\* Two processes are never inside withStateMaintenanceLock at the same time,
\* whatever the interleaving of creators, releasers, reclaimers and deaths.
MutualExclusion ==
  \A p, q \in Procs : pc[p] \in Section /\ pc[q] \in Section => p = q

\* A live process in its section owns the record on disk: no reclaimer ever
\* removes owner.json or the directory of a process that is not dead.
HolderKeepsRecord ==
  \A p \in Procs : pc[p] \in Section =>
    lockDir /\ filled /\ owner = token[p] /\ owner \in drawn[p]

\* Read-modify-write inside the section loses no update: the file's version is
\* the number of versions ever published, across all processes and crashes.
NoLostUpdate == file = commits

\* The processes that are between creating or reclaiming the lock and removing
\* it: the only ones that will ever remove the directory.
Guardians == {"openOwner", "writeOwner", "undoOwner", "undoDir", "checkOwner",
              "unlinkOwner", "rmdir", "dropOwner", "dropMark", "rmdirDead"}
                \cup Section

\* The directory exists, has no owner record and nobody is about to remove it:
\* no contender can ever create or reclaim it again.
OwnerlessLock ==
  lockDir /\ owner = 0 /\ \A p \in Procs : pc[p] \notin Guardians

\* A step of a live process never strands the lock without an owner: only a
\* death in the few calls between mkdir and the owner record (or between the
\* unlink and the rmdir) can.
OnlyDeathStrandsLock ==
  [][ ~OwnerlessLock /\ OwnerlessLock' =>
        \E p \in Procs : pc[p] # "dead" /\ pc'[p] = "dead" ]_lockVars

\* While nobody dies, the lock always becomes free again, owner records that cannot be
\* written included (the removal of the half-made lock, stateMaintenanceLock.ts:111).
LockIsFreedAgain == [](died = 0) => []<>(~lockDir)

\* What is inside the section, for the abstract specification.
Inside == {p \in Procs : pc[p] \in Section}

Store == INSTANCE SerialStore WITH inside <- Inside, version <- file, commits <- commits

\* The protocol of directories, records and markers implements a section for one process at
\* a time and a document that only the process in it replaces, by the successor of what is
\* there (withStateMaintenanceLock, writeStateFileAtomically).
ImplementsStore == Store!Spec

-----------------------------------------------------------------------------
(* The inductive strengthening of the safety properties. *)

\* The pcs at which the lease's token is in the record on disk.
Holding == Section \cup {"checkOwner", "unlinkOwner"}
\* ... and those at which it is, or will be, the token of a live process's lease.
Leased == Holding \cup {"openOwner", "writeOwner", "undoOwner"}
\* The pcs at which a reclaimer has created the marker and not yet removed it.
Marking == {"reread", "unmark", "dropOwner", "dropMark"}

\* Only one process is on its way to removing the directory.
OneGuardian ==
  \A p, q \in Procs : pc[p] \in Guardians /\ pc[q] \in Guardians => p = q

\* What a guardian knows of the record, by the call it is about to make.
GuardianRecord == \A p \in Procs :
  /\ pc[p] \in Guardians => lockDir
  /\ pc[p] \in Leased => token[p] \in drawn[p] /\ token[p] # 0
  /\ pc[p] \in Holding => filled /\ owner = token[p]
  /\ pc[p] = "writeOwner" => ~filled /\ owner = token[p]
  /\ pc[p] = "undoOwner" => ~filled
  /\ pc[p] = "dropOwner" => filled /\ owner = seen[p]
  /\ pc[p] \in {"openOwner", "undoDir", "rmdir", "dropMark", "rmdirDead"} =>
       owner = 0

\* A token read from a record and probed dead is no live lease's token: it was
\* drawn in a previous life, and tokens are never drawn twice.
ProbedDead == \A p \in Procs :
  /\ pc[p] = "probe" => seen[p] # 0
  /\ pc[p] \in {"mark", "reread", "dropOwner"} =>
       seen[p] # 0 /\ \A q \in Procs : pc[q] \in Leased => token[q] # seen[p]

\* The marker excludes reclaimers from each other, except in a lock that is
\* stranded already, where no second read can succeed.
MarkerExcludes == \A p \in Procs : pc[p] \in Marking =>
  \/ reclaim /\ \A q \in Procs : pc[q] \in Marking => q = p
  \/ OwnerlessLock

\* The catch clause, which removes anybody's marker, runs only there too.
CatchOnlyStranded == \A p \in Procs : pc[p] = "catch" => OwnerlessLock

TokensFresh ==
  /\ owner < nextToken
  /\ \A p \in Procs : seen[p] < nextToken
  /\ \A p \in Procs : \A t \in drawn[p] : t < nextToken

NoDirNoFiles ==
  /\ owner = 0 => ~filled
  /\ ~lockDir => owner = 0 /\ ~reclaim /\ \A p \in Procs : pc[p] \notin Marking

SnapCurrent ==
  /\ file = commits
  /\ \A p \in Procs : pc[p] \in {"read", "nested"} => snap[p] = file

LeaseDepth == \A p \in Procs : pc[p] \in Section => depth[p] # 0

LockIInv ==
  /\ LockTypeOK /\ OneGuardian /\ GuardianRecord /\ ProbedDead /\ MarkerExcludes
  /\ CatchOnlyStranded /\ TokensFresh /\ NoDirNoFiles /\ SnapCurrent /\ LeaseDepth
=============================================================================
