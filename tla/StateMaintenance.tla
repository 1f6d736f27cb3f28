-------------------------- MODULE StateMaintenance --------------------------
(***************************************************************************)
(* Maintenance of the state directory, backups and their restoration       *)
(* (src/data/delivery-system/stateMaintenance.ts, stateBackup.ts,          *)
(* stateRecovery.ts).                                                      *)
(*                                                                         *)
(* Maintenance runs under the state lock: it backs the directory up,       *)
(* validates the backup, rotates the logs that have grown too long and     *)
(* prunes old backups.  What does not take the lock runs between its       *)
(* steps: a log whose writer appends without it (dispatch.ts), a restore,  *)
(* and the decay of files.  What takes the lock for one synchronous        *)
(* stretch is one action.                                                  *)
(*                                                                         *)
(* One log stands for all: rotation treats each by itself and a backup     *)
(* holds them all.  Its lines are numbered in the order they are written.  *)
(* Maintenance that ends with findings (permissions, secrets) changes      *)
(* nothing here and is no step; what it does with incidents is in          *)
(* IncidentSpool.                                                          *)
(***************************************************************************)
EXTENDS Integers, Sequences, FiniteSets, SequencesExt, FiniteSetsExt

CONSTANTS
  LineSize,       \* LineSize[l]: how long line l is
  RotateMax,      \* max_bytes of rotateStateLogs, 2 MiB
  FileMax,        \* DEFAULT_MAX_FILE_BYTES of a backup, 4 MiB
  KeepArchives,   \* 5
  KeepBackups,    \* DEFAULT_KEEP_STATE_BACKUPS, 7
  MaxFaults,      \* bound: calls that throw, backups that decay
  MaxCrashes      \* bound: processes that die

ASSUME MaintenanceConstants ==
  /\ LineSize \in Seq(Nat \ {0})
  /\ {RotateMax, FileMax, KeepBackups} \subseteq Nat \ {0}
  /\ {KeepArchives, MaxFaults, MaxCrashes} \subseteq Nat

VARIABLES
  locking,   \* whether the log's writer takes the state lock
  log,       \* the lines of the log
  written,   \* how many lines have been written
  archives,  \* the archives of the log, oldest first
  backups,   \* the backups by name, oldest first: [lines, sound]
  mt,        \* the maintenance: where it is and what it rotates to
  loose,     \* history: lines written while this maintenance held the lock
  gone,      \* history: lines the last rotation took from the log, but not its loose ones
  age,       \* history: backups made since
  target,    \* the directory a restore goes to
  restore,   \* the restore: where it is, whether the target was there, its copy of the archive
  faults, crashes

rotation == <<locking, log, written, archives, loose, gone>>
restoration == <<target, restore>>
vars == <<rotation, backups, age, mt, restoration, faults, crashes>>

Idle == [pc |-> "idle", tail |-> <<>>, archived |-> <<>>]
NoRestore == [pc |-> "idle", existed |-> FALSE, sound |-> FALSE]

Init ==
  /\ locking \in BOOLEAN
  /\ log = <<>> /\ written = 0 /\ archives = <<>> /\ backups = <<>>
  /\ target \in {"absent", "empty"} /\ restore = NoRestore
  /\ mt = Idle /\ loose = {} /\ gone = {} /\ age = 0
  /\ faults = 0 /\ crashes = 0

-----------------------------------------------------------------------------
(* Helpers *)

LockFree == mt.pc = "idle"

SizeOf(lines) == FoldSeq(LAMBDA l, sum : sum + LineSize[l], 0, lines)

Newest(s, n) == IF Len(s) <= n THEN s ELSE SubSeq(s, Len(s) - n + 1, Len(s))

\* The lines that begin behind the start of the last "max" bytes: the one the window starts
\* in, or with, is not among them.
Window(lines, max) ==
  LET from == SizeOf(lines) - max
      behind == {n \in DOMAIN lines : SizeOf(SubSeq(lines, 1, n - 1)) > from}
  IN IF from <= 0 THEN lines ELSE Newest(lines, Cardinality(behind))

Lines == ToSet(log) \cup UNION {ToSet(archives[n]) : n \in DOMAIN archives}

Goto(where) == mt' = [mt EXCEPT !.pc = where]

-----------------------------------------------------------------------------
(* Writers *)

WriteLine ==
  /\ written < Len(LineSize) /\ (locking => LockFree)
  /\ written' = written + 1 /\ log' = Append(log, written + 1)
  /\ loose' = IF LockFree THEN loose ELSE loose \cup {written + 1}
  /\ UNCHANGED <<locking, archives, backups, gone, age, restoration, mt, faults, crashes>>

-----------------------------------------------------------------------------
(* performStateMaintenance *)

Start ==
  /\ mt.pc = "idle" /\ Goto("create") /\ loose' = {}
  /\ UNCHANGED <<locking, log, written, archives, gone, backups, age, restoration, faults, crashes>>

Snapshot == [lines |-> Lines, sound |-> TRUE]

\* createStateBackupUnderLease
Create ==
  /\ mt.pc = "create"
  /\ \/ SizeOf(log) > FileMax /\ mt' = Idle /\ UNCHANGED <<backups, age>>
     \/ /\ SizeOf(log) <= FileMax /\ Goto("validate")
        /\ backups' = Append(backups, Snapshot) /\ age' = Min({age + 1, KeepBackups})
  /\ UNCHANGED <<locking, log, written, archives, loose, gone, restoration, faults, crashes>>

\* validateStateBackup; a backup that is not valid is put in quarantine.
Validate ==
  /\ mt.pc = "validate"
  /\ \/ Last(backups).sound /\ Goto("rotate") /\ UNCHANGED backups
     \/ ~Last(backups).sound /\ mt' = Idle /\ backups' = Front(backups)
  /\ UNCHANGED <<locking, log, written, archives, loose, gone, age, restoration, faults, crashes>>

\* rotateStateLogs up to the archive: the log keeps its last RotateMax bytes, the archive
\* gets the RotateMax bytes before them.
Rotate ==
  /\ mt.pc = "rotate"
  /\ \/ SizeOf(log) <= RotateMax /\ Goto("prune") /\ UNCHANGED archives
     \/ /\ SizeOf(log) > RotateMax
        /\ LET tail == Window(log, RotateMax)
               archived == Window(SubSeq(log, 1, Len(log) - Len(tail)), RotateMax)
           IN /\ archives' = IF archived = <<>> THEN archives ELSE Append(archives, archived)
              /\ mt' = [mt EXCEPT !.pc = "rename", !.tail = tail, !.archived = archived]
  /\ UNCHANGED <<locking, log, written, backups, loose, gone, age, restoration, faults, crashes>>

\* The log is replaced by what was read.
Rename ==
  /\ mt.pc = "rename" /\ log' = mt.tail
  /\ gone' = (ToSet(log) \ ToSet(log')) \ loose /\ age' = 0
  /\ mt' = [Idle EXCEPT !.pc = "archives"]
  /\ UNCHANGED <<locking, written, archives, backups, loose, restoration, faults, crashes>>

DropArchives ==
  /\ mt.pc = "archives" /\ Goto("prune")
  /\ archives' = Newest(archives, KeepArchives)
  /\ UNCHANGED <<locking, log, written, backups, loose, gone, age, restoration, faults, crashes>>

\* Mutant: the names are not reversed.
PrunedOldest(s) == SubSeq(s, 1, Min({Len(s), KeepBackups}))

\* pruneOperationalBackups
Pruned(s) == Newest(s, KeepBackups)

Prune ==
  /\ mt.pc = "prune" /\ mt' = Idle /\ backups' = Pruned(backups)
  /\ UNCHANGED <<locking, log, written, archives, loose, gone, age, restoration, faults, crashes>>

\* A call of maintenance throws; a rotation that fails takes its archive back.
Fails ==
  /\ ~LockFree /\ faults < MaxFaults /\ faults' = faults + 1
  /\ mt' = Idle
  /\ archives' = IF mt.pc = "rename" /\ mt.archived # <<>> THEN Front(archives) ELSE archives
  /\ UNCHANGED <<locking, log, written, backups, loose, gone, age, restoration, crashes>>

\* The process dies; the next one that wants the lock finds its owner gone.
Crash ==
  /\ mt.pc # "idle" /\ crashes < MaxCrashes /\ crashes' = crashes + 1
  /\ mt' = Idle
  /\ UNCHANGED <<rotation, backups, age, restoration, faults>>

-----------------------------------------------------------------------------
(* Backups besides those of maintenance *)

\* scripts/ops-backup.ts: a backup with its validation and retention.
OwnerBackup ==
  /\ LockFree /\ SizeOf(log) <= FileMax
  /\ backups' = Pruned(Append(backups, Snapshot)) /\ age' = Min({age + 1, KeepBackups})
  /\ UNCHANGED <<locking, log, written, archives, loose, gone, restoration, mt, faults, crashes>>

\* The bytes of a backup change; not in the instants between its validation and the end of
\* the rotation.
Decay ==
  /\ mt.pc \in {"idle", "validate"} /\ faults < MaxFaults /\ faults' = faults + 1
  /\ \E n \in DOMAIN backups : backups' = [backups EXCEPT ![n].sound = FALSE]
  /\ UNCHANGED <<locking, log, written, archives, loose, gone, age, restoration, mt, crashes>>

-----------------------------------------------------------------------------
(* restoreStateBackup with "apply" *)

At(where) == restore' = [restore EXCEPT !.pc = where]
others == <<rotation, backups, age, mt>>

\* validateRestoreTarget and the staging directory
RestoreBegin ==
  /\ restore.pc = "idle" /\ target \in {"absent", "empty"}
  /\ restore' = [NoRestore EXCEPT !.pc = "copy", !.existed = (target = "empty")]
  /\ UNCHANGED <<others, target, faults, crashes>>

\* The archive is copied into the staging directory, if it is still there.
RestoreCopy ==
  /\ restore.pc = "copy"
  /\ \/ \E n \in DOMAIN backups :
          restore' = [restore EXCEPT !.pc = "check", !.sound = backups[n].sound]
     \/ restore' = NoRestore
  /\ UNCHANGED <<others, target, faults, crashes>>

\* Mutant: an archive in the backup directory is validated, not the copy of it.
RestoreCheckSource ==
  /\ restore.pc = "check"
  /\ IF \E n \in DOMAIN backups : backups[n].sound THEN At("remove") ELSE restore' = NoRestore
  /\ UNCHANGED <<others, target, faults, crashes>>

\* The copy is validated and its files are written.
RestoreCheck ==
  /\ restore.pc = "check"
  /\ IF restore.sound THEN At("remove") ELSE restore' = NoRestore
  /\ UNCHANGED <<others, target, faults, crashes>>

\* An empty target makes room; rmdir refuses one that is not empty any more.
RestoreRemove ==
  /\ restore.pc = "remove"
  /\ \/ ~restore.existed /\ At("rename") /\ UNCHANGED target
     \/ restore.existed /\ target = "empty" /\ target' = "absent" /\ At("rename")
     \/ restore.existed /\ target # "empty" /\ restore' = NoRestore /\ UNCHANGED target
  /\ UNCHANGED <<others, faults, crashes>>

\* rename replaces nothing but an empty directory.
RestoreRename ==
  /\ restore.pc = "rename" /\ restore' = NoRestore
  /\ target' = CASE target # "foreign" /\ restore.sound  -> "restored"
                 [] target # "foreign" /\ ~restore.sound -> "broken"
                 [] OTHER -> target
  /\ UNCHANGED <<others, faults, crashes>>

\* A call throws: the staging directory goes, a target that was removed is made again.
RestoreFails ==
  /\ restore.pc # "idle" /\ faults < MaxFaults /\ faults' = faults + 1
  /\ target' = IF restore.pc = "rename" /\ restore.existed /\ target = "absent"
               THEN "empty" ELSE target
  /\ restore' = NoRestore
  /\ UNCHANGED <<others, crashes>>

RestoreCrash ==
  /\ restore.pc # "idle" /\ crashes < MaxCrashes /\ crashes' = crashes + 1
  /\ restore' = NoRestore
  /\ UNCHANGED <<others, target, faults>>

\* Somebody else puts files where the restore goes.
ForeignWrite ==
  /\ target \in {"absent", "empty"} /\ target' = "foreign"
  /\ UNCHANGED <<others, restore, faults, crashes>>

Restore ==
  \/ RestoreBegin \/ RestoreCopy \/ RestoreCheck \/ RestoreRemove \/ RestoreRename
  \/ RestoreFails \/ RestoreCrash \/ ForeignWrite

Maintenance ==
  \/ Start \/ Create \/ Validate \/ Rotate \/ Rename \/ DropArchives
  \/ Prune

Next ==
  \/ Maintenance \/ Fails \/ Crash
  \/ WriteLine \/ OwnerBackup \/ Decay
  \/ Restore

Spec == Init /\ [][Next]_vars

-----------------------------------------------------------------------------
(* Properties *)

Stages == {"idle", "create", "validate", "rotate", "rename", "archives", "prune"}

\* The state is what the code's types and limits allow (StateMaintenanceResult, at most
\* KeepBackups backups besides those that are being made or were left by a crash).
TypeOK ==
  /\ locking \in BOOLEAN /\ written \in 0 .. Len(LineSize)
  /\ log \in Seq(1 .. written) /\ archives \in Seq(Seq(1 .. written))
  /\ backups \in Seq([lines : SUBSET (1 .. written), sound : BOOLEAN])
  /\ Len(backups) <= KeepBackups + 1 + faults + crashes
  /\ mt \in [pc : Stages, tail : Seq(1 .. written), archived : Seq(1 .. written)]
  /\ target \in {"absent", "empty", "foreign", "restored", "broken"}
  /\ restore \in [pc : {"idle", "copy", "check", "remove", "rename"}, existed : BOOLEAN, sound : BOOLEAN]
  /\ loose \subseteq 1 .. written /\ gone \subseteq 1 .. written /\ age \in 0 .. KeepBackups

\* Lines that rotation took out of the log, other than those that were written without the
\* lock since, are in a backup until KeepBackups more were made (performStateMaintenance).
GoneIsRestorable == age < KeepBackups => \E n \in DOMAIN backups \cup {0} :
  IF n = 0 THEN gone = {} ELSE gone \subseteq backups[n].lines

\* A restore gives the whole of a valid archive or leaves the target without content,
\* although archives decay and are pruned meanwhile (restoreStateBackup).
RestoreIsWhole == target # "broken"

\* Files that others put at the target stay, whenever they come (restoreStateBackup).
ForeignStays == [][target = "foreign" => target' = "foreign"]_vars

\* The log is cut only when the newest backup is valid and has what is cut off: rotation
\* never runs after a failed lock, backup or validation
\* (docs/operations/state-and-recovery.md:69).
RotatesOverBackup == [][ToSet(log) \ ToSet(log') # {} =>
  /\ backups # <<>> /\ Last(backups).sound
  /\ ToSet(log) \ ToSet(log') \subseteq Last(backups).lines \cup loose]_vars

=============================================================================
