----------------------------- MODULE SerialStore -----------------------------
(***************************************************************************)
(* What the state directory promises to its writers                        *)
(* (withStateMaintenanceLock and writeStateFileAtomically of               *)
(* src/data/delivery-system/stateMaintenanceLock.ts), without the files    *)
(* that make it so: a section that one process is in at a time, and a      *)
(* document that only the process in the section replaces, by the          *)
(* successor of what is there.  StateLock implements it.                   *)
(***************************************************************************)
EXTENDS Naturals

CONSTANT Procs

VARIABLES
  inside,  \* the processes in the section
  version, \* the version of the document
  commits  \* how often it was published

vars == <<inside, version, commits>>

Init == inside = {} /\ version = 0 /\ commits = 0

\* withStateMaintenanceLock calls its callback.
Enter(p) == inside = {} /\ inside' = {p} /\ UNCHANGED <<version, commits>>

\* The callback publishes the successor of what it has read.
Publish(p) ==
  inside = {p} /\ version' = version + 1 /\ commits' = commits + 1 /\ UNCHANGED inside

\* The callback returns, throws, or dies with its process.
Leave(p) == inside = {p} /\ inside' = {} /\ UNCHANGED <<version, commits>>

Next == \E p \in Procs : Enter(p) \/ Publish(p) \/ Leave(p)

Spec == Init /\ [][Next]_vars

=============================================================================
