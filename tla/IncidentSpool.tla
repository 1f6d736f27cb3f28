--------------------------- MODULE IncidentSpool ----------------------------
(***************************************************************************)
(* The store of operational incidents and the spool beside it              *)
(* (src/data/delivery-system/incidentStore.ts, operationalIncidents.ts).   *)
(*                                                                         *)
(* An incident is recorded in the store, under the state lock.  Who waits  *)
(* for the lock in vain writes it to a file of its own in the spool, and   *)
(* the daily maintenance (stateMaintenance.ts), which holds the lock,      *)
(* ingests these files one by one.  Everything but maintenance takes the   *)
(* lock for one synchronous stretch and is one action here.                *)
(***************************************************************************)
EXTENDS Integers, Sequences, FiniteSets

CONSTANTS
  Ids,            \* incident ids in the order of their names; drawn at random
  MaxIncidents,   \* incidents the store keeps, 256
  MaxSpoolFiles,  \* spool files one maintenance looks at, 256
  MaxThrown,      \* bound: stages of maintenance that throw
  MaxDeaths      \* bound: processes that die

ASSUME SpoolConstants ==
  /\ Ids \subseteq Nat /\ IsFiniteSet(Ids)
  /\ {MaxIncidents, MaxSpoolFiles} \subseteq Nat \ {0}
  /\ {MaxThrown, MaxDeaths} \subseteq Nat
  /\ MaxDeaths < MaxSpoolFiles

VARIABLES
  store,    \* the incidents of the store, oldest first: [id, status]
  spool,    \* the spooled incidents
  junk,     \* spool files that were created and never written
  phase,       \* where maintenance is
  names,    \* the spool files it still looks at
  recorded, \* history: the incidents whose recording has returned
  trimmed,  \* history: incidents that newer ones pushed out of the store
  acked,    \* history: acknowledged incidents
  thrown, deaths

spoolVars == <<store, spool, junk, phase, names, recorded, trimmed, acked, thrown, deaths>>

SpoolInit ==
  /\ store = <<>> /\ spool = {} /\ junk = {} /\ phase = "idle" /\ names = {}
  /\ recorded = {} /\ trimmed = {} /\ acked = {} /\ thrown = 0 /\ deaths = 0

Unlocked == phase \in {"idle", "failed"}
IdsOf(s) == {s[n].id : n \in DOMAIN s}
Fresh == Ids \ (recorded \cup junk)

-----------------------------------------------------------------------------
(* Recording *)

\* recordAutopilotIncident
Stored(i) ==
  LET longer == Append(store, [id |-> i, status |-> "open"])
      over == Len(longer) - MaxIncidents
  IN /\ store' = IF over > 0 THEN SubSeq(longer, over + 1, Len(longer)) ELSE longer
     /\ trimmed' = trimmed \cup (IdsOf(longer) \ IdsOf(store'))

\* recordOperationalIncident: to the store; after a wait in vain, to the spool.
Recorded == \E i \in Fresh :
  /\ \/ Unlocked /\ Stored(i) /\ UNCHANGED spool
     \/ spool' = spool \cup {i} /\ UNCHANGED <<store, trimmed>>
  /\ recorded' = recorded \cup {i}

RecordIncident == Recorded /\ UNCHANGED <<junk, phase, names, acked, thrown, deaths>>

\* The process dies in spoolOperationalIncident between the creation of the file and the write.
SpoolCutShort == \E i \in Fresh :
  /\ deaths < MaxDeaths /\ deaths' = deaths + 1
  /\ junk' = junk \cup {i}
  /\ UNCHANGED <<store, spool, phase, names, recorded, trimmed, acked, thrown>>

\* acknowledgeIncident
Acknowledge == \E n \in DOMAIN store :
  /\ Unlocked
  /\ store' = [store EXCEPT ![n].status = "acknowledged"]
  /\ acked' = acked \cup {store[n].id}
  /\ UNCHANGED <<spool, junk, phase, names, recorded, trimmed, thrown, deaths>>

-----------------------------------------------------------------------------
(* Maintenance, as far as incidents are concerned *)

\* Mutant: the first file that cannot be read ends the ingestion.
NamesUpToJunk == {i \in spool : \A j \in junk : i < j}

\* The first MaxSpoolFiles names, unreadable files among them; those are passed over.
NamesToIngest == {i \in spool : Cardinality({j \in spool \cup junk : j <= i}) <= MaxSpoolFiles}

\* The file that is looked at next.
First(i) == i \in names /\ \A j \in names : i <= j

StartIngestion ==
  /\ phase = "idle" /\ phase' = "ingest" /\ names' = NamesToIngest
  /\ UNCHANGED <<store, spool, junk, recorded, trimmed, acked, thrown, deaths>>

\* Mutant: the spooled incident takes the place of the one in the store.
IngestOver ==
  /\ phase = "ingest" /\ phase' = "unlink"
  /\ \E i \in names : First(i) /\
     \/ /\ i \in IdsOf(store) /\ UNCHANGED trimmed
        /\ store' = [n \in DOMAIN store |-> IF store[n].id = i THEN [id |-> i, status |-> "open"]
                                             ELSE store[n]]
     \/ i \notin IdsOf(store) /\ Stored(i)
  /\ UNCHANGED <<spool, junk, names, recorded, acked, thrown, deaths>>

\* Mutant: a recording that throws does not keep the file from being removed.
IngestBestEffort ==
  /\ phase = "ingest" /\ phase' = "unlink"
  /\ \/ \E i \in names \cap IdsOf(store) : First(i) /\ UNCHANGED <<store, trimmed, thrown>>
     \/ \E i \in names \ IdsOf(store) : First(i) /\ Stored(i) /\ UNCHANGED thrown
     \/ names # {} /\ thrown < MaxThrown /\ thrown' = thrown + 1 /\ UNCHANGED <<store, trimmed>>
  /\ UNCHANGED <<spool, junk, names, recorded, acked, deaths>>

\* ingestOperationalIncidentSpool, one file: it is recorded unless the store has it.
Ingest ==
  /\ phase = "ingest" /\ phase' = "unlink"
  /\ \E i \in names : First(i) /\
     \/ i \in IdsOf(store) /\ UNCHANGED <<store, trimmed>>
     \/ i \notin IdsOf(store) /\ Stored(i)
  /\ UNCHANGED <<spool, junk, names, recorded, acked, thrown, deaths>>

Unlink ==
  /\ phase = "unlink" /\ phase' = "ingest"
  /\ \E i \in names : First(i) /\ spool' = spool \ {i} /\ names' = names \ {i}
  /\ UNCHANGED <<store, junk, recorded, trimmed, acked, thrown, deaths>>

\* Backup, rotation and retention (StateMaintenance); they fail for as long as a log is too
\* long for a backup.
Rest ==
  /\ phase = "ingest" /\ names = {} /\ phase' \in {"idle", "failed"}
  /\ UNCHANGED <<store, spool, junk, names, recorded, trimmed, acked, thrown, deaths>>

\* A stage throws.
StageThrows ==
  /\ ~Unlocked /\ thrown < MaxThrown /\ thrown' = thrown + 1
  /\ phase' = "failed" /\ names' = {}
  /\ UNCHANGED <<store, spool, junk, recorded, trimmed, acked, deaths>>

\* The error, outside the lock, is recorded, when it can be.
Report ==
  /\ phase = "failed" /\ phase' = "idle"
  /\ Recorded \/ UNCHANGED <<store, spool, recorded, trimmed>>
  /\ UNCHANGED <<junk, names, acked, thrown, deaths>>

\* The process of maintenance dies; whoever wants the lock next finds its owner gone.
IngestionDies ==
  /\ phase # "idle" /\ deaths < MaxDeaths /\ deaths' = deaths + 1
  /\ phase' = "idle" /\ names' = {}
  /\ UNCHANGED <<store, spool, junk, recorded, trimmed, acked, thrown>>

Ingestion == StartIngestion \/ Ingest \/ Unlink \/ Rest \/ Report

SpoolNext ==
  Ingestion \/ StageThrows \/ IngestionDies \/ RecordIncident \/ SpoolCutShort \/ Acknowledge

SpoolSpec == SpoolInit /\ [][SpoolNext]_spoolVars

\* The timer starts maintenance every day (ops/systemd/autopilot-state-maintenance.timer),
\* and it goes on until it returns.
FairSpoolSpec == SpoolSpec /\ WF_spoolVars(Ingestion)

-----------------------------------------------------------------------------
(* Properties *)

\* The state is what the code's types and limits allow (IncidentStoreDocument).
SpoolTypeOK ==
  /\ store \in Seq([id : Ids, status : {"open", "acknowledged"}]) /\ Len(store) <= MaxIncidents
  /\ {spool, junk, names, recorded, trimmed, acked} \subseteq SUBSET Ids
  /\ phase \in {"idle", "ingest", "unlink", "failed"}

\* No incident is in the store twice, although its file may outlive its recording; one that
\* were would make the whole store invalid (validateDocument).
NoDuplicates == \A m, n \in DOMAIN store : store[m].id = store[n].id => m = n

\* A recorded incident is in the store or in the spool until MaxIncidents newer ones have
\* pushed it out, whatever throws or dies (ingestOperationalIncidentSpool).
IncidentKept == recorded \subseteq IdsOf(store) \cup spool \cup trimmed

\* An acknowledged incident is not open again unless it had been pushed out of the store
\* before its spool file was removed (acknowledgeIncident).
AcknowledgedStays == \A n \in DOMAIN store :
  store[n].id \in acked \ trimmed => store[n].status = "acknowledged"

\* A spooled incident leaves the spool, whatever lies there unreadable and whatever becomes
\* of the rest of maintenance (performStateMaintenance ingests first).
SpoolDrains == \A i \in Ids : i \in spool ~> i \notin spool

=============================================================================
