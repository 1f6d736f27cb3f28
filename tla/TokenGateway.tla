---------------------------- MODULE TokenGateway ----------------------------
(***************************************************************************)
(* The token gate every run passes before dispatch                         *)
(* (src/data/delivery-system/tokenGateway.ts).                             *)
(*                                                                         *)
(* The gateway keeps its state in memory and writes the whole of it to     *)
(* token-gateway-state.json at the end of each operation.  The operations  *)
(* change memory first: when the write fails (the maintenance lock times   *)
(* out) memory is ahead of the file, and when the process dies the file is *)
(* all that is left.  releaseGroupSlots writes once for every claimed slot *)
(* it releases and once at the end.                                        *)
(*                                                                         *)
(* A reservation counts against three usage keys: its provider, its        *)
(* provider's model and its session.                                       *)
(***************************************************************************)
EXTENDS Naturals, Sequences, FiniteSets, FiniteSetsExt, SequencesExt, Functions

CONSTANTS
  Handoffs,    \* handoffs of ordinary runs, each reserved on its own
  Groups,      \* orchestration groups (brainstorms)
  SlotsOf,     \* SlotsOf[g]: the slots of group g, in order
  Keys,        \* usage keys
  KeysOf,      \* KeysOf[h] for a handoff or slot: the keys of its route
  Total,       \* Total[h] for a handoff or slot: input plus output tokens asked
  Hold,        \* Hold[s]: the tokens reserveGroup holds for slot s
  Cap,         \* Cap[k]: the budget of usage key k
  Kinds,       \* Kinds: the keys by kind (provider, model, session)
  MaxKeys,     \* MAX_USAGE_KEYS
  MaxActive,   \* MAX_ACTIVE_RESERVATIONS
  MaxTerminal, \* MAX_TERMINAL_RESERVATIONS
  MaxIds,      \* bound on the number of reservations ever made
  MaxFailures, \* bound on the number of failed writes
  MaxCrashes   \* bound on the number of process deaths

Ids == 1 .. MaxIds
Slots == UNION {Range(SlotsOf[g]) : g \in Groups}

ASSUME GatewayConstants ==
  /\ MaxIds \in Nat /\ MaxActive \in Nat /\ MaxTerminal \in Nat /\ MaxKeys \in Nat
  /\ MaxFailures \in Nat /\ MaxCrashes \in Nat
  /\ \A k \in Keys : Cap[k] \in Nat
  /\ IsFiniteSet(Keys) /\ UNION Kinds = Keys
  /\ \A g \in Groups : SlotsOf[g] \in Seq(Slots) /\ IsInjective(SlotsOf[g])
  /\ \A f, g \in Groups : f # g => Range(SlotsOf[f]) \cap Range(SlotsOf[g]) = {}
  /\ Handoffs \cap Slots = {}
  /\ \A h \in Handoffs \cup Slots :
       /\ KeysOf[h] \subseteq Keys /\ Total[h] \in Nat
       /\ \A kind \in Kinds : \E k \in kind : KeysOf[h] \cap kind = {k}
  /\ \A s \in Slots : Hold[s] \in Nat \ {0} /\ Total[s] <= Hold[s]

VARIABLES
  mem,       \* the gateway object's state
  disk,      \* the state file
  up,        \* the control plane runs (it refuses an incoherent file)
  made,      \* made[id]: the handoff or slot reservation id is for
  granted,   \* reservations returned to a caller
  assured,   \* groups whose holds were returned to a caller
  closed,    \* reservations a caller was told are settled or released
  ended,     \* reservations an operation has closed, written or not
  failures,
  crashes

gatewayVars == <<mem, disk, up, made, granted, assured, closed, ended, failures, crashes>>

\* used: usage by key; active: the reservations map; terminal: the terminal
\* map, oldest first; slot and slotRes: the group slots; spent: what settled
\* reservations used (it is part of used, and not a field of its own in the code).
Empty == [used     |-> [k \in Keys |-> 0],
          active   |-> {},
          terminal |-> <<>>,
          slot     |-> [s \in Slots |-> "none"],
          slotRes  |-> [s \in Slots |-> 0],
          spent    |-> [k \in Keys |-> 0]]

GatewayInit ==
  /\ mem = Empty /\ disk = Empty /\ up = TRUE
  /\ made = <<>> /\ granted = {} /\ assured = {} /\ closed = {} /\ ended = {}
  /\ failures = 0 /\ crashes = 0

-----------------------------------------------------------------------------
\* addUsage, addRouteUsage: every key of the route, never below zero.
Add(used, h, n) ==
  [k \in Keys |-> IF k \in KeysOf[h] THEN used[k] + n ELSE used[k]]
Sub(used, h, n) ==
  [k \in Keys |-> IF k \notin KeysOf[h] THEN used[k]
                  ELSE IF used[k] >= n THEN used[k] - n ELSE 0]

\* What n tokens of h are for key k.
Share(h, n, k) == IF k \in KeysOf[h] THEN n ELSE 0

\* What each reservation and each held slot is for key k.
Asked(k) == [id \in DOMAIN made |-> Share(made[id], Total[made[id]], k)]
Holds(k) == [s \in Slots |-> Share(s, Hold[s], k)]

\* A key whose usage is zero is deleted.
InUse(used) == {k \in Keys : used[k] > 0}

HeldSlots(st) == {s \in Slots : st.slot[s] \in {"reserved", "claimed"}}
Ordinary(st) == {id \in st.active : made[id] \in Handoffs}
ActiveCount(st) == Cardinality(HeldSlots(st)) + Cardinality(Ordinary(st))

\* active.heldTokens ?? active.totalTokens
HeldBy(id) == IF made[id] \in Slots THEN Hold[made[id]] ELSE Total[made[id]]

TerminalIds(st) == {st.terminal[i].id : i \in DOMAIN st.terminal}
IsSettled(st, id) == Contains(st.terminal, [id |-> id, event |-> "settled"])

\* pruneTerminal: only the newest MaxTerminal records stay.
Prune(seq) ==
  IF Len(seq) > MaxTerminal
    THEN SubSeq(seq, Len(seq) - MaxTerminal + 1, Len(seq)) ELSE seq

\* The common part of settle and release: the hold goes, n tokens stay used.
Closed(st, id, event, n) ==
  [st EXCEPT
    !.used = Add(Sub(@, made[id], HeldBy(id)), made[id], n),
    !.spent = Add(@, made[id], n),
    !.active = @ \ {id},
    !.terminal = Prune(Append(@, [id |-> id, event |-> event])),
    !.slot = [s \in Slots |-> IF s = made[id] THEN event ELSE @[s]]]

\* persist(): the file becomes the memory, or the write throws.
Persist(st) ==
  /\ mem' = st
  /\ \/ disk' = st /\ failures' = failures
     \/ /\ failures < MaxFailures
        /\ failures' = failures + 1 /\ disk' = disk

\* The operation returned normally only when its write went through.
Returns(ids, set) == IF failures' = failures THEN set \cup ids ELSE set

-----------------------------------------------------------------------------
(* reserve *)

\* A handoff that has an active reservation gets it again, without a write.
ReserveAgain(h) ==
  /\ up
  /\ \E id \in mem.active : made[id] = h /\ granted' = granted \cup {id}
  /\ UNCHANGED <<mem, disk, up, assured, made, closed, ended, failures, crashes>>

\* Mutant: the reservation is returned before it is written.
ReserveUnwritten(h) ==
  /\ up /\ Len(made) < MaxIds
  /\ \A id \in mem.active : made[id] # h
  /\ ActiveCount(mem) < MaxActive
  /\ Cardinality(InUse(mem.used) \cup KeysOf[h]) <= MaxKeys
  /\ \A k \in KeysOf[h] : mem.used[k] + Total[h] <= Cap[k]
  /\ made' = Append(made, h)
  /\ mem' = [mem EXCEPT !.active = @ \cup {Len(made) + 1},
                        !.used = Add(@, h, Total[h])]
  /\ granted' = granted \cup {Len(made) + 1}
  /\ UNCHANGED <<disk, failures, up, assured, closed, ended, crashes>>

\* A new reservation, within the count and the three budgets.
Reserve(h) ==
  /\ up /\ Len(made) < MaxIds
  /\ \A id \in mem.active : made[id] # h
  /\ ActiveCount(mem) < MaxActive
  /\ Cardinality(InUse(mem.used) \cup KeysOf[h]) <= MaxKeys
  /\ \A k \in KeysOf[h] : mem.used[k] + Total[h] <= Cap[k]
  /\ made' = Append(made, h)
  /\ Persist([mem EXCEPT !.active = @ \cup {Len(made) + 1},
                         !.used = Add(@, h, Total[h])])
  /\ granted' = Returns({Len(made) + 1}, granted)
  /\ UNCHANGED <<up, assured, closed, ended, crashes>>

-----------------------------------------------------------------------------
(* reserveGroup, claimGroupSlot *)

SlotSet(g) == Range(SlotsOf[g])
GroupUsage(g) == [k \in Keys |-> SumFunctionOnSet(Holds(k), SlotSet(g))]

\* All slots of a new group are held, or none: the budgets are checked with the
\* holds of the whole group.
ReserveGroup(g) ==
  /\ up /\ \A s \in SlotSet(g) : mem.slot[s] = "none"
  /\ ActiveCount(mem) + Cardinality(SlotSet(g)) <= MaxActive
  /\ \A k \in Keys : mem.used[k] + GroupUsage(g)[k] <= Cap[k]
  /\ Cardinality(InUse(mem.used) \cup InUse(GroupUsage(g))) <= MaxKeys
  /\ Persist([mem EXCEPT
       !.used = [k \in Keys |-> @[k] + GroupUsage(g)[k]],
       !.slot = [s \in Slots |-> IF s \in SlotSet(g) THEN "reserved" ELSE @[s]]])
  /\ assured' = Returns({g}, assured)
  /\ UNCHANGED <<up, made, granted, closed, ended, crashes>>

\* A known group is returned unchanged, without a write.
ReserveGroupAgain(g) ==
  /\ up /\ \E s \in SlotSet(g) : mem.slot[s] # "none"
  /\ assured' = assured \cup {g}
  /\ UNCHANGED <<mem, disk, up, made, granted, closed, ended, failures, crashes>>

\* The coordinator claims the slots of a group in order.
InOrder(g, s) == \A i, j \in DOMAIN SlotsOf[g] :
  i < j /\ SlotsOf[g][j] = s => mem.slot[SlotsOf[g][i]] # "reserved"

\* A slot that has a reservation returns it, whatever became of it.
ClaimAgain(s) ==
  /\ up /\ mem.slotRes[s] # 0
  /\ granted' = granted \cup {mem.slotRes[s]}
  /\ UNCHANGED <<mem, disk, up, assured, made, closed, ended, failures, crashes>>

\* The claim turns the hold into a reservation and leaves the usage alone.  The
\* code does not look at the slot's state: callers claim reserved slots only.
ClaimGroupSlot(g, s) ==
  /\ up /\ Len(made) < MaxIds
  /\ mem.slot[s] = "reserved" /\ mem.slotRes[s] = 0 /\ InOrder(g, s)
  /\ made' = Append(made, s)
  /\ Persist([mem EXCEPT !.active = @ \cup {Len(made) + 1},
                         !.slot = [@ EXCEPT ![s] = "claimed"],
                         !.slotRes = [@ EXCEPT ![s] = Len(made) + 1]])
  /\ granted' = Returns({Len(made) + 1}, granted)
  /\ UNCHANGED <<up, assured, closed, ended, crashes>>

-----------------------------------------------------------------------------
(* releaseGroupSlots: one write for every claimed slot, one at the end *)

\* Mutant: a reserved slot's hold is not taken out of the usage.
ReleaseSlotKeepingHold(st, s) ==
  IF st.slot[s] = "claimed" THEN Closed(st, st.slotRes[s], "released", 0) ELSE st

ReleaseSlot(st, s) ==
  IF st.slot[s] = "claimed" THEN Closed(st, st.slotRes[s], "released", 0)
  ELSE IF st.slot[s] = "reserved" THEN [st EXCEPT !.used = Sub(@, s, Hold[s])]
  ELSE st

\* The state after the first n slots of group g, those of S released.
ReleasedUpTo(g, S, n) ==
  LET after[i \in 0 .. Len(SlotsOf[g])] ==
        IF i = 0 THEN mem
        ELSE IF SlotsOf[g][i] \in S THEN ReleaseSlot(after[i - 1], SlotsOf[g][i])
        ELSE after[i - 1]
  IN after[n]

\* The last line of the operation marks the slots that were still reserved.
MarkReleased(st, S) ==
  [st EXCEPT !.slot = [s \in Slots |->
     IF s \in S /\ @[s] = "reserved" THEN "released" ELSE @[s]]]
ReleasedAll(g, S) == MarkReleased(ReleasedUpTo(g, S, Len(SlotsOf[g])), S)

\* The requested slots that have a reservation, by their place in the group.
Claimed(g, S) == {i \in DOMAIN SlotsOf[g] : SlotsOf[g][i] \in S /\ mem.slot[SlotsOf[g][i]] = "claimed"}
ClosedIds(g, I) == {mem.slotRes[SlotsOf[g][i]] : i \in I}

ReleaseGroupSlots(g, S) ==
  /\ up /\ \A s \in S : mem.slot[s] # "none"
  /\ mem' = ReleasedAll(g, S) /\ disk' = mem'
  /\ closed' = closed \cup ClosedIds(g, Claimed(g, S))
  /\ ended' = ended \cup ClosedIds(g, Claimed(g, S))
  /\ UNCHANGED <<up, assured, made, granted, failures, crashes>>

\* The write of the i-th slot or the last write fails: the file has what the
\* writes of the claimed slots before it left.
ReleaseGroupSlotsFails(g, S) ==
  /\ up /\ failures < MaxFailures /\ \A s \in S : mem.slot[s] # "none"
  /\ \E i \in Claimed(g, S) \cup {Len(SlotsOf[g]) + 1} :
       /\ mem' = IF i \in Claimed(g, S) THEN ReleasedUpTo(g, S, i) ELSE ReleasedAll(g, S)
       /\ \/ disk' = disk /\ \A j \in Claimed(g, S) : i <= j
          \/ \E j \in Claimed(g, S) :
               /\ j < i /\ \A k \in Claimed(g, S) : k < i => k <= j
               /\ disk' = ReleasedUpTo(g, S, j)
       /\ ended' = ended \cup ClosedIds(g, {j \in Claimed(g, S) : j <= i})
  /\ failures' = failures + 1
  /\ UNCHANGED <<up, assured, made, granted, closed, crashes>>

\* The process dies between two of the writes.
ReleaseGroupSlotsCrash(g, S) ==
  /\ up /\ crashes < MaxCrashes
  /\ \E i \in Claimed(g, S) :
       /\ disk' = ReleasedUpTo(g, S, i)
       /\ ended' = ended \cup ClosedIds(g, {j \in Claimed(g, S) : j <= i})
  /\ up' = FALSE /\ crashes' = crashes + 1
  /\ UNCHANGED <<mem, assured, made, granted, closed, failures>>

-----------------------------------------------------------------------------
(* settle, release, acknowledgeTerminal *)

\* The hold is replaced by the n tokens used, if the budgets still allow it.
Settle(id, n) ==
  /\ up /\ id \in mem.active \cap granted
  /\ n <= Total[made[id]]
  /\ \A k \in KeysOf[made[id]] : mem.used[k] + n <= Cap[k] + HeldBy(id)
  /\ Persist(Closed(mem, id, "settled", n))
  /\ closed' = Returns({id}, closed)
  /\ ended' = ended \cup {id}
  /\ UNCHANGED <<up, assured, made, granted, crashes>>

\* A settlement that is repeated returns the recorded one, without a write.
SettleAgain(id) ==
  /\ up /\ id \notin mem.active /\ IsSettled(mem, id)
  /\ closed' = closed \cup {id}
  /\ UNCHANGED <<mem, disk, up, assured, made, granted, ended, failures, crashes>>

\* Mutant: updateGroupSlot is left out.
ReleaseForgettingSlot(id) ==
  /\ up /\ id \in mem.active
  /\ Persist([Closed(mem, id, "released", 0) EXCEPT !.slot = mem.slot])
  /\ closed' = Returns({id}, closed)
  /\ ended' = ended \cup {id}
  /\ UNCHANGED <<up, assured, made, granted, crashes>>

\* Mutant: the release is reported before it is written.
ReleaseUnwritten(id) ==
  /\ up /\ id \in mem.active
  /\ mem' = Closed(mem, id, "released", 0)
  /\ closed' = closed \cup {id}
  /\ ended' = ended \cup {id}
  /\ UNCHANGED <<disk, failures, up, assured, made, granted, crashes>>

Release(id) ==
  /\ up /\ id \in mem.active
  /\ Persist(Closed(mem, id, "released", 0))
  /\ closed' = Returns({id}, closed)
  /\ ended' = ended \cup {id}
  /\ UNCHANGED <<up, assured, made, granted, crashes>>

ReleaseAgain(id) ==
  /\ up /\ id \notin mem.active /\ id \in TerminalIds(mem)
  /\ closed' = closed \cup {id}
  /\ UNCHANGED <<mem, disk, up, assured, made, granted, ended, failures, crashes>>

\* The run store has the outcome: the terminal record is dropped.
AcknowledgeTerminal(id) ==
  /\ up
  /\ \E i \in DOMAIN mem.terminal :
       /\ mem.terminal[i].id = id
       /\ Persist([mem EXCEPT !.terminal = RemoveAt(@, i)])
  /\ UNCHANGED <<up, assured, made, granted, closed, ended, crashes>>

-----------------------------------------------------------------------------
(* Process death and boot *)

\* What the active reservations and the held slots need of key k.
Required(st, k) ==
  SumFunctionOnSet(Asked(k), Ordinary(st)) + SumFunctionOnSet(Holds(k), HeldSlots(st))

\* isGatewayState and usageIsCoherent.
IsGatewayState(st) ==
  /\ Cardinality(InUse(st.used)) <= MaxKeys
  /\ Len(st.terminal) <= MaxTerminal /\ ActiveCount(st) <= MaxActive
  /\ TerminalIds(st) \cap st.active = {}
  /\ \A i, j \in st.active : made[i] = made[j] => i = j
  /\ \A s \in Slots :
       /\ st.slot[s] = "reserved" => st.slotRes[s] = 0
       /\ st.slot[s] \in {"claimed", "settled"} => st.slotRes[s] # 0
       /\ st.slot[s] = "claimed" => st.slotRes[s] \in st.active
  /\ \A id \in st.active : made[id] \in Slots =>
       st.slot[made[id]] = "claimed" /\ st.slotRes[made[id]] = id
  /\ \A K, L \in Kinds :
       SumFunctionOnSet(st.used, K) = SumFunctionOnSet(st.used, L)
  /\ \A k \in Keys : st.used[k] >= Required(st, k)

Crash ==
  /\ up /\ crashes < MaxCrashes
  /\ up' = FALSE /\ crashes' = crashes + 1
  /\ UNCHANGED <<mem, disk, assured, made, granted, closed, ended, failures>>

\* The constructor refuses a file that is not a coherent state.
Boot ==
  /\ ~up /\ IsGatewayState(disk)
  /\ up' = TRUE /\ mem' = disk
  /\ UNCHANGED <<disk, assured, made, granted, closed, ended, failures, crashes>>

-----------------------------------------------------------------------------
MadeIds == DOMAIN made

GatewayNext ==
  \/ \E h \in Handoffs : ReserveAgain(h) \/ Reserve(h)
  \/ \E g \in Groups :
       \/ ReserveGroup(g) \/ ReserveGroupAgain(g)
       \/ \E s \in SlotSet(g) : ClaimGroupSlot(g, s)
       \/ \E S \in SUBSET SlotSet(g) :
            ReleaseGroupSlots(g, S) \/ ReleaseGroupSlotsFails(g, S) \/ ReleaseGroupSlotsCrash(g, S)
  \/ \E s \in Slots : ClaimAgain(s)
  \/ \E id \in MadeIds :
       \/ \E n \in 0 .. Total[made[id]] : Settle(id, n)
       \/ SettleAgain(id) \/ Release(id) \/ ReleaseAgain(id) \/ AcknowledgeTerminal(id)
  \/ Crash \/ Boot

GatewaySpec == GatewayInit /\ [][GatewayNext]_gatewayVars

-----------------------------------------------------------------------------
(* Properties *)

GatewayState == [used : [Keys -> Nat], active : SUBSET Ids,
                 terminal : Seq([id : Ids, event : {"settled", "released"}]),
                 slot : [Slots -> {"none", "reserved", "claimed", "settled", "released"}],
                 slotRes : [Slots -> {0} \cup Ids], spent : [Keys -> Nat]]

\* The variables keep their types (the shape of GatewayState, tokenGateway.ts:110-115).
GatewayTypeOK ==
  /\ mem \in GatewayState /\ disk \in GatewayState /\ up \in BOOLEAN
  /\ made \in Seq(Handoffs \cup Slots) /\ Len(made) <= MaxIds
  /\ mem.active \cup disk.active \subseteq MadeIds
  /\ granted \subseteq MadeIds /\ assured \subseteq Groups
  /\ closed \subseteq MadeIds /\ ended \subseteq MadeIds
  /\ failures \in 0 .. MaxFailures /\ crashes \in 0 .. MaxCrashes

\* No token is lost or counted twice: the usage of every key is what the open
\* reservations and holds ask of it plus what settled ones used, in memory and in
\* the file, whatever mix of claims, partial group releases, repeated settlements,
\* failed writes and crashes came before (addUsage clamps at zero and would hide a
\* double release).
UsageConserved ==
  \A st \in {mem, disk} : \A k \in Keys : st.used[k] = Required(st, k) + st.spent[k]

\* No budget is exceeded, by single reservations, by groups or by settlements.
BudgetRespected == \A st \in {mem, disk} : \A k \in Keys : st.used[k] <= Cap[k]

\* Every file the gateway writes is one its constructor accepts, at every point at
\* which the process may die.
DiskLoads == IsGatewayState(disk)

\* What a caller was given is in the file until an operation closes it: after a
\* restart no dispatched run works without its reservation.
GrantIsDurable ==
  /\ granted \subseteq disk.active \cup ended
  /\ \A g \in assured : \A s \in SlotSet(g) : disk.slot[s] # "none"

\* The same while every write of the process succeeded.
WrittenGrantIsDurable == failures = 0 => GrantIsDurable

\* While every write succeeded, what a caller was told is closed holds no tokens,
\* before and after a restart, between the writes of a group release too.
WrittenCloseIsDurable ==
  failures = 0 => closed \cap (disk.active \cup mem.active) = {}
=============================================================================
