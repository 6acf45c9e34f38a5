------------------------ MODULE PromptDeliveryProofs ------------------------
(***************************************************************************)
(* What holds of PromptDelivery for every number of Agents, requests,      *)
(* clients and workers.                                                    *)
(***************************************************************************)
EXTENDS PromptDelivery, TLAPS

\* Threads are clients or workers, never both.
LEMMA ThreadKinds ==
  /\ \A c \in Clients : c \in Threads /\ c \notin Workers
  /\ \A w \in Workers : w \in Threads /\ w \notin Clients
BY ConstantsAssumption DEF Threads

USE DEF Threads

----------------------------------------------------------------------------
(* Types.                                                                  *)

\* A thread at work knows its Agent.
LEMMA AgentKnown ==
  ASSUME TypeOK
  PROVE  /\ \A c \in Clients : pc[c] # "idle" =>
              /\ job[c] \in Job /\ job[c].rid \in Requests
              /\ job[c].body \in Body
              /\ job[c].body.agent \in Agents /\ job[c].body.session \in Sessions
              /\ job[c].body.text \in Texts
              /\ AgentOf(c) = job[c].body.agent
              /\ SessionOf(c) = job[c].body.session
         /\ \A w \in Workers : pc[w] # "none" =>
              target[w] \in Agents /\ AgentOf(w) = target[w]
         /\ \A w \in Workers : pc[w] \notin {"none", "attempt", "gate"} =>
              /\ claim[w] \in Claim /\ claim[w].rid \in Requests
              /\ claim[w].session \in Sessions /\ claim[w].text \in Texts
BY ThreadKinds, NullsAssumption
   DEF TypeOK, AgentOf, SessionOf, Job, Body, Claim

LEMMA TypeInit == Init => TypeOK
<1> SUFFICES ASSUME Init PROVE TypeOK
  OBVIOUS
<1> USE ThreadKinds
<1>1. herdr \in [Agents -> Occupant]
  BY ConstantsAssumption DEF Init
<1>2. \A c \in Clients : pc[c] = "idle" /\ job[c] = NoJob
  BY DEF Init
<1>3. \A w \in Workers : pc[w] = "none" /\ target[w] = NoAgent /\ claim[w] = NoClaim
  BY DEF Init
<1> QED
  BY <1>1, <1>2, <1>3 DEF Init, InitQueue, TypeOK, ClientPcs, WorkerPcs

\* Taking a lock keeps the map and the references within their types.
LEMMA TakeSerializerType ==
  ASSUME TypeOK, NEW t \in Threads, NEW a \in Agents, TakeSerializer(t, a)
  PROVE  /\ serializers' \in [Agents -> Slots \cup {NoSlot}]
         /\ arc' \in [Threads -> Slots \cup {NoSlot}]
BY DEF TypeOK, TakeSerializer, Pruned, FreshSlots

\* The queue operations keep the queue within its type.
LEMMA QueueType ==
  ASSUME items \in [Agents -> QueuedFollowUp \cup {NoItem}], NEW a \in Agents
  PROVE  LET Typed == items' \in [Agents -> QueuedFollowUp \cup {NoItem}] IN
         /\ \A r \in Requests, s \in Sessions, text \in Texts :
              Enqueue(a, r, s, text) => Typed
         /\ ClaimForDelivery(a) \/ CancelItem(a) => Typed
         /\ \A r \in Requests :
              /\ BeginDelivery(a, r) => Typed
              /\ ReleaseClaim(a, r) => Typed
              /\ FinishRemove(a, r) => Typed
              /\ FinishRetain(a, r, "FailedRecoverable") => Typed
              /\ FinishRetain(a, r, "DeliveryUncertain") => Typed
         /\ \A text \in Texts : ReplaceText(a, text) => Typed
BY DEF Enqueue, ClaimForDelivery, BeginDelivery, ReleaseClaim, FinishRemove,
       FinishRetain, CancelItem, ReplaceText, QueuedFollowUp, QueueState,
       DeliverableStates, TerminalStates, InState, Occupied, ClaimStands, Holds

\* A prompt leaves Herdr with an occupant of the same kind.
LEMMA PromptType ==
  ASSUME TypeOK, NEW t \in Threads, AgentOf(t) \in Agents,
         PromptAccepted(t) \/ PromptUncertain(t)
  PROVE  herdr' \in [Agents -> Occupant]
<1>1. PICK status \in Statuses : herdr' = [herdr EXCEPT ![AgentOf(t)].status = status]
  BY DEF PromptAccepted, PromptUncertain, TypeOK, Occupant, Statuses
<1>2. [herdr[AgentOf(t)] EXCEPT !.status = status] \in Occupant
  BY DEF TypeOK, Occupant
<1> QED
  BY <1>1, <1>2 DEF TypeOK

LEMMA TypeNext == TypeOK /\ [Next]_vars => TypeOK'
<1> SUFFICES ASSUME TypeOK, [Next]_vars PROVE TypeOK'
  OBVIOUS
<1> USE ThreadKinds, AgentKnown DEF Goto, Return, WorkerGoto, DropSerializer
<1>1. ASSUME NEW c \in Clients, Submit(c) PROVE TypeOK'
  BY <1>1, ConstantsAssumption, NullsAssumption, TakeSerializerType
     DEF Submit, TypeOK, ClientPcs, WorkerPcs, Job, Body, historyVars
<1>2. ASSUME NEW c \in Clients, ClientLock(c) PROVE TypeOK'
  BY <1>2 DEF ClientLock, TypeOK, ClientPcs, WorkerPcs, historyVars
<1>3. ASSUME NEW c \in Clients, Lookup(c) PROVE TypeOK'
  BY <1>3 DEF Lookup, TypeOK, ClientPcs, WorkerPcs, historyVars
<1>4. ASSUME NEW c \in Clients, Decide(c) PROVE TypeOK'
  <2>1. ledger' \in [Requests -> Entry \cup {NoEntry}]
    <3> DEFINE d == Disposition(herdr[AgentOf(c)].status)
    <3>1. ASSUME d \in {"NeedsTerminal", "RejectedUnknown"}, Record(job[c].rid, job[c].body, d)
          PROVE  ledger' \in [Requests -> Entry \cup {NoEntry}]
      BY <1>4, <3>1 DEF Decide, Record, TypeOK, Entry, Outcomes
    <3> QED
      BY <1>4, <3>1 DEF Decide, TypeOK
  <2> QED
    BY <1>4, <2>1 DEF Decide, TypeOK, ClientPcs, WorkerPcs
<1>5. ASSUME NEW c \in Clients, DecideFails(c) PROVE TypeOK'
  BY <1>5 DEF DecideFails, TypeOK, ClientPcs, WorkerPcs, historyVars
<1>6. ASSUME NEW c \in Clients, EnqueueFollowUp(c) PROVE TypeOK'
  <2>1. items' \in [Agents -> QueuedFollowUp \cup {NoItem}]
    BY <1>6, QueueType DEF EnqueueFollowUp, TypeOK
  <2> QED
    BY <1>6, <2>1
       DEF EnqueueFollowUp, TypeOK, ClientPcs, WorkerPcs, historyVars
<1>7. ASSUME NEW c \in Clients, ScheduleQueued(c) PROVE TypeOK'
  BY <1>7, NullsAssumption
     DEF ScheduleQueued, Schedule, TypeOK, ClientPcs, WorkerPcs, historyVars
<1>8. ASSUME NEW c \in Clients, CheckOvertake(c) PROVE TypeOK'
  BY <1>8 DEF CheckOvertake, TypeOK, ClientPcs, WorkerPcs, historyVars
<1>9. ASSUME NEW c \in Clients, SendNow(c) PROVE TypeOK'
  <2>1. herdr' \in [Agents -> Occupant]
    BY <1>9, PromptType DEF SendNow, TypeOK
  <2> QED
    BY <1>9, <2>1
       DEF SendNow, PromptAccepted, PromptUncertain, CountAttempt, TypeOK,
           ClientPcs, WorkerPcs
<1>10. ASSUME NEW c \in Clients, RecordOutcome(c) PROVE TypeOK'
  BY <1>10
     DEF RecordOutcome, Record, OutcomeAt, TypeOK, ClientPcs, WorkerPcs,
         Entry, Outcomes, historyVars
<1>11. ASSUME NEW w \in Workers, ClaimItem(w) PROVE TypeOK'
  <2>1. items' \in [Agents -> QueuedFollowUp \cup {NoItem}]
    BY <1>11, QueueType DEF ClaimItem, TypeOK
  <2>2. claim' \in [Workers -> Claim \cup {NoClaim}]
    BY <1>11
       DEF ClaimItem, ClaimForDelivery, InState, Occupied, TypeOK,
           QueuedFollowUp, Claim
  <2>3. claim'[w] = NoClaim <=> pc'[w] \in {"none", "attempt", "gate"}
    BY <1>11, NullsAssumption
       DEF ClaimItem, ClaimForDelivery, InState, Occupied, TypeOK,
           QueuedFollowUp, Claim
  <2> QED
    BY <1>11, <2>1, <2>2, <2>3
       DEF ClaimItem, TypeOK, ClientPcs, WorkerPcs, historyVars
<1>12. ASSUME NEW w \in Workers, WaitSendable(w) PROVE TypeOK'
  BY <1>12 DEF WaitSendable, TypeOK, ClientPcs, WorkerPcs, historyVars
<1>13. ASSUME NEW w \in Workers, WaitRetained(w) PROVE TypeOK'
  <2>1. items' \in [Agents -> QueuedFollowUp \cup {NoItem}]
    BY <1>13, QueueType DEF WaitRetained, TypeOK
  <2> QED
    BY <1>13, <2>1 DEF WaitRetained, TypeOK, ClientPcs, WorkerPcs, historyVars
<1>14. ASSUME NEW w \in Workers, Reserve(w) PROVE TypeOK'
  BY <1>14, TakeSerializerType
     DEF Reserve, TypeOK, ClientPcs, WorkerPcs, historyVars
<1>15. ASSUME NEW w \in Workers, WorkerLock(w) PROVE TypeOK'
  BY <1>15 DEF WorkerLock, TypeOK, ClientPcs, WorkerPcs, historyVars
<1>16. ASSUME NEW w \in Workers, CheckIdentity(w) PROVE TypeOK'
  <2>1. items' \in [Agents -> QueuedFollowUp \cup {NoItem}]
    BY <1>16, QueueType DEF CheckIdentity, TypeOK
  <2> QED
    BY <1>16, <2>1 DEF CheckIdentity, TypeOK, ClientPcs, WorkerPcs
<1>17. ASSUME NEW w \in Workers, CheckFails(w) PROVE TypeOK'
  <2>1. items' \in [Agents -> QueuedFollowUp \cup {NoItem}]
    BY <1>17, QueueType DEF CheckFails, TypeOK
  <2> QED
    BY <1>17, <2>1 DEF CheckFails, TypeOK, ClientPcs, WorkerPcs, historyVars
<1>18. ASSUME NEW w \in Workers, Begin(w) PROVE TypeOK'
  <2>1. items' \in [Agents -> QueuedFollowUp \cup {NoItem}]
    BY <1>18, QueueType DEF Begin, TypeOK
  <2> QED
    BY <1>18, <2>1 DEF Begin, TypeOK, ClientPcs, WorkerPcs, historyVars
<1>19. ASSUME NEW w \in Workers, Deliver(w) PROVE TypeOK'
  <2>1. herdr' \in [Agents -> Occupant]
    BY <1>19, PromptType DEF Deliver, TypeOK
  <2> QED
    BY <1>19, <2>1
       DEF Deliver, PromptAccepted, PromptUncertain, CountAttempt, TypeOK,
           ClientPcs, WorkerPcs
<1>20. ASSUME NEW w \in Workers, FinishDelivery(w) PROVE TypeOK'
  <2>1. items' \in [Agents -> QueuedFollowUp \cup {NoItem}]
    BY <1>20, QueueType DEF FinishDelivery, TypeOK
  <2> QED
    BY <1>20, <2>1
       DEF FinishDelivery, TypeOK, ClientPcs, WorkerPcs, historyVars
<1>21. ASSUME NEW w \in Workers, ExitGate(w) PROVE TypeOK'
  BY <1>21 DEF ExitGate, TypeOK, ClientPcs, WorkerPcs, historyVars
<1>22. ASSUME NEW a \in Agents, Cancel(a) PROVE TypeOK'
  BY <1>22, QueueType
     DEF Cancel, CancelItem, InState, Occupied, QueuedFollowUp, TypeOK,
         threadVars
<1>23. ASSUME NEW a \in Agents, Edit(a) PROVE TypeOK'
  BY <1>23, QueueType DEF Edit, TypeOK, threadVars, historyVars
<1>24. ASSUME NEW a \in Agents, Rearm(a) PROVE TypeOK'
  BY <1>24, NullsAssumption
     DEF Rearm, Schedule, TypeOK, ClientPcs, WorkerPcs, historyVars
<1>25. ASSUME NEW a \in Agents, HerdrChange(a) PROVE TypeOK'
  BY <1>25, ConstantsAssumption DEF HerdrChange, TypeOK, threadVars
<1>26. ASSUME NEW r \in Requests, Forget(r) PROVE TypeOK'
  BY <1>26 DEF Forget, TypeOK, threadVars
<1>27. ASSUME UNCHANGED vars PROVE TypeOK'
  BY <1>27 DEF vars, TypeOK
<1> QED
  BY <1>1, <1>2, <1>3, <1>4, <1>5, <1>6, <1>7, <1>8, <1>9, <1>10, <1>11,
     <1>12, <1>13, <1>14, <1>15, <1>16, <1>17, <1>18, <1>19, <1>20, <1>21,
     <1>22, <1>23, <1>24, <1>25, <1>26, <1>27
     DEF Next, ClientStep, WorkerStep

\* Every value of every variable is one the code's types allow, whatever the
\* numbers of panes, requests and threads.
THEOREM TypeCorrect == Spec => []TypeOK
BY TypeInit, TypeNext, PTL DEF Spec

----------------------------------------------------------------------------
(* The conversation lock.                                                  *)
(*                                                                         *)
(* That no two threads are inside the lock of one Agent is not inductive:  *)
(* it needs that everybody who holds a reference holds the slot the map    *)
(* still shows for that Agent, which is what the reference count in the    *)
(* pruning pass is for, and that a reference is held from the lookup to    *)
(* the end of the critical section.                                        *)

HoldingPcs == LockedPcs \cup {"lock"}

ReferencesHeld == \A t \in Threads : arc[t] # NoSlot <=> pc[t] \in HoldingPcs

ReferencesCurrent ==
  \A t \in Threads :
    pc[t] \in HoldingPcs =>
      AgentOf(t) \in Agents /\ serializers[AgentOf(t)] = arc[t]

LockInv == ReferencesHeld /\ ReferencesCurrent /\ LockExclusive

LEMMA LockInit == Init => LockInv
<1> SUFFICES ASSUME Init PROVE LockInv
  OBVIOUS
<1>1. \A t \in Threads : arc[t] = NoSlot /\ pc[t] \in {"idle", "none"}
  BY DEF Init
<1> QED
  BY <1>1 DEF LockInv, ReferencesHeld, ReferencesCurrent, LockExclusive,
              InCritical, HoldingPcs, LockedPcs, TransactionPcs

\* A step of t within the lock, or outside of it, that leaves the map alone.
LEMMA LockStay ==
  ASSUME TypeOK, LockInv, NEW t \in Threads, NEW at, Goto(t, at),
         pc[t] \in HoldingPcs <=> at \in HoldingPcs,
         at \in LockedPcs => pc[t] \in LockedPcs,
         UNCHANGED <<serializers, arc>>,
         \A u \in Threads : AgentOf(u)' = AgentOf(u)
  PROVE  LockInv'
<1>1. \A u \in Threads : /\ pc'[u] \in HoldingPcs <=> pc[u] \in HoldingPcs
                         /\ pc'[u] \in LockedPcs => pc[u] \in LockedPcs
  BY DEF Goto, TypeOK
<1> QED
  BY <1>1
     DEF LockInv, ReferencesHeld, ReferencesCurrent, LockExclusive,
         InCritical

\* A step of t that ends with the guard and the reference dropped.
LEMMA LockLeave ==
  ASSUME TypeOK, LockInv, NEW t \in Threads, NEW at, Goto(t, at),
         at \notin HoldingPcs, DropSerializer(t), UNCHANGED serializers,
         \A u \in Threads \ {t} : AgentOf(u)' = AgentOf(u)
  PROVE  LockInv'
<1>1. \A u \in Threads \ {t} : pc'[u] = pc[u] /\ arc'[u] = arc[u]
  BY DEF Goto, DropSerializer, TypeOK
<1>2. pc'[t] \notin HoldingPcs /\ arc'[t] = NoSlot /\ pc'[t] \notin LockedPcs
  BY DEF Goto, DropSerializer, TypeOK, HoldingPcs
<1> QED
  BY <1>1, <1>2
     DEF LockInv, ReferencesHeld, ReferencesCurrent, LockExclusive, InCritical

\* A lookup: the pruning pass keeps every slot some thread references.
LEMMA LockReserve ==
  ASSUME TypeOK, LockInv, NEW t \in Threads, NEW a \in Agents,
         pc[t] \notin HoldingPcs, TakeSerializer(t, a), Goto(t, "lock"),
         AgentOf(t)' = a,
         \A u \in Threads \ {t} : AgentOf(u)' = AgentOf(u)
  PROVE  LockInv'
<1>1. Pruned \in [Agents -> Slots \cup {NoSlot}]
  BY DEF Pruned, TypeOK
<1>2. PICK slot \in Slots \cup {NoSlot} :
        /\ slot \in IF Pruned[a] # NoSlot THEN {Pruned[a]} ELSE FreshSlots
        /\ serializers' = [Pruned EXCEPT ![a] = slot]
        /\ arc' = [arc EXCEPT ![t] = slot]
  BY <1>1 DEF TakeSerializer, FreshSlots
<1>3. slot # NoSlot
  BY <1>2, NullsAssumption DEF FreshSlots
<1>4. \A u \in Threads \ {t} : pc'[u] = pc[u] /\ arc'[u] = arc[u]
  BY <1>2 DEF Goto, TypeOK
<1>5. pc'[t] = "lock" /\ arc'[t] = slot /\ serializers'[a] = slot
  BY <1>1, <1>2 DEF Goto, TypeOK
<1>6. ASSUME NEW u \in Threads \ {t}, pc[u] \in HoldingPcs
      PROVE  serializers'[AgentOf(u)] = arc[u]
  <2>1. /\ AgentOf(u) \in Agents
        /\ arc[u] # NoSlot
        /\ serializers[AgentOf(u)] = arc[u]
    BY <1>6 DEF LockInv, ReferencesHeld, ReferencesCurrent
  <2>2. Pruned[AgentOf(u)] = arc[u]
    BY <2>1 DEF Pruned, Referenced
  <2> QED
    BY <1>1, <1>2, <2>1, <2>2
<1>7. "lock" \in HoldingPcs /\ "lock" \notin LockedPcs
  BY DEF HoldingPcs, LockedPcs, TransactionPcs
<1> QED
  BY <1>3, <1>4, <1>5, <1>6, <1>7
     DEF LockInv, ReferencesHeld, ReferencesCurrent, LockExclusive, InCritical

\* Entering: whoever is inside the lock of the same Agent has the same slot.
LEMMA LockEnter ==
  ASSUME TypeOK, LockInv, NEW t \in Threads, NEW at, Goto(t, at),
         pc[t] = "lock", at \in LockedPcs, SlotFree(t),
         UNCHANGED <<serializers, arc>>,
         \A u \in Threads : AgentOf(u)' = AgentOf(u)
  PROVE  LockInv'
<1>1. \A u \in Threads \ {t} : pc'[u] = pc[u]
  BY DEF Goto, TypeOK
<1>2. pc'[t] = at /\ at \in HoldingPcs /\ pc[t] \in HoldingPcs
  BY DEF Goto, TypeOK, HoldingPcs
<1>3. LockExclusive'
  <2> SUFFICES ASSUME NEW u \in Threads, u # t, pc[u] \in LockedPcs,
                      AgentOf(u) = AgentOf(t)
               PROVE  FALSE
    BY <1>1 DEF LockExclusive, InCritical, LockInv
  <2>1. arc[u] = arc[t]
    BY <1>2 DEF LockInv, ReferencesCurrent, HoldingPcs
  <2> QED
    BY <2>1 DEF SlotFree, InCritical
<1> QED
  BY <1>1, <1>2, <1>3 DEF LockInv, ReferencesHeld, ReferencesCurrent

\* A spawned worker holds nothing, and nobody else moves.
LEMMA LockSchedule ==
  ASSUME TypeOK, LockInv, NEW a \in Agents, NEW at, Schedule(a, at),
         \A u \in Threads : /\ at[u] \in HoldingPcs <=> pc[u] \in HoldingPcs
                            /\ at[u] \in LockedPcs => pc[u] \in LockedPcs,
         DOMAIN at = Threads,
         UNCHANGED <<serializers, arc, job>>
  PROVE  LockInv'
<1>1. {"none", "attempt"} \cap HoldingPcs = {} /\ LockedPcs \subseteq HoldingPcs
  BY DEF HoldingPcs, LockedPcs, TransactionPcs
<1>2. \A u \in Threads : /\ pc'[u] \in HoldingPcs <=> pc[u] \in HoldingPcs
                         /\ pc'[u] \in LockedPcs => pc[u] \in LockedPcs
  BY <1>1, ThreadKinds DEF Schedule
<1>3. \A u \in Threads : pc[u] \in HoldingPcs => AgentOf(u)' = AgentOf(u)
  BY <1>1 DEF Schedule, AgentOf, TypeOK
<1> QED
  BY <1>1, <1>2, <1>3
     DEF LockInv, ReferencesHeld, ReferencesCurrent, LockExclusive, InCritical

\* Which threads a step can give another Agent.
LEMMA AgentSame ==
  /\ UNCHANGED <<job, target>> => \A u \in Threads : AgentOf(u)' = AgentOf(u)
  /\ \A c \in Clients :
       TypeOK /\ UNCHANGED target /\ job' = [job EXCEPT ![c] = NoJob] =>
         \A u \in Threads \ {c} : AgentOf(u)' = AgentOf(u)
BY ThreadKinds DEF AgentOf, TypeOK

LEMMA LockNext == TypeOK /\ TypeOK' /\ LockInv /\ [Next]_vars => LockInv'
<1> SUFFICES ASSUME TypeOK, TypeOK', LockInv, [Next]_vars PROVE LockInv'
  OBVIOUS
<1> USE ThreadKinds
<1> DEFINE Outside == {"idle", "none", "attempt", "wait", "reserve", "gate"}
<1>a. /\ \A at \in Outside : at \notin HoldingPcs /\ at \notin LockedPcs
      /\ \A at \in LockedPcs : at \in HoldingPcs
      /\ "lock" \in HoldingPcs /\ "lock" \notin LockedPcs
      /\ {"ledger", "read", "enqueue", "schedule", "queued", "overtake",
          "prompt", "accepted", "uncertain", "check", "begin", "rejected"}
           = LockedPcs
  BY DEF HoldingPcs, LockedPcs, TransactionPcs
<1> HIDE DEF Outside
<1>b. {"idle", "none", "attempt", "wait", "reserve", "gate"} = Outside
  BY DEF Outside
<1>c. ASSUME NEW c \in Clients, Return(c), UNCHANGED <<serializers, target>>
      PROVE  LockInv'
  BY <1>c, <1>a, <1>b, AgentSame, LockLeave DEF Return
<1>1. ASSUME NEW c \in Clients, Submit(c) PROVE LockInv'
  <2>1. PICK r \in Requests, body \in Bodies :
          /\ job' = [job EXCEPT ![c] = [rid |-> r, body |-> body]]
          /\ TakeSerializer(c, body.agent)
    BY <1>1 DEF Submit
  <2>2. body.agent \in Agents /\ [rid |-> r, body |-> body] # NoJob
    BY ConstantsAssumption, NullsAssumption DEF Body, Job
  <2>3. AgentOf(c)' = body.agent
    BY <2>1, <2>2 DEF AgentOf, TypeOK
  <2>4. \A u \in Threads \ {c} : AgentOf(u)' = AgentOf(u)
    BY <1>1, <2>1 DEF AgentOf, TypeOK, Submit
  <2> QED
    BY <1>1, <1>a, <1>b, <2>1, <2>2, <2>3, <2>4, LockReserve DEF Submit
<1>2. ASSUME NEW c \in Clients, ClientLock(c) PROVE LockInv'
  BY <1>2, <1>a, AgentSame, LockEnter DEF ClientLock
<1>3. ASSUME NEW c \in Clients, Lookup(c) PROVE LockInv'
  BY <1>3, <1>a, <1>c, AgentSame, LockStay DEF Lookup
<1>4. ASSUME NEW c \in Clients, Decide(c) PROVE LockInv'
  BY <1>4, <1>a, <1>c, AgentSame, LockStay DEF Decide
<1>5. ASSUME NEW c \in Clients, DecideFails(c) PROVE LockInv'
  BY <1>5, <1>c DEF DecideFails
<1>6. ASSUME NEW c \in Clients, EnqueueFollowUp(c) PROVE LockInv'
  BY <1>6, <1>a, <1>c, AgentSame, LockStay DEF EnqueueFollowUp
<1>7. ASSUME NEW c \in Clients, ScheduleQueued(c) PROVE LockInv'
  <2> DEFINE at == [pc EXCEPT ![c] = "queued"]
  <2>1. \A u \in Threads : /\ at[u] \in HoldingPcs <=> pc[u] \in HoldingPcs
                           /\ at[u] \in LockedPcs => pc[u] \in LockedPcs
    BY <1>7, <1>a DEF ScheduleQueued, TypeOK
  <2>2. AgentOf(c) \in Agents
    BY <1>7, AgentKnown DEF ScheduleQueued
  <2>3. DOMAIN at = Threads
    BY DEF TypeOK
  <2> QED
    BY <1>7, <2>1, <2>2, <2>3, LockSchedule DEF ScheduleQueued
<1>8. ASSUME NEW c \in Clients, CheckOvertake(c) PROVE LockInv'
  BY <1>8, <1>a, <1>c, AgentSame, LockStay DEF CheckOvertake
<1>9. ASSUME NEW c \in Clients, SendNow(c) PROVE LockInv'
  BY <1>9, <1>a, <1>c, AgentSame, LockStay
     DEF SendNow, PromptAccepted, PromptUncertain
<1>10. ASSUME NEW c \in Clients, RecordOutcome(c) PROVE LockInv'
  BY <1>10, <1>c DEF RecordOutcome
<1>11. ASSUME NEW w \in Workers, ClaimItem(w) PROVE LockInv'
  BY <1>11, <1>a, <1>b, AgentSame, LockStay DEF ClaimItem, WorkerGoto
<1>12. ASSUME NEW w \in Workers, WaitSendable(w) PROVE LockInv'
  BY <1>12, <1>a, <1>b, AgentSame, LockStay DEF WaitSendable
<1>13. ASSUME NEW w \in Workers, WaitRetained(w) PROVE LockInv'
  BY <1>13, <1>a, <1>b, AgentSame, LockStay DEF WaitRetained, WorkerGoto
<1>14. ASSUME NEW w \in Workers, Reserve(w) PROVE LockInv'
  <2>1. target[w] \in Agents /\ AgentOf(w) = target[w]
    BY <1>14, AgentKnown DEF Reserve
  <2> QED
    BY <1>14, <1>a, <1>b, <2>1, AgentSame, LockReserve DEF Reserve
<1>15. ASSUME NEW w \in Workers, WorkerLock(w) PROVE LockInv'
  BY <1>15, <1>a, AgentSame, LockEnter DEF WorkerLock
<1>16. ASSUME NEW w \in Workers, CheckIdentity(w) PROVE LockInv'
  BY <1>16, <1>a, <1>b, AgentSame, LockStay, LockLeave
     DEF CheckIdentity, WorkerGoto
<1>17. ASSUME NEW w \in Workers, CheckFails(w) PROVE LockInv'
  BY <1>17, <1>a, <1>b, AgentSame, LockLeave DEF CheckFails, WorkerGoto
<1>18. ASSUME NEW w \in Workers, Begin(w) PROVE LockInv'
  BY <1>18, <1>a, <1>b, AgentSame, LockStay, LockLeave DEF Begin, WorkerGoto
<1>19. ASSUME NEW w \in Workers, Deliver(w) PROVE LockInv'
  BY <1>19, <1>a, AgentSame, LockStay
     DEF Deliver, PromptAccepted, PromptUncertain
<1>20. ASSUME NEW w \in Workers, FinishDelivery(w) PROVE LockInv'
  BY <1>20, <1>a, <1>b, AgentSame, LockLeave DEF FinishDelivery, WorkerGoto
<1>21. ASSUME NEW w \in Workers, ExitGate(w) PROVE LockInv'
  BY <1>21, <1>a, <1>b, AgentSame, LockStay DEF ExitGate, WorkerGoto
<1>22. ASSUME UNCHANGED <<serializers, arc, pc, job, target>> PROVE LockInv'
  BY <1>22, AgentSame
     DEF LockInv, ReferencesHeld, ReferencesCurrent, LockExclusive, InCritical
<1>23. ASSUME NEW a \in Agents, Rearm(a) PROVE LockInv'
  BY <1>23, LockSchedule DEF Rearm, TypeOK
<1>24. ASSUME NEW a \in Agents, Cancel(a) \/ Edit(a) \/ HerdrChange(a)
       PROVE  LockInv'
  BY <1>22, <1>24 DEF Cancel, Edit, HerdrChange, threadVars
<1>25. ASSUME NEW r \in Requests, Forget(r) PROVE LockInv'
  BY <1>22, <1>25 DEF Forget, threadVars
<1> QED
  BY <1>1, <1>2, <1>3, <1>4, <1>5, <1>6, <1>7, <1>8, <1>9, <1>10, <1>11,
     <1>12, <1>13, <1>14, <1>15, <1>16, <1>17, <1>18, <1>19, <1>20, <1>21,
     <1>22, <1>23, <1>24, <1>25
     DEF Next, ClientStep, WorkerStep, vars

\* Everybody who holds a reference holds the slot the map shows, and a reference
\* is held exactly from the lookup to the end of the critical section.
THEOREM LockInvCorrect == Spec => []LockInv
BY TypeCorrect, LockInit, LockNext, PTL DEF Spec

\* Two threads never stand inside the conversation lock of one Agent, however
\* many threads look locks up, and prune the map, while others wait for theirs.
THEOREM LockExclusiveCorrect == Spec => []LockExclusive
<1>1. LockInv => LockExclusive
  BY DEF LockInv
<1> QED
  BY <1>1, LockInvCorrect, PTL
=============================================================================
