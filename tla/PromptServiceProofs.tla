------------------------- MODULE PromptServiceProofs -------------------------
(***************************************************************************)
(* What the lock, the queue and the ledger of PromptDelivery give together,*)
(* for every number of Agents, requests, clients and workers: a prompt     *)
(* meets the occupant that was verified and overtakes nothing, no claim is *)
(* orphaned and no item is lost, and seen from outside the whole is the    *)
(* service PromptOnce describes.                                           *)
(***************************************************************************)
EXTENDS PromptOnceProofs

USE DEF Threads

----------------------------------------------------------------------------
(* The check-then-prompt.                                                  *)
(*                                                                         *)
(* From its read of the occupant to its prompt a thread is sure of the     *)
(* occupant, or Herdr has moved.  Whoever prompts the same Agent, or reads *)
(* it again and so forgets that it moved, would have to be in the lock.    *)

SurePcs == {"overtake", "begin", "prompt"}

Sure(t) ==
  pc[t] \in SurePcs /\ AgentOf(t) \notin moved =>
    /\ herdr[AgentOf(t)].session = SessionOf(t)
    /\ herdr[AgentOf(t)].status = "sendable"

SureInv == \A t \in Threads : Sure(t)

\* t stands where it is sure only if it stood there before, for the same Agent
\* and the same session.
StillSure(t) ==
  pc'[t] \in SurePcs =>
    /\ pc[t] \in SurePcs
    /\ AgentOf(t)' = AgentOf(t)
    /\ SessionOf(t)' = SessionOf(t)

LEMMA SureFrame ==
  ASSUME SureInv, UNCHANGED <<herdr, moved>>, \A t \in Threads : StillSure(t)
  PROVE  SureInv'
BY DEF SureInv, Sure, StillSure

\* Inside the lock of its Agent, t can disturb nobody else.
LEMMA SureOthers ==
  ASSUME LockInv, SureInv, NEW t \in Threads, InCritical(t),
         \A u \in Threads \ {t} : StillSure(u),
         \A b \in Agents \ {AgentOf(t)} :
           herdr'[b] = herdr[b] /\ (b \in moved' <=> b \in moved),
         Sure(t)'
  PROVE  SureInv'
<1>1. ASSUME NEW u \in Threads \ {t} PROVE Sure(u)'
  <2> SUFFICES ASSUME pc'[u] \in SurePcs PROVE Sure(u)'
    BY DEF Sure
  <2>1. /\ pc[u] \in SurePcs /\ AgentOf(u)' = AgentOf(u)
        /\ SessionOf(u)' = SessionOf(u)
    BY DEF StillSure
  <2>2. InCritical(u) /\ AgentOf(u) \in Agents \ {AgentOf(t)}
    BY <2>1
       DEF LockInv, LockExclusive, ReferencesCurrent, HoldingPcs, InCritical,
         SurePcs, LockedPcs, TransactionPcs
  <2> QED
    BY <2>1, <2>2 DEF SureInv, Sure
<1> QED
  BY <1>1 DEF SureInv

\* A step of one thread leaves the others as sure as they were.
LEMMA ClientLeavesSure ==
  ASSUME TypeOK, NEW c \in Clients, UNCHANGED <<target, claim>>,
         NEW at, Goto(c, at),
         UNCHANGED job \/ \E x : job' = [job EXCEPT ![c] = x]
  PROVE  \A u \in Threads \ {c} : StillSure(u)
<1>1. \A d \in Clients \ {c} : job'[d] = job[d]
  <2>1. ASSUME NEW x, job' = [job EXCEPT ![c] = x]
        PROVE  \A d \in Clients \ {c} : job'[d] = job[d]
    BY <2>1 DEF TypeOK
  <2> QED
    BY <2>1
<1>2. \A u \in Threads \ {c} : pc'[u] = pc[u]
  BY DEF Goto, TypeOK
<1> QED
  BY <1>1, <1>2, ThreadKinds DEF StillSure, AgentOf, SessionOf

LEMMA WorkerLeavesSure ==
  ASSUME TypeOK, NEW w \in Workers, UNCHANGED <<job, target>>,
         NEW at, Goto(w, at),
         UNCHANGED claim \/ \E x : claim' = [claim EXCEPT ![w] = x]
  PROVE  \A u \in Threads \ {w} : StillSure(u)
<1>1. \A u \in Threads \ {w} :
        pc'[u] = pc[u] /\ (u \in Workers => claim'[u] = claim[u])
  BY ThreadKinds DEF Goto, TypeOK
<1> QED
  BY <1>1, ThreadKinds DEF StillSure, AgentOf, SessionOf

LEMMA SureInit == Init => SureInv
BY ThreadKinds DEF Init, SureInv, Sure, SurePcs

LEMMA SureNext == TypeOK /\ LockInv /\ SureInv /\ [Next]_vars => SureInv'
<1> SUFFICES ASSUME TypeOK, LockInv, SureInv, [Next]_vars PROVE SureInv'
  OBVIOUS
<1> USE ThreadKinds
<1>s. /\ \A at \in {"idle", "none", "lock", "ledger", "read", "enqueue",
                    "schedule", "queued", "accepted", "uncertain", "attempt",
                    "wait", "reserve", "check", "rejected", "gate"} :
           at \notin SurePcs
      /\ SurePcs = {"overtake", "begin", "prompt"}
  BY DEF SurePcs
<1>a. ASSUME NEW c \in Clients, UNCHANGED <<target, claim, herdr, moved>>,
             NEW at, Goto(c, at), NEW x, job' = [job EXCEPT ![c] = x],
             at \notin SurePcs
      PROVE  SureInv'
  <2>1. StillSure(c)
    BY <1>a DEF StillSure, Goto, TypeOK
  <2> QED
    BY <1>a, <2>1, ClientLeavesSure, SureFrame
<1>b. ASSUME NEW c \in Clients, UNCHANGED <<job, target, claim, herdr, moved>>,
             NEW at, Goto(c, at), at \in SurePcs => pc[c] \in SurePcs
      PROVE  SureInv'
  <2>1. StillSure(c)
    BY <1>b, AgentSame DEF StillSure, SessionOf, Goto, TypeOK
  <2> QED
    BY <1>b, <2>1, ClientLeavesSure, SureFrame
<1>c. ASSUME NEW w \in Workers, UNCHANGED <<job, target, herdr, moved>>,
             NEW at, Goto(w, at),
             UNCHANGED claim \/ \E x : claim' = [claim EXCEPT ![w] = x],
             \/ at \notin SurePcs
             \/ pc[w] \in SurePcs /\ claim'[w] = claim[w]
      PROVE  SureInv'
  <2>1. StillSure(w)
    BY <1>c, AgentSame DEF StillSure, SessionOf, Goto, TypeOK
  <2> QED
    BY <1>c, <2>1, WorkerLeavesSure, SureFrame
<1>1. ASSUME NEW c \in Clients, Submit(c) PROVE SureInv'
  BY <1>1, <1>a, <1>s DEF Submit, historyVars
<1>2. ASSUME NEW c \in Clients, ClientLock(c) PROVE SureInv'
  BY <1>2, <1>b, <1>s DEF ClientLock, historyVars
<1>3. ASSUME NEW c \in Clients, Lookup(c) PROVE SureInv'
  BY <1>3, <1>a, <1>b, <1>s DEF Lookup, Return, historyVars
<1>4. ASSUME NEW c \in Clients, Decide(c) PROVE SureInv'
  <2>1. InCritical(c) /\ AgentOf(c) \in Agents
    BY <1>4, AgentKnown DEF Decide, InCritical, LockedPcs, TransactionPcs
  <2>2. \A u \in Threads \ {c} : StillSure(u)
    BY <1>4, ClientLeavesSure DEF Decide, Return
  <2>3. Sure(c)'
    <3> SUFFICES ASSUME pc'[c] \in SurePcs PROVE Sure(c)'
      BY DEF Sure
    <3> DEFINE d == Disposition(herdr[AgentOf(c)].status)
    <3>1. d = "SentNow" /\ UNCHANGED job
      BY <1>4, <1>s DEF Decide, Return, Goto, TypeOK
    <3>2. herdr[AgentOf(c)].status = "sendable"
      <4>1. herdr[AgentOf(c)].status \in Statuses
        BY <2>1 DEF TypeOK, Occupant
      <4> QED
        BY <3>1, <4>1 DEF Disposition, Statuses
    <3>3. UNCHANGED <<herdr, target, claim>> /\ ValidateOccupant(c)
      BY <1>4 DEF Decide
    <3>4. AgentOf(c)' = AgentOf(c) /\ SessionOf(c)' = SessionOf(c)
      BY <3>1, <3>3, AgentSame DEF SessionOf
    <3> QED
      BY <3>2, <3>3, <3>4 DEF Sure, ValidateOccupant
  <2> QED
    BY <1>4, <2>1, <2>2, <2>3, SureOthers DEF Decide
<1>5. ASSUME NEW c \in Clients, DecideFails(c) PROVE SureInv'
  BY <1>5, <1>a, <1>s DEF DecideFails, Return, historyVars
<1>6. ASSUME NEW c \in Clients, EnqueueFollowUp(c) PROVE SureInv'
  BY <1>6, <1>a, <1>b, <1>s DEF EnqueueFollowUp, Return, historyVars
<1>7. ASSUME NEW c \in Clients, ScheduleQueued(c) PROVE SureInv'
  <2>1. \A u \in Threads : StillSure(u)
    BY <1>7, <1>s
       DEF ScheduleQueued, Schedule, StillSure, AgentOf, SessionOf, TypeOK
  <2> QED
    BY <1>7, <2>1, SureFrame DEF ScheduleQueued, historyVars
<1>8. ASSUME NEW c \in Clients, CheckOvertake(c) PROVE SureInv'
  BY <1>8, <1>a, <1>b, <1>s DEF CheckOvertake, Return, historyVars
<1>9. ASSUME NEW t \in Threads, pc[t] = "prompt", AgentOf(t) \in Agents,
             PromptAccepted(t) \/ PromptUncertain(t),
             UNCHANGED <<job, target, claim, moved>>
      PROVE  SureInv'
  <2>1. InCritical(t)
    BY <1>9 DEF InCritical, LockedPcs, TransactionPcs
  <2>2. PICK at \in {"accepted", "uncertain"} : Goto(t, at)
    BY <1>9 DEF PromptAccepted, PromptUncertain
  <2>3. \A u \in Threads \ {t} : StillSure(u)
    <3>1. CASE t \in Clients
      BY <1>9, <2>2, <3>1, ClientLeavesSure
    <3>2. CASE t \in Workers
      BY <1>9, <2>2, <3>2, WorkerLeavesSure
    <3> QED
      BY <3>1, <3>2
  <2>4. \A b \in Agents \ {AgentOf(t)} : herdr'[b] = herdr[b]
    BY <1>9 DEF PromptAccepted, PromptUncertain, TypeOK
  <2>5. Sure(t)'
    BY <2>2, <1>s DEF Sure, Goto, TypeOK
  <2> QED
    BY <1>9, <2>1, <2>2, <2>3, <2>4, <2>5, SureOthers
<1>10. ASSUME NEW c \in Clients, SendNow(c) PROVE SureInv'
  <2>1. pc[c] = "prompt" /\ AgentOf(c) \in Agents
    BY <1>10, AgentKnown DEF SendNow
  <2> QED
    BY <1>10, <2>1, <1>a, <1>9, <1>s DEF SendNow, Return
<1>11. ASSUME NEW c \in Clients, RecordOutcome(c) PROVE SureInv'
  BY <1>11, <1>a, <1>s DEF RecordOutcome, Return, historyVars
<1>12. ASSUME NEW w \in Workers, ClaimItem(w) PROVE SureInv'
  BY <1>12, <1>c, <1>s DEF ClaimItem, WorkerGoto, historyVars
<1>13. ASSUME NEW w \in Workers, WaitSendable(w) PROVE SureInv'
  BY <1>13, <1>c, <1>s DEF WaitSendable, historyVars
<1>14. ASSUME NEW w \in Workers, WaitRetained(w) PROVE SureInv'
  BY <1>14, <1>c, <1>s DEF WaitRetained, WorkerGoto, historyVars
<1>15. ASSUME NEW w \in Workers, Reserve(w) PROVE SureInv'
  BY <1>15, <1>c, <1>s DEF Reserve, historyVars
<1>16. ASSUME NEW w \in Workers, WorkerLock(w) PROVE SureInv'
  BY <1>16, <1>c, <1>s DEF WorkerLock, historyVars
<1>17. ASSUME NEW w \in Workers, CheckIdentity(w) PROVE SureInv'
  <2>1. InCritical(w) /\ AgentOf(w) = target[w]
    BY <1>17, AgentKnown DEF CheckIdentity, InCritical, LockedPcs
  <2>2. \A u \in Threads \ {w} : StillSure(u)
    BY <1>17, WorkerLeavesSure DEF CheckIdentity, WorkerGoto
  <2>3. Sure(w)'
    <3> SUFFICES ASSUME pc'[w] \in SurePcs PROVE Sure(w)'
      BY DEF Sure
    <3>1. /\ IdentityMatches(w) /\ herdr[target[w]].status = "sendable"
          /\ claim'[w] = claim[w] /\ UNCHANGED <<herdr, job, target>>
      BY <1>17, <1>s DEF CheckIdentity, WorkerGoto, Goto, TypeOK
    <3>2. AgentOf(w)' = target[w] /\ SessionOf(w)' = claim[w].session
      BY <2>1, <3>1, AgentSame DEF SessionOf
    <3> QED
      BY <3>1, <3>2 DEF Sure, IdentityMatches
  <2> QED
    BY <1>17, <2>1, <2>2, <2>3, SureOthers DEF CheckIdentity
<1>18. ASSUME NEW w \in Workers, CheckFails(w) PROVE SureInv'
  BY <1>18, <1>c, <1>s DEF CheckFails, WorkerGoto, historyVars
<1>19. ASSUME NEW w \in Workers, Begin(w) PROVE SureInv'
  <2>1. pc[w] \in SurePcs /\ (pc'[w] \in SurePcs => claim'[w] = claim[w])
    BY <1>19, <1>s DEF Begin, WorkerGoto, Goto, TypeOK
  <2> QED
    BY <1>19, <2>1, <1>c, <1>s DEF Begin, WorkerGoto, Goto, TypeOK, historyVars
<1>20. ASSUME NEW w \in Workers, Deliver(w) PROVE SureInv'
  <2>1. pc[w] = "prompt" /\ AgentOf(w) \in Agents
    BY <1>20, AgentKnown DEF Deliver
  <2> QED
    BY <1>20, <2>1, <1>c, <1>9, <1>s DEF Deliver
<1>21. ASSUME NEW w \in Workers, FinishDelivery(w) PROVE SureInv'
  BY <1>21, <1>c, <1>s DEF FinishDelivery, WorkerGoto, historyVars
<1>22. ASSUME NEW w \in Workers, ExitGate(w) PROVE SureInv'
  BY <1>22, <1>c, <1>s DEF ExitGate, WorkerGoto, historyVars
<1>23. ASSUME NEW a \in Agents, HerdrChange(a) PROVE SureInv'
  <2>1. UNCHANGED <<pc, job, target, claim>>
    BY <1>23 DEF HerdrChange, threadVars
  <2>2. \A t \in Threads : AgentOf(t)' = AgentOf(t) /\ SessionOf(t)' = SessionOf(t)
    BY <2>1, AgentSame DEF SessionOf
  <2>3. ASSUME NEW t \in Threads, pc[t] \in SurePcs, AgentOf(t) \notin moved'
        PROVE  AgentOf(t) \notin moved /\ herdr'[AgentOf(t)] = herdr[AgentOf(t)]
    BY <1>23, <2>3 DEF HerdrChange, PastReadPcs, SurePcs, TypeOK
  <2> QED
    BY <2>1, <2>2, <2>3 DEF SureInv, Sure
<1>24. ASSUME UNCHANGED <<pc, job, target, claim, herdr, moved>> PROVE SureInv'
  BY <1>24, AgentSame, SureFrame DEF StillSure, SessionOf
<1>25. ASSUME NEW a \in Agents, Cancel(a) \/ Edit(a) PROVE SureInv'
  BY <1>24, <1>25 DEF Cancel, Edit, threadVars, historyVars
<1>26. ASSUME NEW r \in Requests, Forget(r) PROVE SureInv'
  BY <1>24, <1>26 DEF Forget, threadVars
<1>27. ASSUME NEW a \in Agents, Rearm(a) PROVE SureInv'
  <2>1. \A u \in Threads : StillSure(u)
    BY <1>27, <1>s DEF Rearm, Schedule, StillSure, AgentOf, SessionOf, TypeOK
  <2> QED
    BY <1>27, <2>1, SureFrame DEF Rearm, historyVars
<1> QED
  BY <1>1, <1>2, <1>3, <1>4, <1>5, <1>6, <1>7, <1>8, <1>10, <1>11,
     <1>12, <1>13, <1>14, <1>15, <1>16, <1>17, <1>18, <1>19, <1>20, <1>21,
     <1>22, <1>23, <1>24, <1>25, <1>26, <1>27
     DEF Next, ClientStep, WorkerStep, vars

\* A thread about to prompt faces the session it verified, settled, unless Herdr
\* moved after that read: the check-then-prompt under the conversation lock
\* leaves no room for another thread of the Host.
THEOREM PromptsSettledOccupantCorrect == Spec => []PromptsSettledOccupant
<1>1. SureInv => PromptsSettledOccupant
  BY DEF SureInv, Sure, SurePcs, PromptsSettledOccupant
<1> QED
  BY <1>1, SureInit, SureNext, TypeCorrect, LockInvCorrect, PTL DEF Spec

----------------------------------------------------------------------------
(* What the queue holds.                                                   *)

\* What stands in a slot is what stood there before, in whatever state.
Stays(a) ==
  Occupied(a)' =>
    /\ Occupied(a)
    /\ items'[a].rid = items[a].rid
    /\ items'[a].session = items[a].session

\* Only an enqueue puts an item into a slot.
LEMMA QueueStays ==
  ASSUME TypeOK, NEW a \in Agents, NEW q
  PROVE  /\ ClaimForDelivery(a) \/ CancelItem(a) => \A b \in Agents : Stays(b)
         /\ BeginDelivery(a, q) \/ ReleaseClaim(a, q) \/ FinishRemove(a, q) =>
              \A b \in Agents : Stays(b)
         /\ \A state \in TerminalStates :
              FinishRetain(a, q, state) => \A b \in Agents : Stays(b)
         /\ \A text \in Texts : ReplaceText(a, text) => \A b \in Agents : Stays(b)
<1> USE NoItemAssumption DEF Stays, Occupied
<1>1. ASSUME NEW state, InState(a, QueueState),
             items' = [items EXCEPT ![a].state = state]
      PROVE  \A b \in Agents : Stays(b)
  BY <1>1 DEF InState, TypeOK, QueuedFollowUp
<1>2. ASSUME items' = [items EXCEPT ![a] = NoItem]
      PROVE  \A b \in Agents : Stays(b)
  BY <1>2 DEF TypeOK
<1>3. ASSUME items' = items PROVE \A b \in Agents : Stays(b)
  BY <1>3
<1>4. ASSUME NEW text \in Texts, ReplaceText(a, text)
      PROVE  \A b \in Agents : Stays(b)
  BY <1>4 DEF ReplaceText, InState, TypeOK, QueuedFollowUp
<1>5. \A states : InState(a, states) => InState(a, QueueState)
  BY DEF InState, TypeOK, QueuedFollowUp
<1> HIDE DEF Stays, Occupied
<1>6. ClaimForDelivery(a) \/ CancelItem(a) => \A b \in Agents : Stays(b)
  BY <1>1, <1>2, <1>5 DEF ClaimForDelivery, CancelItem
<1>7. BeginDelivery(a, q) \/ ReleaseClaim(a, q) \/ FinishRemove(a, q) =>
        \A b \in Agents : Stays(b)
  BY <1>1, <1>2, <1>3, <1>5
     DEF BeginDelivery, ReleaseClaim, FinishRemove, ClaimStands
<1>8. ASSUME NEW state \in TerminalStates, FinishRetain(a, q, state)
      PROVE  \A b \in Agents : Stays(b)
  BY <1>1, <1>3, <1>5, <1>8 DEF FinishRetain
<1> QED
  BY <1>4, <1>6, <1>7, <1>8

\* A step that does not enqueue at a leaves there what was there, or nothing.
LEMMA OnlyEnqueueFills ==
  ASSUME TypeOK, [Next]_vars, NEW a \in Agents,
         \A c \in Clients : EnqueueFollowUp(c) => job[c].body.agent # a
  PROVE  Stays(a)
<1> USE ThreadKinds
<1>1. ASSUME UNCHANGED items PROVE Stays(a)
  BY <1>1 DEF Stays, Occupied
<1>2. ASSUME NEW c \in Clients, Submit(c) \/ ClientStep(c) PROVE Stays(a)
  <2>1. CASE EnqueueFollowUp(c)
    BY <2>1, <1>1 DEF EnqueueFollowUp, Enqueue, Stays, Occupied, TypeOK
  <2> QED
    BY <1>2, <1>1, <2>1
       DEF Submit, ClientStep, ClientLock, Lookup, Decide, DecideFails,
           ScheduleQueued, CheckOvertake, SendNow, RecordOutcome
<1>3. ASSUME NEW w \in Workers, WorkerStep(w) PROVE Stays(a)
  <2>1. pc[w] # "none" => target[w] \in Agents
    BY AgentKnown
  <2>2. {"FailedRecoverable", "DeliveryUncertain"} = TerminalStates
    BY DEF TerminalStates
  <2> QED
    BY <1>1, <1>3, <2>1, <2>2, QueueStays
       DEF WorkerStep, ClaimItem, WaitSendable, WaitRetained, Reserve,
           WorkerLock, CheckIdentity, CheckFails, Begin, Deliver,
           FinishDelivery, ExitGate
<1>4. ASSUME NEW b \in Agents, Cancel(b) \/ Edit(b) \/ Rearm(b) \/ HerdrChange(b)
      PROVE  Stays(a)
  BY <1>1, <1>4, QueueStays DEF Cancel, Edit, Rearm, HerdrChange
<1>5. ASSUME NEW r \in Requests, Forget(r) PROVE Stays(a)
  BY <1>1, <1>5 DEF Forget
<1> QED
  BY <1>1, <1>2, <1>3, <1>4, <1>5 DEF Next, vars

\* Nobody else can enqueue while a client stands between its overtake check and
\* its prompt: he would be in the same lock.
LEMMA OvertakingNext ==
  TypeOK /\ LockInv /\ NoOvertaking /\ [Next]_vars => NoOvertaking'
<1> SUFFICES ASSUME TypeOK, LockInv, NoOvertaking, [Next]_vars,
                    NEW c \in Clients, pc'[c] = "prompt"
             PROVE  ~ HasUnresolved(AgentOf(c), SessionOf(c))'
  BY DEF NoOvertaking
<1> USE ThreadKinds
<1>1. CASE pc[c] = "prompt"
  <2>1. job'[c] = job[c]
    <3>1. ASSUME NEW d \in Clients, Submit(d) \/ ClientStep(d)
          PROVE  job'[c] = job[c]
      BY <1>1, <3>1
         DEF Submit, ClientStep, ClientLock, Lookup, Decide, DecideFails,
             EnqueueFollowUp, ScheduleQueued, CheckOvertake, SendNow,
             RecordOutcome, Return, Goto, TypeOK
    <3> QED
      BY <3>1
         DEF Next, vars, WorkerStep, ClaimItem, WaitSendable, WaitRetained,
           Reserve, WorkerLock, CheckIdentity, CheckFails, Begin, Deliver,
           FinishDelivery, ExitGate, Cancel, Edit, Rearm, HerdrChange, Forget,
           threadVars
  <2>2. /\ AgentOf(c)' = AgentOf(c) /\ SessionOf(c)' = SessionOf(c)
        /\ AgentOf(c) \in Agents
    BY <1>1, <2>1, AgentKnown DEF AgentOf, SessionOf
  <2>3. ASSUME NEW d \in Clients, EnqueueFollowUp(d)
        PROVE  job[d].body.agent # AgentOf(c)
    <3>1. pc[d] = "enqueue" /\ AgentOf(d) = job[d].body.agent
      BY <2>3, AgentKnown DEF EnqueueFollowUp
    <3>2. InCritical(c) /\ InCritical(d) /\ c # d
      BY <1>1, <3>1 DEF InCritical, LockedPcs, TransactionPcs
    <3> QED
      BY <3>1, <3>2 DEF LockInv, LockExclusive
  <2>4. Stays(AgentOf(c))
    BY <2>2, <2>3, OnlyEnqueueFills
  <2>5. ~ HasUnresolved(AgentOf(c), SessionOf(c))
    BY <1>1 DEF NoOvertaking
  <2>6. Occupied(AgentOf(c)) => items[AgentOf(c)].state \in QueueState
    BY <2>2 DEF Occupied, TypeOK, QueuedFollowUp
  <2> QED
    BY <2>2, <2>4, <2>5, <2>6 DEF Stays, HasUnresolved, InState, Occupied
<1>2. CASE pc[c] # "prompt"
  <2>1. CheckOvertake(c)
    <3>1. ASSUME NEW d \in Clients, Submit(d) \/ ClientStep(d)
          PROVE  CheckOvertake(c)
      BY <1>2, <3>1
         DEF Submit, ClientStep, ClientLock, Lookup, Decide, DecideFails,
             EnqueueFollowUp, ScheduleQueued, CheckOvertake, SendNow,
             RecordOutcome, Return, Schedule, PromptAccepted, PromptUncertain,
             Goto, TypeOK
    <3>2. ASSUME NEW w \in Workers, WorkerStep(w) PROVE pc'[c] = pc[c]
      BY <3>2 DEF WorkerStep, ClaimItem, WaitSendable, WaitRetained, Reserve,
           WorkerLock, CheckIdentity, CheckFails, Begin, Deliver,
           FinishDelivery, ExitGate, PromptAccepted, PromptUncertain, Goto,
           WorkerGoto, TypeOK
    <3>3. ASSUME NEW a \in Agents, Rearm(a) PROVE pc'[c] = pc[c]
      BY <3>3 DEF Rearm, Schedule, TypeOK
    <3> QED
      BY <1>2, <3>1, <3>2, <3>3
         DEF Next, vars, Cancel, Edit, HerdrChange, Forget, threadVars
  <2>2. /\ ~ HasUnresolved(AgentOf(c), SessionOf(c))
        /\ UNCHANGED <<items, job>>
    BY <2>1 DEF CheckOvertake, Return, Goto, TypeOK
  <2>3. AgentOf(c)' = AgentOf(c) /\ SessionOf(c)' = SessionOf(c)
    BY <2>2 DEF AgentOf, SessionOf
  <2> QED
    BY <2>2, <2>3 DEF HasUnresolved, InState, Occupied
<1> QED
  BY <1>1, <1>2

\* An immediate prompt never overtakes a follow-up of its own Conversation: what
\* the check saw stays true until the prompt is out.
THEOREM NoOvertakingCorrect == Spec => []NoOvertaking
<1>1. Init => NoOvertaking
  BY ThreadKinds DEF Init, NoOvertaking
<1> QED
  BY <1>1, OvertakingNext, TypeCorrect, LockInvCorrect, PTL DEF Spec

----------------------------------------------------------------------------
(* Claims.                                                                 *)
(*                                                                         *)
(* Every claimed item has its owner, by induction on its own.  What a      *)
(* claim says of the item is stronger and holds even of a claim that       *)
(* outlived its request in the ledger: the item stands there claimed by    *)
(* this worker alone, or the user took it back, or it was sent.            *)

Carrying(w) == pc[w] \in ClaimHeldPcs
Sending(w)  == pc[w] \in SendingPcs

ClaimCurrent(w) ==
  LET a == target[w]
      q == claim[w].rid IN
  claim[w] # NoClaim =>
    \/ q \in withdrawn
    \/ attempts[q] > 0
    \/ /\ Holds(a, q)
       /\ items[a].session = claim[w].session
       /\ Carrying(w) => items[a].state = "WaitingForTurnBoundary"
       /\ Sending(w) => items[a].state = "Delivering"
       /\ \A v \in Workers : target[v] = a /\ HasClaim(v, q) => v = w

\* A prompt that went out, or may have, was counted.
Counted ==
  /\ \A w \in Workers :
       pc[w] \in {"accepted", "uncertain"} => attempts[claim[w].rid] > 0
  /\ \A a \in Agents :
       InState(a, {"DeliveryUncertain"}) => attempts[items[a].rid] > 0

ClaimInv == Counted /\ \A w \in Workers : ClaimCurrent(w)

\* What one step of a worker does to its claim and to the item of its Agent.
Walks(w) ==
  /\ UNCHANGED <<items, claim>>
  /\ Carrying(w)' <=> Carrying(w)
  /\ Sending(w)' <=> Sending(w)

Takes(w) ==
  LET a == target[w] IN
  /\ claim[w] = NoClaim /\ claim'[w] # NoClaim
  /\ Occupied(a) /\ items[a].state = "Queued"
  /\ items'[a] # NoItem /\ items'[a].state = "WaitingForTurnBoundary"
  /\ claim'[w].rid = items[a].rid /\ claim'[w].session = items[a].session
  /\ Carrying(w)' /\ ~ Sending(w)'

Releases(w) ==
  LET a == target[w]
      q == claim[w].rid IN
  /\ Carrying(w) /\ claim'[w] = NoClaim /\ ~ Carrying(w)' /\ ~ Sending(w)'
  /\ \/ UNCHANGED items /\ ~ ClaimStands(a, q)
     \/ ClaimStands(a, q) /\ items'[a] # NoItem /\ items'[a].state = "Queued"
     \/ Holds(a, q) /\ items'[a] = NoItem /\ pc[w] = "check" /\ ~ IdentityMatches(w)

Begins(w) ==
  LET a == target[w]
      q == claim[w].rid IN
  /\ Carrying(w) /\ Sending(w)' /\ ~ Carrying(w)' /\ UNCHANGED claim
  /\ pc'[w] = "prompt"
  /\ ClaimStands(a, q) /\ items'[a] # NoItem /\ items'[a].state = "Delivering"

Finishes(w) ==
  LET a == target[w]
      q == claim[w].rid IN
  /\ Sending(w) /\ claim'[w] = NoClaim /\ ~ Carrying(w)' /\ ~ Sending(w)'
  /\ \/ UNCHANGED items /\ ~ (Holds(a, q) /\ items[a].state = "Delivering")
     \/ Holds(a, q) /\ items'[a] = NoItem /\ pc[w] = "accepted"
     \/ /\ Holds(a, q) /\ items[a].state = "Delivering" /\ items'[a] # NoItem
        /\ \/ items'[a].state = "FailedRecoverable"
           \/ items'[a].state = "DeliveryUncertain" /\ pc[w] = "uncertain"

\* The same operations, from what a token stands for to what is left of it.
LEMMA TokenMoves ==
  ASSUME TypeOK, NEW a \in Agents, NEW q \in Requests
  PROVE  /\ ClaimForDelivery(a) =>
              /\ Elsewhere(a) /\ Occupied(a) /\ items[a].state = "Queued"
              /\ items'[a] # NoItem /\ items'[a].state = "WaitingForTurnBoundary"
         /\ BeginDelivery(a, q) =>
              /\ Elsewhere(a) /\ ClaimStands(a, q)
              /\ items'[a] # NoItem /\ items'[a].state = "Delivering"
         /\ ReleaseClaim(a, q) =>
              /\ Elsewhere(a)
              /\ \/ UNCHANGED items /\ ~ ClaimStands(a, q)
                 \/ ClaimStands(a, q) /\ items'[a] # NoItem /\ items'[a].state = "Queued"
         /\ FinishRemove(a, q) =>
              /\ Elsewhere(a)
              /\ \/ UNCHANGED items /\ ~ Holds(a, q)
                 \/ Holds(a, q) /\ items'[a] = NoItem
         /\ \A state \in TerminalStates : FinishRetain(a, q, state) =>
              /\ Elsewhere(a)
              /\ \/ UNCHANGED items /\ ~ (Holds(a, q) /\ InState(a, {"Delivering"}))
                 \/ /\ Holds(a, q) /\ items[a].state = "Delivering"
                    /\ items'[a] # NoItem /\ items'[a].state = state
<1>1. ASSUME NEW state \in QueueState, Occupied(a),
             items' = [items EXCEPT ![a].state = state]
      PROVE  Elsewhere(a) /\ items'[a] # NoItem /\ items'[a].state = state
  <2>1. items[a] \in QueuedFollowUp /\ items'[a] = [items[a] EXCEPT !.state = state]
    BY <1>1 DEF TypeOK, Occupied
  <2>2. items'[a] \in QueuedFollowUp /\ items'[a].state = state
    BY <2>1 DEF QueuedFollowUp
  <2> QED
    BY <1>1, <2>2, NoItemAssumption DEF TypeOK, Elsewhere, Occupied
<1>2. {"WaitingForTurnBoundary", "Delivering", "Queued"} \cup TerminalStates = QueueState
  BY DEF QueueState, TerminalStates, DeliverableStates
<1>3. UNCHANGED items => Elsewhere(a)
  BY DEF Elsewhere
<1>4. ClaimForDelivery(a) =>
        /\ Elsewhere(a) /\ Occupied(a) /\ items[a].state = "Queued"
        /\ items'[a] # NoItem /\ items'[a].state = "WaitingForTurnBoundary"
  BY <1>1, <1>2 DEF ClaimForDelivery, InState
<1>5. BeginDelivery(a, q) =>
        /\ Elsewhere(a) /\ ClaimStands(a, q)
        /\ items'[a] # NoItem /\ items'[a].state = "Delivering"
  BY <1>1, <1>2 DEF BeginDelivery, ClaimStands, InState, Occupied
<1>6. ReleaseClaim(a, q) =>
        /\ Elsewhere(a)
        /\ \/ UNCHANGED items /\ ~ ClaimStands(a, q)
           \/ ClaimStands(a, q) /\ items'[a] # NoItem /\ items'[a].state = "Queued"
  BY <1>1, <1>2, <1>3 DEF ReleaseClaim, ClaimStands, InState
<1>7. FinishRemove(a, q) =>
        /\ Elsewhere(a)
        /\ \/ UNCHANGED items /\ ~ Holds(a, q)
           \/ Holds(a, q) /\ items'[a] = NoItem
  BY <1>3 DEF FinishRemove, Elsewhere, TypeOK
<1>8. ASSUME NEW state \in TerminalStates, FinishRetain(a, q, state)
      PROVE  /\ Elsewhere(a)
             /\ \/ UNCHANGED items /\ ~ (Holds(a, q) /\ InState(a, {"Delivering"}))
                \/ /\ Holds(a, q) /\ items[a].state = "Delivering"
                   /\ items'[a] # NoItem /\ items'[a].state = state
  BY <1>1, <1>2, <1>3, <1>8 DEF FinishRetain, InState
<1> QED
  BY <1>4, <1>5, <1>6, <1>7, <1>8

LEMMA WorkerMoves ==
  ASSUME TypeOK, NEW w \in Workers, WorkerStep(w)
  PROVE  /\ target[w] \in Agents
         /\ UNCHANGED <<job, target, withdrawn, forgotten, ledger>>
         /\ \A t \in Threads \ {w} : pc'[t] = pc[t]
         /\ \A v \in Workers \ {w} : claim'[v] = claim[v]
         /\ Elsewhere(target[w]) /\ \A b \in Agents : Stays(b)
         /\ Walks(w) \/ Takes(w) \/ Releases(w) \/ Begins(w) \/ Finishes(w)
<1> USE ThreadKinds, NoItemAssumption
<1> DEFINE a == target[w]
           q == claim[w].rid
<1>1. pc[w] # "none" /\ a \in Agents
  BY AgentKnown DEF WorkerStep, ClaimItem, WaitSendable, WaitRetained, Reserve,
     WorkerLock, CheckIdentity, CheckFails, Begin, Deliver, FinishDelivery,
     ExitGate
<1>2. /\ UNCHANGED <<job, target, withdrawn, forgotten, ledger>>
      /\ \A t \in Threads \ {w} : pc'[t] = pc[t]
      /\ \A v \in Workers \ {w} : claim'[v] = claim[v]
  BY DEF WorkerStep, ClaimItem, WaitSendable, WaitRetained, Reserve,
     WorkerLock, CheckIdentity, CheckFails, Begin, Deliver, FinishDelivery,
     ExitGate, PromptAccepted, PromptUncertain, Goto, WorkerGoto, historyVars,
     TypeOK
<1>3. pc[w] \notin {"none", "attempt", "gate"} => q \in Requests /\ claim[w] # NoClaim
  BY AgentKnown, NullsAssumption DEF TypeOK
<1>4. ASSUME UNCHANGED items PROVE Elsewhere(a) /\ \A b \in Agents : Stays(b)
  BY <1>4 DEF Elsewhere, Stays, Occupied
<1>5. TerminalStates = {"FailedRecoverable", "DeliveryUncertain"}
  BY DEF TerminalStates
<1>6. ASSUME ClaimItem(w)
      PROVE  /\ Elsewhere(a) /\ \A b \in Agents : Stays(b)
             /\ Walks(w) \/ Takes(w)
  <2>1. CASE ClaimForDelivery(a) /\ Goto(w, "wait") /\ claim' =
               [claim EXCEPT ![w] = [rid |-> items[a].rid,
                  session |-> items[a].session, text |-> items[a].text]]
    <3>1. /\ Elsewhere(a) /\ \A b \in Agents : Stays(b)
          /\ Occupied(a) /\ items[a].state = "Queued" /\ items'[a] # NoItem
          /\ items'[a].state = "WaitingForTurnBoundary"
      <4>1. items[a].rid \in Requests
        BY <1>1, <2>1
           DEF ClaimForDelivery, InState, Occupied, TypeOK, QueuedFollowUp
      <4> QED
        BY <1>1, <2>1, <4>1, TokenMoves, QueueStays
    <3>2. [rid |-> items[a].rid, session |-> items[a].session,
           text |-> items[a].text] \in Claim
      BY <1>1, <3>1 DEF Occupied, TypeOK, QueuedFollowUp, Claim
    <3>3. /\ claim[w] = NoClaim /\ claim'[w] # NoClaim /\ pc'[w] = "wait"
          /\ claim'[w].rid = items[a].rid /\ claim'[w].session = items[a].session
      BY <1>6, <2>1, <3>2, NullsAssumption DEF ClaimItem, Goto, TypeOK
    <3> QED
      BY <3>1, <3>3 DEF Takes, Carrying, Sending, ClaimHeldPcs, SendingPcs
  <2>2. CASE WorkerGoto(w, "gate") /\ UNCHANGED items
    BY <1>4, <1>6, <2>2
       DEF ClaimItem, WorkerGoto, Goto, TypeOK, Walks, Carrying,
       Sending, ClaimHeldPcs, SendingPcs
  <2> QED
    BY <1>6, <2>1, <2>2 DEF ClaimItem
<1>7. ASSUME WaitRetained(w) \/ CheckFails(w)
      PROVE  /\ Elsewhere(a) /\ \A b \in Agents : Stays(b)
             /\ Releases(w)
  <2>1. pc[w] \in {"wait", "check"} /\ ReleaseClaim(a, q) /\ WorkerGoto(w, "attempt")
    BY <1>7 DEF WaitRetained, CheckFails
  <2>2. Carrying(w) /\ claim'[w] = NoClaim /\ ~ Carrying(w)' /\ ~ Sending(w)'
    BY <2>1
       DEF WorkerGoto, Goto, TypeOK, Carrying, Sending, ClaimHeldPcs,
           SendingPcs
  <2>3. \/ UNCHANGED items /\ ~ ClaimStands(a, q)
        \/ ClaimStands(a, q) /\ items'[a] # NoItem /\ items'[a].state = "Queued"
    BY <1>1, <1>3, <2>1, TokenMoves
  <2> QED
    BY <1>1, <1>3, <2>1, <2>2, <2>3, TokenMoves, QueueStays DEF Releases
<1>8. ASSUME WaitSendable(w) \/ Reserve(w) \/ WorkerLock(w) \/ Deliver(w) \/ ExitGate(w)
      PROVE  /\ Elsewhere(a) /\ \A b \in Agents : Stays(b)
             /\ Walks(w)
  <2>1. UNCHANGED <<items, claim>>
    BY <1>8
       DEF WaitSendable, Reserve, WorkerLock, Deliver, ExitGate, WorkerGoto,
       TypeOK
  <2>2. (Carrying(w)' <=> Carrying(w)) /\ (Sending(w)' <=> Sending(w))
    BY <1>8
       DEF WaitSendable, Reserve, WorkerLock, Deliver, ExitGate, WorkerGoto,
       PromptAccepted, PromptUncertain, Goto, TypeOK, Carrying, Sending,
       ClaimHeldPcs, SendingPcs
  <2> QED
    BY <1>4, <2>1, <2>2 DEF Walks
<1>9. ASSUME CheckIdentity(w)
      PROVE  /\ Elsewhere(a) /\ \A b \in Agents : Stays(b)
             /\ Walks(w) \/ Releases(w)
  <2>0. pc[w] = "check" /\ Carrying(w)
    BY <1>9 DEF CheckIdentity, Carrying, ClaimHeldPcs
  <2>1. CASE ~ IdentityMatches(w) /\ FinishRemove(a, q) /\ WorkerGoto(w, "gate")
    <3>1. claim'[w] = NoClaim /\ ~ Carrying(w)' /\ ~ Sending(w)'
      BY <2>0, <2>1
         DEF WorkerGoto, Goto, TypeOK, Carrying, Sending, ClaimHeldPcs,
         SendingPcs
    <3>2. \/ UNCHANGED items /\ ~ ClaimStands(a, q)
          \/ Holds(a, q) /\ items'[a] = NoItem
      BY <1>1, <1>3, <2>0, <2>1, TokenMoves DEF ClaimStands
    <3> QED
      BY <1>1, <1>3, <2>0, <2>1, <3>1, <3>2, TokenMoves, QueueStays
         DEF Releases
  <2>2. CASE ReleaseClaim(a, q) /\ WorkerGoto(w, "attempt")
    <3>1. claim'[w] = NoClaim /\ ~ Carrying(w)' /\ ~ Sending(w)'
      BY <2>0, <2>2
         DEF WorkerGoto, Goto, TypeOK, Carrying, Sending, ClaimHeldPcs,
         SendingPcs
    <3>2. \/ UNCHANGED items /\ ~ ClaimStands(a, q)
          \/ ClaimStands(a, q) /\ items'[a] # NoItem /\ items'[a].state = "Queued"
      BY <1>1, <1>3, <2>0, <2>2, TokenMoves
      <3> QED
      BY <1>1, <1>3, <2>0, <2>2, <3>1, <3>2, TokenMoves, QueueStays
         DEF Releases
  <2>3. CASE WorkerGoto(w, "begin") /\ UNCHANGED items
    BY <1>4, <2>0, <2>3 DEF WorkerGoto, Goto, TypeOK, Walks, Carrying, Sending,
       ClaimHeldPcs, SendingPcs
  <2> QED
    BY <1>9, <2>1, <2>2, <2>3 DEF CheckIdentity
<1>10. ASSUME Begin(w)
       PROVE  /\ Elsewhere(a) /\ \A b \in Agents : Stays(b)
              /\ Begins(w) \/ Releases(w)
  <2>0. pc[w] = "begin" /\ Carrying(w)
    BY <1>10 DEF Begin, Carrying, ClaimHeldPcs
  <2>1. CASE BeginDelivery(a, q) /\ WorkerGoto(w, "prompt")
    <3>1. UNCHANGED claim /\ pc'[w] = "prompt" /\ ~ Carrying(w)' /\ Sending(w)'
      BY <2>0, <2>1
         DEF WorkerGoto, Goto, TypeOK, Carrying, Sending, ClaimHeldPcs,
         SendingPcs
    <3>2. /\ Elsewhere(a) /\ \A b \in Agents : Stays(b)
          /\ ClaimStands(a, q) /\ items'[a] # NoItem /\ items'[a].state = "Delivering"
      BY <1>1, <1>3, <2>0, <2>1, TokenMoves, QueueStays
    <3> QED
      BY <2>0, <3>1, <3>2 DEF Begins
  <2>2. CASE ~ ClaimStands(a, q) /\ WorkerGoto(w, "gate") /\ UNCHANGED items
    BY <1>4, <2>0, <2>2
       DEF WorkerGoto, Goto, TypeOK, Releases, Carrying, Sending,
       ClaimHeldPcs, SendingPcs
  <2> QED
    BY <1>10, <2>1, <2>2 DEF Begin
<1>11. ASSUME FinishDelivery(w)
       PROVE  /\ Elsewhere(a) /\ \A b \in Agents : Stays(b)
              /\ Finishes(w)
  <2>1. /\ pc[w] \in {"accepted", "rejected", "uncertain"} /\ WorkerGoto(w, "gate")
        /\ \/ pc[w] = "accepted" /\ FinishRemove(a, q)
           \/ pc[w] = "rejected" /\ FinishRetain(a, q, "FailedRecoverable")
           \/ pc[w] = "uncertain" /\ FinishRetain(a, q, "DeliveryUncertain")
    BY <1>11 DEF FinishDelivery
  <2>2. Sending(w) /\ claim'[w] = NoClaim /\ ~ Carrying(w)' /\ ~ Sending(w)'
    BY <2>1
       DEF WorkerGoto, Goto, TypeOK, Carrying, Sending, ClaimHeldPcs,
           SendingPcs
  <2>3. CASE pc[w] = "accepted" /\ FinishRemove(a, q)
    <3>1. \/ UNCHANGED items /\ ~ Holds(a, q)
          \/ Holds(a, q) /\ items'[a] = NoItem
      BY <1>1, <1>3, <2>1, <2>3, TokenMoves
    <3> QED
      BY <1>1, <1>3, <2>2, <2>3, <3>1, TokenMoves, QueueStays DEF Finishes
  <2>4. ASSUME NEW state \in TerminalStates, FinishRetain(a, q, state),
               \/ state = "FailedRecoverable"
               \/ state = "DeliveryUncertain" /\ pc[w] = "uncertain"
        PROVE  /\ Elsewhere(a) /\ \A b \in Agents : Stays(b)
               /\ Finishes(w)
    <3>1. /\ Elsewhere(a) /\ \A b \in Agents : Stays(b)
          /\ \/ UNCHANGED items /\ ~ (Holds(a, q) /\ InState(a, {"Delivering"}))
             \/ /\ Holds(a, q) /\ items[a].state = "Delivering"
                /\ items'[a] # NoItem /\ items'[a].state = state
      BY <1>1, <1>3, <2>1, <2>4, TokenMoves, QueueStays
    <3> QED
      BY <2>2, <2>4, <3>1 DEF Finishes, InState, Holds
  <2> QED
    BY <1>5, <2>1, <2>3, <2>4
<1> QED
  BY <1>1, <1>2, <1>6, <1>7, <1>8, <1>9, <1>10, <1>11 DEF WorkerStep

\* Everybody else leaves the claims alone; a client may spawn a worker, which
\* has none.
LEMMA OthersLeaveClaims ==
  ASSUME TypeOK, [Next]_vars, \A w \in Workers : ~ WorkerStep(w)
  PROVE  /\ UNCHANGED claim
         /\ \A w \in Workers :
              \/ pc'[w] = pc[w] /\ target'[w] = target[w]
              \/ claim[w] = NoClaim /\ pc[w] = "none" /\ pc'[w] = "attempt"
<1> USE ThreadKinds
<1>1. ASSUME NEW c \in Clients, Submit(c) \/ ClientStep(c)
      PROVE  /\ UNCHANGED claim
             /\ \A w \in Workers :
                  \/ pc'[w] = pc[w] /\ target'[w] = target[w]
                  \/ claim[w] = NoClaim /\ pc[w] = "none" /\ pc'[w] = "attempt"
  <2>1. CASE ScheduleQueued(c)
    BY <2>1 DEF ScheduleQueued, Schedule, TypeOK
  <2> QED
    BY <1>1, <2>1
       DEF Submit, ClientStep, ClientLock, Lookup, Decide, DecideFails,
           EnqueueFollowUp, CheckOvertake, SendNow, RecordOutcome, Return,
           PromptAccepted, PromptUncertain, Goto, TypeOK
<1>2. ASSUME NEW a \in Agents, Rearm(a)
      PROVE  /\ UNCHANGED claim
             /\ \A w \in Workers :
                  \/ pc'[w] = pc[w] /\ target'[w] = target[w]
                  \/ claim[w] = NoClaim /\ pc[w] = "none" /\ pc'[w] = "attempt"
  BY <1>2 DEF Rearm, Schedule, TypeOK
<1> QED
  BY <1>1, <1>2 DEF Next, vars, Cancel, Edit, HerdrChange, Forget, threadVars

\* Nobody but a worker moves an item that is claimed, or on its way: the user
\* only takes it back before it is.
LEMMA OthersLeaveClaimed ==
  ASSUME TypeOK, [Next]_vars, \A w \in Workers : ~ WorkerStep(w),
         NEW a \in Agents
  PROVE  /\ items'[a] # items[a] =>
              \/ Occupied(a) => items[a].state \in TerminalStates
              \/ Occupied(a) /\ items[a].state = "Queued"
              \/ Occupied(a) /\ items'[a] = NoItem /\ items[a].rid \in withdrawn'
         /\ items'[a] # items[a] /\ items'[a] # NoItem => items'[a].state = "Queued"
         /\ withdrawn \subseteq withdrawn'
<1> USE ThreadKinds, NoItemAssumption
<1> DEFINE Claimed ==
      /\ items'[a] # items[a] =>
           \/ Occupied(a) => items[a].state \in TerminalStates
           \/ Occupied(a) /\ items[a].state = "Queued"
           \/ Occupied(a) /\ items'[a] = NoItem /\ items[a].rid \in withdrawn'
      /\ items'[a] # items[a] /\ items'[a] # NoItem => items'[a].state = "Queued"
      /\ withdrawn \subseteq withdrawn'
<1>1. ASSUME UNCHANGED <<items, withdrawn>> PROVE Claimed
  BY <1>1
<1>2. ASSUME NEW c \in Clients, EnqueueFollowUp(c) PROVE Claimed
  <2>1. CASE items' = items
    BY <1>2, <2>1 DEF EnqueueFollowUp, historyVars
  <2>2. CASE Enqueue(job[c].body.agent, job[c].rid, job[c].body.session,
                     job[c].body.text)
    BY <1>2, <2>2
       DEF EnqueueFollowUp, Enqueue, CanEnqueue, InState, TypeOK, historyVars
  <2> QED
    BY <1>2, <2>1, <2>2 DEF EnqueueFollowUp
<1>3. ASSUME NEW b \in Agents, Cancel(b) PROVE Claimed
  BY <1>3 DEF Cancel, CancelItem, InState, Occupied, TerminalStates, TypeOK
<1>4. ASSUME NEW b \in Agents, Edit(b) PROVE Claimed
  <2>1. PICK text \in Texts : ReplaceText(b, text) /\ UNCHANGED withdrawn
    BY <1>4 DEF Edit, historyVars
  <2>2. InState(b, {"Queued"}) /\ items' = [items EXCEPT ![b].text = text]
    BY <2>1 DEF ReplaceText
  <2> QED
    BY <2>1, <2>2 DEF InState, Occupied, TypeOK, QueuedFollowUp
<1> HIDE DEF Claimed
<1>5. Claimed
  BY <1>1, <1>2, <1>3, <1>4
     DEF Next, vars, Submit, ClientStep, ClientLock, Lookup, Decide,
         DecideFails,
         ScheduleQueued, CheckOvertake, SendNow, RecordOutcome, Rearm,
         HerdrChange, Forget, historyVars
<1> QED
  BY <1>5 DEF Claimed

LEMMA OwnedNext == TypeOK /\ ClaimsOwned /\ [Next]_vars => ClaimsOwned'
<1> SUFFICES ASSUME TypeOK, ClaimsOwned, [Next]_vars PROVE ClaimsOwned'
  OBVIOUS
<1> DEFINE Owns(w, a) ==
      /\ target[w] = a /\ claim[w] # NoClaim /\ claim[w].rid = items[a].rid
      /\ IF items[a].state = "Delivering" THEN Sending(w) ELSE Carrying(w)
<1>1. ASSUME NEW a \in Agents, Occupied(a),
             items[a].state \in {"WaitingForTurnBoundary", "Delivering"}
      PROVE  \E w \in Workers : Owns(w, a)
  BY <1>1 DEF ClaimsOwned, InState, Sending, Carrying
<1>2. SUFFICES ASSUME NEW a \in Agents, Occupied(a)',
                      items'[a].state \in {"WaitingForTurnBoundary", "Delivering"}
               PROVE  \E w \in Workers : Owns(w, a)'
  BY DEF ClaimsOwned, InState, Sending, Carrying
<1>3. ASSUME NEW v \in Workers, WorkerStep(v)
      PROVE  \E w \in Workers : Owns(w, a)'
  <2>1. /\ target[v] \in Agents /\ UNCHANGED target
        /\ \A t \in Workers \ {v} : pc'[t] = pc[t] /\ claim'[t] = claim[t]
        /\ Elsewhere(target[v]) /\ \A b \in Agents : Stays(b)
        /\ Walks(v) \/ Takes(v) \/ Releases(v) \/ Begins(v) \/ Finishes(v)
    BY <1>3, WorkerMoves DEF Threads
  <2>2. CASE items'[a] = items[a]
    <3>1. PICK w \in Workers : Owns(w, a)
      BY <1>1, <1>2, <2>2 DEF Occupied
    <3>2. CASE w # v
      BY <2>1, <2>2, <3>1, <3>2 DEF Sending, Carrying
    <3>3. CASE w = v /\ Walks(v)
      BY <2>1, <2>2, <3>1, <3>3 DEF Walks
    <3>4. w = v => Walks(v)
      BY <1>2, <2>1, <2>2, <3>1
         DEF Takes, Releases, Begins, Finishes, ClaimStands, Holds, InState,
             Occupied, Sending, Carrying, ClaimHeldPcs, SendingPcs
    <3> QED
      BY <3>2, <3>3, <3>4
  <2>3. CASE items'[a] # items[a]
    <3>1. a = target[v] /\ Stays(a)
      BY <2>1, <2>3 DEF Elsewhere
    <3>2. Takes(v) \/ Begins(v)
      <4>1. items'[a] # NoItem
        BY <1>2 DEF Occupied
      <4>2. ~ Walks(v) /\ ~ Releases(v)
        BY <1>2, <2>3, <3>1, <4>1 DEF Walks, Releases
      <4>3. ~ Finishes(v)
        BY <1>2, <2>3, <3>1, <4>1 DEF Finishes
      <4> QED
        BY <2>1, <4>2, <4>3
    <3>3. Owns(v, a)'
      <4>1. items'[a].rid = items[a].rid /\ target'[v] = a
        BY <1>2, <2>1, <3>1 DEF Stays
      <4>2. CASE Takes(v)
        BY <3>1, <4>1, <4>2 DEF Takes
      <4>3. CASE Begins(v)
        <5>1. claim[v] # NoClaim
          BY <4>3 DEF Begins, Carrying, ClaimHeldPcs, TypeOK
        <5> QED
          BY <3>1, <4>1, <4>3, <5>1 DEF Begins, ClaimStands, Holds
      <4> QED
        BY <3>2, <4>2, <4>3
    <3> QED
      BY <3>3
  <2> QED
    BY <2>2, <2>3
<1>4. ASSUME \A v \in Workers : ~ WorkerStep(v)
      PROVE  \E w \in Workers : Owns(w, a)'
  <2>1. items'[a] = items[a]
    BY <1>2, <1>4, OthersLeaveClaimed DEF Occupied
  <2>2. PICK w \in Workers : Owns(w, a)
    BY <1>1, <1>2, <2>1 DEF Occupied
  <2>3. claim' = claim /\ pc'[w] = pc[w] /\ target'[w] = target[w]
    BY <1>4, <2>2, OthersLeaveClaims
  <2> QED
    BY <2>1, <2>2, <2>3 DEF Sending, Carrying
<1> QED
  BY <1>3, <1>4

\* No claim is orphaned: whatever its worker does next, an item it claimed has
\* somebody on the way to release it, send it or finish it.
THEOREM ClaimsOwnedCorrect == Spec => []ClaimsOwned
<1>1. Init => ClaimsOwned
  BY DEF Init, InitQueue, ClaimsOwned, InState, Occupied
<1> QED
  BY <1>1, OwnedNext, TypeCorrect, PTL DEF Spec

\* A count is never taken back, and a prompt that went out is counted.
LEMMA AttemptsGrow ==
  ASSUME TypeOK, [Next]_vars
  PROVE  /\ \A r \in Requests : attempts[r] > 0 => attempts'[r] > 0
         /\ \A w \in Workers :
              Deliver(w) /\ pc'[w] \in {"accepted", "uncertain"} =>
                attempts'[claim[w].rid] > 0
<1> USE ThreadKinds
<1>1. ASSUME NEW q \in Requests, CountAttempt(q)
      PROVE  /\ \A r \in Requests : attempts[r] > 0 => attempts'[r] > 0
             /\ attempts'[q] > 0
  BY <1>1 DEF CountAttempt, TypeOK
<1>2. ASSUME NEW w \in Workers, Deliver(w)
      PROVE  /\ \A r \in Requests : attempts[r] > 0 => attempts'[r] > 0
             /\ pc'[w] \in {"accepted", "uncertain"} => attempts'[claim[w].rid] > 0
  <2>1. claim[w].rid \in Requests
    BY <1>2, AgentKnown DEF Deliver
  <2> QED
    BY <1>1, <1>2, <2>1 DEF Deliver, Goto, TypeOK
<1>3. ASSUME NEW c \in Clients, SendNow(c)
      PROVE  \A r \in Requests : attempts[r] > 0 => attempts'[r] > 0
  <2>1. job[c].rid \in Requests
    BY <1>3, AgentKnown DEF SendNow
  <2> QED
    BY <1>1, <1>3, <2>1 DEF SendNow
<1>4. UNCHANGED attempts => \A r \in Requests : attempts[r] > 0 => attempts'[r] > 0
  OBVIOUS
<1> QED
  BY <1>2, <1>3, <1>4
     DEF Next, vars, ClientStep, WorkerStep, Submit, ClientLock, Lookup,
         Decide,
         DecideFails, EnqueueFollowUp, ScheduleQueued, CheckOvertake,
         RecordOutcome, ClaimItem, WaitSendable, WaitRetained, Reserve,
         WorkerLock, CheckIdentity, CheckFails, Begin, FinishDelivery,
         ExitGate,
         Cancel, Edit, Rearm, HerdrChange, Forget, historyVars

LEMMA CountedNext == TypeOK /\ Counted /\ [Next]_vars => Counted'
<1> SUFFICES ASSUME TypeOK, Counted, [Next]_vars PROVE Counted'
  OBVIOUS
<1> USE ThreadKinds
<1>1. ASSUME NEW w \in Workers, pc'[w] \in {"accepted", "uncertain"}
      PROVE  attempts'[claim'[w].rid] > 0
  <2>1. CASE Deliver(w)
    BY <1>1, <2>1, AttemptsGrow DEF Deliver
  <2>2. CASE ~ Deliver(w)
    <3>1. pc[w] \in {"accepted", "uncertain"} /\ claim'[w] = claim[w]
      <4>1. ASSUME NEW v \in Workers, WorkerStep(v)
            PROVE  pc[w] \in {"accepted", "uncertain"} /\ claim'[w] = claim[w]
        <5>1. CASE v # w
          BY <1>1, <4>1, <5>1, WorkerMoves DEF Threads
        <5>2. CASE v = w
          BY <1>1, <2>2, <4>1, <5>2
             DEF WorkerStep, ClaimItem, WaitSendable, WaitRetained, Reserve,
                 WorkerLock, CheckIdentity, CheckFails, Begin, FinishDelivery,
                 ExitGate, Goto, WorkerGoto, TypeOK
        <5> QED
          BY <5>1, <5>2
      <4>2. ASSUME \A v \in Workers : ~ WorkerStep(v)
            PROVE  pc[w] \in {"accepted", "uncertain"} /\ claim'[w] = claim[w]
        BY <1>1, <4>2, OthersLeaveClaims
      <4> QED
        BY <4>1, <4>2
    <3>2. claim[w].rid \in Requests
      BY <3>1, AgentKnown
    <3> QED
      BY <3>1, <3>2, AttemptsGrow DEF Counted
  <2> QED
    BY <2>1, <2>2
<1>2. ASSUME NEW a \in Agents, items'[a] # NoItem,
             items'[a].state = "DeliveryUncertain"
      PROVE  attempts'[items'[a].rid] > 0
  <2>1. CASE items'[a] = items[a]
    <3>1. items[a].rid \in Requests
      BY <1>2, <2>1 DEF TypeOK, QueuedFollowUp
    <3> QED
      BY <1>2, <2>1, <3>1, AttemptsGrow DEF Counted, InState, Occupied
  <2>2. CASE items'[a] # items[a]
    <3>1. PICK w \in Workers : WorkerStep(w)
      BY <1>2, <2>2, OthersLeaveClaimed
    <3>2. /\ target[w] = a /\ Stays(a)
          /\ Walks(w) \/ Takes(w) \/ Releases(w) \/ Begins(w) \/ Finishes(w)
      BY <2>2, <3>1, WorkerMoves DEF Elsewhere
    <3>3. Holds(a, claim[w].rid) /\ pc[w] = "uncertain"
      <4>1. ~ Walks(w) /\ ~ Takes(w) /\ ~ Releases(w) /\ ~ Begins(w)
        BY <1>2, <2>2, <3>2 DEF Walks, Takes, Releases, Begins
      <4> QED
        BY <1>2, <2>2, <3>2, <4>1 DEF Finishes
    <3>4. items'[a].rid = claim[w].rid
      BY <1>2, <3>2, <3>3 DEF Stays, Holds, Occupied
    <3>5. attempts[claim[w].rid] > 0 /\ claim[w].rid \in Requests
      BY <3>3, AgentKnown DEF Counted
    <3> QED
      BY <3>4, <3>5, AttemptsGrow
  <2> QED
    BY <2>1, <2>2
<1> QED
  BY <1>1, <1>2 DEF Counted, InState, Occupied

\* What stands for a claim that was overtaken by its user or its prompt stays.
LEMMA CurrentNext ==
  TypeOK /\ (\A w \in Workers : ClaimCurrent(w)) /\ [Next]_vars =>
    \A w \in Workers : ClaimCurrent(w)'
<1> SUFFICES ASSUME TypeOK, \A w \in Workers : ClaimCurrent(w), [Next]_vars,
                    NEW w \in Workers, claim'[w] # NoClaim
             PROVE  ClaimCurrent(w)'
  BY DEF ClaimCurrent
<1> USE ThreadKinds
<1> DEFINE Spent(q)   == q \in withdrawn \/ attempts[q] > 0
           Stands(v) ==
             /\ Holds(target[v], claim[v].rid)
             /\ items[target[v]].session = claim[v].session
             /\ Carrying(v) => items[target[v]].state = "WaitingForTurnBoundary"
             /\ Sending(v) => items[target[v]].state = "Delivering"
             /\ \A u \in Workers :
                  target[u] = target[v] /\ HasClaim(u, claim[v].rid) => u = v
<1>1. \A v \in Workers : claim[v] # NoClaim =>
        /\ Spent(claim[v].rid) \/ Stands(v)
        /\ claim[v].rid \in Requests /\ target[v] \in Agents
        /\ Carrying(v) \/ Sending(v)
  <2>1. \A v \in Workers : claim[v] # NoClaim => Spent(claim[v].rid) \/ Stands(v)
    BY DEF ClaimCurrent
  <2>2. \A v \in Workers : claim[v] # NoClaim =>
          /\ claim[v].rid \in Requests /\ target[v] \in Agents
          /\ Carrying(v) \/ Sending(v)
    BY AgentKnown
       DEF TypeOK, WorkerPcs, Carrying, Sending, ClaimHeldPcs, SendingPcs
  <2> QED
    BY <2>1, <2>2
<1>2. \A v \in Workers : claim[v] = NoClaim => ~ Carrying(v) /\ ~ Sending(v)
  BY DEF TypeOK, Carrying, Sending, ClaimHeldPcs, SendingPcs
<1>3. SUFFICES Spent(claim[w].rid)' \/ Stands(w)'
  BY DEF ClaimCurrent
<1> HIDE DEF Stands
<1>4. \A q \in Requests : Spent(q) => Spent(q)'
  <2>1. withdrawn \subseteq withdrawn'
    <3>1. ASSUME NEW v \in Workers, WorkerStep(v)
          PROVE  withdrawn \subseteq withdrawn'
      BY <3>1, WorkerMoves
    <3>2. ASSUME \A v \in Workers : ~ WorkerStep(v)
          PROVE  withdrawn \subseteq withdrawn'
      BY <1>1, <3>2, OthersLeaveClaims, OthersLeaveClaimed
    <3> QED
      BY <3>1, <3>2
  <2> QED
    BY <2>1, AttemptsGrow
<1> HIDE DEF Spent
<1>5. ASSUME NEW v \in Workers, WorkerStep(v)
      PROVE  Spent(claim[w].rid)' \/ Stands(w)'
  <2>1. /\ target[v] \in Agents /\ UNCHANGED target
        /\ \A t \in Workers \ {v} : pc'[t] = pc[t] /\ claim'[t] = claim[t]
        /\ Elsewhere(target[v]) /\ \A b \in Agents : Stays(b)
        /\ Walks(v) \/ Takes(v) \/ Releases(v) \/ Begins(v) \/ Finishes(v)
    BY <1>5, WorkerMoves
  <2>2. CASE w # v
    <3>1. claim'[w] = claim[w] /\ pc'[w] = pc[w] /\ target'[w] = target[w]
      BY <2>1, <2>2
    <3>2. CASE Spent(claim[w].rid)
      BY <1>1, <1>4, <3>1, <3>2 DEF Spent
    <3>3. CASE Stands(w)
      <4> DEFINE a == target[w]
                 q == claim[w].rid
      <4>1. /\ a \in Agents /\ Holds(a, q) /\ claim[w] # NoClaim
            /\ items[a].state # "Queued"
        BY <1>1, <3>1, <3>3 DEF Stands
      <4>2. target[v] = a /\ HasClaim(v, q) => FALSE
        BY <2>2, <3>3 DEF Stands
      <4>3. items'[a] = items[a]
        <5>1. CASE target[v] # a
          BY <2>1, <4>1, <5>1 DEF Elsewhere
        <5>2. CASE target[v] = a
          <6>1. Holds(a, claim[v].rid) => claim[v] = NoClaim
            BY <4>1, <4>2, <5>2 DEF Holds, HasClaim
          <6>2. ~ Takes(v) /\ ~ Begins(v)
            BY <1>2, <4>1, <5>2, <6>1 DEF Takes, Begins, ClaimStands
          <6>3. Walks(v) \/ Releases(v) \/ Finishes(v) => items'[a] = items[a]
            BY <1>2, <5>2, <6>1 DEF Walks, Releases, Finishes, ClaimStands
          <6> QED
            BY <2>1, <6>2, <6>3
        <5> QED
          BY <5>1, <5>2
      <4>4. ASSUME NEW u \in Workers, target[u] = a, HasClaim(u, q)'
            PROVE  u = w
        <5>1. CASE u # v
          BY <2>1, <3>1, <3>3, <4>4, <5>1 DEF Stands, HasClaim
        <5>2. CASE u = v
          <6>1. ~ Takes(v) /\ claim'[v] # NoClaim
            BY <4>1, <4>4, <5>2 DEF Takes, HasClaim
          <6>2. claim'[v] = claim[v]
            BY <2>1, <6>1 DEF Walks, Releases, Begins, Finishes
          <6> QED
            BY <3>1, <4>2, <4>4, <5>2, <6>2 DEF HasClaim
        <5> QED
          BY <5>1, <5>2
      <4> QED
        BY <2>1, <3>1, <3>3, <4>3, <4>4
           DEF Stands, Holds, Occupied, Carrying, Sending
    <3> QED
      BY <1>1, <3>1, <3>2, <3>3
  <2>3. CASE w = v
    <3>1. Walks(w) \/ Begins(w) \/ Takes(w)
      BY <2>1, <2>3 DEF Releases, Finishes
    <3>2. CASE Walks(w)
      <4>1. claim[w] # NoClaim /\ UNCHANGED <<claim, items>>
        BY <3>2 DEF Walks
      <4>2. CASE Spent(claim[w].rid)
        BY <1>1, <1>4, <4>1, <4>2 DEF Spent
      <4>3. CASE Stands(w)
        BY <2>1, <3>2, <4>1, <4>3 DEF Stands, Walks, Holds, Occupied, HasClaim
      <4> QED
        BY <1>1, <4>1, <4>2, <4>3
    <3>3. CASE Begins(w)
      <4>1. claim[w] # NoClaim /\ UNCHANGED claim /\ Carrying(w) /\ ~ Carrying(w)'
        BY <1>2, <3>3 DEF Begins
      <4>2. CASE Spent(claim[w].rid)
        BY <1>1, <1>4, <4>1, <4>2 DEF Spent
      <4>3. CASE Stands(w)
        <5>1. /\ Holds(target[w], claim[w].rid) /\ items'[target[w]] # NoItem
              /\ items'[target[w]].state = "Delivering" /\ Stays(target[w])
          BY <2>1, <2>3, <3>3, <4>3 DEF Begins, Stands
        <5> QED
          BY <2>1, <4>1, <4>3, <5>1
             DEF Stands, Stays, Holds, Occupied, HasClaim
      <4> QED
        BY <1>1, <4>1, <4>2, <4>3
    <3>4. CASE Takes(w)
      <4> DEFINE a == target[w]
                 q == items[a].rid
      <4>1. /\ claim'[w].rid = q /\ claim'[w].session = items[a].session
            /\ Occupied(a) /\ items'[a] # NoItem /\ items[a].state = "Queued"
            /\ items'[a].state = "WaitingForTurnBoundary" /\ ~ Sending(w)'
            /\ a \in Agents /\ Stays(a)
        BY <2>1, <2>3, <3>4 DEF Takes
      <4>2. CASE \E u \in Workers : target[u] = a /\ HasClaim(u, q)
        <5>1. PICK u \in Workers : target[u] = a /\ HasClaim(u, q)
          BY <4>2
        <5>2. Spent(q) /\ q \in Requests
          BY <1>1, <4>1, <5>1 DEF Stands, HasClaim
        <5> QED
          BY <1>4, <4>1, <5>2 DEF Spent
      <4>3. CASE ~ \E u \in Workers : target[u] = a /\ HasClaim(u, q)
        <5>1. \A u \in Workers : target'[u] = a /\ claim'[u] # NoClaim /\
                claim'[u].rid = q => u = w
          BY <2>1, <2>3, <4>3 DEF HasClaim
        <5> QED
          BY <2>1, <4>1, <5>1 DEF Stands, Stays, Holds, Occupied, HasClaim
      <4> QED
        BY <4>2, <4>3
    <3> QED
      BY <3>1, <3>2, <3>3, <3>4
  <2> QED
    BY <2>2, <2>3
<1>6. ASSUME \A v \in Workers : ~ WorkerStep(v)
      PROVE  Spent(claim[w].rid)' \/ Stands(w)'
  <2>1. /\ UNCHANGED claim
        /\ \A v \in Workers : claim[v] # NoClaim =>
             pc'[v] = pc[v] /\ target'[v] = target[v]
    BY <1>6, OthersLeaveClaims
  <2>2. CASE Spent(claim[w].rid)
    BY <1>1, <1>4, <2>1, <2>2 DEF Spent
  <2>3. CASE Stands(w)
    <3> DEFINE a == target[w]
               q == claim[w].rid
    <3>1. /\ a \in Agents /\ Holds(a, q) /\ claim[w] # NoClaim
          /\ items[a].state \in {"WaitingForTurnBoundary", "Delivering"}
      BY <1>1, <2>1, <2>3 DEF Stands
    <3>2. CASE items'[a] # items[a]
      <4>1. q \in withdrawn'
        BY <1>6, <3>1, <3>2, OthersLeaveClaimed DEF Holds, TerminalStates
      <4> QED
        BY <2>1, <4>1 DEF Spent
    <3>3. CASE items'[a] = items[a]
      <4>1. \A u \in Workers : HasClaim(u, q)' => HasClaim(u, q) /\ target'[u] = target[u]
        BY <2>1 DEF HasClaim
      <4> QED
        BY <2>1, <2>3, <3>1, <3>3, <4>1
           DEF Stands, Holds, Occupied, Carrying, Sending
    <3> QED
      BY <3>2, <3>3
  <2> QED
    BY <1>1, <2>1, <2>2, <2>3
<1> QED
  BY <1>5, <1>6

\* What a claim says of its item lasts, even when the ledger forgets.
THEOREM ClaimInvCorrect == Spec => []ClaimInv
<1>1. Init => ClaimInv
  BY ThreadKinds DEF Init, InitQueue, ClaimInv, Counted, ClaimCurrent, InState,
     Occupied
<1>2. TypeOK /\ ClaimInv /\ [Next]_vars => ClaimInv'
  BY CountedNext, CurrentNext DEF ClaimInv
<1> QED
  BY <1>1, <1>2, TypeCorrect, PTL DEF Spec

\* An item leaves its slot only with a reason, on every step of everybody: a
\* worker with a stale claim throws nothing away.
LEMMA NothingLost ==
  ASSUME TypeOK, ClaimInv, [Next]_vars, NEW a \in Agents, Occupied(a),
         items'[a] = NoItem \/ items'[a].rid # items[a].rid
  PROVE  \/ items[a].rid \in withdrawn'
         \/ attempts[items[a].rid] > 0
         \/ herdr[a].session # items[a].session \/ ~ herdr[a].ready
         \/ items'[a] # NoItem /\ items'[a].session # items[a].session
<1>1. ASSUME NEW w \in Workers, WorkerStep(w)
      PROVE  \/ items[a].rid \in withdrawn'
             \/ attempts[items[a].rid] > 0
             \/ herdr[a].session # items[a].session \/ ~ herdr[a].ready
  <2>1. /\ target[w] = a /\ Stays(a) /\ UNCHANGED withdrawn
        /\ Walks(w) \/ Takes(w) \/ Releases(w) \/ Begins(w) \/ Finishes(w)
    BY <1>1, WorkerMoves DEF Elsewhere, Occupied
  <2>2. items'[a] = NoItem
    BY <2>1 DEF Stays, Occupied
  <2>3. CASE Releases(w)
    <3>1. /\ Holds(a, claim[w].rid) /\ ~ IdentityMatches(w)
          /\ claim[w] # NoClaim
      BY <2>1, <2>2, <2>3
         DEF Releases, Occupied, Carrying, ClaimHeldPcs, TypeOK
    <3>2. \/ claim[w].rid \in withdrawn \/ attempts[claim[w].rid] > 0
          \/ items[a].session = claim[w].session
      BY <2>1, <3>1 DEF ClaimInv, ClaimCurrent
    <3> QED
      BY <2>1, <3>1, <3>2 DEF IdentityMatches, Holds
  <2>4. CASE Finishes(w)
    BY <2>1, <2>2, <2>4 DEF Finishes, Occupied, Holds, ClaimInv, Counted
  <2> QED
    BY <2>1, <2>2, <2>3, <2>4 DEF Walks, Takes, Begins, Occupied
<1>2. ASSUME NEW c \in Clients, EnqueueFollowUp(c), job[c].body.agent = a
      PROVE  items'[a] # NoItem /\ items'[a].session # items[a].session
  <2>1. /\ CanEnqueue(a, job[c].body.session)
        /\ items' = [items EXCEPT ![a] =
             [rid |-> job[c].rid, session |-> job[c].body.session,
              text |-> job[c].body.text, state |-> "Queued"]]
    BY <1>2 DEF EnqueueFollowUp, Enqueue, Occupied
  <2>2. [rid |-> job[c].rid, session |-> job[c].body.session,
         text |-> job[c].body.text, state |-> "Queued"] \in QueuedFollowUp
    BY <1>2, AgentKnown
       DEF EnqueueFollowUp, QueuedFollowUp, QueueState, DeliverableStates
  <2> QED
    BY <2>1, <2>2, NoItemAssumption DEF CanEnqueue, TypeOK
<1>3. ASSUME NEW b \in Agents, Cancel(b)
      PROVE  items[a].rid \in withdrawn' \/ attempts[items[a].rid] > 0
  BY <1>3 DEF Cancel, CancelItem, InState, Occupied, TypeOK, ClaimInv, Counted
<1>4. ASSUME Stays(a), items'[a] # NoItem PROVE FALSE
  BY <1>4 DEF Stays, Occupied
<1>5. ASSUME \A w \in Workers : ~ WorkerStep(w), \A b \in Agents : ~ Cancel(b)
      PROVE  \E c \in Clients : EnqueueFollowUp(c) /\ job[c].body.agent = a
  <2>1. ASSUME items'[a] = items[a] PROVE FALSE
    BY <2>1 DEF Occupied
  <2>2. ASSUME NEW c \in Clients, EnqueueFollowUp(c)
        PROVE  job[c].body.agent = a
    BY <2>1, <2>2 DEF EnqueueFollowUp, Enqueue, TypeOK
  <2>3. ASSUME NEW b \in Agents, Edit(b) PROVE FALSE
    <3>1. PICK text \in Texts : ReplaceText(b, text)
      BY <2>3 DEF Edit
    <3>2. InState(b, {"Queued"}) /\ items' = [items EXCEPT ![b].text = text]
      BY <3>1 DEF ReplaceText
    <3> QED
      BY <1>4, <2>1, <2>3, <3>1, <3>2, QueueStays, NoItemAssumption
         DEF InState, Occupied, TypeOK, QueuedFollowUp
  <2> QED
    BY <1>5, <2>1, <2>2, <2>3
       DEF Next, vars, Submit, ClientStep, ClientLock, Lookup, Decide,
           DecideFails, ScheduleQueued, CheckOvertake, SendNow, RecordOutcome,
           Rearm, HerdrChange, Forget
<1> QED
  BY <1>1, <1>2, <1>3, <1>5

\* No follow-up vanishes silently, whatever claims, cancels, successors and
\* changes of the occupant race for its slot.
THEOREM NeverSilentlyLostCorrect == Spec => NeverSilentlyLost
<1>1. TypeOK /\ ClaimInv /\ [Next]_vars =>
        [\A a \in Agents :
           Occupied(a) /\ (items'[a] = NoItem \/ items'[a].rid # items[a].rid) =>
             \/ items[a].rid \in withdrawn'
             \/ attempts[items[a].rid] > 0
             \/ herdr[a].session # items[a].session \/ ~ herdr[a].ready
             \/ items'[a] # NoItem /\ items'[a].session # items[a].session]_vars
  BY NothingLost
<1> QED
  BY <1>1, TypeCorrect, ClaimInvCorrect, PTL DEF Spec, NeverSilentlyLost

----------------------------------------------------------------------------
(* The abstract service.                                                   *)
(*                                                                         *)
(* Between its enqueue and the record of its outcome a request is in no    *)
(* ledger: would its item go in between, the request would look new again. *)
(* The client holds the lock of the Agent all that time, which is what the *)
(* worker that could drop the item would need.                             *)

Pending(r) ==
  \A c \in Clients :
    pc[c] \in {"schedule", "queued"} /\ job[c].rid = r =>
      \/ attempts[r] > 0
      \/ r \in withdrawn
      \/ Holds(job[c].body.agent, r)

PendingInv == \A r \in Lasting : Pending(r)

ForgottenAge == forgotten \subseteq Ageing

KeepsName(a) == items'[a] # NoItem /\ items'[a].rid = items[a].rid

\* An item is moved by a worker inside the lock of its Agent, or keeps its name,
\* or was taken back, or gives way to a successor.
LEMMA ItemsKeepNames ==
  ASSUME TypeOK, Counted, [Next]_vars, NEW a \in Agents, Occupied(a)
  PROVE  \/ KeepsName(a)
         \/ \E w \in Workers : WorkerStep(w) /\ InCritical(w) /\ AgentOf(w) = a
         \/ items[a].rid \in withdrawn' \/ attempts[items[a].rid] > 0
         \/ \E c \in Clients : EnqueueFollowUp(c)
<1>1. ASSUME NEW w \in Workers, WorkerStep(w), items'[a] = NoItem
      PROVE  InCritical(w) /\ AgentOf(w) = a
  <2>1. /\ target[w] = a
        /\ Walks(w) \/ Takes(w) \/ Releases(w) \/ Begins(w) \/ Finishes(w)
    BY <1>1, WorkerMoves DEF Elsewhere, Occupied
  <2>2. pc[w] = "check" \/ Sending(w)
    BY <1>1, <2>1 DEF Walks, Takes, Releases, Begins, Finishes, Occupied
  <2> QED
    BY <2>1, <2>2, AgentKnown
       DEF InCritical, LockedPcs, TransactionPcs, Sending, SendingPcs
<1>2. ASSUME NEW w \in Workers, WorkerStep(w), items'[a] # NoItem
      PROVE  KeepsName(a)
  BY <1>2, WorkerMoves DEF Stays, KeepsName, Occupied
<1>3. ASSUME NEW b \in Agents, Cancel(b)
      PROVE  \/ KeepsName(a)
             \/ items[a].rid \in withdrawn' \/ attempts[items[a].rid] > 0
  BY <1>3 DEF Cancel, CancelItem, Counted, InState, KeepsName, Occupied, TypeOK
<1>4. ASSUME NEW b \in Agents, Edit(b) PROVE KeepsName(a)
  <2>1. PICK text \in Texts : ReplaceText(b, text)
    BY <1>4 DEF Edit
  <2>2. /\ items' = [items EXCEPT ![b].text = text] /\ Stays(a)
    BY <1>4, <2>1, QueueStays DEF ReplaceText
  <2>3. items'[a] # NoItem
    <3>1. items[a] \in QueuedFollowUp
      BY DEF Occupied, TypeOK
    <3>2. items'[a] = items[a] \/ items'[a] = [items[a] EXCEPT !.text = text]
      BY <2>2 DEF TypeOK
    <3>3. items'[a] \in QueuedFollowUp
      BY <2>1, <3>1, <3>2 DEF QueuedFollowUp
    <3> QED
      BY <3>3, NoItemAssumption
  <2> QED
    BY <2>2, <2>3 DEF Stays, KeepsName, Occupied
<1>5. UNCHANGED items => KeepsName(a)
  BY DEF KeepsName, Occupied
<1> QED
  BY <1>1, <1>2, <1>3, <1>4, <1>5
     DEF Next, vars, Submit, ClientStep, ClientLock, Lookup, Decide,
         DecideFails,
         ScheduleQueued, CheckOvertake, SendNow, RecordOutcome, Rearm,
         HerdrChange, Forget

LEMMA PendingNext ==
  ASSUME TypeOK, LockInv, TransactionExclusive, Counted, [Next]_vars,
         NEW r \in Requests, Pending(r)
  PROVE  Pending(r)'
<1> USE ThreadKinds
<1>1. SUFFICES ASSUME NEW c \in Clients, pc'[c] \in {"schedule", "queued"},
                      job'[c].rid = r
               PROVE  \/ attempts'[r] > 0 \/ r \in withdrawn'
                      \/ Holds(job[c].body.agent, r)'
  BY DEF Pending
<1>2. CASE EnqueueFollowUp(c)
  <2> DEFINE a == job[c].body.agent
  <2>1. /\ UNCHANGED job /\ a \in Agents
        /\ items' = [items EXCEPT ![a] =
             [rid |-> job[c].rid, session |-> job[c].body.session,
              text |-> job[c].body.text, state |-> "Queued"]]
    BY <1>1, <1>2, AgentKnown
       DEF EnqueueFollowUp, Enqueue, Return, Goto, TypeOK
  <2>2. [rid |-> job[c].rid, session |-> job[c].body.session,
         text |-> job[c].body.text, state |-> "Queued"] \in QueuedFollowUp
    BY <1>2, AgentKnown
       DEF EnqueueFollowUp, QueuedFollowUp, QueueState, DeliverableStates
  <2> QED
    BY <1>1, <2>1, <2>2, NoItemAssumption DEF Holds, Occupied, TypeOK, Job
<1>3. CASE ~ EnqueueFollowUp(c)
  <2>1. pc[c] \in {"schedule", "queued"} /\ job'[c] = job[c]
    <3>1. ASSUME NEW d \in Clients, Submit(d) \/ ClientStep(d)
          PROVE  pc[c] \in {"schedule", "queued"} /\ job'[c] = job[c]
      BY <1>1, <1>3, <3>1
         DEF Submit, ClientStep, ClientLock, Lookup, Decide, DecideFails,
             EnqueueFollowUp, ScheduleQueued, CheckOvertake, SendNow,
             RecordOutcome, Return, Schedule, PromptAccepted, PromptUncertain,
             Goto, TypeOK
    <3>2. ASSUME NEW w \in Workers, WorkerStep(w)
          PROVE  pc[c] \in {"schedule", "queued"} /\ job'[c] = job[c]
      BY <1>1, <3>2, WorkerMoves
    <3>3. ASSUME NEW a \in Agents, Rearm(a)
          PROVE  pc[c] \in {"schedule", "queued"} /\ job'[c] = job[c]
      BY <1>1, <3>3 DEF Rearm, Schedule, TypeOK
    <3> QED
      BY <1>1, <3>1, <3>2, <3>3
         DEF Next, vars, Cancel, Edit, HerdrChange, Forget, threadVars
  <2> DEFINE a == job[c].body.agent
  <2>2. a \in Agents /\ AgentOf(c) = a /\ InCritical(c)
    BY <2>1, AgentKnown DEF InCritical, LockedPcs, TransactionPcs
  <2>3. attempts[r] > 0 => attempts'[r] > 0
    BY AttemptsGrow
  <2>4. withdrawn \subseteq withdrawn'
    BY <2>2, WorkerMoves, OthersLeaveClaimed
  <2>5. CASE Holds(a, r)
    <3>1. \A w \in Workers : ~ (InCritical(w) /\ AgentOf(w) = a)
      BY <2>2 DEF LockInv, LockExclusive
    <3>2. \A d \in Clients : ~ EnqueueFollowUp(d)
      BY <1>3, <2>1 DEF EnqueueFollowUp, TransactionExclusive, TransactionPcs
    <3>3. Occupied(a) /\ items[a].rid = r
      BY <2>5 DEF Holds
    <3>4. \/ items'[a] # NoItem /\ items'[a].rid = r
          \/ r \in withdrawn' \/ attempts[r] > 0
      BY <2>2, <3>1, <3>2, <3>3, ItemsKeepNames DEF KeepsName
    <3> QED
      BY <2>1, <2>3, <3>4 DEF Holds, Occupied
  <2> QED
    BY <1>1, <2>1, <2>3, <2>4, <2>5 DEF Pending
<1> QED
  BY <1>2, <1>3

\* The phase of a request, read off the code's state.
PhaseTable(r) ==
  LET held(a) == Holds(a, r)
      failed(a) == items[a].state = "FailedRecoverable" IN
  /\ attempts[r] > 0 => PhaseOf(r) = "sent"
  /\ ~ (attempts[r] > 0) =>
       /\ r \in withdrawn => PhaseOf(r) = "returned"
       /\ r \notin withdrawn =>
            /\ \A a \in Agents : held(a) /\ ~ failed(a) => PhaseOf(r) = "held"
            /\ (\E a \in Agents : held(a)) /\ (\A a \in Agents : held(a) => failed(a))
                 => PhaseOf(r) = "failed"
            /\ (\A a \in Agents : ~ held(a)) =>
                 PhaseOf(r) = IF ledger[r] = NoEntry THEN "new"
                              ELSE IF ledger[r].outcome = "QueuedAfterTurn"
                                THEN "dropped" ELSE "refused"

LEMMA PhaseRead == ASSUME NEW r PROVE PhaseTable(r) /\ PhaseTable(r)'
BY DEF PhaseTable, PhaseOf, InState, Holds

\* A step that leaves all of it leaves the phase.
Quiet(r) ==
  /\ attempts'[r] = attempts[r]
  /\ r \in withdrawn' <=> r \in withdrawn
  /\ ledger'[r] = ledger[r]
  /\ \A a \in Agents :
       /\ Holds(a, r)' <=> Holds(a, r)
       /\ Holds(a, r) => (items'[a].state = "FailedRecoverable" <=>
                            items[a].state = "FailedRecoverable")

LEMMA QuietPhase == ASSUME NEW r, Quiet(r) PROVE PhaseOf(r)' = PhaseOf(r)
<1> DEFINE slots == {a \in Agents : Holds(a, r)}
<1>1. slots' = slots
  BY DEF Quiet
<1>2. (\A a \in slots : InState(a, {"FailedRecoverable"}))' <=>
        \A a \in slots : InState(a, {"FailedRecoverable"})
  BY <1>1 DEF Quiet, InState, Holds
<1> QED
  BY <1>1, <1>2 DEF PhaseOf, Quiet

\* What PromptOnce lets happen to one request.
Allowed(old, new) ==
  \/ old = "new" /\ new \in {"sent", "held", "refused"}
  \/ old = "held" /\ new \in {"sent", "failed"}
  \/ old \in {"held", "failed"} /\ new \in {"returned", "dropped"}

Phases == [r \in Lasting |-> PhaseOf(r)]

LEMMA OneMoves ==
  ASSUME NEW q,
         \A r \in Lasting \ {q} : PhaseOf(r)' = PhaseOf(r),
         q \in Lasting => \/ PhaseOf(q)' = PhaseOf(q)
                          \/ Allowed(PhaseOf(q), PhaseOf(q)')
  PROVE  [Service!Next]_Phases
<1>1. CASE q \notin Lasting \/ PhaseOf(q)' = PhaseOf(q)
  <2>1. \A r \in Lasting : PhaseOf(r)' = PhaseOf(r)
    BY <1>1
  <2>2. Phases' = Phases
    BY <2>1 DEF Phases
  <2> QED
    BY <2>2
<1>2. CASE q \in Lasting /\ Allowed(PhaseOf(q), PhaseOf(q)')
  <2>1. Phases' = [Phases EXCEPT ![q] = PhaseOf(q)'] /\ Phases[q] = PhaseOf(q)
    BY <1>2 DEF Phases
  <2>2. \A from, to : PhaseOf(q) \in from /\ PhaseOf(q)' \in to => Service!Move(q, from, to)
    BY <1>2, <2>1 DEF Service!Move, Phases
  <2>3. Service!Answer(q) \/ Service!Deliver(q) \/ Service!GiveUp(q)
    BY <1>2, <2>2 DEF Allowed, Service!Answer, Service!Deliver, Service!GiveUp
  <2> QED
    BY <1>2, <2>3 DEF Service!Next
<1> QED
  BY <1>1, <1>2

\* A new item takes the place of a trail.
LEMMA OneSupersedes ==
  ASSUME NEW q \in Lasting, NEW p \in Lasting, p # q,
         \A r \in Lasting \ {p, q} : PhaseOf(r)' = PhaseOf(r),
         PhaseOf(q) = "new", PhaseOf(q)' = "held",
         PhaseOf(p) = "failed", PhaseOf(p)' = "dropped"
  PROVE  [Service!Next]_Phases
<1>1. /\ Phases[q] = "new" /\ Phases[p] = "failed"
      /\ Phases' = [Phases EXCEPT ![q] = "held", ![p] = "dropped"]
  BY DEF Phases
<1>2. Service!Supersede(q, p)
  BY <1>1 DEF Service!Supersede, Phases
<1> QED
  BY <1>2 DEF Service!Next

\* An item whose client has recorded it can only have been queued.
LEMMA HeldIsRecorded ==
  ASSUME TypeOK, NEW r \in Requests, Once(r), Pending(r), NEW a \in Agents,
         Holds(a, r), ~ (attempts[r] > 0),
         \A c \in Clients :
           pc[c] \in {"schedule", "queued"} => job[c].body.agent # a
  PROVE  ledger[r] # NoEntry /\ ledger[r].outcome = "QueuedAfterTurn"
<1>1. Queued(r) /\ r \notin withdrawn /\ attempts[r] = 0
  BY DEF Queued, Once, ItemOnce, TypeOK
<1>2. ledger[r] # NoEntry
  <2> SUFFICES ASSUME ledger[r] = NoEntry PROVE FALSE
    OBVIOUS
  <2>1. PICK c \in Clients :
          pc[c] \in {"schedule", "queued", "accepted", "uncertain"} /\ job[c].rid = r
    BY <1>1 DEF Once, RequestOnce, Untouched, Known
  <2>2. pc[c] \in {"schedule", "queued"}
    BY <1>1, <2>1 DEF Once, ClientOnce, TransactionPcs
  <2>3. Holds(job[c].body.agent, r) /\ job[c].body.agent \in Agents
    BY <1>1, <2>1, <2>2, AgentKnown DEF Pending
  <2> QED
    BY <2>2, <2>3 DEF Once, ItemOnce
<1>3. ledger[r].outcome \in Outcomes
  BY <1>2 DEF TypeOK, Entry
<1> QED
  BY <1>1, <1>2, <1>3 DEF Once, LedgerOnce, Outcomes

\* What a worker's step means to the service.
LEMMA WorkerServes ==
  ASSUME TypeOK, LockInv, Counted, [Next]_vars,
         \A r \in Lasting : r \in Requests /\ Once(r) /\ Pending(r),
         NEW w \in Workers, WorkerStep(w),
         NEW a, a = target[w], NEW q, q = claim[w].rid
  PROVE  [Service!Next]_Phases
<1> USE ThreadKinds
<1>1. /\ a \in Agents /\ AgentOf(w) = a
      /\ UNCHANGED <<job, target, withdrawn, forgotten, ledger>>
      /\ Elsewhere(a) /\ Stays(a)
      /\ Walks(w) \/ Takes(w) \/ Releases(w) \/ Begins(w) \/ Finishes(w)
  BY WorkerMoves DEF AgentOf
<1>2. ASSUME NEW r \in Lasting, attempts'[r] = attempts[r],
             \/ items'[a] = items[a]
             \/ ~ Holds(a, r)
             \/ /\ items'[a] # NoItem
                /\ items'[a].state = "FailedRecoverable" <=>
                     items[a].state = "FailedRecoverable"
      PROVE  PhaseOf(r)' = PhaseOf(r)
  <2>1. \A b \in Agents :
          /\ Holds(b, r)' <=> Holds(b, r)
          /\ Holds(b, r) => (items'[b].state = "FailedRecoverable" <=>
                               items[b].state = "FailedRecoverable")
    <3> SUFFICES ASSUME NEW b \in Agents
                 PROVE  /\ Holds(b, r)' <=> Holds(b, r)
                        /\ Holds(b, r) => (items'[b].state = "FailedRecoverable" <=>
                                             items[b].state = "FailedRecoverable")
      OBVIOUS
    <3>1. CASE b # a
      BY <1>1, <3>1 DEF Elsewhere, Holds, Occupied
    <3>2. CASE b = a
      BY <1>1, <1>2, <3>2 DEF Stays, Holds, Occupied
    <3> QED
      BY <3>1, <3>2
  <2> QED
    BY <1>1, <1>2, <2>1, QuietPhase DEF Quiet
<1>3. CASE Deliver(w)
  <2>1. items' = items /\ q \in Requests /\ pc[w] = "prompt" /\ claim[w] # NoClaim
    BY <1>3, AgentKnown, NullsAssumption DEF Deliver
  <2>2. CASE UNCHANGED attempts
    <3>1. \A r \in Lasting : PhaseOf(r)' = PhaseOf(r)
      BY <1>2, <2>1, <2>2
    <3> QED
      BY <3>1, OneMoves
  <2>3. CASE CountAttempt(q)
    <3>1. \A r \in Lasting \ {q} : PhaseOf(r)' = PhaseOf(r)
      BY <1>2, <2>1, <2>3 DEF CountAttempt, TypeOK
    <3>2. ASSUME q \in Lasting PROVE Allowed(PhaseOf(q), PhaseOf(q)')
      <4>1. Once(q) /\ HasClaim(w, q)
        BY <2>1, <3>2 DEF HasClaim
      <4>2. /\ Holds(a, q) /\ items[a].state = "Delivering"
            /\ attempts[q] = 0 /\ q \notin withdrawn
        BY <1>1, <2>1, <4>1 DEF Once, WorkerOnce, ItemOnce, SendingPcs
      <4>3. PhaseOf(q) = "held"
        BY <1>1, <4>2, PhaseRead DEF PhaseTable
      <4>4. PhaseOf(q)' = "sent"
        <5>1. attempts'[q] > 0
          BY <2>1, <2>3, <4>2 DEF CountAttempt, TypeOK
        <5>2. PhaseTable(q)'
          BY PhaseRead
        <5> QED
          BY <2>1, <5>1, <5>2 DEF PhaseTable
      <4> QED
        BY <4>3, <4>4 DEF Allowed
    <3> QED
      BY <3>1, <3>2, OneMoves
  <2> QED
    BY <1>3, <2>2, <2>3 DEF Deliver
<1>4. CASE ~ Deliver(w)
  <2>1. UNCHANGED attempts
    BY <1>4 DEF WorkerStep, ClaimItem, WaitSendable, WaitRetained, Reserve,
       WorkerLock, CheckIdentity, CheckFails, Begin, FinishDelivery, ExitGate,
       historyVars
  <2>2. CASE Walks(w) \/ Takes(w) \/ Begins(w)
    <3>1. \/ items'[a] = items[a]
          \/ /\ items'[a] # NoItem
             /\ items'[a].state = "FailedRecoverable" <=>
                  items[a].state = "FailedRecoverable"
      BY <2>2 DEF Walks, Takes, Begins, ClaimStands, InState
    <3>2. \A r \in Lasting : PhaseOf(r)' = PhaseOf(r)
      BY <1>2, <2>1, <3>1
    <3> QED
      BY <3>2, OneMoves
  <2>3. CASE Releases(w)
    <3>1. CASE items'[a] = NoItem /\ Occupied(a)
      <4>1. Holds(a, q) /\ pc[w] = "check" /\ InCritical(w)
        BY <2>3, <3>1
           DEF Releases, Occupied, InCritical, LockedPcs
      <4>2. \A r \in Lasting \ {q} : PhaseOf(r)' = PhaseOf(r)
        BY <1>2, <2>1, <4>1 DEF Holds
      <4>3. ASSUME q \in Lasting, ~ (attempts[q] > 0)
            PROVE  Allowed(PhaseOf(q), PhaseOf(q)')
        <5>1. Once(q) /\ Pending(q) /\ q \in Requests
          BY <4>3
        <5>2. q \notin withdrawn /\ \A b \in Agents : Holds(b, q) => b = a
          BY <1>1, <4>1, <5>1 DEF Once, ItemOnce
        <5>3. \A c \in Clients :
                pc[c] \in {"schedule", "queued"} => job[c].body.agent # a
          <6> SUFFICES ASSUME NEW c \in Clients, pc[c] \in {"schedule", "queued"}
                       PROVE  AgentOf(c) # a
            BY AgentKnown
          <6>1. InCritical(c)
            BY DEF InCritical, LockedPcs, TransactionPcs
          <6> QED
            BY <1>1, <4>1, <6>1 DEF LockInv, LockExclusive
        <5>4. ledger[q] # NoEntry /\ ledger[q].outcome = "QueuedAfterTurn"
          BY <1>1, <4>1, <4>3, <5>1, <5>3, HeldIsRecorded
        <5>5. PhaseOf(q) \in {"held", "failed"}
          BY <1>1, <4>1, <4>3, <5>2, PhaseRead DEF PhaseTable
        <5>6. \A b \in Agents : ~ (items'[b] # NoItem /\ items'[b].rid = q)
          BY <1>1, <3>1, <5>2 DEF Elsewhere, Holds, Occupied
        <5>7. PhaseOf(q)' = "dropped"
          BY <1>1, <2>1, <4>3, <5>2, <5>4, <5>6, PhaseRead
             DEF PhaseTable, Holds, Occupied
        <5> QED
          BY <5>5, <5>7 DEF Allowed
      <4>4. ASSUME q \in Lasting, attempts[q] > 0
            PROVE  PhaseOf(q)' = PhaseOf(q)
        BY <2>1, <4>4, PhaseRead DEF PhaseTable
      <4> QED
        BY <4>2, <4>3, <4>4, OneMoves
    <3>2. CASE items'[a] # NoItem \/ ~ Occupied(a)
      <4>1. \/ items'[a] = items[a]
            \/ /\ items'[a] # NoItem
               /\ items'[a].state = "FailedRecoverable" <=>
                    items[a].state = "FailedRecoverable"
        BY <1>1, <2>3, <3>2 DEF Releases, ClaimStands, Holds, InState
      <4>2. \A r \in Lasting : PhaseOf(r)' = PhaseOf(r)
        BY <1>2, <2>1, <4>1
      <4> QED
        BY <4>2, OneMoves
    <3> QED
      BY <3>1, <3>2
  <2>4. CASE Finishes(w)
    <3>1. /\ Sending(w) /\ claim[w] # NoClaim
          /\ items'[a] = items[a] \/ Holds(a, q)
      BY <1>1, <2>4 DEF Finishes, Sending, SendingPcs, TypeOK
    <3>2. \A r \in Lasting \ {q} : PhaseOf(r)' = PhaseOf(r)
      BY <1>2, <2>1, <3>1 DEF Holds
    <3>3. ASSUME q \in Lasting, attempts[q] > 0 PROVE PhaseOf(q)' = PhaseOf(q)
      BY <2>1, <3>3, PhaseRead DEF PhaseTable
    <3>4. ASSUME q \in Lasting, ~ (attempts[q] > 0)
          PROVE  Allowed(PhaseOf(q), PhaseOf(q)')
      <4>1. Once(q) /\ HasClaim(w, q) /\ q \in Requests
        BY <3>1, <3>4 DEF HasClaim
      <4>2. /\ Holds(a, q) /\ items[a].state = "Delivering" /\ q \notin withdrawn
            /\ \A b \in Agents : Holds(b, q) => b = a
        BY <1>1, <3>1, <4>1 DEF Once, WorkerOnce, ItemOnce, Sending
      <4>3. items'[a] # NoItem /\ items'[a].state = "FailedRecoverable"
        BY <2>4, <3>4, <4>2 DEF Finishes, Counted
      <4>4. PhaseOf(q) = "held"
        BY <1>1, <3>4, <4>2, PhaseRead DEF PhaseTable
      <4>5. /\ items'[a].rid = q
            /\ \A b \in Agents : items'[b] # NoItem /\ items'[b].rid = q => b = a
        BY <1>1, <4>2, <4>3 DEF Stays, Elsewhere, Holds, Occupied
      <4>6. PhaseOf(q)' = "failed"
        BY <1>1, <2>1, <3>4, <4>2, <4>3, <4>5, PhaseRead
           DEF PhaseTable, Holds, Occupied
      <4> QED
        BY <4>4, <4>6 DEF Allowed
    <3> QED
      BY <3>2, <3>3, <3>4, OneMoves
  <2> QED
    BY <1>1, <2>2, <2>3, <2>4
<1> QED
  BY <1>3, <1>4

\* A new follow-up is taken in, perhaps in the place of an old one's trail.
LEMMA EnqueueServes ==
  ASSUME TypeOK, TransactionExclusive, Counted,
         \A r \in Lasting : r \in Requests /\ Once(r) /\ Pending(r),
         NEW c \in Clients, EnqueueFollowUp(c),
         NEW a, a = job[c].body.agent, NEW q, q = job[c].rid
  PROVE  [Service!Next]_Phases
<1> USE ThreadKinds
<1>1. /\ UNCHANGED <<attempts, withdrawn, ledger>>
      /\ a \in Agents /\ q \in Requests /\ pc[c] = "enqueue"
  BY AgentKnown DEF EnqueueFollowUp, historyVars
<1>2. CASE UNCHANGED items
  <2>1. \A r \in Lasting : PhaseOf(r)' = PhaseOf(r)
    BY <1>1, <1>2, QuietPhase DEF Quiet, Holds, Occupied
  <2> QED
    BY <2>1, OneMoves
<1>3. CASE Enqueue(a, q, job[c].body.session, job[c].body.text)
  <2>1. /\ items'[a] # NoItem /\ items'[a].rid = q /\ items'[a].state = "Queued"
        /\ Elsewhere(a)
        /\ Occupied(a) => items[a].state \in TerminalStates
    <3>1. [rid |-> q, session |-> job[c].body.session,
           text |-> job[c].body.text, state |-> "Queued"] \in QueuedFollowUp
      BY <1>1, AgentKnown DEF QueuedFollowUp, QueueState, DeliverableStates
    <3> QED
      BY <1>1, <1>3, <3>1, NoItemAssumption
         DEF Enqueue, CanEnqueue, InState, Elsewhere, TypeOK
  <2>2. ASSUME q \in Lasting PROVE PhaseOf(q) = "new" /\ PhaseOf(q)' = "held"
    <3>1. Once(q)
      BY <2>2
    <3>2. ledger[q] = NoEntry /\ Untouched(q)
      BY <1>1, <3>1 DEF Once, ClientOnce, TransactionPcs
    <3>3. PhaseOf(q) = "new"
      BY <3>2, PhaseRead DEF PhaseTable, Untouched, Queued
    <3>4. PhaseOf(q)' = "held"
      BY <1>1, <2>1, <3>2, PhaseRead DEF PhaseTable, Untouched, Holds, Occupied
    <3> QED
      BY <3>3, <3>4
  <2>3. \A r \in Lasting \ {q} : ~ Holds(a, r) => PhaseOf(r)' = PhaseOf(r)
    <3> SUFFICES ASSUME NEW r \in Lasting \ {q}, ~ Holds(a, r)
                 PROVE  Quiet(r)
      BY QuietPhase
    <3>1. \A b \in Agents : b = a \/ items'[b] = items[b]
      BY <2>1 DEF Elsewhere
    <3> QED
      BY <1>1, <2>1, <3>1 DEF Quiet, Holds, Occupied
  <2>4. CASE Occupied(a)
    <3>1. PICK p : p = items[a].rid
      OBVIOUS
    <3>2. Holds(a, p) /\ \A r : Holds(a, r) => r = p
      BY <2>4, <3>1 DEF Holds
    <3>3. q \in Lasting => p # q
      BY <1>1, <3>2 DEF Once, ClientOnce, Untouched, Queued, TransactionPcs
    <3>4. CASE p \in Lasting /\ ~ (attempts[p] > 0)
      <4>1. /\ Once(p) /\ Pending(p) /\ p \in Requests
        BY <3>4
      <4>2. /\ items[a].state = "FailedRecoverable" /\ p \notin withdrawn
            /\ \A b \in Agents : Holds(b, p) => b = a
        BY <1>1, <2>1, <2>4, <3>1, <3>2, <3>4, <4>1
           DEF Counted, InState, TerminalStates, Once, ItemOnce
      <4>3. PhaseOf(p) = "failed"
        BY <1>1, <3>2, <3>4, <4>2, PhaseRead DEF PhaseTable
      <4>4. ledger[p] # NoEntry /\ ledger[p].outcome = "QueuedAfterTurn"
        <5>1. \A d \in Clients : pc[d] \notin {"schedule", "queued"}
          BY <1>1 DEF TransactionExclusive, TransactionPcs
        <5> QED
          BY <1>1, <3>2, <3>4, <4>1, <5>1, HeldIsRecorded
      <4>5. PhaseOf(p)' = "dropped"
        <5>1. p # q
          BY <1>1, <3>2, <3>3, <4>1
             DEF Once, ClientOnce, Untouched, Queued, TransactionPcs
        <5>2. \A b \in Agents : ~ (items'[b] # NoItem /\ items'[b].rid = p)
          BY <2>1, <4>2, <5>1 DEF Elsewhere, Holds, Occupied
        <5> QED
          BY <1>1, <3>4, <4>2, <4>4, <5>2, PhaseRead
             DEF PhaseTable, Holds, Occupied
      <4>6. \A r \in Lasting \ {p, q} : PhaseOf(r)' = PhaseOf(r)
        BY <2>3, <3>2
      <4>7. CASE q \in Lasting
        BY <2>2, <3>3, <3>4, <4>3, <4>5, <4>6, <4>7, OneSupersedes
      <4>8. CASE q \notin Lasting
        <5>1. Allowed(PhaseOf(p), PhaseOf(p)')
          BY <4>3, <4>5 DEF Allowed
        <5> QED
          BY <4>6, <4>8, <5>1, OneMoves
      <4> QED
        BY <4>7, <4>8
    <3>5. CASE p \notin Lasting \/ attempts[p] > 0
      <4>1. \A r \in Lasting \ {q} : PhaseOf(r)' = PhaseOf(r)
        BY <1>1, <2>3, <3>2, <3>5, PhaseRead DEF PhaseTable
      <4>2. q \in Lasting => Allowed(PhaseOf(q), PhaseOf(q)')
        BY <2>2 DEF Allowed
      <4> QED
        BY <4>1, <4>2, OneMoves
    <3> QED
      BY <3>4, <3>5
  <2>5. CASE ~ Occupied(a)
    <3>1. \A r \in Lasting \ {q} : PhaseOf(r)' = PhaseOf(r)
      BY <2>3, <2>5 DEF Holds
    <3>2. q \in Lasting => Allowed(PhaseOf(q), PhaseOf(q)')
      BY <2>2 DEF Allowed
    <3> QED
      BY <3>1, <3>2, OneMoves
  <2> QED
    BY <2>4, <2>5
<1> QED
  BY <1>2, <1>3 DEF EnqueueFollowUp

\* What a client's step means to the service.
LEMMA ClientServes ==
  ASSUME TypeOK, TransactionExclusive, Counted,
         \A r \in Lasting : r \in Requests /\ Once(r) /\ Pending(r),
         NEW c \in Clients, Submit(c) \/ ClientStep(c),
         NEW q, q = job[c].rid
  PROVE  [Service!Next]_Phases
<1> USE ThreadKinds
<1>1. ASSUME UNCHANGED <<items, attempts, withdrawn>>, NEW r,
             ledger'[r] = ledger[r]
      PROVE  PhaseOf(r)' = PhaseOf(r)
  BY <1>1, QuietPhase DEF Quiet, Holds, Occupied
<1>2. CASE UNCHANGED <<items, attempts, withdrawn, ledger>>
  <2>1. \A r \in Lasting : PhaseOf(r)' = PhaseOf(r)
    BY <1>1, <1>2
  <2> QED
    BY <2>1, OneMoves
<1>3. CASE EnqueueFollowUp(c)
  BY <1>3, EnqueueServes
<1>4. CASE Decide(c)
  <2> DEFINE d == Disposition(herdr[AgentOf(c)].status)
  <2>1. UNCHANGED <<items, attempts, withdrawn>>
    BY <1>4 DEF Decide
  <2>2. CASE UNCHANGED ledger
    BY <1>2, <2>1, <2>2
  <2>3. CASE d \in {"NeedsTerminal", "RejectedUnknown"} /\ Record(q, job[c].body, d)
    <3>1. \A r \in Lasting \ {q} : PhaseOf(r)' = PhaseOf(r)
      BY <1>1, <2>1, <2>3 DEF Record, TypeOK
    <3>2. ASSUME q \in Lasting PROVE Allowed(PhaseOf(q), PhaseOf(q)')
      <4>1. q \in Requests /\ ledger[q] = NoEntry /\ Untouched(q)
        BY <1>4, <3>2 DEF Decide, Once, ClientOnce, TransactionPcs
      <4>2. PhaseOf(q) = "new"
        BY <4>1, PhaseRead DEF PhaseTable, Untouched, Queued
      <4>3. ledger'[q] # NoEntry /\ ledger'[q].outcome # "QueuedAfterTurn"
        <5>1. [body |-> job[c].body, outcome |-> d] \in Entry
          BY <1>4, <2>3, AgentKnown DEF Decide, Entry, Outcomes
        <5> HIDE DEF d
        <5> QED
          BY <2>3, <4>1, <5>1, NullsAssumption DEF Record, TypeOK
      <4>4. PhaseOf(q)' = "refused"
        BY <2>1, <4>1, <4>3, PhaseRead
           DEF PhaseTable, Untouched, Queued, Holds, Occupied
      <4> QED
        BY <4>2, <4>4 DEF Allowed
    <3> QED
      BY <3>1, <3>2, OneMoves
  <2> QED
    BY <1>4, <2>2, <2>3 DEF Decide
<1>5. CASE SendNow(c)
  <2>1. UNCHANGED <<items, withdrawn, ledger>> /\ q \in Requests /\ pc[c] = "prompt"
    BY <1>5, AgentKnown DEF SendNow
  <2>2. CASE UNCHANGED attempts
    BY <1>2, <2>1, <2>2
  <2>3. CASE CountAttempt(q)
    <3>1. ASSUME NEW r \in Lasting \ {q} PROVE PhaseOf(r)' = PhaseOf(r)
      BY <2>1, <2>3, QuietPhase
         DEF Quiet, Holds, Occupied, CountAttempt, TypeOK
    <3>2. ASSUME q \in Lasting PROVE Allowed(PhaseOf(q), PhaseOf(q)')
      <4>1. ledger[q] = NoEntry /\ Untouched(q)
        BY <2>1, <3>2 DEF Once, ClientOnce, TransactionPcs
      <4>2. PhaseOf(q) = "new"
        BY <4>1, PhaseRead DEF PhaseTable, Untouched, Queued
      <4>3. attempts'[q] > 0
        BY <2>1, <2>3, <4>1 DEF CountAttempt, TypeOK, Untouched
      <4>4. PhaseOf(q)' = "sent"
        BY <4>3, PhaseRead DEF PhaseTable
      <4> QED
        BY <4>2, <4>4 DEF Allowed
    <3> QED
      BY <3>1, <3>2, OneMoves
  <2> QED
    BY <1>5, <2>2, <2>3 DEF SendNow
<1>6. CASE RecordOutcome(c)
  <2>1. /\ UNCHANGED <<items, attempts, withdrawn>> /\ q \in Requests
        /\ pc[c] \in {"queued", "accepted", "uncertain"}
    BY <1>6, AgentKnown DEF RecordOutcome, historyVars
  <2>2. \A r \in Lasting \ {q} : PhaseOf(r)' = PhaseOf(r)
    BY <1>1, <1>6, <2>1 DEF RecordOutcome, Record, TypeOK
  <2>3. ASSUME q \in Lasting PROVE PhaseOf(q)' = PhaseOf(q)
    <3>1. \/ attempts[q] > 0
          \/ q \in withdrawn
          \/ \E a \in Agents : Holds(a, q)
      <4>1. CASE pc[c] = "queued"
        BY <2>1, <2>3, <4>1, AgentKnown DEF Pending
      <4>2. CASE pc[c] \in {"accepted", "uncertain"}
        BY <2>1, <2>3, <4>2 DEF Once, ClientOnce, TransactionPcs
      <4> QED
        BY <2>1, <4>1, <4>2
    <3>2. \A a \in Agents :
            /\ Holds(a, q)' <=> Holds(a, q)
            /\ items'[a].state = items[a].state
      BY <2>1 DEF Holds, Occupied
    <3>3. PhaseTable(q) /\ PhaseTable(q)'
      BY PhaseRead
    <3>4. CASE attempts[q] > 0 \/ q \in withdrawn
      BY <2>1, <3>3, <3>4 DEF PhaseTable
    <3>5. CASE /\ ~ (attempts[q] > 0) /\ q \notin withdrawn
               /\ \E a \in Agents : Holds(a, q) /\ items[a].state # "FailedRecoverable"
      <4>1. PhaseOf(q) = "held"
        BY <3>3, <3>5 DEF PhaseTable
      <4>2. PhaseOf(q)' = "held"
        BY <2>1, <3>2, <3>3, <3>5 DEF PhaseTable
      <4> QED
        BY <4>1, <4>2
    <3>6. CASE /\ ~ (attempts[q] > 0) /\ q \notin withdrawn
               /\ \A a \in Agents : Holds(a, q) => items[a].state = "FailedRecoverable"
      <4>1. PhaseOf(q) = "failed"
        BY <3>1, <3>3, <3>6 DEF PhaseTable
      <4>2. PhaseOf(q)' = "failed"
        BY <2>1, <3>1, <3>2, <3>3, <3>6 DEF PhaseTable
      <4> QED
        BY <4>1, <4>2
    <3> QED
      BY <3>4, <3>5, <3>6
  <2> QED
    BY <2>2, <2>3, OneMoves
<1> QED
  BY <1>2, <1>3, <1>4, <1>5, <1>6
     DEF Submit, ClientStep, ClientLock, Lookup, DecideFails, ScheduleQueued,
         CheckOvertake, historyVars

\* The user, time and Herdr.
LEMMA OthersServe ==
  ASSUME TypeOK, Counted,
         \A r \in Lasting : r \in Requests /\ Once(r),
         \/ \E a \in Agents : Cancel(a) \/ Edit(a) \/ Rearm(a) \/ HerdrChange(a)
         \/ \E r \in Requests : Forget(r)
         \/ UNCHANGED vars
  PROVE  [Service!Next]_Phases
<1>1. ASSUME UNCHANGED <<items, attempts, withdrawn>>,
             \A r \in Lasting : ledger'[r] = ledger[r]
      PROVE  [Service!Next]_Phases
  <2>1. \A r \in Lasting : PhaseOf(r)' = PhaseOf(r)
    BY <1>1, QuietPhase DEF Quiet, Holds, Occupied
  <2> QED
    BY <2>1, OneMoves
<1>2. ASSUME NEW a \in Agents, Cancel(a) PROVE [Service!Next]_Phases
  <2>1. PICK q : q = items[a].rid
    OBVIOUS
  <2>2. /\ Holds(a, q) /\ Elsewhere(a) /\ items'[a] = NoItem
        /\ UNCHANGED <<attempts, ledger>>
        /\ withdrawn' = IF items[a].state = "DeliveryUncertain"
                          THEN withdrawn ELSE withdrawn \cup {q}
    BY <1>2, <2>1
       DEF Cancel, CancelItem, InState, Holds, Occupied, Elsewhere, TypeOK
  <2>3. ASSUME NEW r \in Lasting \ {q} PROVE PhaseOf(r)' = PhaseOf(r)
    <3>1. ~ Holds(a, r) /\ (r \in withdrawn' <=> r \in withdrawn)
      BY <2>2 DEF Holds
    <3>2. \A b \in Agents : b = a \/ items'[b] = items[b]
      BY <2>2 DEF Elsewhere
    <3>3. Quiet(r)
      BY <2>2, <3>1, <3>2 DEF Quiet, Holds, Occupied
    <3> QED
      BY <3>3, QuietPhase
  <2>4. ASSUME q \in Lasting, attempts[q] > 0 PROVE PhaseOf(q)' = PhaseOf(q)
    BY <2>2, <2>4, PhaseRead DEF PhaseTable
  <2>5. ASSUME q \in Lasting, ~ (attempts[q] > 0)
        PROVE  Allowed(PhaseOf(q), PhaseOf(q)')
    <3>1. q \in withdrawn'
      BY <2>1, <2>2, <2>5 DEF Counted, InState, Holds
    <3>2. q \notin withdrawn /\ \A b \in Agents : Holds(b, q) => b = a
      BY <2>2, <2>5 DEF Once, ItemOnce
    <3>3. PhaseOf(q) \in {"held", "failed"}
      BY <2>2, <2>5, <3>2, PhaseRead DEF PhaseTable
    <3>4. PhaseOf(q)' = "returned"
      BY <2>2, <2>5, <3>1, PhaseRead DEF PhaseTable
    <3> QED
      BY <3>3, <3>4 DEF Allowed
  <2> QED
    BY <2>3, <2>4, <2>5, OneMoves
<1>3. ASSUME NEW a \in Agents, Edit(a) PROVE [Service!Next]_Phases
  <2>1. PICK text \in Texts : ReplaceText(a, text)
    BY <1>3 DEF Edit
  <2>2. /\ items[a] \in QueuedFollowUp
        /\ items' = [items EXCEPT ![a].text = text]
        /\ UNCHANGED <<attempts, withdrawn, ledger>>
    BY <1>3, <2>1 DEF Edit, ReplaceText, InState, Occupied, TypeOK, historyVars
  <2>3. /\ Elsewhere(a) /\ items'[a] = [items[a] EXCEPT !.text = text]
    BY <2>2 DEF Elsewhere, TypeOK
  <2>4. /\ items'[a] # NoItem /\ items[a] # NoItem
        /\ items'[a].rid = items[a].rid /\ items'[a].state = items[a].state
    <3>1. items'[a] \in QueuedFollowUp
      BY <2>1, <2>2, <2>3 DEF QueuedFollowUp
    <3> QED
      BY <2>2, <2>3, <3>1, NoItemAssumption DEF QueuedFollowUp
  <2>5. \A r \in Lasting : PhaseOf(r)' = PhaseOf(r)
    <3> SUFFICES ASSUME NEW r \in Lasting PROVE Quiet(r)
      BY QuietPhase
    <3>1. \A b \in Agents : b = a \/ items'[b] = items[b]
      BY <2>3 DEF Elsewhere
    <3> QED
      BY <2>2, <2>4, <3>1 DEF Quiet, Holds, Occupied
  <2> QED
    BY <2>5, OneMoves
<1>4. ASSUME NEW a \in Agents, Rearm(a) \/ HerdrChange(a)
      PROVE  [Service!Next]_Phases
  BY <1>1, <1>4 DEF Rearm, HerdrChange, historyVars
<1>5. ASSUME NEW r \in Requests, Forget(r) PROVE [Service!Next]_Phases
  BY <1>1, <1>5 DEF Forget, Lasting, TypeOK
<1>6. ASSUME UNCHANGED vars PROVE [Service!Next]_Phases
  BY <1>1, <1>6 DEF vars
<1> QED
  BY <1>2, <1>3, <1>4, <1>5, <1>6

LEMMA ServiceStep ==
  ASSUME TypeOK, LockInv, OnceInv, ClaimInv, PendingInv, ForgottenAge, [Next]_vars
  PROVE  [Service!Next]_Phases
<1>1. \A r \in Lasting : r \in Requests /\ Once(r) /\ Pending(r)
  BY DEF OnceInv, PendingInv, ForgottenAge, Lasting
<1>2. ASSUME NEW c \in Clients, Submit(c) \/ ClientStep(c)
      PROVE  [Service!Next]_Phases
  BY <1>1, <1>2, ClientServes DEF OnceInv, ClaimInv
<1>3. ASSUME NEW w \in Workers, WorkerStep(w) PROVE [Service!Next]_Phases
  BY <1>1, <1>3, WorkerServes DEF ClaimInv
<1>4. ASSUME \/ \E a \in Agents : Cancel(a) \/ Edit(a) \/ Rearm(a) \/ HerdrChange(a)
             \/ \E r \in Requests : Forget(r)
             \/ UNCHANGED vars
      PROVE  [Service!Next]_Phases
  BY <1>1, <1>4, OthersServe DEF ClaimInv
<1> QED
  BY <1>2, <1>3, <1>4 DEF Next

\* Only an entry that may age is ever forgotten.
LEMMA ForgottenNext == ForgottenAge /\ [Next]_vars => ForgottenAge'
<1> SUFFICES ASSUME ForgottenAge, [Next]_vars PROVE forgotten' \subseteq Ageing
  BY DEF ForgottenAge
<1>1. ASSUME NEW r \in Requests, Forget(r) PROVE forgotten' \subseteq Ageing
  BY <1>1 DEF Forget, ForgottenAge
<1>2. UNCHANGED forgotten => forgotten' \subseteq Ageing
  BY DEF ForgottenAge
<1> QED
  BY <1>1, <1>2
     DEF Next, vars, Submit, ClientStep, ClientLock, Lookup, Decide,
         DecideFails,
         EnqueueFollowUp, ScheduleQueued, CheckOvertake, SendNow,
         RecordOutcome,
         WorkerStep, ClaimItem, WaitSendable, WaitRetained, Reserve,
         WorkerLock,
         CheckIdentity, CheckFails, Begin, Deliver, FinishDelivery, ExitGate,
         Cancel, Edit, Rearm, HerdrChange, historyVars

\* The item of a request that is not recorded yet goes nowhere unnoticed.
THEOREM PendingInvCorrect == Spec => [](PendingInv /\ ForgottenAge)
<1>1. Init => PendingInv /\ ForgottenAge
  BY ThreadKinds DEF Init, PendingInv, Pending, ForgottenAge
<1>2. TypeOK /\ LockInv /\ OnceInv /\ ClaimInv /\ PendingInv /\ [Next]_vars =>
        PendingInv'
  BY PendingNext DEF PendingInv, Lasting, OnceInv, ClaimInv
<1> QED
  BY <1>1, <1>2, ForgottenNext, TypeCorrect, LockInvCorrect, OnceInvCorrect,
     ClaimInvCorrect, PTL DEF Spec

\* The ledger, the queue, the locks and the workers together implement the
\* service that settles each request once and for good, for every number of
\* panes, clients and workers.
THEOREM ImplementsPromptOnceCorrect == Spec => ImplementsPromptOnce
<1>1. Init => Service!Init
  <2> SUFFICES ASSUME Init PROVE Service!Init
    OBVIOUS
  <2>1. ASSUME NEW r \in Lasting PROVE PhaseOf(r) = "new"
    <3>1. /\ attempts[r] = 0 /\ r \notin withdrawn /\ ledger[r] = NoEntry
          /\ \A a \in Agents : ~ Holds(a, r)
      BY <2>1 DEF Init, InitQueue, Holds, Occupied, Lasting
    <3> QED
      BY <3>1, PhaseRead DEF PhaseTable
  <2> QED
    BY <2>1 DEF Service!Init
<1>2. TypeOK /\ LockInv /\ OnceInv /\ ClaimInv /\ PendingInv /\ ForgottenAge
        /\ [Next]_vars => [Service!Next]_Phases
  BY ServiceStep
<1> QED
  BY <1>1, <1>2, TypeCorrect, LockInvCorrect, OnceInvCorrect, ClaimInvCorrect,
     PendingInvCorrect, PTL DEF Spec, ImplementsPromptOnce, Service!Spec,
     Phases
=============================================================================
