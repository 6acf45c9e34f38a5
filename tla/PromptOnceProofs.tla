-------------------------- MODULE PromptOnceProofs --------------------------
(***************************************************************************)
(* A request is sent at most once, a withdrawn one never, what the ledger  *)
(* replays is what happened, and what is sent is what the queue shows: for *)
(* every number of Agents, requests, clients and workers.                  *)
(*                                                                         *)
(* None of the four is inductive.  The invariant that carries them follows *)
(* one remembered request through its client, its queue item and the       *)
(* workers that hold its claim: before the prompt nothing of it is left    *)
(* anywhere; once anything of it exists it is Known, in the ledger or with *)
(* the client about to record it, so no lookup can miss it again.          *)
(***************************************************************************)
EXTENDS PromptDeliveryProofs

\* One client at a time stands between its lookup and its record.
TransactionExclusive ==
  \A c, d \in Clients :
    pc[c] \in TransactionPcs /\ pc[d] \in TransactionPcs => c = d

\* A lookup of r would hit, once the client that is about to record has.
Known(r) ==
  \/ ledger[r] # NoEntry
  \/ \E c \in Clients :
       pc[c] \in {"schedule", "queued", "accepted", "uncertain"} /\ job[c].rid = r

HasClaim(w, r) == claim[w] # NoClaim /\ claim[w].rid = r

Queued(r) == \E a \in Agents : Holds(a, r)

\* Nothing of r exists yet.
Untouched(r) ==
  /\ attempts[r] = 0
  /\ r \notin withdrawn
  /\ ~ Queued(r)
  /\ \A w \in Workers : ~ HasClaim(w, r)

RequestOnce(r) ==
  /\ attempts[r] <= 1
  /\ r \in withdrawn => attempts[r] = 0
  /\ ~ Untouched(r) => Known(r)

\* The client that carries r.
ClientOnce(r) ==
  \A c \in Clients :
    pc[c] \in TransactionPcs /\ job[c].rid = r =>
      /\ ledger[r] = NoEntry
      /\ pc[c] \in {"read", "enqueue", "overtake", "prompt"} => Untouched(r)
      /\ pc[c] \in {"accepted", "uncertain"} => attempts[r] = 1 /\ ~ Queued(r)

\* The queue item of r: in one slot, and not sent before it is Delivering.
ItemOnce(r) ==
  \A a \in Agents :
    Holds(a, r) =>
      /\ \A b \in Agents : Holds(b, r) => b = a
      /\ items[a].state \notin {"Delivering", "DeliveryUncertain"} => attempts[r] = 0
      /\ r \notin withdrawn

\* The claim on it: at most one, for the text it shows.
ClaimOnce(r) ==
  \A a \in Agents, w \in Workers :
    Holds(a, r) /\ HasClaim(w, r) =>
      /\ target[w] = a
      /\ items[a].state \in {"WaitingForTurnBoundary", "Delivering"}
      /\ claim[w].text = items[a].text
      /\ \A v \in Workers : HasClaim(v, r) => v = w

\* The worker that sends it.
WorkerOnce(r) ==
  \A w \in Workers :
    pc[w] \in SendingPcs /\ HasClaim(w, r) =>
      /\ Holds(target[w], r)
      /\ items[target[w]].state = "Delivering"
      /\ pc[w] \in {"prompt", "rejected"} => attempts[r] = 0

\* What the ledger replays of it.
LedgerOnce(r) ==
  ledger[r] # NoEntry =>
    /\ ledger[r].outcome \in {"NeedsTerminal", "RejectedUnknown"} =>
         attempts[r] = 0 /\ ~ Queued(r)
    /\ ledger[r].outcome \in {"SentNow", "DeliveryUncertain"} =>
         attempts[r] = 1 /\ ~ Queued(r)

Once(r) ==
  /\ RequestOnce(r) /\ ClientOnce(r) /\ ItemOnce(r)
  /\ ClaimOnce(r) /\ WorkerOnce(r) /\ LedgerOnce(r)

OnceInv == TransactionExclusive /\ \A r \in Requests \ forgotten : Once(r)

----------------------------------------------------------------------------

LEMMA OnceInit == Init => OnceInv
<1> SUFFICES ASSUME Init PROVE OnceInv
  OBVIOUS
<1>1. /\ \A c \in Clients : pc[c] = "idle"
      /\ \A w \in Workers : pc[w] = "none" /\ claim[w] = NoClaim
      /\ \A a \in Agents, r \in Requests : ~ Holds(a, r)
  BY ThreadKinds DEF Init, InitQueue, Holds, Occupied
<1>2. TransactionExclusive
  BY <1>1 DEF TransactionExclusive, TransactionPcs
<1>3. ASSUME NEW r \in Requests PROVE Once(r)
  <2>1. Untouched(r)
    BY <1>1 DEF Init, Untouched, Queued, HasClaim
  <2> QED
    BY <1>1, <2>1 DEF Init, Once, RequestOnce, ClientOnce, ItemOnce, ClaimOnce,
       WorkerOnce, LedgerOnce, Untouched, HasClaim, TransactionPcs, SendingPcs
<1> QED
  BY <1>2, <1>3 DEF OnceInv

\* Only a lookup that finds the transaction free lets a client in.
LEMMA TransactionNext ==
  TypeOK /\ TransactionExclusive /\ [Next]_vars => TransactionExclusive'
<1> SUFFICES ASSUME TypeOK, TransactionExclusive, [Next]_vars
             PROVE  TransactionExclusive'
  OBVIOUS
<1> USE ThreadKinds
<1>a. ASSUME NEW c \in Clients, Submit(c) \/ ClientStep(c)
      PROVE  /\ \A d \in Clients \ {c} : pc'[d] = pc[d]
             /\ pc'[c] \in TransactionPcs =>
                  pc[c] \in TransactionPcs \/ TransactionFree
  BY <1>a DEF Submit, ClientStep, ClientLock, Lookup, Decide, DecideFails,
       EnqueueFollowUp, ScheduleQueued, CheckOvertake, SendNow, RecordOutcome,
       Schedule, PromptAccepted, PromptUncertain, Goto, Return, TransactionPcs,
       TypeOK
<1>b. ASSUME \A c \in Clients : pc'[c] = pc[c] PROVE TransactionExclusive'
  BY <1>b DEF TransactionExclusive
<1>1. ASSUME NEW c \in Clients, Submit(c) \/ ClientStep(c)
      PROVE  TransactionExclusive'
  BY <1>1, <1>a DEF TransactionExclusive, TransactionFree
<1>2. ASSUME NEW w \in Workers, WorkerStep(w) PROVE TransactionExclusive'
  <2>1. \A c \in Clients : pc'[c] = pc[c]
    BY <1>2 DEF WorkerStep, ClaimItem, WaitSendable, WaitRetained, Reserve,
         WorkerLock, CheckIdentity, CheckFails, Begin, Deliver, FinishDelivery,
         ExitGate, Goto, WorkerGoto, PromptAccepted, PromptUncertain, TypeOK
  <2> QED
    BY <2>1, <1>b
<1>3. ASSUME NEW a \in Agents, Rearm(a) PROVE TransactionExclusive'
  BY <1>3, <1>b DEF Rearm, Schedule, TypeOK
<1>4. ASSUME UNCHANGED pc PROVE TransactionExclusive'
  BY <1>4, <1>b
<1> QED
  BY <1>1, <1>2, <1>3, <1>4 DEF Next, vars, Cancel, Edit, HerdrChange, Forget,
       threadVars

\* What the queue operations of a worker do, item by item.
Kept ==
  \A b \in Agents :
    /\ items'[b] = NoItem <=> items[b] = NoItem
    /\ Occupied(b) => items'[b].rid = items[b].rid /\ items'[b].text = items[b].text

Elsewhere(a) == \A b \in Agents \ {a} : items'[b] = items[b]

LEMMA QueueMoves ==
  ASSUME TypeOK, NEW a \in Agents, NEW q \in Requests
  PROVE  /\ ClaimForDelivery(a) =>
              /\ Kept /\ Elsewhere(a) /\ Occupied(a)
              /\ items[a].state = "Queued"
              /\ items'[a].state = "WaitingForTurnBoundary"
         /\ BeginDelivery(a, q) =>
              /\ Kept /\ Elsewhere(a) /\ Holds(a, q)
              /\ items[a].state = "WaitingForTurnBoundary"
              /\ items'[a].state = "Delivering"
         /\ ReleaseClaim(a, q) =>
              /\ Kept /\ Elsewhere(a)
              /\ \/ items'[a] = items[a]
                 \/ /\ Holds(a, q)
                    /\ items[a].state = "WaitingForTurnBoundary"
                    /\ items'[a].state = "Queued"
         /\ FinishRemove(a, q) =>
              /\ Elsewhere(a)
              /\ items'[a] = IF Holds(a, q) THEN NoItem ELSE items[a]
         /\ \A state \in TerminalStates : FinishRetain(a, q, state) =>
              /\ Kept /\ Elsewhere(a)
              /\ IF Holds(a, q) /\ items[a].state = "Delivering"
                   THEN items'[a].state = state ELSE items'[a] = items[a]
<1> USE NoItemAssumption DEF Kept, Elsewhere, Occupied, Holds, InState,
ClaimStands
<1>1. \A state \in QueueState :
        [items EXCEPT ![a].state = state] =
          [items EXCEPT ![a] = [items[a] EXCEPT !.state = state]]
  OBVIOUS
<1>2. ASSUME NEW state \in QueueState, Occupied(a),
             items' = [items EXCEPT ![a].state = state]
      PROVE  Kept /\ Elsewhere(a) /\ items'[a].state = state
  <2>1. items[a] \in QueuedFollowUp /\ items'[a] = [items[a] EXCEPT !.state = state]
    BY <1>1, <1>2 DEF TypeOK
  <2>2. items'[a] \in QueuedFollowUp
    BY <2>1 DEF QueuedFollowUp
  <2> QED
    BY <1>2, <2>1, <2>2 DEF TypeOK, QueuedFollowUp
<1>3. ASSUME items' = items PROVE Kept /\ Elsewhere(a)
  BY <1>3
<1>4. {"WaitingForTurnBoundary", "Delivering", "Queued"} \cup TerminalStates = QueueState
  BY DEF QueueState, TerminalStates, DeliverableStates
<1> HIDE DEF Kept, Elsewhere
<1>5. ClaimForDelivery(a) => /\ Kept /\ Elsewhere(a) /\ Occupied(a)
              /\ items[a].state = "Queued"
              /\ items'[a].state = "WaitingForTurnBoundary"
  BY <1>2, <1>4 DEF ClaimForDelivery
<1>6. BeginDelivery(a, q) =>
              /\ Kept /\ Elsewhere(a) /\ Holds(a, q)
              /\ items[a].state = "WaitingForTurnBoundary"
              /\ items'[a].state = "Delivering"
  BY <1>2, <1>4 DEF BeginDelivery
<1>7. ReleaseClaim(a, q) =>
              /\ Kept /\ Elsewhere(a)
              /\ \/ items'[a] = items[a]
                 \/ /\ Holds(a, q)
                    /\ items[a].state = "WaitingForTurnBoundary"
                    /\ items'[a].state = "Queued"
  BY <1>2, <1>3, <1>4 DEF ReleaseClaim
<1>8. FinishRemove(a, q) =>
              /\ Elsewhere(a)
              /\ items'[a] = IF Holds(a, q) THEN NoItem ELSE items[a]
  BY DEF FinishRemove, TypeOK, Elsewhere
<1>9. ASSUME NEW state \in TerminalStates, FinishRetain(a, q, state)
       PROVE  /\ Kept /\ Elsewhere(a)
              /\ IF Holds(a, q) /\ items[a].state = "Delivering"
                   THEN items'[a].state = state ELSE items'[a] = items[a]
  BY <1>2, <1>3, <1>4, <1>9 DEF FinishRetain
<1> QED
  BY <1>5, <1>6, <1>7, <1>8, <1>9

\* A step that makes no item and no prompt leaves client and ledger as they are.
LEMMA OnceFrame ==
  ASSUME NEW r \in Requests, Once(r),
         UNCHANGED <<ledger, attempts, withdrawn, job>>,
         \A c \in Clients : pc'[c] = pc[c],
         \A b \in Agents : Holds(b, r)' => Holds(b, r),
         \A v \in Workers : HasClaim(v, r)' => HasClaim(v, r) \/ Queued(r)
  PROVE  RequestOnce(r)' /\ ClientOnce(r)' /\ LedgerOnce(r)'
<1>1. Queued(r)' => Queued(r)
  BY DEF Queued
<1>2. Untouched(r) => Untouched(r)'
  BY <1>1 DEF Untouched
<1>3. Known(r)' <=> Known(r)
  BY DEF Known
<1>4. RequestOnce(r)'
  BY <1>2, <1>3 DEF Once, RequestOnce
<1>5. ClientOnce(r)'
  BY <1>1, <1>2 DEF Once, ClientOnce
<1>6. LedgerOnce(r)'
  BY <1>1 DEF Once, LedgerOnce
<1> QED
  BY <1>4, <1>5, <1>6

\* Each step keeps every part of the invariant, of every remembered request.
LEMMA OnceNext ==
  TypeOK /\ TypeOK' /\ LockInv /\ OnceInv /\ [Next]_vars =>
    \A r \in Requests \ forgotten' : Once(r)'
<1> SUFFICES ASSUME TypeOK, TypeOK', LockInv, OnceInv, [Next]_vars,
                    NEW r \in Requests \ forgotten'
             PROVE  Once(r)'
  OBVIOUS
<1> USE ThreadKinds, NullsAssumption DEF Goto, Return, WorkerGoto,
DropSerializer, Holds, Occupied
<1>r. r \in Requests \ forgotten
  BY DEF Next, vars, Forget, ClientStep, Submit, ClientLock, Lookup, Decide,
         DecideFails,
     EnqueueFollowUp, ScheduleQueued, CheckOvertake, SendNow, RecordOutcome,
     WorkerStep, ClaimItem, WaitSendable, WaitRetained, Reserve, WorkerLock,
     CheckIdentity, CheckFails,
     Begin, Deliver, FinishDelivery, ExitGate, Cancel, Edit, Rearm,
     HerdrChange, historyVars
<1>o. Once(r) /\ TransactionExclusive
  BY <1>r DEF OnceInv
<1>t. \A v \in Workers : pc[v] \in SendingPcs => target[v] \in Agents
  BY AgentKnown DEF SendingPcs, TypeOK
<1>1. ASSUME NEW c \in Clients, Submit(c) PROVE Once(r)'
  BY <1>1, <1>r, <1>o
     DEF Once, RequestOnce, ClientOnce, ItemOnce, ClaimOnce, WorkerOnce,
         LedgerOnce,
         Known, HasClaim, Queued, Untouched, TransactionPcs, SendingPcs,
         TypeOK,
         Submit, historyVars
<1>2. ASSUME NEW c \in Clients, ClientLock(c) PROVE Once(r)'
  BY <1>2, <1>r, <1>o
     DEF Once, RequestOnce, ClientOnce, ItemOnce, ClaimOnce, WorkerOnce,
         LedgerOnce,
         Known, HasClaim, Queued, Untouched, TransactionPcs, SendingPcs,
         TypeOK,
         ClientLock, historyVars
<1>3. ASSUME NEW c \in Clients, Lookup(c) PROVE Once(r)'
  BY <1>3, <1>r, <1>o
     DEF Once, RequestOnce, ClientOnce, ItemOnce, ClaimOnce, WorkerOnce,
         LedgerOnce,
         Known, HasClaim, Queued, Untouched, TransactionPcs, SendingPcs,
         TypeOK,
         Lookup, LedgerMiss, TransactionFree, historyVars
<1>4. ASSUME NEW c \in Clients, Decide(c) PROVE Once(r)'
  <2>1. /\ \A d \in Clients \ {c} : /\ pc[d] \notin TransactionPcs
                                    /\ pc'[d] = pc[d] /\ job'[d] = job[d]
        /\ \A w \in Workers : pc'[w] = pc[w]
        /\ UNCHANGED <<items, target, claim, attempts, withdrawn>>
    BY <1>4, <1>o DEF Decide, TransactionExclusive, TransactionPcs, TypeOK
  <2>2. job[c].rid = r => Untouched(r) /\ ledger[r] = NoEntry
    BY <1>4, <1>o DEF Decide, Once, ClientOnce, TransactionPcs
  <2>3. \/ pc'[c] = "idle"
        \/ /\ pc'[c] \in {"overtake", "enqueue"}
           /\ UNCHANGED <<job, ledger>>
    BY <1>4 DEF Decide, TypeOK
  <2>4. \/ ledger'[r] = ledger[r]
        \/ /\ job[c].rid = r
           /\ ledger'[r] # NoEntry
           /\ ledger'[r].outcome \in {"NeedsTerminal", "RejectedUnknown"}
    <3> DEFINE d == Disposition(herdr[AgentOf(c)].status)
    <3>1. CASE d \in {"NeedsTerminal", "RejectedUnknown"}
      <4>1. Record(job[c].rid, job[c].body, d)
        BY <1>4, <3>1 DEF Decide
      <4>2. job[c].body \in Body /\ d \in Outcomes
        BY <1>4, <3>1, AgentKnown DEF Decide, Outcomes
      <4> HIDE DEF d
      <4>3. [body |-> job[c].body, outcome |-> d] \in Entry
        BY <4>2 DEF Entry
      <4> QED
        BY <1>r, <3>1, <4>1, <4>3 DEF Record, TypeOK
    <3> QED
      BY <1>4, <3>1 DEF Decide
  <2>5. ledger[r] # NoEntry => ledger'[r] = ledger[r]
    BY <2>2, <2>4
  <2>6. ClientOnce(r)'
    BY <1>4, <1>o, <2>1, <2>2, <2>3
       DEF Once, ClientOnce, Untouched, Queued, HasClaim, TransactionPcs
  <2>7. LedgerOnce(r)'
    BY <1>o, <2>1, <2>2, <2>4 DEF Once, LedgerOnce, Untouched, Queued
  <2>8. RequestOnce(r)' /\ ItemOnce(r)' /\ ClaimOnce(r)' /\ WorkerOnce(r)'
    BY <1>4, <1>o, <2>1, <2>4, <2>5
       DEF Decide, Once, RequestOnce, ItemOnce, ClaimOnce, WorkerOnce,
           Untouched, Known, Queued,
           HasClaim, SendingPcs, TransactionPcs
  <2> QED
    BY <2>6, <2>7, <2>8 DEF Once
<1>5. ASSUME NEW c \in Clients, DecideFails(c) PROVE Once(r)'
  BY <1>5, <1>r, <1>o
     DEF Once, RequestOnce, ClientOnce, ItemOnce, ClaimOnce, WorkerOnce,
         LedgerOnce,
         Known, HasClaim, Queued, Untouched, TransactionPcs, SendingPcs,
         TypeOK,
         DecideFails, historyVars
<1>6. ASSUME NEW c \in Clients, EnqueueFollowUp(c) PROVE Once(r)'
  <2>1. /\ \A d \in Clients \ {c} : /\ pc[d] \notin TransactionPcs
                                    /\ pc'[d] = pc[d] /\ job'[d] = job[d]
        /\ \A w \in Workers : pc'[w] = pc[w]
        /\ UNCHANGED <<target, claim, attempts, withdrawn, ledger>>
    BY <1>6, <1>o
       DEF EnqueueFollowUp, TransactionExclusive, TransactionPcs, TypeOK,
           historyVars
  <2> DEFINE a == job[c].body.agent
             q == job[c].rid
  <2>2. a \in Agents /\ q \in Requests
    BY <1>6, AgentKnown DEF EnqueueFollowUp
  <2>3. q = r => Untouched(r) /\ ledger[r] = NoEntry
    BY <1>6, <1>o DEF EnqueueFollowUp, Once, ClientOnce, TransactionPcs
  <2>4. CASE pc'[c] = "idle"
    <3>1. UNCHANGED items
      BY <1>6, <2>4 DEF EnqueueFollowUp, TypeOK
    <3> QED
      BY <1>6, <1>o, <2>1, <2>4, <3>1
         DEF EnqueueFollowUp, Once, RequestOnce, ClientOnce, ItemOnce,
             ClaimOnce, WorkerOnce, LedgerOnce, Known, HasClaim, Queued,
             Untouched, TransactionPcs, SendingPcs
  <2>5. CASE pc'[c] = "schedule"
    <3>1. /\ items'[a] # NoItem /\ items'[a].rid = q /\ items'[a].state = "Queued"
          /\ items'[a].text = job[c].body.text
          /\ Elsewhere(a) /\ job' = job
          /\ Occupied(a) => items[a].state \in TerminalStates
      <4>1. /\ CanEnqueue(a, job[c].body.session) /\ job' = job
            /\ items' = [items EXCEPT ![a] =
                 [rid |-> q, session |-> job[c].body.session,
                  text |-> job[c].body.text, state |-> "Queued"]]
        BY <1>6, <2>5 DEF EnqueueFollowUp, Enqueue, TypeOK
      <4>2. [rid |-> q, session |-> job[c].body.session,
             text |-> job[c].body.text, state |-> "Queued"] \in QueuedFollowUp
        BY <1>6, <2>2, AgentKnown
           DEF EnqueueFollowUp, QueuedFollowUp, QueueState, DeliverableStates
      <4> QED
        BY <2>2, <4>1, <4>2, NoItemAssumption
           DEF CanEnqueue, InState, Elsewhere, TypeOK
    <3>2. \A b \in Agents : Holds(b, r)' => Holds(b, r) \/ (q = r /\ b = a)
      BY <3>1 DEF Elsewhere
    <3>3. \A v \in Workers : HasClaim(v, r)' <=> HasClaim(v, r)
      BY <2>1 DEF HasClaim
    <3>4. Known(r) => Known(r)'
      BY <2>1, <2>5, <3>1 DEF Known, TransactionPcs
    <3>5. RequestOnce(r)'
      <4>1. q = r => Known(r)'
        BY <2>5, <3>1 DEF Known
      <4>2. q # r /\ Untouched(r) => Untouched(r)'
        BY <2>1, <3>2, <3>3 DEF Untouched, Queued
      <4> QED
        BY <1>o, <2>1, <3>4, <4>1, <4>2 DEF Once, RequestOnce
    <3>6. ClientOnce(r)'
      BY <2>1, <2>3, <2>5, <3>1 DEF ClientOnce
    <3>7. ItemOnce(r)'
      BY <1>o, <2>1, <2>3, <3>1, <3>2
         DEF Once, ItemOnce, Elsewhere, Untouched, Queued
    <3>8. ASSUME NEW b \in Agents, Holds(b, r), items'[b] # items[b]
          PROVE  b = a /\ items[b].state \in TerminalStates
      BY <3>1, <3>8 DEF Elsewhere
    <3>9. ClaimOnce(r)'
      BY <1>o, <2>1, <2>3, <3>1, <3>2, <3>3, <3>8
         DEF Once, ClaimOnce, Untouched, TerminalStates, HasClaim
    <3>10. WorkerOnce(r)'
      <4>1. \A v \in Workers : pc'[v] = pc[v] /\ target'[v] = target[v]
        BY <2>1
      <4> QED
        BY <1>o, <1>t, <2>1, <3>3, <3>8, <4>1
           DEF Once, WorkerOnce, TerminalStates
    <3>11. LedgerOnce(r)'
      BY <1>o, <2>1, <2>3, <3>2 DEF Once, LedgerOnce, Queued
    <3> QED
      BY <3>5, <3>6, <3>7, <3>9, <3>10, <3>11 DEF Once
  <2> QED
    BY <1>6, <2>4, <2>5 DEF EnqueueFollowUp, TypeOK
<1>7. ASSUME NEW c \in Clients, ScheduleQueued(c) PROVE Once(r)'
  BY <1>7, <1>r, <1>o
     DEF Once, RequestOnce, ClientOnce, ItemOnce, ClaimOnce, WorkerOnce,
         LedgerOnce,
         Known, HasClaim, Queued, Untouched, TransactionPcs, SendingPcs,
         TypeOK,
         ScheduleQueued, Schedule, historyVars
<1>8. ASSUME NEW c \in Clients, CheckOvertake(c) PROVE Once(r)'
  BY <1>8, <1>r, <1>o
     DEF Once, RequestOnce, ClientOnce, ItemOnce, ClaimOnce, WorkerOnce,
         LedgerOnce,
         Known, HasClaim, Queued, Untouched, TransactionPcs, SendingPcs,
         TypeOK,
         CheckOvertake, historyVars
<1>9. ASSUME NEW c \in Clients, SendNow(c) PROVE Once(r)'
  <2>1. /\ \A d \in Clients \ {c} : /\ pc[d] \notin TransactionPcs
                                    /\ pc'[d] = pc[d] /\ job'[d] = job[d]
        /\ \A w \in Workers : pc'[w] = pc[w]
        /\ UNCHANGED <<items, target, claim, withdrawn, ledger>>
    BY <1>9, <1>o
       DEF SendNow, TransactionExclusive, TransactionPcs, TypeOK,
           PromptAccepted, PromptUncertain
  <2> DEFINE q == job[c].rid
  <2>2. q \in Requests
    BY <1>9, AgentKnown DEF SendNow
  <2>3. q = r => Untouched(r) /\ ledger[r] = NoEntry
    BY <1>9, <1>o DEF SendNow, Once, ClientOnce, TransactionPcs
  <2>4. CASE pc'[c] = "idle"
    <3>1. UNCHANGED attempts
      BY <1>9, <2>4 DEF SendNow, PromptAccepted, PromptUncertain, TypeOK
    <3> QED
      BY <1>9, <1>o, <2>1, <2>4, <3>1
         DEF SendNow, Once, RequestOnce, ClientOnce, ItemOnce,
             ClaimOnce, WorkerOnce, LedgerOnce, Known, HasClaim, Queued,
             Untouched, TransactionPcs, SendingPcs
  <2>5. CASE pc'[c] \in {"accepted", "uncertain"}
    <3>1. job' = job /\ attempts' = [attempts EXCEPT ![q] = @ + 1]
      BY <1>9, <2>5 DEF SendNow, CountAttempt, TypeOK
    <3>2. CASE q # r
      <4>1. attempts'[r] = attempts[r]
        BY <3>1, <3>2 DEF TypeOK
      <4> QED
        BY <1>9, <1>o, <2>1, <2>5, <3>1, <3>2, <4>1
           DEF SendNow, Once, RequestOnce, ClientOnce, ItemOnce,
               ClaimOnce, WorkerOnce, LedgerOnce, Known, HasClaim, Queued,
               Untouched, TransactionPcs, SendingPcs
    <3>3. CASE q = r
      <4>1. attempts'[r] = 1 /\ Known(r)'
        BY <2>3, <2>5, <3>1, <3>3 DEF TypeOK, Untouched, Known
      <4>2. /\ \A b \in Agents : ~ Holds(b, r)'
            /\ \A v \in Workers : ~ HasClaim(v, r)'
            /\ r \notin withdrawn' /\ ledger'[r] = NoEntry
        BY <2>1, <2>3, <3>3 DEF Untouched, Queued, HasClaim
      <4> QED
        BY <2>1, <2>5, <4>1, <4>2
           DEF Once, RequestOnce, ClientOnce, ItemOnce, ClaimOnce, WorkerOnce,
               LedgerOnce, Queued
    <3> QED
      BY <3>2, <3>3
  <2> QED
    BY <1>9, <2>4, <2>5 DEF SendNow, PromptAccepted, PromptUncertain, TypeOK
<1>10. ASSUME NEW c \in Clients, RecordOutcome(c) PROVE Once(r)'
  <2>1. /\ \A d \in Clients \ {c} : /\ pc[d] \notin TransactionPcs
                                    /\ pc'[d] = pc[d] /\ job'[d] = job[d]
        /\ \A w \in Workers : pc'[w] = pc[w]
        /\ UNCHANGED <<items, target, claim, attempts, withdrawn>>
    BY <1>10, <1>o
       DEF RecordOutcome, TransactionExclusive, TransactionPcs, TypeOK,
           historyVars
  <2> DEFINE q == job[c].rid
  <2>2. q \in Requests /\ pc'[c] = "idle"
    BY <1>10, AgentKnown DEF RecordOutcome, TypeOK
  <2>3. q = r => /\ ledger[r] = NoEntry
                 /\ pc[c] \in {"accepted", "uncertain"} =>
                      attempts[r] = 1 /\ ~ Queued(r)
    BY <1>10, <1>o DEF RecordOutcome, Once, ClientOnce, TransactionPcs
  <2>4. IF q = r /\ ledger[r] = NoEntry
          THEN /\ ledger'[r] # NoEntry
               /\ ledger'[r].outcome = OutcomeAt(pc[c])
          ELSE ledger'[r] = ledger[r]
    <3>1. [body |-> job[c].body, outcome |-> OutcomeAt(pc[c])] \in Entry
      BY <1>10, AgentKnown DEF RecordOutcome, OutcomeAt, Entry, Outcomes
    <3> QED
      BY <1>10, <1>r, <2>2, <3>1 DEF RecordOutcome, Record, TypeOK
  <2>5. /\ OutcomeAt(pc[c]) \notin {"NeedsTerminal", "RejectedUnknown"}
        /\ OutcomeAt(pc[c]) \in {"SentNow", "DeliveryUncertain"} =>
             pc[c] \in {"accepted", "uncertain"}
    BY <1>10 DEF RecordOutcome, OutcomeAt
  <2>6. Known(r) => Known(r)'
    BY <2>1, <2>3, <2>4 DEF Known
  <2>7. Queued(r)' <=> Queued(r)
    BY <2>1 DEF Queued
  <2>8. Untouched(r)' <=> Untouched(r)
    BY <2>1, <2>7 DEF Untouched, HasClaim
  <2>9. RequestOnce(r)'
    BY <1>o, <2>1, <2>6, <2>8 DEF Once, RequestOnce
  <2>10. ClientOnce(r)'
    BY <2>1, <2>2 DEF ClientOnce, TransactionPcs
  <2>11. LedgerOnce(r)'
    BY <1>o, <2>1, <2>3, <2>4, <2>5, <2>7 DEF Once, LedgerOnce
  <2>12. ItemOnce(r)' /\ ClaimOnce(r)' /\ WorkerOnce(r)'
    BY <1>o, <2>1 DEF Once, ItemOnce, ClaimOnce, WorkerOnce, HasClaim
  <2> QED
    BY <2>9, <2>10, <2>11, <2>12 DEF Once
<1>11. ASSUME NEW w \in Workers, ClaimItem(w) PROVE Once(r)'
  <2>1. /\ target[w] \in Agents
        /\ claim[w] # NoClaim => claim[w].rid \in Requests
    BY <1>11, AgentKnown DEF ClaimItem, TypeOK, Claim
  <2>2. /\ UNCHANGED <<job, target, ledger, attempts, withdrawn>>
        /\ \A c \in Clients : pc'[c] = pc[c]
        /\ \A v \in Workers \ {w} : pc'[v] = pc[v] /\ claim'[v] = claim[v]
    BY <1>11 DEF ClaimItem, TypeOK, historyVars
  <2>3. CASE pc'[w] = "gate"
    <3>1. UNCHANGED items /\ claim'[w] = NoClaim
      BY <1>11, <2>3 DEF ClaimItem, TypeOK
    <3> QED
      BY <1>o, <2>2, <2>3, <3>1
         DEF Once, RequestOnce, ClientOnce, ItemOnce, ClaimOnce, WorkerOnce,
             LedgerOnce, Known, HasClaim, Queued, Untouched, SendingPcs
  <2>4. CASE pc'[w] = "wait"
    <3> DEFINE a == target[w]
    <3>1. /\ Kept /\ Elsewhere(a) /\ Occupied(a)
          /\ items[a].state = "Queued"
          /\ items'[a].state = "WaitingForTurnBoundary"
          /\ claim'[w].text = items[a].text /\ claim'[w].rid = items[a].rid
      BY <1>11, <1>r, <2>1, <2>4, QueueMoves DEF ClaimItem, TypeOK
    <3>2. \A b \in Agents : Holds(b, r)' <=> Holds(b, r)
      BY <3>1 DEF Kept
    <3>3. HasClaim(w, r)' => Holds(a, r)
      BY <3>1 DEF HasClaim
    <3>4. \A v \in Workers \ {w} : HasClaim(v, r)' <=> HasClaim(v, r)
      BY <2>2 DEF HasClaim
    <3>5. RequestOnce(r)' /\ ClientOnce(r)' /\ LedgerOnce(r)'
      BY <1>o, <2>1, <2>2, <3>2, <3>3, <3>4, OnceFrame DEF Queued
    <3>6. ItemOnce(r)'
      BY <1>o, <2>2, <3>1, <3>2 DEF Once, ItemOnce, Elsewhere
    <3>7. ClaimOnce(r)'
      BY <1>o, <2>1, <2>2, <3>1, <3>2, <3>3, <3>4
         DEF Once, ItemOnce, ClaimOnce, Elsewhere, Kept, HasClaim
    <3>8. WorkerOnce(r)'
      BY <1>o, <1>t, <2>1, <2>2, <2>4, <3>1, <3>2, <3>4
         DEF Once, WorkerOnce, Elsewhere, SendingPcs
    <3> QED
      BY <3>5, <3>6, <3>7, <3>8 DEF Once
  <2> QED
    BY <1>11, <2>3, <2>4 DEF ClaimItem, TypeOK
<1>12. ASSUME NEW w \in Workers, WaitSendable(w) PROVE Once(r)'
  BY <1>12, <1>r, <1>o
     DEF Once, RequestOnce, ClientOnce, ItemOnce, ClaimOnce, WorkerOnce,
         LedgerOnce,
         Known, HasClaim, Queued, Untouched, TransactionPcs, SendingPcs,
         TypeOK,
         WaitSendable, historyVars
<1>13. ASSUME NEW w \in Workers, WaitRetained(w) PROVE Once(r)'
  BY <1>13, <1>r, <1>o
     DEF Once, RequestOnce, ClientOnce, ItemOnce, ClaimOnce, WorkerOnce,
         LedgerOnce,
         Known, HasClaim, Queued, Untouched, TransactionPcs, SendingPcs,
         TypeOK,
         WaitRetained, ReleaseClaim, ClaimStands, InState, historyVars
<1>14. ASSUME NEW w \in Workers, Reserve(w) PROVE Once(r)'
  BY <1>14, <1>r, <1>o
     DEF Once, RequestOnce, ClientOnce, ItemOnce, ClaimOnce, WorkerOnce,
         LedgerOnce,
         Known, HasClaim, Queued, Untouched, TransactionPcs, SendingPcs,
         TypeOK,
         Reserve, historyVars
<1>15. ASSUME NEW w \in Workers, WorkerLock(w) PROVE Once(r)'
  BY <1>15, <1>r, <1>o
     DEF Once, RequestOnce, ClientOnce, ItemOnce, ClaimOnce, WorkerOnce,
         LedgerOnce,
         Known, HasClaim, Queued, Untouched, TransactionPcs, SendingPcs,
         TypeOK,
         WorkerLock, historyVars
<1>16. ASSUME NEW w \in Workers, CheckIdentity(w) PROVE Once(r)'
  <2>1. /\ target[w] \in Agents
        /\ claim[w] # NoClaim => claim[w].rid \in Requests
    BY <1>16, AgentKnown DEF CheckIdentity, TypeOK, Claim
  <2>2. /\ UNCHANGED <<job, target, ledger, attempts, withdrawn>>
        /\ \A c \in Clients : pc'[c] = pc[c]
        /\ \A v \in Workers \ {w} : pc'[v] = pc[v] /\ claim'[v] = claim[v]
    BY <1>16 DEF CheckIdentity, TypeOK
  <2> DEFINE a == target[w]
             q == claim[w].rid
  <2>3. q \in Requests /\ claim[w] # NoClaim
    BY <1>16, <2>1 DEF CheckIdentity, TypeOK
  <2>4. /\ \A b \in Agents : Holds(b, r)' => Holds(b, r)
        /\ \A v \in Workers : HasClaim(v, r)' => HasClaim(v, r)
        /\ HasClaim(w, r)' => claim'[w] = claim[w] /\ pc'[w] = "begin"
    BY <1>16, <2>1, <2>2, <2>3, QueueMoves
       DEF CheckIdentity, Kept, Elsewhere, HasClaim, TypeOK
  <2>5. RequestOnce(r)' /\ ClientOnce(r)' /\ LedgerOnce(r)'
    BY <1>o, <2>2, <2>4, OnceFrame
  <2>6. ItemOnce(r)'
    BY <1>16, <1>o, <2>1, <2>2, <2>3, <2>4, QueueMoves
       DEF CheckIdentity, Once, ItemOnce, Elsewhere
  <2>7. /\ Elsewhere(a)
        /\ \/ items'[a] = items[a]
           \/ items'[a] = NoItem /\ Holds(a, q) /\ claim'[w] = NoClaim
           \/ /\ Holds(a, q) /\ claim'[w] = NoClaim /\ Occupied(a)'
              /\ items[a].state = "WaitingForTurnBoundary"
    BY <1>16, <2>1, <2>3, QueueMoves DEF CheckIdentity, Kept, Elsewhere, TypeOK
  <2>8. ASSUME NEW b \in Agents, Holds(b, r), items'[b] # items[b]
        PROVE  /\ \A v \in Workers : HasClaim(v, r) => v = w
               /\ ~ HasClaim(w, r)'
    BY <1>o, <2>3, <2>7, <2>8 DEF Once, ClaimOnce, Elsewhere, HasClaim
  <2>9. ClaimOnce(r)'
    BY <1>o, <2>2, <2>4, <2>8 DEF Once, ClaimOnce, HasClaim
  <2>10. WorkerOnce(r)'
    <3>1. \A v \in Workers : pc'[v] \in SendingPcs => v # w /\ pc'[v] = pc[v]
      BY <1>16, <2>2 DEF CheckIdentity, SendingPcs, TypeOK
    <3> QED
      BY <1>o, <1>t, <2>2, <2>4, <2>8, <3>1 DEF Once, WorkerOnce, HasClaim
  <2> QED
    BY <2>5, <2>6, <2>9, <2>10 DEF Once
<1>17. ASSUME NEW w \in Workers, CheckFails(w) PROVE Once(r)'
  BY <1>17, <1>r, <1>o
     DEF Once, RequestOnce, ClientOnce, ItemOnce, ClaimOnce, WorkerOnce,
         LedgerOnce,
         Known, HasClaim, Queued, Untouched, TransactionPcs, SendingPcs,
         TypeOK,
         CheckFails, ReleaseClaim, ClaimStands, InState, historyVars
<1>18. ASSUME NEW w \in Workers, Begin(w) PROVE Once(r)'
  <2>1. /\ target[w] \in Agents
        /\ claim[w] # NoClaim => claim[w].rid \in Requests
    BY <1>18, AgentKnown DEF Begin, TypeOK, Claim
  <2>2. /\ UNCHANGED <<job, target, ledger, attempts, withdrawn>>
        /\ \A c \in Clients : pc'[c] = pc[c]
        /\ \A v \in Workers \ {w} : pc'[v] = pc[v] /\ claim'[v] = claim[v]
    BY <1>18 DEF Begin, TypeOK, historyVars
  <2> DEFINE a == target[w]
             q == claim[w].rid
  <2>3. q \in Requests /\ claim[w] # NoClaim
    BY <1>18, <2>1 DEF Begin, TypeOK
  <2>4. CASE pc'[w] = "gate"
    <3>1. UNCHANGED items /\ claim'[w] = NoClaim
      BY <1>18, <2>4 DEF Begin, TypeOK
    <3> QED
      BY <1>o, <2>2, <2>4, <3>1
         DEF Once, RequestOnce, ClientOnce, ItemOnce, ClaimOnce, WorkerOnce,
             LedgerOnce, Known, HasClaim, Queued, Untouched, SendingPcs
  <2>5. CASE pc'[w] = "prompt"
    <3>1. /\ Kept /\ Elsewhere(a) /\ Holds(a, q)
          /\ items[a].state = "WaitingForTurnBoundary"
          /\ items'[a].state = "Delivering"
          /\ UNCHANGED claim
      BY <1>18, <2>1, <2>3, <2>5, QueueMoves DEF Begin, TypeOK
    <3>2. \A b \in Agents : Holds(b, r)' <=> Holds(b, r)
      BY <3>1 DEF Kept
    <3>3. RequestOnce(r)' /\ ClientOnce(r)' /\ LedgerOnce(r)'
      BY <1>o, <2>2, <3>1, <3>2, OnceFrame DEF HasClaim
    <3>4. ItemOnce(r)'
      BY <1>o, <2>2, <3>1, <3>2 DEF Once, ItemOnce, Elsewhere
    <3>5. ClaimOnce(r)'
      BY <1>o, <2>1, <2>2, <3>1, <3>2
         DEF Once, ClaimOnce, Elsewhere, Kept, HasClaim
    <3>6. WorkerOnce(r)'
      BY <1>o, <1>t, <2>1, <2>2, <2>5, <3>1, <3>2
         DEF Once, ItemOnce, WorkerOnce, Elsewhere, HasClaim
    <3> QED
      BY <3>3, <3>4, <3>5, <3>6 DEF Once
  <2> QED
    BY <1>18, <2>4, <2>5 DEF Begin, TypeOK
<1>19. ASSUME NEW w \in Workers, Deliver(w) PROVE Once(r)'
  BY <1>19, <1>r, <1>o
     DEF Once, RequestOnce, ClientOnce, ItemOnce, ClaimOnce, WorkerOnce,
         LedgerOnce,
         Known, HasClaim, Queued, Untouched, TransactionPcs, SendingPcs,
         TypeOK,
         Deliver, PromptAccepted, PromptUncertain, CountAttempt
<1>20. ASSUME NEW w \in Workers, FinishDelivery(w) PROVE Once(r)'
  <2>1. /\ target[w] \in Agents
        /\ claim[w] # NoClaim => claim[w].rid \in Requests
    BY <1>20, AgentKnown DEF FinishDelivery, TypeOK, Claim
  <2>2. /\ UNCHANGED <<job, target, ledger, attempts, withdrawn>>
        /\ \A c \in Clients : pc'[c] = pc[c]
        /\ \A v \in Workers \ {w} : pc'[v] = pc[v] /\ claim'[v] = claim[v]
    BY <1>20 DEF FinishDelivery, TypeOK, historyVars
  <2> DEFINE a == target[w]
             q == claim[w].rid
  <2>3. /\ q \in Requests /\ claim[w] # NoClaim /\ pc[w] \in SendingPcs
        /\ claim'[w] = NoClaim /\ pc'[w] = "gate"
    BY <1>20, <2>1 DEF FinishDelivery, SendingPcs, TypeOK
  <2>4. /\ Elsewhere(a)
        /\ \A b \in Agents : Holds(b, r)' => Holds(b, r)
        /\ ~ Holds(a, q) => items'[a] = items[a]
        /\ \/ items'[a] = NoItem
           \/ items'[a] = items[a] /\ items[a].state # "Delivering"
           \/ items'[a] = items[a] /\ ~ Holds(a, q)
           \/ items'[a].state = "FailedRecoverable" /\ pc[w] = "rejected"
           \/ items'[a].state = "DeliveryUncertain"
    BY <1>20, <2>1, <2>3, QueueMoves
       DEF FinishDelivery, Kept, Elsewhere, TerminalStates, TypeOK
  <2>5. \A v \in Workers : HasClaim(v, r)' => HasClaim(v, r) /\ v # w
    BY <2>2, <2>3 DEF HasClaim
  <2>6. RequestOnce(r)' /\ ClientOnce(r)' /\ LedgerOnce(r)'
    BY <1>o, <2>2, <2>4, <2>5, OnceFrame
  <2>7. ItemOnce(r)'
    BY <1>o, <2>1, <2>2, <2>3, <2>4
       DEF Once, ItemOnce, WorkerOnce, Elsewhere, HasClaim
  <2>8. q # r => \A b \in Agents : Holds(b, r) => items'[b] = items[b]
    BY <2>1, <2>4 DEF Elsewhere
  <2>9. ASSUME q = r, NEW v \in Workers, HasClaim(v, r)'
        PROVE  \A b \in Agents : ~ Holds(b, r)
    BY <1>o, <2>3, <2>5, <2>9 DEF Once, ClaimOnce, HasClaim
  <2>10. ClaimOnce(r)'
    BY <1>o, <2>2, <2>4, <2>5, <2>8, <2>9 DEF Once, ClaimOnce, HasClaim
  <2>11. WorkerOnce(r)'
    BY <1>o, <2>2, <2>3, <2>4, <2>5, <2>8, <2>9, AgentKnown
       DEF Once, WorkerOnce, HasClaim, SendingPcs, TypeOK
  <2> QED
    BY <2>6, <2>7, <2>10, <2>11 DEF Once
<1>21. ASSUME NEW w \in Workers, ExitGate(w) PROVE Once(r)'
  BY <1>21, <1>r, <1>o
     DEF Once, RequestOnce, ClientOnce, ItemOnce, ClaimOnce, WorkerOnce,
         LedgerOnce,
         Known, HasClaim, Queued, Untouched, TransactionPcs, SendingPcs,
         TypeOK,
         ExitGate, historyVars
<1>22. ASSUME NEW a \in Agents, Cancel(a) PROVE Once(r)'
  <2>1. /\ Occupied(a) /\ items[a].state # "Delivering"
        /\ items' = [items EXCEPT ![a] = NoItem]
        /\ UNCHANGED <<gate, serializers, ledger, threadVars, attempts, forgotten>>
        /\ withdrawn' = IF items[a].state = "DeliveryUncertain"
                          THEN withdrawn ELSE withdrawn \cup {items[a].rid}
    BY <1>22 DEF Cancel, CancelItem, InState, DeliverableStates, TerminalStates
  <2>2. /\ items'[a] = NoItem
        /\ \A b \in Agents \ {a} : items'[b] = items[b]
    BY <2>1 DEF TypeOK
  <2>3. CASE items[a].rid # r
    BY <1>o, <2>1, <2>2, <2>3
       DEF threadVars, Once, RequestOnce, ClientOnce, ItemOnce, ClaimOnce,
           WorkerOnce, LedgerOnce, Known, HasClaim, Queued, Untouched
  <2>4. CASE items[a].rid = r
    <3>1. Holds(a, r) /\ Queued(r) /\ ~ Untouched(r) /\ ~ Queued(r)'
      BY <1>o, <2>1, <2>2, <2>4 DEF Queued, Untouched, Once, ItemOnce
    <3>2. Known(r)' /\ (r \in withdrawn' => attempts'[r] = 0) /\ attempts'[r] <= 1
      BY <1>o, <2>1, <3>1
         DEF threadVars, Once, RequestOnce, ItemOnce, Known
    <3>3. \A w \in Workers : pc[w] \in SendingPcs => ~ HasClaim(w, r)
      BY <1>o, <2>1, <3>1, AgentKnown
         DEF Once, WorkerOnce, ItemOnce, SendingPcs, TypeOK
    <3> QED
      BY <1>o, <2>1, <3>1, <3>2, <3>3
         DEF threadVars, Once, RequestOnce, ClientOnce, ItemOnce, ClaimOnce,
             WorkerOnce, LedgerOnce, Queued, HasClaim
  <2> QED
    BY <2>3, <2>4
<1>23. ASSUME NEW a \in Agents, Edit(a) PROVE Once(r)'
  BY <1>23, <1>r, <1>o
     DEF Once, RequestOnce, ClientOnce, ItemOnce, ClaimOnce, WorkerOnce,
         LedgerOnce,
         Known, HasClaim, Queued, Untouched, TransactionPcs, SendingPcs,
         TypeOK,
         Edit, ReplaceText, InState, threadVars, historyVars
<1>24. ASSUME NEW a \in Agents, Rearm(a) PROVE Once(r)'
  BY <1>24, <1>r, <1>o
     DEF Once, RequestOnce, ClientOnce, ItemOnce, ClaimOnce, WorkerOnce,
         LedgerOnce,
         Known, HasClaim, Queued, Untouched, TransactionPcs, SendingPcs,
         TypeOK,
         Rearm, Schedule, historyVars
<1>25. ASSUME NEW a \in Agents, HerdrChange(a) PROVE Once(r)'
  BY <1>25, <1>r, <1>o
     DEF Once, RequestOnce, ClientOnce, ItemOnce, ClaimOnce, WorkerOnce,
         LedgerOnce,
         Known, HasClaim, Queued, Untouched, TransactionPcs, SendingPcs,
         TypeOK,
         HerdrChange, threadVars
<1>26. ASSUME NEW q \in Requests, Forget(q) PROVE Once(r)'
  BY <1>26, <1>r, <1>o
     DEF Once, RequestOnce, ClientOnce, ItemOnce, ClaimOnce, WorkerOnce,
         LedgerOnce,
         Known, HasClaim, Queued, Untouched, TransactionPcs, SendingPcs,
         TypeOK,
         Forget, threadVars
<1>27. ASSUME UNCHANGED vars PROVE Once(r)'
  BY <1>27, <1>o
     DEF vars, Once, RequestOnce, ClientOnce, ItemOnce, ClaimOnce, WorkerOnce,
         LedgerOnce, Known, HasClaim, Queued, Untouched
<1> QED
  BY <1>1, <1>2, <1>3, <1>4, <1>5, <1>6, <1>7, <1>8, <1>9, <1>10, <1>11,
     <1>12, <1>13, <1>14, <1>15, <1>16, <1>17, <1>18, <1>19, <1>20, <1>21,
     <1>22, <1>23, <1>24, <1>25, <1>26, <1>27
     DEF Next, ClientStep, WorkerStep

\* From the first lookup of a remembered request to its last trace, whatever
\* exists of it exists once and agrees with the rest: the inductive invariant.
THEOREM OnceInvCorrect == Spec => []OnceInv
<1>1. TypeOK /\ TypeOK' /\ LockInv /\ OnceInv /\ [Next]_vars => OnceInv'
  BY OnceNext, TransactionNext DEF OnceInv
<1> QED
  BY <1>1, TypeCorrect, LockInvCorrect, OnceInit, PTL DEF Spec

\* However many clients retry a request, at whatever Agents, and however many
\* workers race for its item, its prompt reaches an Agent at most once.
THEOREM AtMostOnceCorrect == Spec => []AtMostOnce
<1>1. OnceInv => AtMostOnce
  BY DEF OnceInv, Once, RequestOnce, AtMostOnce
<1> QED
  BY <1>1, OnceInvCorrect, PTL

\* A text the user took back is never sent.
THEOREM WithdrawnNeverSentCorrect == Spec => []WithdrawnNeverSent
<1>1. OnceInv /\ TypeOK => WithdrawnNeverSent
  BY DEF OnceInv, Once, RequestOnce, WithdrawnNeverSent, TypeOK
<1> QED
  BY <1>1, OnceInvCorrect, TypeCorrect, PTL

\* What the ledger replays is what happened.
THEOREM LedgerTellsTruthCorrect == Spec => []LedgerTellsTruth
<1>1. OnceInv => LedgerTellsTruth
  BY DEF OnceInv, Once, LedgerOnce, LedgerTellsTruth, Queued
<1> QED
  BY <1>1, OnceInvCorrect, PTL

\* A worker about to send sends the text the queue shows.
THEOREM SendsShownTextCorrect == Spec => []SendsShownText
<1>1. OnceInv /\ TypeOK => SendsShownText
  <2> SUFFICES ASSUME OnceInv, TypeOK, NEW w \in Workers, pc[w] = "prompt",
                      claim[w].rid \notin forgotten
               PROVE  /\ Holds(target[w], claim[w].rid)
                      /\ claim[w].text = items[target[w]].text
    BY DEF SendsShownText
  <2>1. target[w] \in Agents /\ claim[w] # NoClaim /\ claim[w].rid \in Requests
    BY AgentKnown, NullsAssumption DEF TypeOK
  <2>2. Once(claim[w].rid) /\ HasClaim(w, claim[w].rid)
    BY <2>1 DEF OnceInv, HasClaim
  <2> QED
    BY <2>1, <2>2 DEF Once, ClaimOnce, WorkerOnce, SendingPcs
<1> QED
  BY <1>1, OnceInvCorrect, TypeCorrect, PTL
=============================================================================
