--------------------------- MODULE PromptDelivery ---------------------------
(***************************************************************************)
(* How a semantic prompt reaches an Agent exactly once.                    *)
(*                                                                         *)
(* Clients (Desktop Chat, Remote, History) call submit_conversation_prompt *)
(* (conversation_service.rs): a request id is looked up in the Host ledger *)
(* and is then sent at once, queued behind the running turn, or refused.   *)
(* Delivery workers (conversation_delivery.rs) carry the queued item: they *)
(* claim it, wait for the turn to settle, verify the occupant again and    *)
(* prompt.  Both do their check-then-prompt under one lock per Agent,      *)
(* taken from a map of locks that is pruned while it is in use.            *)
(*                                                                         *)
(* A thread's step between two lock operations or two calls of Herdr is    *)
(* one action; steps of all threads, the user's cancels and edits, and the *)
(* changes Herdr makes on its own interleave freely.                       *)
(***************************************************************************)
EXTENDS FollowUpQueue

CONSTANTS
  Clients,      \* threads calling submit_conversation_prompt
  Workers,      \* threads the coordinator may have spawned at one time
  Slots,        \* identities of the Arc<Mutex<()>> the serializer map makes
  Bodies,       \* what a submission may carry: [agent, session, text]
  Ageing,       \* requests whose ledger entry may expire or be evicted
  SpawnMayFail, \* thread creation may fail three times in a row
  NoSlot, NoEntry, NoJob, NoClaim, NoAgent, NoSession

Threads  == Clients \cup Workers
Body     == [agent : Agents, session : Sessions, text : Texts]
Job      == [rid : Requests, body : Body]
Claim    == [rid : Requests, session : Sessions, text : Texts]
Outcomes == {"QueuedAfterTurn", "SentNow", "NeedsTerminal",
             "RejectedUnknown", "DeliveryUncertain"}
Entry    == [body : Body, outcome : Outcomes]
Statuses == {"sendable", "midturn", "needs_terminal", "unknown"}
Occupant == [session : Sessions \cup {NoSession}, status : Statuses,
             ready : BOOLEAN]

CONSTANT Views   \* the occupants Herdr may come to report

ASSUME ConstantsAssumption ==
  /\ Bodies \subseteq Body
  /\ Ageing \subseteq Requests
  /\ SpawnMayFail \in BOOLEAN
  /\ Views \subseteq Occupant
  /\ Clients \cap Workers = {}

ASSUME NullsAssumption ==
  /\ NoSlot \notin Slots
  /\ NoEntry \notin Entry
  /\ NoJob \notin Job
  /\ NoClaim \notin Claim
  /\ NoAgent \notin Agents
  /\ NoSession \notin Sessions

VARIABLES
  gate,         \* Agents with an active-worker marker
  serializers,  \* the per-Agent lock map: [Agents -> slot]
  arc,          \* the slot each thread holds a reference to
  ledger,       \* the mutation ledger: [Requests -> entry]
  pc,           \* where each thread stands
  job,          \* the submission a client is executing
  target,       \* the Agent a worker was spawned for
  claim,        \* the item snapshot a worker took with its claim token
  herdr,        \* the occupant of each Agent, as Herdr would report it
  (* history, read by properties only *)
  attempts,     \* prompts that may have reached an Agent, per request
  forgotten,    \* requests whose ledger entry is gone
  withdrawn,    \* requests the user took back before they were sent
  moved         \* Agents Herdr changed since the lock holder's last read

threadVars  == <<arc, pc, job, target, claim>>
historyVars == <<attempts, forgotten, withdrawn, moved>>
vars == <<items, gate, serializers, arc, ledger, pc, job, target, claim,
          herdr, attempts, forgotten, withdrawn, moved>>

ClientPcs == {"idle", "lock", "ledger", "read", "enqueue", "schedule",
              "queued", "overtake", "prompt", "accepted", "uncertain"}
WorkerPcs == {"none", "attempt", "wait", "reserve", "lock", "check", "begin",
              "prompt", "accepted", "rejected", "uncertain", "gate"}

AgentOf(t) ==
  IF t \in Workers THEN target[t]
  ELSE IF job[t] = NoJob THEN NoAgent ELSE job[t].body.agent

\* The session a thread believes it is about to prompt.
SessionOf(t) == IF t \in Workers THEN claim[t].session ELSE job[t].body.session

\* Where a thread holds its Agent's lock, and where a client holds the
\* ledger's transaction lock as well.
TransactionPcs ==
  {"read", "enqueue", "schedule", "queued", "overtake", "prompt", "accepted",
   "uncertain"}
LockedPcs == TransactionPcs \cup {"ledger", "check", "begin", "rejected"}

InCritical(t) == pc[t] \in LockedPcs

\* Where a thread acts on an occupant it has read and not read again.
PastReadPcs == {"enqueue", "schedule", "overtake", "begin", "prompt"}

TypeOK ==
  /\ items \in [Agents -> QueuedFollowUp \cup {NoItem}]
  /\ gate \subseteq Agents
  /\ serializers \in [Agents -> Slots \cup {NoSlot}]
  /\ arc \in [Threads -> Slots \cup {NoSlot}]
  /\ ledger \in [Requests -> Entry \cup {NoEntry}]
  /\ pc \in [Threads -> ClientPcs \cup WorkerPcs]
  /\ \A c \in Clients : pc[c] \in ClientPcs
  /\ \A w \in Workers : pc[w] \in WorkerPcs
  /\ job \in [Clients -> Job \cup {NoJob}]
  /\ \A c \in Clients : (job[c] = NoJob) <=> (pc[c] = "idle")
  /\ target \in [Workers -> Agents \cup {NoAgent}]
  /\ \A w \in Workers : (target[w] = NoAgent) <=> (pc[w] = "none")
  /\ claim \in [Workers -> Claim \cup {NoClaim}]
  /\ \A w \in Workers :
       (claim[w] = NoClaim) <=> (pc[w] \in {"none", "attempt", "gate"})
  /\ herdr \in [Agents -> Occupant]
  /\ attempts \in [Requests -> Nat]
  /\ forgotten \subseteq Requests
  /\ withdrawn \subseteq Requests
  /\ moved \subseteq Agents

Init ==
  /\ InitQueue
  /\ gate = {}
  /\ serializers = [a \in Agents |-> NoSlot]
  /\ arc = [t \in Threads |-> NoSlot]
  /\ ledger = [r \in Requests |-> NoEntry]
  /\ pc = [t \in Threads |-> IF t \in Clients THEN "idle" ELSE "none"]
  /\ job = [c \in Clients |-> NoJob]
  /\ target = [w \in Workers |-> NoAgent]
  /\ claim = [w \in Workers |-> NoClaim]
  /\ herdr \in [Agents -> Views]
  /\ attempts = [r \in Requests |-> 0]
  /\ forgotten = {}
  /\ withdrawn = {}
  /\ moved = {}

Goto(t, at) == pc' = [pc EXCEPT ![t] = at]

----------------------------------------------------------------------------
(* The serializer map: conversation_lock, and the guard it leads to.       *)

\* strong_count > 1: some thread holds a reference to the slot.
Referenced(slot) == \E t \in Threads : arc[t] = slot

\* Mutant: pruning looks at the queue only, not at the references.
PrunedIgnoringReferences ==
  [a \in Agents |-> IF Occupied(a) THEN serializers[a] ELSE NoSlot]

\* The pruning pass over the whole map that precedes every lookup.
Pruned ==
  [a \in Agents |->
     IF \/ serializers[a] # NoSlot /\ Referenced(serializers[a])
        \/ Occupied(a)
       THEN serializers[a] ELSE NoSlot]

FreshSlots ==
  {s \in Slots : ~ Referenced(s) /\ \A a \in Agents : Pruned[a] # s}

TakeSerializer(t, a) ==
  \E slot \in IF Pruned[a] # NoSlot THEN {Pruned[a]} ELSE FreshSlots :
    /\ serializers' = [Pruned EXCEPT ![a] = slot]
    /\ arc' = [arc EXCEPT ![t] = slot]

\* Mutant: submits and deliveries are serialized apart from each other.
SlotFreeOfPeers(t) ==
  \A u \in Threads :
    arc[u] = arc[t] /\ (u \in Workers <=> t \in Workers) => ~ InCritical(u)

\* The mutex behind the slot is free.
SlotFree(t) == \A u \in Threads : arc[u] = arc[t] => ~ InCritical(u)

\* The guard and then the reference go out of scope.
DropSerializer(t) == arc' = [arc EXCEPT ![t] = NoSlot]

----------------------------------------------------------------------------
(* The mutation ledger.                                                    *)

\* Mutant: an uncertain outcome is no tombstone.
LedgerMissUncertain(r) ==
  ledger[r] # NoEntry => ledger[r].outcome = "DeliveryUncertain"

\* Only a miss lets the caller go on; a hit, a tombstone and a conflict with
\* another body all return before anything is done.
LedgerMiss(r) == ledger[r] = NoEntry

\* The first live outcome of a request wins.
Record(r, body, outcome) ==
  ledger' = [ledger EXCEPT ![r] =
               IF @ = NoEntry THEN [body |-> body, outcome |-> outcome] ELSE @]

\* Mutant: no admission lock around lookup and record.
TransactionAlwaysFree == TRUE

TransactionFree == \A c \in Clients : pc[c] \notin TransactionPcs

----------------------------------------------------------------------------
(* schedule: a marker under the gate lock, then a thread.  Spawning fails  *)
(* when the system says so, and always when no thread is left.             *)

\* `at` is where the threads stand once the caller has moved on.
Schedule(a, at) ==
  \/ /\ a \in gate
     /\ pc' = at
     /\ UNCHANGED <<gate, target>>
  \/ /\ a \notin gate
     /\ \E w \in Workers :
          /\ pc[w] = "none"
          /\ gate' = gate \cup {a}
          /\ target' = [target EXCEPT ![w] = a]
          /\ pc' = [at EXCEPT ![w] = "attempt"]
  \/ /\ a \notin gate
     /\ SpawnMayFail \/ \A w \in Workers : pc[w] # "none"
     /\ pc' = at
     /\ UNCHANGED <<gate, target>>

----------------------------------------------------------------------------
(* submit_conversation_prompt.                                             *)

\* Mutant: a caller that returns keeps the submission it worked on.
ReturnKeepingJob(c) ==
  /\ Goto(c, "idle")
  /\ DropSerializer(c)
  /\ UNCHANGED job

Return(c) ==
  /\ Goto(c, "idle")
  /\ job' = [job EXCEPT ![c] = NoJob]
  /\ DropSerializer(c)

Submit(c) ==
  /\ pc[c] = "idle"
  /\ \E r \in Requests, body \in Bodies :
       /\ job' = [job EXCEPT ![c] = [rid |-> r, body |-> body]]
       /\ TakeSerializer(c, body.agent)
  /\ Goto(c, "lock")
  /\ UNCHANGED <<items, gate, ledger, target, claim, herdr, historyVars>>

ClientLock(c) ==
  /\ pc[c] = "lock"
  /\ SlotFree(c)
  /\ Goto(c, "ledger")
  /\ UNCHANGED <<items, gate, serializers, arc, ledger, job, target, claim,
                 herdr, historyVars>>

Lookup(c) ==
  /\ pc[c] = "ledger"
  /\ TransactionFree
  /\ IF LedgerMiss(job[c].rid)
       THEN Goto(c, "read") /\ UNCHANGED <<arc, job>>
       ELSE Return(c)
  /\ UNCHANGED <<items, gate, serializers, ledger, target, claim, herdr,
                 historyVars>>

\* The status of the occupant decides: sent now, queued, or refused for good.
Disposition(status) ==
  CASE status = "sendable"       -> "SentNow"
    [] status = "midturn"        -> "QueuedAfterTurn"
    [] status = "needs_terminal" -> "NeedsTerminal"
    [] status = "unknown"        -> "RejectedUnknown"

\* The occupant is the one the ConversationId names.
ValidateOccupant(c) == herdr[AgentOf(c)].session = SessionOf(c)

Decide(c) ==
  LET d == Disposition(herdr[AgentOf(c)].status) IN
  /\ pc[c] = "read"
  /\ ValidateOccupant(c)
  /\ IF d \in {"NeedsTerminal", "RejectedUnknown"}
       THEN Record(job[c].rid, job[c].body, d) /\ Return(c)
       ELSE /\ Goto(c, IF d = "SentNow" THEN "overtake" ELSE "enqueue")
            /\ UNCHANGED <<ledger, arc, job>>
  /\ moved' = moved \ {AgentOf(c)}
  /\ UNCHANGED <<items, gate, serializers, target, claim, herdr, attempts,
                 forgotten, withdrawn>>

\* Herdr did not answer, or the identity is stale: nothing is recorded.
DecideFails(c) ==
  /\ pc[c] = "read"
  /\ Return(c)
  /\ UNCHANGED <<items, gate, serializers, ledger, target, claim, herdr,
                 historyVars>>

EnqueueFollowUp(c) ==
  LET body == job[c].body IN
  /\ pc[c] = "enqueue"
  /\ \/ /\ Enqueue(body.agent, job[c].rid, body.session, body.text)
        /\ Goto(c, "schedule")
        /\ UNCHANGED <<arc, job>>
     \/ /\ ~ CanEnqueue(body.agent, body.session)
        /\ Return(c)
        /\ UNCHANGED items
  /\ UNCHANGED <<gate, serializers, ledger, target, claim, herdr, historyVars>>

ScheduleQueued(c) ==
  /\ pc[c] = "schedule"
  /\ Schedule(AgentOf(c), [pc EXCEPT ![c] = "queued"])
  /\ UNCHANGED <<items, serializers, arc, ledger, job, claim, herdr,
                 historyVars>>

\* Mutant: only a prompt that is on its way blocks a newer one; a trail that
\* awaits the user's reconciliation does not.
CheckOvertakeInFlight(c) ==
  LET a == AgentOf(c) IN
  /\ pc[c] = "overtake"
  /\ IF InState(a, QueueState \ TerminalStates) /\ items[a].session = SessionOf(c)
       THEN Return(c)
       ELSE Goto(c, "prompt") /\ UNCHANGED <<arc, job>>
  /\ UNCHANGED <<items, gate, serializers, ledger, target, claim, herdr,
                 historyVars>>

CheckOvertake(c) ==
  /\ pc[c] = "overtake"
  /\ IF HasUnresolved(AgentOf(c), SessionOf(c))
       THEN Return(c)
       ELSE Goto(c, "prompt") /\ UNCHANGED <<arc, job>>
  /\ UNCHANGED <<items, gate, serializers, ledger, target, claim, herdr,
                 historyVars>>

\* What agent.prompt did: it was accepted and a turn runs, it may have been
\* (the answer was lost), or it certainly was not.
PromptAccepted(t) ==
  /\ herdr' = [herdr EXCEPT ![AgentOf(t)].status = "midturn"]
  /\ Goto(t, "accepted")

PromptUncertain(t) ==
  /\ \E status \in {herdr[AgentOf(t)].status, "midturn"} :
       herdr' = [herdr EXCEPT ![AgentOf(t)].status = status]
  /\ Goto(t, "uncertain")

CountAttempt(r) == attempts' = [attempts EXCEPT ![r] = @ + 1]

SendNow(c) ==
  /\ pc[c] = "prompt"
  /\ \/ /\ PromptAccepted(c) \/ PromptUncertain(c)
        /\ CountAttempt(job[c].rid)
        /\ UNCHANGED <<arc, job>>
     \/ Return(c) /\ UNCHANGED <<herdr, attempts>>
  /\ UNCHANGED <<items, gate, serializers, ledger, target, claim, forgotten,
                 withdrawn, moved>>

OutcomeAt(at) == CASE at = "queued"    -> "QueuedAfterTurn"
                   [] at = "accepted"  -> "SentNow"
                   [] at = "uncertain" -> "DeliveryUncertain"

RecordOutcome(c) ==
  /\ pc[c] \in {"queued", "accepted", "uncertain"}
  /\ Record(job[c].rid, job[c].body, OutcomeAt(pc[c]))
  /\ Return(c)
  /\ UNCHANGED <<items, gate, serializers, target, claim, herdr, historyVars>>

----------------------------------------------------------------------------
(* The delivery worker: DeliveryTransaction::begin, the conversation lock, *)
(* DeliveryTransaction::finish, and the exit gate of run_worker.           *)

WorkerGoto(w, at) ==
  /\ Goto(w, at)
  /\ claim' = [claim EXCEPT ![w] = IF at \in {"attempt", "gate"}
                                     THEN NoClaim ELSE @]

ClaimItem(w) ==
  LET a == target[w] IN
  /\ pc[w] = "attempt"
  /\ \/ /\ ClaimForDelivery(a)
        /\ Goto(w, "wait")
        /\ claim' = [claim EXCEPT ![w] =
             [rid |-> items[a].rid, session |-> items[a].session,
              text |-> items[a].text]]
     \/ /\ ~ InState(a, {"Queued"})          \* AlreadyClaimed or Gone
        /\ WorkerGoto(w, "gate")
        /\ UNCHANGED items
  /\ UNCHANGED <<gate, serializers, arc, ledger, job, target, herdr,
                 historyVars>>

WaitSendable(w) ==
  /\ pc[w] = "wait"
  /\ herdr[target[w]].status = "sendable"
  /\ Goto(w, "reserve")
  /\ UNCHANGED <<items, gate, serializers, arc, ledger, job, target, claim,
                 herdr, historyVars>>

\* Blocked, timed out or no answer: the claim goes back and the worker sleeps
\* before its next attempt.
WaitRetained(w) ==
  /\ pc[w] = "wait"
  /\ ReleaseClaim(target[w], claim[w].rid)
  /\ WorkerGoto(w, "attempt")
  /\ UNCHANGED <<gate, serializers, arc, ledger, job, target, herdr,
                 historyVars>>

Reserve(w) ==
  /\ pc[w] = "reserve"
  /\ TakeSerializer(w, target[w])
  /\ Goto(w, "lock")
  /\ UNCHANGED <<items, gate, ledger, job, target, claim, herdr, historyVars>>

WorkerLock(w) ==
  /\ pc[w] = "lock"
  /\ SlotFree(w)
  /\ Goto(w, "check")
  /\ UNCHANGED <<items, gate, serializers, arc, ledger, job, target, claim,
                 herdr, historyVars>>

IdentityMatches(w) ==
  /\ herdr[target[w]].session = claim[w].session
  /\ herdr[target[w]].ready

\* The answer of agent_identity, under the lock.
CheckIdentity(w) ==
  LET a == target[w] IN
  /\ pc[w] = "check"
  /\ \/ /\ ~ IdentityMatches(w)
        /\ FinishRemove(a, claim[w].rid)
        /\ WorkerGoto(w, "gate")
        /\ DropSerializer(w)
     \/ /\ IdentityMatches(w)
        /\ herdr[a].status # "sendable"
        /\ ReleaseClaim(a, claim[w].rid)
        /\ WorkerGoto(w, "attempt")
        /\ DropSerializer(w)
     \/ /\ IdentityMatches(w)
        /\ herdr[a].status = "sendable"
        /\ WorkerGoto(w, "begin")
        /\ UNCHANGED <<items, arc>>
  /\ moved' = moved \ {a}
  /\ UNCHANGED <<gate, serializers, ledger, job, target, herdr, attempts,
                 forgotten, withdrawn>>

\* agent_identity got no answer: retained.
CheckFails(w) ==
  /\ pc[w] = "check"
  /\ ReleaseClaim(target[w], claim[w].rid)
  /\ WorkerGoto(w, "attempt")
  /\ DropSerializer(w)
  /\ UNCHANGED <<gate, serializers, ledger, job, target, herdr, historyVars>>

Begin(w) ==
  LET a == target[w] IN
  /\ pc[w] = "begin"
  /\ \/ /\ BeginDelivery(a, claim[w].rid)
        /\ WorkerGoto(w, "prompt")
        /\ UNCHANGED arc
     \/ /\ ~ ClaimStands(a, claim[w].rid)    \* CancelledBeforeDelivery
        /\ WorkerGoto(w, "gate")
        /\ DropSerializer(w)
        /\ UNCHANGED items
  /\ UNCHANGED <<gate, serializers, ledger, job, target, herdr, historyVars>>

Deliver(w) ==
  /\ pc[w] = "prompt"
  /\ \/ /\ PromptAccepted(w) \/ PromptUncertain(w)
        /\ CountAttempt(claim[w].rid)
     \/ Goto(w, "rejected") /\ UNCHANGED <<herdr, attempts>>
  /\ UNCHANGED <<items, gate, serializers, arc, ledger, job, target, claim,
                 forgotten, withdrawn, moved>>

FinishDelivery(w) ==
  LET a == target[w]
      r == claim[w].rid IN
  /\ \/ pc[w] = "accepted" /\ FinishRemove(a, r)
     \/ pc[w] = "rejected" /\ FinishRetain(a, r, "FailedRecoverable")
     \/ pc[w] = "uncertain" /\ FinishRetain(a, r, "DeliveryUncertain")
  /\ WorkerGoto(w, "gate")
  /\ DropSerializer(w)
  /\ UNCHANGED <<gate, serializers, ledger, job, target, herdr, historyVars>>

\* The exit gate.  A deliverable item keeps the worker; otherwise the marker
\* goes, but the loop has no way out and starts over.
ExitGate(w) ==
  /\ pc[w] = "gate"
  /\ gate' = IF DeliverableItemExists(target[w]) THEN gate
                                                 ELSE gate \ {target[w]}
  /\ WorkerGoto(w, "attempt")
  /\ UNCHANGED <<items, serializers, arc, ledger, job, target, herdr,
                 historyVars>>

----------------------------------------------------------------------------
(* The user, the status poll of the GUI, time, and Herdr.                  *)

Cancel(a) ==
  /\ CancelItem(a)
  /\ withdrawn' = IF items[a].state = "DeliveryUncertain"
                    THEN withdrawn ELSE withdrawn \cup {items[a].rid}
  /\ UNCHANGED <<gate, serializers, ledger, threadVars, herdr, attempts,
                 forgotten, moved>>

Edit(a) ==
  /\ \E text \in Texts : ReplaceText(a, text)
  /\ UNCHANGED <<gate, serializers, ledger, threadVars, herdr, historyVars>>

\* maybe_resume_follow_up_delivery.
Rearm(a) ==
  /\ DeliverableItemExists(a)
  /\ Schedule(a, pc)
  /\ UNCHANGED <<items, serializers, arc, ledger, job, claim, herdr,
                 historyVars>>

\* The entry outlived its ten minutes or was the oldest of more than 512.
Forget(r) ==
  /\ r \in Ageing \ forgotten
  /\ ledger[r] # NoEntry
  /\ ledger' = [ledger EXCEPT ![r] = NoEntry]
  /\ forgotten' = forgotten \cup {r}
  /\ UNCHANGED <<items, gate, serializers, threadVars, herdr, attempts,
                 withdrawn, moved>>

\* A turn starts, ends or blocks, or another session takes the pane.
HerdrChange(a) ==
  /\ \E view \in Views \ {herdr[a]} : herdr' = [herdr EXCEPT ![a] = view]
  /\ moved' = IF \E t \in Threads : AgentOf(t) = a /\ pc[t] \in PastReadPcs
                THEN moved \cup {a} ELSE moved
  /\ UNCHANGED <<items, gate, serializers, ledger, threadVars, attempts,
                 forgotten, withdrawn>>

ClientStep(c) ==
  \/ ClientLock(c) \/ Lookup(c) \/ Decide(c) \/ DecideFails(c)
  \/ EnqueueFollowUp(c) \/ ScheduleQueued(c) \/ CheckOvertake(c)
  \/ SendNow(c) \/ RecordOutcome(c)

WorkerStep(w) ==
  \/ ClaimItem(w) \/ WaitSendable(w) \/ WaitRetained(w) \/ Reserve(w)
  \/ WorkerLock(w) \/ CheckIdentity(w) \/ CheckFails(w) \/ Begin(w)
  \/ Deliver(w) \/ FinishDelivery(w) \/ ExitGate(w)

Next ==
  \/ \E c \in Clients : Submit(c) \/ ClientStep(c)
  \/ \E w \in Workers : WorkerStep(w)
  \/ \E a \in Agents : Cancel(a) \/ Edit(a) \/ Rearm(a) \/ HerdrChange(a)
  \/ \E r \in Requests : Forget(r)

Spec == Init /\ [][Next]_vars

\* Every thread keeps running, no lock is lost to the same thread forever, and
\* Herdr does not fail every one of infinitely many calls.
Fairness ==
  /\ \A c \in Clients :
       WF_vars(ClientStep(c)) /\ SF_vars(ClientLock(c)) /\ SF_vars(Lookup(c))
  /\ \A w \in Workers :
       /\ WF_vars(WorkerStep(w))
       /\ SF_vars(WaitSendable(w))
       /\ SF_vars(WorkerLock(w))
       /\ SF_vars(CheckIdentity(w))

FairSpec == Spec /\ Fairness

----------------------------------------------------------------------------
(* Safety.                                                                 *)

\* Two threads never stand inside the conversation lock of one Agent, although
\* the map the locks live in is pruned while threads wait for them
\* (conversation_lock, conversation_delivery.rs).
LockExclusive ==
  \A t, u \in Threads :
    InCritical(t) /\ InCritical(u) /\ AgentOf(t) = AgentOf(u) => t = u

\* As long as the ledger remembers a request, its prompt may have reached an
\* Agent at most once, whatever callers retry it, at whatever Agent, and
\* however many workers race for its queue item
\* (submit_conversation_prompt, claim_for_delivery, begin_delivery).
AtMostOnce == \A r \in Requests \ forgotten : attempts[r] <= 1

\* A text the user took back is never sent, not even by a worker that claimed
\* it earlier and holds a snapshot of it (cancel, begin_delivery).
WithdrawnNeverSent == \A r \in withdrawn \ forgotten : attempts[r] = 0

\* A thread about to prompt faces the session it verified, settled, unless
\* Herdr moved after that read: no other thread of the Host can have prompted
\* in between (the check-then-prompt under the conversation lock).
PromptsSettledOccupant ==
  \A t \in Threads :
    pc[t] = "prompt" /\ AgentOf(t) \notin moved =>
      /\ herdr[AgentOf(t)].session = SessionOf(t)
      /\ herdr[AgentOf(t)].status = "sendable"

\* An immediate prompt never overtakes a follow-up of the same Conversation
\* that is queued, on its way, or waiting for the user's reconciliation
\* (has_unresolved_for_conversation in submit_conversation_prompt).
NoOvertaking ==
  \A c \in Clients :
    pc[c] = "prompt" => ~ HasUnresolved(AgentOf(c), SessionOf(c))

ClaimHeldPcs == {"wait", "reserve", "lock", "check", "begin"}
SendingPcs   == {"prompt", "accepted", "rejected", "uncertain"}

\* No claim is orphaned: an item in WaitingForTurnBoundary or Delivering always
\* has a worker on the way to release it, send it or finish it.  An orphan
\* would answer AlreadyClaimed, and block its Conversation, for ever.
ClaimsOwned ==
  \A a \in Agents :
    InState(a, {"WaitingForTurnBoundary", "Delivering"}) =>
      \E w \in Workers :
        /\ target[w] = a
        /\ claim[w] # NoClaim
        /\ claim[w].rid = items[a].rid
        /\ pc[w] \in IF items[a].state = "Delivering"
                       THEN SendingPcs ELSE ClaimHeldPcs

\* What the ledger replays is what happened: a refusal means that nothing was
\* queued, SentNow and DeliveryUncertain that the prompt went out, or may have,
\* and that no queue item can send it a second time.
LedgerTellsTruth ==
  \A r \in Requests \ forgotten :
    ledger[r] # NoEntry =>
      LET out == ledger[r].outcome
          held == \E a \in Agents : Holds(a, r) IN
      /\ out \in {"NeedsTerminal", "RejectedUnknown"} => attempts[r] = 0 /\ ~ held
      /\ out \in {"SentNow", "DeliveryUncertain"} => attempts[r] = 1 /\ ~ held

\* A worker that is about to send sends the text the queue shows: no edit slips
\* in between its snapshot and the prompt (replace_text, claim_for_delivery).
\* A claim token is a request id, so this too lasts as long as the ledger keeps
\* the id from being submitted again.
SendsShownText ==
  \A w \in Workers :
    pc[w] = "prompt" /\ claim[w].rid \notin forgotten =>
      /\ Holds(target[w], claim[w].rid)
      /\ claim[w].text = items[target[w]].text

\* An item leaves its slot only because the user took it back or dismissed it,
\* because its prompt went out, because its own session is no longer there
\* and ready, or because it is the trail of an earlier Conversation: a worker
\* with a stale claim never throws away a successor (finish is token-bound).
NeverSilentlyLost ==
  [][\A a \in Agents :
       Occupied(a) /\ (items'[a] = NoItem \/ items'[a].rid # items[a].rid) =>
         \/ items[a].rid \in withdrawn'
         \/ attempts[items[a].rid] > 0
         \/ herdr[a].session # items[a].session \/ ~ herdr[a].ready
         \/ items'[a] # NoItem /\ items'[a].session # items[a].session]_vars

(* Liveness.                                                               *)

\* If an Agent eventually stays settled, every follow-up in its slot is sent,
\* given up with its session, marked for reconciliation, or taken back.
FollowUpsResolved ==
  \A a \in Agents :
    <>[](herdr[a].status = "sendable") =>
      (DeliverableItemExists(a) ~> ~ DeliverableItemExists(a))

(* The abstract service.                                                   *)

\* What became of a request, as PromptOnce sees it.
PhaseOf(r) ==
  LET slots == {a \in Agents : Holds(a, r)} IN
  IF attempts[r] > 0 THEN "sent"
  ELSE IF r \in withdrawn THEN "returned"
  ELSE IF slots # {}
    THEN IF \A a \in slots : InState(a, {"FailedRecoverable"})
           THEN "failed" ELSE "held"
  ELSE IF ledger[r] = NoEntry THEN "new"
  ELSE IF ledger[r].outcome = "QueuedAfterTurn" THEN "dropped"
  ELSE "refused"

\* The promise lasts as long as the ledger remembers the request.
Lasting == Requests \ Ageing

Service == INSTANCE PromptOnce
             WITH Requests <- Lasting, phase <- [r \in Lasting |-> PhaseOf(r)]

\* Seen from outside, the ledger, the queue, the locks and the workers together
\* are a service that settles each request once and for good.
ImplementsPromptOnce == Service!Spec

(* What the code's comments promise and the code does not keep.            *)

\* "on enqueue the Host process arranges exactly one delivery worker": no Agent
\* ever has two worker threads.
ExactlyOneWorker ==
  \A v, w \in Workers : target[v] # NoAgent /\ target[v] = target[w] => v = w
=============================================================================
