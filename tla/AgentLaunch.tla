---------------------------- MODULE AgentLaunch -----------------------------
(***************************************************************************)
(* Launching an Agent once per operation id.  Callers (the New Agent       *)
(* surface, History continuation, the live handoff) go through             *)
(* run_agent_launch_with_ledger (shardlane-host/src/agent_launch.rs): the  *)
(* first caller of an id runs the launch transaction, one call of Herdr    *)
(* after another, each of which may fail or have its answer lost; callers  *)
(* that repeat the id wait and get the same outcome.                       *)
(***************************************************************************)
EXTENDS LaunchLedger

CONSTANTS NoId, NoResult

ASSUME CallersAssumption == NoId \notin Ids /\ NoResult \notin Results

VARIABLES
  pc,         \* where each caller stands
  op,         \* the operation id it executes
  result,     \* the owner's result
  (* history, read by properties only *)
  agents,     \* Agents made for an id: none, one, or more
  forgotten   \* ids whose kept outcome was pruned

historyVars == <<agents, forgotten>>
vars == <<entries, order, cell, arc, pc, op, result, agents, forgotten>>

\* What an owner does between its insertion and its publication.
LaunchPcs == {"prepare", "create", "start", "verify", "reconcile", "instruct"}
OwnerPcs  == LaunchPcs \cup {"reap", "publish"}
Pcs       == OwnerPcs \cup {"idle", "release", "wait"}

TypeOK ==
  /\ entries \in [Ids -> Arcs \cup {NoArc}]
  /\ order \in Seq(Ids)
  /\ cell \in [Arcs -> Cell \cup {NoCell}]
  /\ pc \in [Callers -> Pcs]
  /\ op \in [Callers -> Ids \cup {NoId}]
  /\ arc \in [Callers -> Arcs \cup {NoArc}]
  /\ result \in [Callers -> Results \cup {NoResult}]
  /\ agents \in [Ids -> 0 .. 2]
  /\ forgotten \subseteq Ids
  /\ \A c \in Callers :
       /\ pc[c] = "idle" <=> op[c] = NoId
       /\ pc[c] = "idle" <=> arc[c] = NoArc
       /\ pc[c] \in {"publish", "release"} <=> result[c] # NoResult
  /\ \A e \in Arcs : cell[e] # NoCell <=> Held(e)

Init ==
  /\ InitLedger
  /\ pc = [c \in Callers |-> "idle"]
  /\ op = [c \in Callers |-> NoId]
  /\ result = [c \in Callers |-> NoResult]
  /\ agents = [id \in Ids |-> 0]
  /\ forgotten = {}

Goto(c, at) == pc' = [pc EXCEPT ![c] = at]

\* Only a kept outcome protects from a second launch.
ForgetDropped == forgotten' = forgotten \cup {id \in Dropped : agents[id] > 0}

----------------------------------------------------------------------------
(* LaunchOperationLedger::execute, before and after the launch itself.     *)

\* Rejected before any runtime call.
Conflict(c) ==
  /\ pc[c] = "idle"
  /\ \E id \in Ids, f \in Fingerprints : Refuse(id, f)
  /\ ForgetDropped
  /\ UNCHANGED <<pc, op, result, agents>>

Attach(c) ==
  /\ pc[c] = "idle"
  /\ \E id \in Ids, f \in Fingerprints :
       Share(c, id, f) /\ op' = [op EXCEPT ![c] = id]
  /\ Goto(c, "wait")
  /\ ForgetDropped
  /\ UNCHANGED <<result, agents>>

Own(c) ==
  /\ pc[c] = "idle"
  /\ \E id \in Ids, f \in Fingerprints, e \in Arcs :
       Insert(c, id, e, f) /\ op' = [op EXCEPT ![c] = id]
  /\ Goto(c, "prepare")
  /\ ForgetDropped
  /\ UNCHANGED <<result, agents>>

\* Mutant: the caller keeps its reference to the entry.
ReturnKeepingEntry(c) ==
  /\ Goto(c, "idle")
  /\ op' = [op EXCEPT ![c] = NoId]
  /\ result' = [result EXCEPT ![c] = NoResult]
  /\ UNCHANGED arc

Return(c) ==
  /\ Goto(c, "idle")
  /\ op' = [op EXCEPT ![c] = NoId]
  /\ arc' = [arc EXCEPT ![c] = NoArc]
  /\ result' = [result EXCEPT ![c] = NoResult]

\* The condition variable: a waiter goes on once the entry has an outcome.
Replay(c) ==
  /\ pc[c] = "wait"
  /\ cell[arc[c]].state # "Running"
  /\ Return(c)
  /\ UNCHANGED <<entries, order, historyVars>>
  /\ Settle(cell)

Publish(c) ==
  /\ pc[c] = "publish"
  /\ Finish(arc[c], result[c])
  /\ Goto(c, "release")
  /\ UNCHANGED <<entries, order, arc, op, result, historyVars>>

\* What the owner does after the publication, a release if need be.
Leave(c) ==
  /\ pc[c] = "release"
  /\ IF Retained(result[c]) THEN UNCHANGED <<entries, order>>
                            ELSE Release(op[c], arc[c])
  /\ Return(c)
  /\ UNCHANGED historyVars
  /\ Settle(cell)

----------------------------------------------------------------------------
(* run_agent_launch_inner, one call of Herdr or of Git after another.      *)

\* The closure returns its result.
Conclude(c, outcome) ==
  Goto(c, "publish") /\ result' = [result EXCEPT ![c] = outcome]

\* The branch, and then a tab in a workspace that may have to be made first.
Prepare(c) ==
  /\ \/ pc[c] = "prepare" /\ Goto(c, "create") /\ UNCHANGED result
     \/ pc[c] = "create" /\ Goto(c, "start") /\ UNCHANGED result
     \/ pc[c] \in {"prepare", "create"} /\ Conclude(c, "NotStarted")
  /\ UNCHANGED <<entries, order, cell, arc, op, historyVars>>

MakeAgent(c) ==
  /\ cell' = [cell EXCEPT ![arc[c]].made = TRUE]
  /\ agents' = [agents EXCEPT ![op[c]] = IF @ = 2 THEN 2 ELSE @ + 1]

\* Mutant: a lost answer is taken for a refusal.
StartLostIsRefused(c) ==
  /\ pc[c] = "start"
  /\ \/ MakeAgent(c) /\ Goto(c, "verify")
     \/ MakeAgent(c) /\ Goto(c, "reap")
     \/ UNCHANGED <<cell, agents>> /\ Goto(c, "reap")
  /\ UNCHANGED <<entries, order, arc, op, result, forgotten>>

\* agent.start is sent once: accepted, answered by nobody, or refused (as it is
\* when the shell never became ready, and nothing was sent).
Start(c) ==
  /\ pc[c] = "start"
  /\ \/ MakeAgent(c) /\ Goto(c, "verify")
     \/ /\ MakeAgent(c) \/ UNCHANGED <<cell, agents>>
        /\ Goto(c, "reconcile")
     \/ UNCHANGED <<cell, agents>> /\ Goto(c, "reap")
  /\ UNCHANGED <<entries, order, arc, op, result, forgotten>>

\* The tab of a start that certainly failed is closed.
Reap(c) ==
  /\ pc[c] = "reap"
  /\ Conclude(c, "NotStarted")
  /\ UNCHANGED <<entries, order, cell, arc, op, historyVars>>

\* Mutant: an Agent that was started and is not ready is called a failed start.
VerifyForgetsAgent(c) ==
  /\ \/ pc[c] = "verify" /\ Conclude(c, "NotStarted")
     \/ pc[c] = "reconcile" /\ Conclude(c, "StartUncertain")
     \/ /\ pc[c] \in {"verify", "reconcile"} /\ cell[arc[c]].made
        /\ Goto(c, "instruct") /\ UNCHANGED result
  /\ UNCHANGED <<entries, order, cell, arc, op, historyVars>>

\* Readiness and typed identity: the intended Agent is seen in the pane, or it
\* is not before the deadline.
Verify(c) ==
  /\ \/ pc[c] = "verify" /\ Conclude(c, "AgentCreated")
     \/ pc[c] = "reconcile" /\ Conclude(c, "StartUncertain")
     \/ /\ pc[c] \in {"verify", "reconcile"} /\ cell[arc[c]].made
        /\ Goto(c, "instruct") /\ UNCHANGED result
  /\ UNCHANGED <<entries, order, cell, arc, op, historyVars>>

\* Plan keys, the initial prompt, and the projection of the layout.
Instruct(c) ==
  /\ pc[c] = "instruct"
  /\ Conclude(c, "AgentCreated") \/ Conclude(c, "Launched")
  /\ UNCHANGED <<entries, order, cell, arc, op, historyVars>>

AgeEntry(id) == Age(id) /\ UNCHANGED <<pc, op, result, historyVars>>

Proceed(c) ==
  \/ Prepare(c) \/ Start(c) \/ Reap(c) \/ Verify(c) \/ Instruct(c)
  \/ Publish(c) \/ Leave(c) \/ Replay(c)

Next ==
  \/ \E c \in Callers : Conflict(c) \/ Attach(c) \/ Own(c) \/ Proceed(c)
  \/ \E id \in Ids : AgeEntry(id)

Spec == Init /\ [][Next]_vars

\* Every call of Herdr and of Git comes back, with a timeout if need be.
FairSpec == Spec /\ \A c \in Callers : WF_vars(Proceed(c))

----------------------------------------------------------------------------

\* One launch of an operation at a time, even when its entry is old or beyond
\* the capacity: pruning spares a running entry, and an owner that gives up
\* never removes the entry of its successor (prune_locked, execute).
OneOwner ==
  \A c, d \in Callers :
    pc[c] \in OwnerPcs /\ pc[d] \in OwnerPcs /\ op[c] = op[d] => c = d

\* A running entry has an owner that works on it.  One without would never
\* finish: its waiters would sleep and, since pruning spares it, its id would
\* be taken for ever (execute, prune_locked).
RunningHasOwner ==
  \A e \in Arcs :
    cell[e] # NoCell /\ cell[e].state = "Running" =>
      \E c \in Callers : pc[c] \in OwnerPcs /\ arc[c] = e

\* As long as the outcome of an id is not pruned, retries of the id, after lost
\* answers and failures of whatever phase, never make a second Agent.
OneAgentPerOperation == \A id \in Ids \ forgotten : agents[id] <= 1

\* What callers are told is what became of the launch: a start that failed left
\* no Agent, an Agent reported exists, and a tab that is closed is empty
\* (the failure classes of run_agent_launch_inner).
OutcomesTellTruth ==
  /\ \A e \in Arcs :
       cell[e] # NoCell =>
         /\ cell[e].state = "NotStarted" => ~ cell[e].made
         /\ cell[e].state \in {"Launched", "AgentCreated"} => cell[e].made
  /\ \A c \in Callers : pc[c] = "reap" => ~ cell[arc[c]].made

\* The insertion order names the remembered ids, each once: a stale name would
\* later evict a younger entry of the same id (order and entries of the ledger).
OrderListsEntries ==
  /\ \A id \in Ids : Remembered(id) <=> \E i \in 1 .. Len(order) : order[i] = id
  /\ \A i, j \in 1 .. Len(order) : order[i] = order[j] => i = j

\* Whoever waits for another caller's launch is answered, whatever becomes of
\* the launch and of its entry.
WaitersAnswered == \A c \in Callers : pc[c] = "wait" ~> pc[c] # "wait"
=============================================================================
