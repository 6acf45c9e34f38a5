---------------------------- MODULE LaunchLedger ----------------------------
(***************************************************************************)
(* The Host's memory of Agent launches (LaunchOperationLedger in           *)
(* shardlane-host/src/conversation_delivery.rs): a map from operation ids  *)
(* to entries that are shared by the thread that launches and the threads  *)
(* that repeat its request and wait for its outcome.  The map is pruned of *)
(* old outcomes, and of the oldest beyond a capacity, before every lookup. *)
(*                                                                         *)
(* An operator here is what one holder of the map's mutex does; the        *)
(* threads are in AgentLaunch.                                             *)
(***************************************************************************)
EXTENDS Naturals, Sequences, SequencesExt

CONSTANTS
  Ids,           \* operation ids
  Fingerprints,  \* shapes of a launch request
  Callers,       \* threads that execute launches
  Arcs,          \* identities of the Arc<LaunchOperationEntry> allocated
  Capacity,      \* entries kept once their launch has finished
  NoArc, NoCell

\* An outcome that may have made an Agent is kept; NotStarted stands for every
\* failure before the start was committed, and for a start refused for certain.
Results == {"Launched", "AgentCreated", "StartUncertain", "NotStarted"}

\* `made` is history: whether this launch made an Agent.
Cell == [fingerprint : Fingerprints, state : Results \cup {"Running"},
         old : BOOLEAN, made : BOOLEAN]

ASSUME LedgerAssumption ==
  Capacity \in Nat /\ NoArc \notin Arcs /\ NoCell \notin Cell

VARIABLES
  entries,  \* [Ids -> arc]
  order,    \* ids in the order they were inserted
  cell,     \* what each allocated entry holds
  arc       \* the entry each caller owns or waits on

InitLedger ==
  /\ entries = [id \in Ids |-> NoArc]
  /\ order = <<>>
  /\ cell = [e \in Arcs |-> NoCell]
  /\ arc = [c \in Callers |-> NoArc]

\* An entry lives as long as the map or a caller refers to it.
Held(e) == (\E id \in Ids : entries[id] = e) \/ (\E c \in Callers : arc[c] = e)

Settle(cells) == cell' = [e \in Arcs |-> IF Held(e)' THEN cells[e] ELSE NoCell]

Remembered(id) == entries[id] # NoArc

Running(id) == cell[entries[id]].state = "Running"

\* Mutant: a running launch can age out as well.
ExpiredThoughRunning(id) == Remembered(id) /\ cell[entries[id]].old

\* Finished, and created longer ago than the time to live.
Expired(id) == Remembered(id) /\ ~ Running(id) /\ cell[entries[id]].old

----------------------------------------------------------------------------
(* prune_locked.                                                           *)

\* What is left of s when only members of S are retained.
Keep(s, S) ==
  LET kept[i \in 0 .. Len(s)] ==
        IF i = 0 THEN <<>>
        ELSE IF s[i] \in S THEN Append(kept[i - 1], s[i])
        ELSE kept[i - 1]
  IN  kept[Len(s)]

\* The first pass: what has not expired, in order.
Unexpired == Keep(order, {id \in Ids : Remembered(id) /\ ~ Expired(id)})

\* The second pass drops what is beyond the capacity, oldest first, up to an
\* entry whose launch is running; that one goes to the back.
Evicted ==
  {Unexpired[i] : i \in {i \in 1 .. Len(Unexpired) - Capacity :
                           \A j \in 1 .. i : ~ Running(Unexpired[j])}}

Survivors == Keep(Unexpired, Ids \ Evicted)

PrunedOrder ==
  IF Len(Survivors) > Capacity THEN Append(Tail(Survivors), Head(Survivors))
                               ELSE Survivors

PrunedEntries ==
  [id \in Ids |->
     IF id \in Evicted \/ (id \in ToSet(order) /\ Expired(id)) THEN NoArc
                                                             ELSE entries[id]]

\* The ids whose outcome the pruning forgets.
Dropped == {id \in Ids : Remembered(id) /\ PrunedEntries[id] = NoArc}

----------------------------------------------------------------------------
(* execute.                                                                *)

Prune == entries' = PrunedEntries /\ order' = PrunedOrder

\* A repeated request shares the entry, finished or not.
Share(c, id, fingerprint) ==
  /\ PrunedEntries[id] # NoArc
  /\ cell[PrunedEntries[id]].fingerprint = fingerprint
  /\ Prune
  /\ arc' = [arc EXCEPT ![c] = PrunedEntries[id]]
  /\ Settle(cell)

\* The id was used for another request.
Refuse(id, fingerprint) ==
  /\ PrunedEntries[id] # NoArc
  /\ cell[PrunedEntries[id]].fingerprint # fingerprint
  /\ Prune
  /\ UNCHANGED arc
  /\ Settle(cell)

\* A first caller inserts a running entry and becomes its owner.
Insert(c, id, e, fingerprint) ==
  /\ PrunedEntries[id] = NoArc
  /\ ~ Held(e)
  /\ entries' = [PrunedEntries EXCEPT ![id] = e]
  /\ order' = Append(PrunedOrder, id)
  /\ arc' = [arc EXCEPT ![c] = e]
  /\ Settle([cell EXCEPT ![e] = [fingerprint |-> fingerprint, old |-> FALSE,
                                 state |-> "Running", made |-> FALSE]])

Retained(result) == result # "NotStarted"

\* Mutant: only an outcome worth keeping is handed to the waiters.
FinishRetainedOnly(e, result) ==
  cell' = IF Retained(result) THEN [cell EXCEPT ![e].state = result] ELSE cell

\* The owner's result, published to whoever waits on the entry.
Finish(e, result) == cell' = [cell EXCEPT ![e].state = result]

\* Mutant: the entry is removed by its id, whoever's it is by now.
ReleaseById(id, e) ==
  /\ entries' = [entries EXCEPT ![id] = NoArc]
  /\ order' = Keep(order, Ids \ {id})

\* Mutant: the id stays in the insertion order.
ReleaseKeepingOrder(id, e) ==
  /\ entries' = IF entries[id] = e THEN [entries EXCEPT ![id] = NoArc]
                                   ELSE entries
  /\ UNCHANGED order

\* A failure that is not kept gives the id back, if the entry is still ours.
Release(id, e) ==
  IF entries[id] = e
    THEN /\ entries' = [entries EXCEPT ![id] = NoArc]
         /\ order' = Keep(order, Ids \ {id})
    ELSE UNCHANGED <<entries, order>>

\* Ten minutes pass for an entry.
Age(id) ==
  /\ Remembered(id) /\ ~ cell[entries[id]].old
  /\ cell' = [cell EXCEPT ![entries[id]].old = TRUE]
  /\ UNCHANGED <<entries, order, arc>>
=============================================================================
