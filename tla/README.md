# Shardlane: a verification project

TLA+ modules, TLC runs and TLAPS proofs for the Rust workspace under `src/`
(Shardlane: a desktop and remote Host for coding Agents that run in the panes of
a terminal multiplexer called Herdr). The modules are translated from the code;
`PROJECT.json` names, for every definition, the lines it stands for.

## 1. Inventory

The Host process holds almost all of the system's own state; it is one process
with many threads (GUI callbacks, one thread per Remote request, delivery
workers, bridges, reapers) that share mutex-guarded maps. Herdr, the Agents'
providers and the files they write are other processes.

| Component (crate `shardlane-host` unless named) | State | Operations | Hard behaviour | What makes it correct |
|---|---|---|---|---|
| Follow-up queue, `conversation_queue.rs` | one slot per Agent: `QueuedFollowUp` with a state | enqueue, claim, begin, release, finish, cancel, replace_text | a claim is a token of an item that others may cancel or replace meanwhile | one item per Agent; only the claimant delivers; a stale token touches nothing; nothing is lost silently |
| Prompt submission, `conversation_service.rs` (`submit_conversation_prompt`) | mutation ledger: request id to outcome, 10 min, 512 entries | lookup, decide by status, enqueue or send, record | timeouts after the write, retries, two callers of one id, status read before it is used | a request reaches an Agent at most once; refusals mean nothing happened; no overtaking of an unresolved follow-up |
| Delivery coordinator, `conversation_delivery.rs` | active-worker markers; a pruned map of per-Agent locks | schedule, worker loop, exit gate, conversation_lock | the lock map is pruned while threads wait for its locks; the exit gate against schedule; spawn failure | one holder per Agent; no claim orphaned; an accepted item always gets a worker |
| Launch ledger, `conversation_delivery.rs` (`LaunchOperationLedger`) | request id to running, done; condvar | execute: attach, wait, run, retain or release, prune | concurrent callers of one id, failure of the owner, eviction of running entries | one launch per id while remembered; waiters get the owner's outcome |
| Agent launch, `agent_launch.rs`, `agent_service.rs` | pane, worktree, agent being created | launch phases and their roll-back | a failure in any phase | nothing half-made is reported as success |
| Live handoff, `live_handoff.rs`, `context_transfer.rs` | none of its own; holds the conversation lock | settle, snapshot, freshness fence, launch, prompt | the source starts a turn between settle and snapshot | the transferred context ends with a settled turn; one target per request |
| Interaction broker, `conversation_interactions.rs`; bridges, `provider_bridges/` | pending and settled interactions with responders | publish, resolve, cancel, expire, snapshot | several resolvers, deadline, occupant change, responder called outside the lock | the provider hears exactly one answer; a settled interaction stays settled |
| Live session manager, `conversation_sessions.rs` | map from source to session behind its own lock; leases | subscribe, read, adopt, release, reap | two lock levels, reaping against a shared read | one incremental session per source; a leased session is never reaped |
| Shared TUI, `shared_tui.rs` | one slot; replay buffer; input queue; viewers | open, subscribe with replay, input, resize, terminate, reap | replay frozen and broadcast joined in two steps; full queues; terminate against open | each viewer sees the output once, in order; input is whole and ordered |
| Remote idempotency, `shardlane-remote/src/idempotency.rs` | done entries in insertion order; in-flight slots held weakly | execute, store, prune | waiter, finished owner and newcomer of one key | one execution per key while remembered |
| Remote event hub, `shardlane-remote/src/events.rs` | held frames per key with deadlines | hold, flush, reconnect, broadcast | storms, disconnects, frames that bypass the hold | the latest value is eventually sent; no stale frame after a newer one |
| Live tail, `herdr-history/src/live/` | cursor into a session file and a decoder | poll: append, truncate, replace | the file changes in every way between two polls | the decoder sees the file's lines once, in order |
| Hook journal, `herdr-history/src/live/journal.rs`, `agent_hooks/` | an append-only file, rotated by size | append, rotate, read | two writers and a reader over a rename | no report lost or doubled within the retained window |
| Catalog, scanner, watcher; adapters | SQLite database; none | scans and parsers | delegated to SQLite; pure | - |
| Herdr client, mux backends | none | calls with error classes | an answer lost after the request was written | "may have happened" is never reported as "did not" |
| GUI, scripts panel, Remote routing, configuration | widget and request state | rendering, routing, encoding | - | - |

Interactions. GUI and Remote threads call `submit_conversation_prompt`, which
calls the ledger, the lock map, Herdr and the queue, and schedules the
coordinator, whose workers call the queue, the lock map and Herdr. The GUI's
poll cancels, edits and re-arms queue items. The live handoff takes the same
conversation lock and asks the same queue. Bridges publish to the interaction
broker, the GUI and Remote resolve there. The live session manager serves the
transcripts that the handoff fences on. The Remote server wraps mutating
requests in its idempotency cache, and forwards events through the hub.

## 2. Plan

In order of importance; each later module is one component and one or two runs.

1. `FollowUpQueue`, `PromptDelivery`, the abstract `PromptOnce`, and the proofs
   in `PromptDeliveryProofs`, `PromptOnceProofs` and `PromptServiceProofs`: done.
2. `LaunchLedger` and `AgentLaunch` (the ledger and the launch transaction it
   wraps) with the proofs in `AgentLaunchProofs`: done.
3. `InteractionBroker` and `ProviderBridge`, the abstract `AnswerOnce`, and the
   proofs in `ProviderBridgeProofs`: done.
4. `TuiManager` and `TuiRegistry` with the proofs in `TuiRegistryProofs`: done for
   slots and children. The output stream (replay prefix against broadcast) and the
   input queue are left.
5. `MutationCache` with the proofs in `MutationCacheProofs`: done.
6. `LiveSessions` with the proofs in `LiveSessionsProofs`, which also has the part of
   the live tail and of the Chat surface that it feeds: done.

What was planned further and is not modelled (event hub, live handoff, hook journal)
is in section 13, with the reasons.

Proofs: every safety invariant, action property and refinement that a passing run
checks is stated by a theorem (section 11).

## 3. The core: how a prompt is delivered once

`FollowUpQueue` declares the queue (`items`, one slot per Agent) and one operator
per queue operation; each runs under the queue's own mutex in the code and is one
atomic step here. `PromptDelivery` extends it with the threads.

| State | In the code |
|---|---|
| `items[a]` | `FollowUpQueue.by_agent` |
| `gate` | `DeliveryCoordinator`'s set of active workers |
| `serializers[a]`, `arc[t]` | the map of `Arc<Mutex<()>>`, and the reference a thread has cloned from it |
| `ledger[r]` | the mutation ledger's entry |
| `pc`, `job`, `target`, `claim` | where a client or worker thread stands, the request it executes, the Agent it was spawned for, the item snapshot with its claim token |
| `herdr[a]` | what Herdr would answer about the pane now: session, status, readiness |
| `attempts`, `forgotten`, `withdrawn`, `moved` | history: read by properties, never by a guard, except that `forgotten` lets an id age once |

A client's path is `lock -> ledger -> read -> (overtake -> prompt | enqueue ->
schedule -> queued) -> idle`; a worker's is `attempt -> wait -> reserve -> lock ->
check -> begin -> prompt -> gate -> attempt`. An action ends where the code takes
or drops a lock or calls Herdr, so the interleavings are those the threads have.

Abstractions. A `ConversationId` is an Agent and a session fingerprint. A lock's
mutex is free when no holder of the same slot stands between `lock` and the end
of its critical section. Failing to connect to Herdr, before anything is written, is
the same as being told no. A prompt that returned "uncertain" counts as an attempt, since the
text may have reached the Agent. The ledger's clock and order queue are one
action, `Forget`, that may drop any entry of the requests in `Ageing`, once. The
service `PromptOnce` is promised for the other requests, `Lasting`: the code promises it
no longer than its ledger remembers.
The marker and the creation of its thread are one step: a schedule that meets the
marker in between, and is left without a worker when the creation fails, ends like one whose
own creation failed. Thread creation fails when `SpawnMayFail` says so, and when the pool `Workers` is
used up; the pool bounds the leak described in section 12.

## 4. Launching an Agent once

`LaunchLedger` holds the map of operation ids and one operator per thing a holder of
its mutex does; `AgentLaunch` extends it with the callers.

| State | In the code |
|---|---|
| `entries[id]`, `order` | `LaunchLedgerInner.entries` and `.order` |
| `cell[e]` | what an `Arc<LaunchOperationEntry>` points to: fingerprint, running or the finished result, and whether it is older than the time to live |
| `arc[c]` | the reference a caller cloned out of the map |
| `pc`, `op`, `result` | where a caller stands, the id it executes, the result its closure returned |
| `cell[e].made`, `agents[id]`, `forgotten` | history: whether this launch, and how often this id, made an Agent; the ids whose kept outcome was pruned |

An owner's path is `prepare -> create -> start -> (verify | reconcile) -> instruct ->
publish -> release -> idle`, leaving for `publish` at every failure, by way of `reap`
when `agent.start` was refused; a caller that finds its id taken goes
`wait -> idle`. Publication and release are two steps because the code takes two
locks one after the other; callers that come in between attach to the finished
entry, or replace it once it is pruned.

Abstractions. Allocations are drawn from `Arcs`, and are free again when neither the
map nor a caller refers to them. Ten minutes pass for an entry in one step
(`Age`). Failures before the start, and a start that was refused, are one class,
`NotStarted`: the ledger treats them alike. After the start was accepted, the
plan keys, the prompt and the layout are one step, since each fails into the same
retained class. A pane that was just made shows the intended Agent only if the
launch made it, and Herdr's error reply to `agent.start` (other than a timeout)
means that it made none. `agents` counts to two. Closing the tab of a refused start
may fail, and the code ignores it. A pruning is one step: while the map is locked a
launch may publish between the two passes, which has the effect of a
publication before or after the pruning on every entry it looks at.

## 5. Answering an interaction once

`InteractionBroker` has the broker's records and one operator per operation;
`ProviderBridge` extends it with the threads: a bridge connection per interaction,
and Host threads that answer, report an occupant, or read the Conversation.

| State | In the code |
|---|---|
| `records[i]` | the broker's map; `deadline` and `old` stand for `expires_at_ms` and for `terminal_at` beyond the retention |
| `notices[t]` | the responders thread `t` has taken out of the records and calls after it has released them |
| `pc[c]`, `request[c]` | where `handle_client_connection` stands, the request id it would cancel |
| `channel[c]` | the channel of capacity one its responder sends to |
| `decided`, `replied` | history: how the interaction was settled, what the provider was told |

A connection goes `envelope -> wait -> done`, or `wait -> giveup -> hangup -> done`
when its wait runs out: it cancels whatever is pending under its request id, calls
the responders it took, its own included, and says that it timed out. That a wait ends
just as an answer is under way is a step like any other (`WaitEnds`): the user is
told that the answer was accepted, and the provider that nobody answered.
`AnswerOnce` therefore lets a provider hear a failure after any decision, but never
another decision, nothing before one, and nothing twice.

Abstractions. A connection publishes at most one interaction, and its id stands for
it. All interactions belong to one Conversation. What the threads know
about the occupant may be out of date when they use it, so a fingerprint is any the
Agent can have. Two revisions are enough: one is published, the next is terminal.
The client's own disconnect is not noticed during the wait, in the code as here.
In the repository broker and bridges are assembled by tests only: the production
code constructs neither, never sets the capture policy, and no adapter sets a
deadline. The model has what the module offers, deadlines and occupants included.

## 6. The child of the hosted TUI

`TuiManager` has the slot and one operator per step of an operation that holds the
slot's lock; `TuiRegistry` extends it with the registry and those who use it.

| State | In the code |
|---|---|
| `slot[m]` | `TuiSlot`: empty, a session, or a session whose child's end is awaited |
| `lock[m]` | where the holder of the slot's mutex stands: stopping, stopping to replace, or spawning |
| `os[s]`, `handle[s]` | the child in the operating system; who owns the right to wait for it |
| `running[m]`, `watched[m]` | status and viewers of the slot's session |
| `armed` | threads of `arm_termination_reap`, with the slot and session they are for |
| `registry`, `latched`, `held` | the registered manager, who holds the registry's lock, the manager each user keeps |
| `maker[s]` | history: the manager that published a child which may still live |

An operation that stops a child holds the slot's lock during the kill and the wait of
five seconds; it ends `free` and vacated (`StopProven`), or `free` and terminating with a
thread behind that waits and another that releases the slot (`StopUnproven`). Objects
are drawn from finite sets and their names are used again once nothing refers to
them, so that a run sees generations of managers and sessions.

Abstractions. One instance: managers of different instances share the registry's
lock only. Opening a session that runs changes nothing and is no action. The idle
lease is any moment at which nobody watches. A failing `wait` in the background
thread is left out; a failing `try_wait` is the barrier that falls. A child whose
spawn failed before it was published is killed and left to its guard, and may overlap
the next child: the code does not wait for it, and `ChildInItsSlot` speaks of published
children.

## 7. A Remote mutation under a request id

`MutationCache` is one `execute` per call.

| State | In the code |
|---|---|
| `entries[k]`, `order` | `CacheInner.entries` and `.order`; `fresh` says that the time to live has not passed |
| `inFlight[k]` | the weak reference of the in-flight map |
| `slot[c]` | the strong reference of a call; the weak one can be upgraded while some call has one |
| `pc`, `key`, `shape`, `answer` | where the call stands, its key and body fingerprint, what it was told |
| `settled[k]` | history: the calls that executed and stored since `k` was last forgotten |

`idle -> join -> wait -> run -> answered`, where both looks at the entries (`Look`,
`Enter`) may answer at once. `Drop` is the handler's future being dropped when its client goes
away: its slot and guard go with it, the mutation it started runs on, and nothing is
stored of it. Deadlock is not checked, since every call is one request and all
of them end.

## 8. Live conversation sessions

`LiveSessions` is the session manager for one source, with the Chat workers, the shared
reads and the file.

| State | In the code |
|---|---|
| `live` | the map's entry: what the session has read, whether its initial delivery was taken, its count of leases, whether `last_shared_read` is recent |
| `pc`, `got`, `mine`, `stray` | a Chat's worker: where it stands, a result under way to the surface, its sync in the background, one left over from before it was hidden |
| `view[w]` | what the Chat shows |
| `rpc`, `hydrated` | a shared read: where it stands; what was read by whoever opens a session outside the map's lock |
| `file` | the provider's file: which rewrite of it, and how long |
| `sole` | history: the worker that alone leases a session nobody was given anything of |

A message is the number of the rewrite that wrote it, enough to tell a stale one from
a current one. The tail compares lengths alone, so a rewrite that leaves a longer file is
read as growth, in the code as here. What a Chat misses when it leases a session somebody
used before is section 12; `SoleViewComplete` covers the other case, and `sole`
says exactly when it applies. `Rebound` is a Chat that is bound to another source and back
before its worker comes round: what it showed is gone, and its lease stays. What it
shows of the other source is that source's session.

Abstractions. The session's mutex is taken and released within a step; the reaper,
which passes over a busy session, finds none busy. A Chat is hidden only while it watches:
hidden earlier, it drops its lease as soon as it has it. A worker has at
most one left-over sync.

## 9. Runs

| Run | Instance | What it shows |
|---|---|---|
| `prompt_race` | 1 pane, 2 sessions, 2 requests, 2 clients, 2 workers, 2 locks, six views of the pane; spawning may fail | exclusion, at-most-once, withdrawn texts stay unsent, checked occupants, no overtaking, owned claims, a truthful ledger, nothing lost |
| `prompt_two_panes` | 2 panes, 1 request that may age, 2 clients, 2 workers, 3 locks | the transaction lock alone stops one id at two panes; lookups for one pane prune the lock map of the other; a request that the ledger forgot while its follow-up waits is not sent past it |
| `prompt_once` | 1 pane, 2 sessions with an unready moment between them, 2 texts, 1 client, 2 workers | edits never slip past a snapshot; the system implements `PromptOnce` |
| `prompt_liveness` | 1 pane, 2 requests, 1 client, 2 workers, fair | a settled pane's follow-up leaves the deliverable states |
| `prompt_one_worker` | 1 pane, 1 client, 2 workers | a counterexample: two workers for one Agent (section 12) |
| `launch_once` | 2 ids, 2 request shapes, 2 callers, 3 entries, capacity 1 | one launch at a time per id, one Agent per id, true outcomes, a tidy insertion order, an owner for every running entry |
| `launch_waiters` | 1 id, 2 request shapes, 2 callers, 2 entries, capacity 0, fair | a waiter is answered |
| `interaction_once` | 2 connections under 1 request id, 2 Host threads, 2 answers, 2 occupants, fair | the first to settle wins, its provider hears that or a failure, once and in the end; no waiting connection loses its sender |
| `tui_slot` | 1 user, 2 managers, 3 sessions, fair | no manager spawns beside a child that may live; a closed slot has a reaper; a slot that waits for a killed child is released |
| `tui_one_child` | 2 users, 2 managers, 3 sessions | a counterexample: two children for one instance (section 12) |
| `mutation_once` | 4 calls, 3 keys, 2 bodies, capacity 2 | executions of a key never overlap, a remembered outcome is the only one, replays repeat it, a tidy insertion order |
| `live_sessions` | 2 Chats, 1 reader, files of up to 2 messages, 1 rewrite, fair | leases are counted; shared reads take nothing from a sole Chat; abandoned sessions go |

Why the bounds are enough. The hazards need two of something: two clients with
one id, a worker with a stale claim and a second worker or a client, an item and
its successor, an occupant and its successor, a lock and the lock made after it
was pruned. A third lock is only reachable with two panes, where it is present.
A launch needs an entry, its
successor under the same id, and an entry of another id that pushes one of them
over the capacity; a capacity of one is passed by two ids, a capacity of zero evicts
whatever is finished. Values of a kind are interchangeable, so `SYMMETRY` permutes threads, requests,
locks (and panes where no view tells them apart); the liveness runs have none.
Deadlock is checked in every run but `mutation_once`.

An interaction needs two connections, since a timeout of one cancels interactions of
the other, and two Host threads beside them; the two answers are one that
resolves and one that dismisses, which end in different states. A TUI slot
needs a manager and its successor, and a session that is awaited, one that replaces it and
one whose spawn fails. The cache needs a key that fills it, one that pushes it out
and one that comes back, and a fourth call for the key that was forgotten. A live session
needs two Chats and a reader, a message that was there and one that comes, and one
rewrite. The largest runs have 0.4 to 1.3 million states and take one to three minutes.

Fairness (`FairSpec` of `PromptDelivery`). Threads of the Host are scheduled by the operating system,
so each step of a thread is weakly fair. Rust's mutexes do not promise an order,
but a waiter is not passed over for ever by finitely many others that sleep in
between: lock acquisition is strongly fair. `WaitSendable` and `CheckIdentity`
are strongly fair: a Herdr that answers some of infinitely many calls, and a wait
that looks at the status again and again. Nothing is assumed of the user, of
Herdr's changes or of spawning; the liveness run has no spontaneous spawn failure,
because a queued item whose spawn failed waits for the GUI's next poll of that
pane. In `AgentLaunch` every step of a caller that is under way is weakly fair: each
call of Herdr or Git has a timeout, and the loops that read readiness and identity
end at a deadline. Nobody is obliged to begin a launch.

In `ProviderBridge` a connection's thread and whoever holds responders are weakly
fair: the wait of a connection ends after an hour at most, and calling a responder
sends into a channel of capacity one that nobody else sends to. Nobody has to answer or to
read the Conversation. In `TuiRegistry` the holder of a slot's lock, the threads that wait
for a child and those that release its slot are weakly fair, and a killed child exits; an
operating system that never lets go of a killed process keeps the slot closed, as it should.
In `LiveSessions` it is enough that some step of a call or task under way is taken as
long as there is one.

## 10. Properties

`PromptDelivery`. Safety: `LockExclusive`, `AtMostOnce`, `WithdrawnNeverSent`,
`PromptsSettledOccupant`, `NoOvertaking`, `ClaimsOwned`, `LedgerTellsTruth`,
`SendsShownText`; steps: `NeverSilentlyLost`; liveness: `FollowUpsResolved`;
refinement: `ImplementsPromptOnce`. `AgentLaunch`. Safety: `OneOwner`,
`OneAgentPerOperation`, `OutcomesTellTruth`, `OrderListsEntries`, `RunningHasOwner`; liveness:
`WaitersAnswered`. `ProviderBridge`. Safety: `ResponderNeverLost`; refinement:
`ImplementsAnswerOnce`; liveness: `EveryRequestAnswered`. `TuiRegistry`. Safety:
`ChildInItsSlot`, `ClosedSlotHasReaper`, and `OneChildPerInstance`, which the code does not keep; liveness:
`SlotReleased`. `MutationCache`. Safety: `OneRunPerKey`, `SettledOnce`,
`OrderListsEntries`; steps: `ReplaysTellOutcome`. `LiveSessions`. Safety: `LeasesCounted`,
`SoleViewComplete`; liveness: `AbandonedReaped`. Each is stated in words above its definition,
with the code it is about.

What the ledger forgets it no longer protects: a claim token is a request id, so
`AtMostOnce`, `SendsShownText` and the others speak of requests not in
`forgotten`. This is the code's contract (ten minutes, 512 entries), not a
convenience of the model. `NoOvertaking` makes no such exception: while the follow-up of
a forgotten id is queued, a retry to the same Conversation is not sent past it. `OneAgentPerOperation` says the same of outcomes that
pruning has dropped.

`RunningHasOwner` and `ClosedSlotHasReaper` are what `WaitersAnswered` and `SlotReleased`
need of every state: somebody who, if it goes on, ends the wait. The liveness properties
are checked on small instances only, these two are proved for all.

## 11. Proofs

The theorems hold for every finite or infinite set of the threads, requests, keys and
objects of a module (the Chat workers must be finitely many, since leases are
counted), every capacity, and every length and number of rewrites of a live
file; they rest on the assumptions named in the modules: `ConstantsAssumption` (inputs have their types, clients are
not workers), `BrokerAssumption` (answers are dispositions, connections are not Host
threads), `LedgerAssumption`, `CapacityAssumption` and `BoundsAssumption` (capacities
and bounds are numbers), and, with `NullsAssumption`, `NoItemAssumption`,
`CallersAssumption` and `SlotAssumption`, that null values are not values.

`PromptDeliveryProofs` proves `TypeOK`, which also says that a thread's job, target
and claim are there exactly where its program counter needs them. `LockExclusive`
alone is not inductive: that two threads inside hold different slots of one pane must
be excluded. `LockInv` adds that a thread has a reference exactly while it stands
between the lookup and the end of its critical section (`ReferencesHeld`), and that
the map's slot for the thread's pane is the one its reference points to
(`ReferencesCurrent`), which is what pruning by reference count protects.

`PromptOnceProofs` builds `OnceInv` on top: at most one client is inside the ledger's
transaction (`TransactionExclusive`), and for each id the ledger has not forgotten,
`Once` follows it through the places it can be in: its client (`ClientOnce`), its
queue item (`ItemOnce`), the claim on the item (`ClaimOnce`), the worker that sends it
(`WorkerOnce`) and the ledger (`LedgerOnce`). Each clause says which other places
are then empty and how often the prompt can have gone out. `RequestOnce` ties them
together: an id of which anything exists is `Known`, in the ledger or to the
client about to record it, so no lookup can take it for new. The steps of other ids
do not touch it, so the proof of a step is about the one id it moves.
`AtMostOnce`, `WithdrawnNeverSent`, `LedgerTellsTruth` and `SendsShownText` are read
off `OnceInv`.

`PromptServiceProofs` has what lock, queue and ledger give together. From its read of the
occupant to its prompt a thread is sure of the occupant, or Herdr has moved (`SureInv`):
who prompts the same pane, or reads it again, would have to be in the lock, and
`LockInv` says that it is not. This gives `PromptsSettledOccupant`, and in the same way
`NoOvertaking`, since only a client in the lock fills the queue. `ClaimsOwned` is inductive with the
types: each step of a worker walks on with its claim, takes one, moves its item, or
lets go of it (`Walks`, `Takes` and what follows them), and the steps of others leave
claimed items alone. `ClaimInv` says what a claim knows of its item: it is
still in its slot, in the state that the worker's step calls for and with no second worker, or it
was taken back, or its prompt was counted. With it no step of a worker with a stale token can
remove an item of somebody else's, which is `NeverSilentlyLost`; `ClaimInv` needs no promise that
the ledger remembers.

`ImplementsPromptOnceCorrect` is the refinement. `PhaseOf` reads the phase of a request off the
ledger, the queue and the threads in a fixed order of precedence (`PhaseTable`); a step
that leaves all of these alone for a request is a stutter (`QuietPhase`), one that moves a
single request is one action of `PromptOnce` (`OneMoves`), and an enqueue that throws out the
trail of an earlier Conversation moves two (`OneSupersedes`). `PendingInv` covers
the moment between enqueueing and recording, when the request is known to a
client only. The lemmas `WorkerServes`, `EnqueueServes`, `ClientServes` and `OthersServe`
go through the actions.

`AgentLaunchProofs` proves `LaunchInv`: the map holds an owner's entry under its id
and it is running, no two threads own one entry (`OwnerInv`); what an owner has
reached tells whether its Agent exists (`PhaseInv`); a finished entry is true to its
launch (`CellInv`); an Agent that was made for an id is the one its entry remembers
(`AgentInv`). The central lemma is `PruneSpares`: whatever the two passes do to the
order, they take no entry away whose launch is running. `OneOwner`,
`OneAgentPerOperation` and `OutcomesTellTruth` follow. `RunningHasOwner` is inductive
beside `LaunchInv`. `OrderInv` says that the order lists each remembered id once and nothing
else. The passes of a pruning filter the order (`Keep`, a recursive function): that the
filtered list has exactly the elements that are kept is an induction over its length, which
`KeepExists` and `ListsKeep` make by the least counterexample (`LeastExists`, from the
library's theorem that `<` is well-founded on the naturals). `ListsRotated` is the second pass, which
puts a running entry to the back.

`ProviderBridgeProofs` proves `BridgeInv`. For a connection that waits, `ConnInv` says
where its responder is, and for whoever was answered, that the decision is the one in the
channel; `NoticeInv` says that what threads have to deliver are settled decisions, each
in the hands of one thread, and for a channel that is empty. `ResponderNeverLost` follows,
and every step of `ProviderBridge` is a step of `AnswerOnce` or leaves both of its variables alone:
the refinement is proved, not only checked.

`TuiRegistryProofs` proves `TuiInv`: `ChildInItsSlot` is not inductive, since a
stop or a spawn is several steps; `LockInv` says that whoever stops a child finds it in
the slot throughout, and that whoever spawns has no child left that may live, and
`ReapedUnmade` that a proof of exit ends the claim of its manager. `ClosedSlotHasReaper`
takes `HandsInv` beside it: no two slots name one session, so that nobody else's stop changes the
hands a child is in, and a running session still has its handle unless its stopper took
it (`RunningHandle`). `OneSlotMoves` is the frame for it: what a step may do to the slot of one
manager. `OwedChildInSlot` looks at it from the child: one that is being stopped or waited for
is in a slot, locked by its stopper or terminating. It follows with `OwedChildIsMade`, that
such a child still has its manager: a handle passes from hand to hand under one
maker, and ends with it (`HandsOn`).

`MutationCacheProofs` proves `CacheInv`: a call that waits or executes holds the slot that
the map names for its key (`SlotInv`), which is what keeps a weak reference alive; whoever
executes found nothing known (`RunInv`), and a remembered outcome is that of the one call
in `settled` (`SettledInv`). `OneRunPerKey`, `SettledOnce` and `ReplaysTellOutcome`
follow. `Stored` is the lemma for eviction and expiry: what leaves the front of the order leaves
the entries too, so that `OrderListsEntries` is kept.

`LiveSessionsProofs` proves `LiveInv`: a result under way fits what a Chat can show
(`GotInv`), a reader that cloned the map's session still finds it there (`ClonedInv`), leases
are counted (`LeasesCounted`, from the library's theorems about cardinality), and what a sole
Chat shows, with the result it has yet to apply, is what the session holds (`SoleInv`). Its
lemmas about sequences say what a report adds to the content and what applying it
adds to the view.

Only model-checked: the liveness properties `FollowUpsResolved`, `WaitersAnswered`,
`EveryRequestAnswered`, `SlotReleased` and `AbandonedReaped`, which need fairness and are
out of the prover's reach; and the two counterexamples of section 12.

## 12. What the code does not keep

`run_worker` (`conversation_delivery.rs`) removes its marker at the exit gate and
goes round its loop again: nothing leaves it. The thread stays for the life of the
process and the next `schedule` adds another. The module comment promises exactly one
worker per item. Delivery stays correct, since claims and the conversation lock do
not rely on there being one worker, and every other run is made with such
surplus workers; the run `prompt_one_worker` shows them.

`reap_idle_all` (`shared_tui.rs`) drops every registered manager whose slot is empty,
also one that a window has kept since it was bound. Who binds the same instance next gets
another manager, and both then open a child. The comments promise one per instance;
the run `tui_one_child` shows two. The first one is no longer in the registry, so that no
sweep and no closing of the session stops it.

Two more facts are in the models as the code has them. No run singles them out; the
properties are stated so as to say what remains true.

- A handler of a Remote mutation that is dropped while its mutation runs (`Drop`)
  lets a retry under the same key execute again, even at the same time.
  `idempotency.rs:133` promises one execution per key; `OneRunPerKey` counts
  handlers that are still there, and `SettledOnce` calls that came back. Also, a key that
  expired and is stored again keeps its old place in the order, and is evicted early.
- A Chat that leases a session which somebody leased before (another window, or the same
  one before it was hidden or bound to another Conversation) gets no initial delivery:
  `initial_delivery` is the session's, once, where its comment
  (`conversation_sessions.rs:189`) speaks of a freshly subscribed source. If the Chat shows
  nothing, it stays on its connecting view until something is appended, which is then
  installed as the whole transcript. Its syncs report only what nobody was given yet: what
  another window's sync or a left-over one takes in meanwhile is lost to it. A file that is rewritten and
  longer than before is spliced onto what was read of the old one.

## 13. Not modelled

- Live handoff and context transfer: they decide by file times and by what Herdr
  reports of a pane and when. A model would check assumptions about that runtime.
- Remote event hub: its frames are hints; a lost or late one matters only to a client
  that recovers by a bootstrap and is not in the repository.
- Hook journal: processes that share nothing but a file, with the atomicity of rename and
  append; the decoders of the live tail and its watch on the file are conversions.
- The TUI's output stream with its startup replay, its input queue and resize; the
  provider bridges' frames, session resolution and overlays; the Herdr client beyond the
  classes of answers that prompts and launches see.
- The SQLite catalog, the scanners and the transcript parsers: data conversions, and the
  transactions are the database's.
- The GUI's rendering, request routing and encoding, pairing, hook installation (edits of
  settings files), multiplexer command construction, project and usage projections,
  scripts.
