---------------------------- MODULE MutationCache ----------------------------
(***************************************************************************)
(* The request-id cache of the Remote's mutations (MutationCache, in       *)
(* idempotency.rs): calls with one key are coalesced onto one execution    *)
(* through an in-flight slot that the map holds only weakly, outcomes are  *)
(* remembered for a time and up to a capacity, and a key reused for        *)
(* another body conflicts. A call is the future of one HTTP handler, which *)
(* the server drops when its client goes away; the blocking mutation it    *)
(* started then goes on unwatched.                                         *)
(***************************************************************************)
EXTENDS Integers, Sequences, FiniteSets, SequencesExt

CONSTANTS
  Calls,      \* the requests made, one each
  Keys,       \* operation and client-supplied request_id
  Shapes,     \* request fingerprints
  Capacity,   \* DEFAULT_CAPACITY
  NoEntry, NoSlot, NoKey, NoShape

ASSUME CapacityAssumption == Capacity \in Nat
VARIABLES
  entries,    \* [Keys -> the remembered outcome or NoEntry]
  order,      \* keys in the order of insertion
  inFlight,   \* [Keys -> the slot last made for the key]: the weak references
  pc,         \* [Calls -> where the handler stands]
  key, shape, \* [Calls -> what it asks for]
  slot,       \* [Calls -> the slot it holds a strong reference to]
  answer,     \* [Calls -> what it is told]
  settled     \* history: [Keys -> calls that stored, since last forgotten]

callVars == <<key, shape>>
cacheVars == <<entries, order, settled>>
vars == <<entries, order, inFlight, pc, key, shape, slot, answer, settled>>

Storable == {"success", "terminal"}
Outcomes == Storable \cup {"transient"}
Entries == [shape : Shapes, outcome : Storable, fresh : BOOLEAN]

ASSUME NullsAssumption ==
  NoSlot \notin Calls /\ NoKey \notin Keys /\ NoEntry \notin Entries

Init ==
  /\ entries = [k \in Keys |-> NoEntry]
  /\ order = <<>>
  /\ inFlight = [k \in Keys |-> NoSlot]
  /\ pc = [c \in Calls |-> "idle"]
  /\ key = [c \in Calls |-> NoKey]
  /\ shape = [c \in Calls |-> NoShape]
  /\ slot = [c \in Calls |-> NoSlot]
  /\ answer = [c \in Calls |-> "none"]
  /\ settled = [k \in Keys |-> {}]

----------------------------------------------------------------------------
\* The remembered outcomes.

\* An entry within its time to live; an older one counts as absent.
Known(k) == entries[k] # NoEntry /\ entries[k].fresh

\* Mutant: replays the outcome of another body.
ReplayedAnyBody(k, f) == entries[k].outcome

\* What cached() tells a call whose key is known.
Replayed(k, f) ==
  IF entries[k].shape = f THEN entries[k].outcome ELSE "conflict"

\* Mutant: lists a key again that is stored again.
ListedAgain(k) == Append(order, k)

\* The key keeps its place in the order when it is stored again.
Listed(k) == IF entries[k] = NoEntry THEN Append(order, k) ELSE order

\* store() drops keys from the front: those beyond the capacity, then those whose
\* entries have expired, up to the first that has not.
Expired(e, k) == e[k] # NoEntry /\ ~ e[k].fresh
Droppable(e, o, i) == i <= Len(o) - Capacity \/ Expired(e, o[i])
Drops(e, o, n) ==
  /\ \A i \in 1 .. n : Droppable(e, o, i)
  /\ n < Len(o) => ~ Droppable(e, o, n + 1)

Store(c, outcome) ==
  LET k == key[c]
      listed == Listed(k)
      stored == [entries EXCEPT ![k] =
                   [shape |-> shape[c], outcome |-> outcome, fresh |-> TRUE]]
  IN  \E n \in 0 .. Len(listed) :
        LET gone == {listed[i] : i \in 1 .. n}
        IN  /\ Drops(stored, listed, n)
            /\ entries' = [j \in Keys |-> IF j \in gone THEN NoEntry ELSE stored[j]]
            /\ order' = SubSeq(listed, n + 1, Len(listed))
            /\ settled' = [j \in Keys |->
                 IF j \in gone THEN {}
                 ELSE IF j = k THEN settled[k] \cup {c} ELSE settled[j]]

\* An outcome reaches the end of its time to live.
Age(k) ==
  /\ Known(k)
  /\ entries' = [entries EXCEPT ![k].fresh = FALSE]
  /\ settled' = [settled EXCEPT ![k] = {}]
  /\ UNCHANGED <<order, inFlight, pc, key, shape, slot, answer>>

----------------------------------------------------------------------------
\* One call of execute().

Goto(c, p) == pc' = [pc EXCEPT ![c] = p]

\* An answer ends the call and with it the slot's guard and reference.
Answer(c, a) ==
  /\ Goto(c, "answered")
  /\ answer' = [answer EXCEPT ![c] = a]
  /\ slot' = [slot EXCEPT ![c] = NoSlot]

\* The first look at what is known of the key.
Look(c) ==
  /\ pc[c] = "idle"
  /\ \E k \in Keys, f \in Shapes :
       /\ key' = [key EXCEPT ![c] = k]
       /\ shape' = [shape EXCEPT ![c] = f]
       /\ IF Known(k)
            THEN Answer(c, Replayed(k, f))
            ELSE Goto(c, "join") /\ UNCHANGED <<answer, slot>>
  /\ UNCHANGED <<cacheVars, inFlight>>

\* Mutant: a slot is as dead as its runner.
LiveWhileRunning(s) == \E c \in Calls : slot[c] = s /\ pc[c] = "run"

\* A weak reference can be upgraded while some call holds the slot.
Live(s) == \E c \in Calls : slot[c] = s

\* in_flight_slot(): shares the slot of the key if it lives; otherwise clears
\* out the dead ones and makes a slot, known by the call that made it.
Join(c) ==
  /\ pc[c] = "join"
  /\ LET s == inFlight[key[c]]
     IN  IF s # NoSlot /\ Live(s)
           THEN slot' = [slot EXCEPT ![c] = s] /\ UNCHANGED inFlight
           ELSE /\ slot' = [slot EXCEPT ![c] = c]
                /\ inFlight' = [k \in Keys |->
                     IF k = key[c] THEN c
                     ELSE IF inFlight[k] # NoSlot /\ Live(inFlight[k])
                            THEN inFlight[k] ELSE NoSlot]
  /\ Goto(c, "wait")
  /\ UNCHANGED <<cacheVars, callVars, answer>>

Granted(c) ==
  pc[c] = "wait" /\ ~ \E d \in Calls : pc[d] = "run" /\ slot[d] = slot[c]

\* Mutant: does not look again after it waited.
EnterUnchecked(c) ==
  /\ Granted(c)
  /\ Goto(c, "run")
  /\ UNCHANGED <<cacheVars, callVars, inFlight, answer, slot>>

\* The slot's mutex is granted, and the call looks again before it runs.
Enter(c) ==
  /\ Granted(c)
  /\ IF Known(key[c])
       THEN Answer(c, Replayed(key[c], shape[c]))
       ELSE Goto(c, "run") /\ UNCHANGED <<answer, slot>>
  /\ UNCHANGED <<cacheVars, callVars, inFlight>>

\* Mutant: stores failures that are worth a retry.
FinishStoringAll(c, outcome) ==
  /\ pc[c] = "run"
  /\ Store(c, outcome) /\ Answer(c, outcome)
  /\ UNCHANGED <<callVars, inFlight>>

\* The mutation comes back: what is no transient failure is stored.
Finish(c, outcome) ==
  /\ pc[c] = "run"
  /\ IF outcome \in Storable THEN Store(c, outcome) ELSE UNCHANGED cacheVars
  /\ Answer(c, outcome)
  /\ UNCHANGED <<callVars, inFlight>>

\* The client goes away while the handler awaits: its future is dropped with
\* the guard and the slot, and nothing is stored of what it started.
Drop(c) ==
  /\ pc[c] \in {"wait", "run"}
  /\ Goto(c, "dropped")
  /\ slot' = [slot EXCEPT ![c] = NoSlot]
  /\ UNCHANGED <<cacheVars, callVars, inFlight, answer>>

Next ==
  \/ \E c \in Calls :
       \/ Look(c) \/ Join(c) \/ Enter(c) \/ Drop(c)
       \/ \E outcome \in Outcomes : Finish(c, outcome)
  \/ \E k \in Keys : Age(k)

Spec == Init /\ [][Next]_vars

----------------------------------------------------------------------------
TypeOK ==
  /\ entries \in [Keys -> Entries \cup {NoEntry}]
  /\ order \in Seq(Keys)
  /\ inFlight \in [Keys -> Calls \cup {NoSlot}]
  /\ pc \in [Calls -> {"idle", "join", "wait", "run", "answered", "dropped"}]
  /\ key \in [Calls -> Keys \cup {NoKey}]
  /\ shape \in [Calls -> Shapes \cup {NoShape}]
  /\ slot \in [Calls -> Calls \cup {NoSlot}]
  /\ answer \in [Calls -> Outcomes \cup {"none", "conflict"}]
  /\ settled \in [Keys -> SUBSET Calls]

\* Calls with one key execute one at a time, across slots that die and are made
\* anew and callers that go away while they wait (in_flight_slot, execute).
OneRunPerKey ==
  \A c, d \in Calls :
    pc[c] = "run" /\ pc[d] = "run" /\ key[c] = key[d] => c = d

\* As long as an outcome is remembered, it is the only one: after a success, a
\* lasting refusal or an uncertain delivery, no call with the key executes to a
\* second outcome (the promise of execute; a call that was dropped has none).
SettledOnce == \A k \in Keys : \A c, d \in settled[k] : c = d

\* A step that answers a call which has not executed repeats a settled outcome.
Repeats ==
  \A c \in Calls :
    pc[c] # "run" /\ answer'[c] # answer[c] =>
      \E d \in settled[key'[c]] :
        IF answer'[c] = "conflict"
          THEN shape[d] # shape'[c]
          ELSE answer[d] = answer'[c] /\ shape[d] = shape'[c]

\* Who is answered without having executed is told what the one execution of
\* the same body was told, and of a conflict only when that execution was of
\* another body, also when it waited behind it (cached, twice in execute).
ReplaysTellOutcome == [][Repeats]_vars

\* The order names the remembered keys, each once, within the capacity: a key
\* listed twice would later drop a younger outcome (order and entries of store).
OrderListsEntries ==
  /\ Len(order) <= Capacity
  /\ \A k \in Keys :
       entries[k] # NoEntry <=> \E i \in 1 .. Len(order) : order[i] = k
  /\ \A i, j \in 1 .. Len(order) : order[i] = order[j] => i = j
=============================================================================
