------------------------- MODULE AgentLaunchProofs --------------------------
(***************************************************************************)
(* What holds of AgentLaunch for every number of operations, callers and   *)
(* entries, and for every capacity.  The insertion order comes last: that  *)
(* pruning takes no running launch holds whatever the order is.            *)
(***************************************************************************)
EXTENDS AgentLaunch, SequenceTheorems, WellFoundedInduction, TLAPS

\* TypeOK without the insertion order.
Typed ==
  /\ entries \in [Ids -> Arcs \cup {NoArc}]
  /\ cell \in [Arcs -> Cell \cup {NoCell}]
  /\ pc \in [Callers -> Pcs]
  /\ op \in [Callers -> Ids \cup {NoId}]
  /\ arc \in [Callers -> Arcs \cup {NoArc}]
  /\ result \in [Callers -> Results \cup {NoResult}]
  /\ agents \in [Ids -> 0 .. 2]
  /\ forgotten \subseteq Ids
  /\ \A c \in Callers :
       /\ pc[c] = "idle" <=> op[c] = NoId
       /\ pc[c] = "idle" <=> arc[c] = NoArc
       /\ pc[c] \in {"publish", "release"} <=> result[c] # NoResult
  /\ \A e \in Arcs : cell[e] # NoCell <=> Held(e)

\* An owner's entry is the one the map holds under its id, and is running; no
\* two threads that have an entry of their own have the same.
OwnerInv ==
  /\ \A c \in Callers : pc[c] \in OwnerPcs =>
       entries[op[c]] = arc[c] /\ cell[arc[c]].state = "Running"
  /\ \A c, d \in Callers :
       /\ pc[c] \in OwnerPcs \cup {"release"} /\ pc[d] \in OwnerPcs \cup {"release"}
       /\ arc[c] = arc[d]
       => c = d

Truthful(outcome, made) ==
  /\ outcome = "NotStarted" => ~ made
  /\ outcome \in {"Launched", "AgentCreated"} => made

\* What an owner has reached tells whether its Agent exists.
PhaseInv ==
  \A c \in Callers :
    /\ pc[c] \in {"prepare", "create", "start", "reap"} => ~ cell[arc[c]].made
    /\ pc[c] \in {"verify", "instruct"} => cell[arc[c]].made
    /\ pc[c] = "publish" => Truthful(result[c], cell[arc[c]].made)
    /\ pc[c] = "release" => cell[arc[c]].state = result[c]

CellInv == \A e \in Arcs : cell[e] # NoCell => Truthful(cell[e].state, cell[e].made)

\* The Agent made for an id is the one its entry remembers.
AgentInv ==
  \A id \in Ids \ forgotten :
    /\ agents[id] <= 1
    /\ agents[id] > 0 => Remembered(id) /\ cell[entries[id]].made

LaunchInv == Typed /\ OwnerInv /\ PhaseInv /\ CellInv /\ AgentInv

----------------------------------------------------------------------------

\* A caller at work holds a live entry.
LEMMA Known ==
  ASSUME Typed, NEW c \in Callers, pc[c] # "idle"
  PROVE  /\ op[c] \in Ids /\ arc[c] \in Arcs /\ Held(arc[c])
         /\ cell[arc[c]] \in Cell
         /\ cell[arc[c]].made \in BOOLEAN
         /\ cell[arc[c]].state \in Results \cup {"Running"}
<1>1. op[c] \in Ids /\ arc[c] \in Arcs
  BY DEF Typed
<1>2. cell[arc[c]] \in Cell
  BY <1>1 DEF Typed, Held
<1> QED
  BY <1>1, <1>2 DEF Held, Cell

\* So does the map.
LEMMA Entered ==
  ASSUME Typed, NEW id \in Ids, Remembered(id)
  PROVE  /\ entries[id] \in Arcs /\ Held(entries[id])
         /\ cell[entries[id]] \in Cell
         /\ cell[entries[id]].made \in BOOLEAN
         /\ cell[entries[id]].state \in Results \cup {"Running"}
<1>1. entries[id] \in Arcs
  BY DEF Typed, Remembered
<1>2. cell[entries[id]] \in Cell
  BY <1>1 DEF Typed, Held
<1> QED
  BY <1>1, <1>2 DEF Held, Cell

\* Pruning takes entries away, and none whose launch is running.
LEMMA PruneSpares ==
  ASSUME Typed
  PROVE  /\ PrunedEntries \in [Ids -> Arcs \cup {NoArc}]
         /\ \A id \in Ids : PrunedEntries[id] \in {entries[id], NoArc}
         /\ \A id \in Ids : Remembered(id) /\ Running(id) =>
                               PrunedEntries[id] = entries[id]
<1>1. \A id \in Ids : Running(id) => id \notin Evicted
  BY LedgerAssumption DEF Evicted
<1>2. \A id \in Ids : Running(id) => ~ Expired(id)
  BY DEF Expired
<1> QED
  BY <1>1, <1>2 DEF PrunedEntries, Typed

\* What pruning forgets either had made no Agent or is noted as forgotten.
LEMMA PruneForgets ==
  ASSUME Typed, ForgetDropped
  PROVE  /\ forgotten \subseteq forgotten' /\ forgotten' \subseteq Ids
         /\ \A id \in Ids \ forgotten' :
              Remembered(id) /\ PrunedEntries[id] = NoArc => agents[id] = 0
<1>1. \A id \in Ids : agents[id] \in 0 .. 2
  BY DEF Typed
<1> QED
  BY <1>1 DEF ForgetDropped, Dropped, Typed

LEMMA LaunchInit == Init => LaunchInv
<1> SUFFICES ASSUME Init PROVE LaunchInv
  OBVIOUS
<1>1. Typed
  BY CallersAssumption, LedgerAssumption
     DEF Init, InitLedger, Typed, Pcs, OwnerPcs, LaunchPcs, Held
<1>2. OwnerInv /\ PhaseInv
  BY DEF Init, InitLedger, OwnerInv, PhaseInv, OwnerPcs, LaunchPcs
<1>3. CellInv /\ AgentInv
  BY DEF Init, InitLedger, CellInv, AgentInv
<1> QED
  BY <1>1, <1>2, <1>3 DEF LaunchInv

----------------------------------------------------------------------------
(* The owner's steps between insertion and publication.                    *)

\* A step of one owner to another place in the launch: only its program
\* counter and result move, and what it has reached stays true of its Agent.
LEMMA OwnerMoves ==
  ASSUME LaunchInv, NEW c \in Callers, pc[c] \in LaunchPcs \cup {"reap"},
         NEW at \in OwnerPcs, NEW outcome \in Results \cup {NoResult},
         Goto(c, at), result' = [result EXCEPT ![c] = outcome],
         at = "publish" <=> outcome # NoResult,
         at \in {"prepare", "create", "start", "reap"} => ~ cell[arc[c]].made,
         at \in {"verify", "instruct"} => cell[arc[c]].made,
         at = "publish" => Truthful(outcome, cell[arc[c]].made),
         UNCHANGED <<entries, order, cell, arc, op, historyVars>>
  PROVE  LaunchInv'
<1> USE DEF LaunchInv, Goto, historyVars
<1>1. Typed'
  BY DEF Typed, Held, OwnerPcs, LaunchPcs, Pcs
<1>2. OwnerInv'
  BY DEF Typed, OwnerInv, OwnerPcs, LaunchPcs
<1>3. PhaseInv'
  <2> SUFFICES ASSUME NEW d \in Callers
               PROVE  /\ pc'[d] \in {"prepare", "create", "start", "reap"} =>
                           ~ cell[arc[d]].made
                      /\ pc'[d] \in {"verify", "instruct"} => cell[arc[d]].made
                      /\ pc'[d] = "publish" =>
                           Truthful(result'[d], cell[arc[d]].made)
                      /\ pc'[d] = "release" => cell[arc[d]].state = result'[d]
    BY DEF PhaseInv, Truthful
  <2>1. CASE d = c
    BY <2>1 DEF Typed, OwnerPcs, LaunchPcs
  <2>2. CASE d # c
    BY <2>2 DEF Typed, PhaseInv
  <2> QED
    BY <2>1, <2>2
<1>4. CellInv' /\ AgentInv'
  BY DEF CellInv, AgentInv, Truthful, Remembered
<1> QED
  BY <1>1, <1>2, <1>3, <1>4

LEMMA PrepareStep ==
  ASSUME LaunchInv, NEW c \in Callers, Prepare(c) PROVE LaunchInv'
<1>1. result[c] = NoResult /\ ~ cell[arc[c]].made
  BY DEF Prepare, LaunchInv, Typed, PhaseInv
<1>2. result = [result EXCEPT ![c] = NoResult]
  BY <1>1 DEF LaunchInv, Typed
<1>3. CASE pc[c] = "prepare" /\ Goto(c, "create") /\ UNCHANGED result
  BY <1>1, <1>2, <1>3, OwnerMoves DEF Prepare, OwnerPcs, LaunchPcs
<1>4. CASE pc[c] = "create" /\ Goto(c, "start") /\ UNCHANGED result
  BY <1>1, <1>2, <1>4, OwnerMoves DEF Prepare, OwnerPcs, LaunchPcs
<1>5. CASE pc[c] \in {"prepare", "create"} /\ Conclude(c, "NotStarted")
  <2>1. "NotStarted" \in Results /\ "NotStarted" # NoResult
    BY CallersAssumption DEF Results
  <2> QED
    BY <1>1, <1>5, <2>1, OwnerMoves
       DEF Prepare, Conclude, OwnerPcs, LaunchPcs, Truthful
<1> QED
  BY <1>3, <1>4, <1>5 DEF Prepare

LEMMA ReapStep ==
  ASSUME LaunchInv, NEW c \in Callers, Reap(c) PROVE LaunchInv'
<1>1. ~ cell[arc[c]].made
  BY DEF Reap, LaunchInv, PhaseInv
<1>2. "NotStarted" \in Results /\ "NotStarted" # NoResult
  BY CallersAssumption DEF Results
<1> QED
  BY <1>1, <1>2, OwnerMoves DEF Reap, Conclude, OwnerPcs, LaunchPcs, Truthful

LEMMA VerifyStep ==
  ASSUME LaunchInv, NEW c \in Callers, Verify(c) PROVE LaunchInv'
<1>1. /\ {"AgentCreated", "StartUncertain"} \subseteq Results
      /\ NoResult \notin {"AgentCreated", "StartUncertain"}
  BY CallersAssumption DEF Results
<1>2. CASE pc[c] = "verify" /\ Conclude(c, "AgentCreated")
  <2>1. cell[arc[c]].made
    BY <1>2 DEF LaunchInv, PhaseInv
  <2> QED
    BY <1>1, <1>2, <2>1, OwnerMoves
       DEF Verify, Conclude, OwnerPcs, LaunchPcs, Truthful
<1>3. CASE pc[c] = "reconcile" /\ Conclude(c, "StartUncertain")
  BY <1>1, <1>3, OwnerMoves DEF Verify, Conclude, OwnerPcs, LaunchPcs, Truthful
<1>4. CASE /\ pc[c] \in {"verify", "reconcile"} /\ cell[arc[c]].made
           /\ Goto(c, "instruct") /\ UNCHANGED result
  <2>1. result = [result EXCEPT ![c] = NoResult]
    BY <1>4 DEF LaunchInv, Typed
  <2> QED
    BY <1>4, <2>1, OwnerMoves DEF Verify, OwnerPcs, LaunchPcs
<1> QED
  BY <1>2, <1>3, <1>4 DEF Verify

LEMMA InstructStep ==
  ASSUME LaunchInv, NEW c \in Callers, Instruct(c) PROVE LaunchInv'
<1>1. /\ {"AgentCreated", "Launched"} \subseteq Results
      /\ NoResult \notin {"AgentCreated", "Launched"}
  BY CallersAssumption DEF Results
<1>2. cell[arc[c]].made
  BY DEF Instruct, LaunchInv, PhaseInv
<1>3. PICK outcome \in {"AgentCreated", "Launched"} : Conclude(c, outcome)
  BY DEF Instruct
<1> QED
  BY <1>1, <1>2, <1>3, OwnerMoves
     DEF Instruct, Conclude, OwnerPcs, LaunchPcs, Truthful

\* The one step that makes an Agent: the id has none that is remembered.
LEMMA StartStep ==
  ASSUME LaunchInv, NEW c \in Callers, Start(c) PROVE LaunchInv'
<1> USE DEF LaunchInv
<1>1. /\ pc[c] = "start" /\ pc[c] # "idle" /\ result[c] = NoResult
      /\ ~ cell[arc[c]].made /\ cell[arc[c]].state = "Running"
      /\ entries[op[c]] = arc[c]
  BY DEF Start, Typed, PhaseInv, OwnerInv, OwnerPcs, LaunchPcs
<1>2. /\ op[c] \in Ids /\ arc[c] \in Arcs /\ Held(arc[c])
      /\ cell[arc[c]] \in Cell
  BY <1>1, Known
<1>3. CASE UNCHANGED <<cell, agents>>
  <2>1. result' = [result EXCEPT ![c] = NoResult]
    BY <1>1 DEF Start, Typed
  <2>2. PICK at \in {"reconcile", "reap"} : Goto(c, at)
    BY <1>1, <1>2, <1>3 DEF Start, MakeAgent, Cell, Typed
  <2> QED
    BY <1>1, <1>3, <2>1, <2>2, OwnerMoves
       DEF Start, OwnerPcs, LaunchPcs, historyVars
<1>4. CASE MakeAgent(c) /\ \E at \in {"verify", "reconcile"} : Goto(c, at)
  <2> PICK at \in {"verify", "reconcile"} : Goto(c, at)
    BY <1>4
  <2> USE <1>1, <1>2, <1>4 DEF MakeAgent, Goto, Start
  <2>1. /\ cell'[arc[c]] \in Cell /\ cell'[arc[c]].made
        /\ cell'[arc[c]].state = "Running"
        /\ \A e \in Arcs : e # arc[c] => cell'[e] = cell[e]
        /\ cell' \in [Arcs -> Cell \cup {NoCell}]
    BY DEF Typed, Cell
  <2>2. Typed'
    <3>1. agents' \in [Ids -> 0 .. 2]
      BY DEF Typed
    <3>2. \A e \in Arcs : cell'[e] # NoCell <=> Held(e)
      BY <2>1, LedgerAssumption DEF Typed
    <3> QED
      BY <2>1, <3>1, <3>2 DEF Typed, Held, Pcs, OwnerPcs, LaunchPcs
  <2>3. OwnerInv'
    <3>1. \A d \in Callers : pc[d] \in OwnerPcs => cell'[arc[d]].state = "Running"
      <4> SUFFICES ASSUME NEW d \in Callers, pc[d] \in OwnerPcs
                   PROVE  cell'[arc[d]].state = "Running"
        OBVIOUS
      <4>1. arc[d] \in Arcs
        BY Known DEF OwnerPcs, LaunchPcs
      <4> QED
        BY <2>1, <4>1 DEF OwnerInv
    <3>2. \A d \in Callers : pc'[d] \in OwnerPcs \cup {"release"} <=>
                             pc[d] \in OwnerPcs \cup {"release"}
      BY DEF OwnerPcs, LaunchPcs, Typed
    <3>3. \A d \in Callers : pc'[d] \in OwnerPcs <=> pc[d] \in OwnerPcs
      BY DEF OwnerPcs, LaunchPcs, Typed
    <3> QED
      BY <3>1, <3>2, <3>3 DEF OwnerInv
  <2>4. PhaseInv'
    <3> SUFFICES ASSUME NEW d \in Callers
                 PROVE  /\ pc'[d] \in {"prepare", "create", "start", "reap"} =>
                             ~ cell'[arc[d]].made
                        /\ pc'[d] \in {"verify", "instruct"} => cell'[arc[d]].made
                        /\ pc'[d] = "publish" =>
                             Truthful(result[d], cell'[arc[d]].made)
                        /\ pc'[d] = "release" => cell'[arc[d]].state = result[d]
      BY DEF PhaseInv, Truthful
    <3>1. CASE d = c
      BY <2>1, <3>1 DEF Typed
    <3>2. CASE d # c /\ pc[d] \in OwnerPcs \cup {"release"}
      <4>1. arc[d] # arc[c] /\ pc'[d] = pc[d]
        BY <3>2 DEF OwnerInv, OwnerPcs, LaunchPcs, Typed
      <4>2. arc[d] \in Arcs
        BY <3>2, Known DEF OwnerPcs, LaunchPcs
      <4> QED
        BY <2>1, <4>1, <4>2 DEF PhaseInv
    <3>3. CASE d # c /\ pc[d] \notin OwnerPcs \cup {"release"}
      BY <3>3 DEF OwnerPcs, LaunchPcs, Typed
    <3> QED
      BY <3>1, <3>2, <3>3
  <2>5. CellInv'
    BY <2>1 DEF CellInv, Truthful
  <2>6. AgentInv'
    <3> SUFFICES ASSUME NEW id \in Ids, id \notin forgotten
                 PROVE  /\ agents'[id] <= 1
                        /\ agents'[id] > 0 =>
                             entries[id] # NoArc /\ cell'[entries[id]].made
      BY DEF AgentInv, Remembered
    <3>1. CASE id = op[c]
      <4>1. agents[id] = 0
        BY <3>1 DEF AgentInv, Remembered, Typed
      <4> QED
        BY <2>1, <3>1, <4>1, LedgerAssumption DEF Typed
    <3>2. CASE id # op[c]
      <4>1. agents'[id] = agents[id] /\ entries[id] \in Arcs \cup {NoArc}
        BY <3>2 DEF Typed
      <4> QED
        BY <2>1, <4>1 DEF AgentInv, Remembered
    <3> QED
      BY <3>1, <3>2
  <2> QED
    BY <2>2, <2>3, <2>4, <2>5, <2>6
<1> QED
  BY <1>3, <1>4 DEF Start

\* The outcome of a launch replaces "Running" in the owner's own entry.
LEMMA PublishStep ==
  ASSUME LaunchInv, NEW c \in Callers, Publish(c) PROVE LaunchInv'
<1> USE DEF LaunchInv, Publish, Finish, Goto, historyVars
<1>1. pc[c] = "publish" /\ pc[c] # "idle" /\ result[c] \in Results
  BY DEF Typed
<1>2. arc[c] \in Arcs /\ cell[arc[c]] \in Cell
  BY <1>1, Known
<1>3. /\ cell'[arc[c]] \in Cell
      /\ cell'[arc[c]].made = cell[arc[c]].made
      /\ cell'[arc[c]].state = result[c]
      /\ \A e \in Arcs : e # arc[c] => cell'[e] = cell[e]
      /\ cell' \in [Arcs -> Cell \cup {NoCell}]
  BY <1>1, <1>2 DEF Typed, Cell
<1>4. Typed'
  <2>1. \A e \in Arcs : cell'[e] # NoCell <=> Held(e)
    BY <1>2, <1>3, LedgerAssumption DEF Typed
  <2> QED
    BY <1>1, <1>3, <2>1 DEF Typed, Held, Pcs, LaunchPcs
<1>5. \A d \in Callers : d # c /\ pc[d] \in OwnerPcs \cup {"release"} =>
        arc[d] \in Arcs /\ arc[d] # arc[c] /\ pc'[d] = pc[d]
  <2> SUFFICES ASSUME NEW d \in Callers, d # c, pc[d] \in OwnerPcs \cup {"release"}
               PROVE  arc[d] \in Arcs /\ arc[d] # arc[c] /\ pc'[d] = pc[d]
    OBVIOUS
  <2>1. arc[d] \in Arcs
    BY Known DEF OwnerPcs, LaunchPcs
  <2> QED
    BY <1>1, <2>1 DEF OwnerInv, OwnerPcs, Typed
<1>6. OwnerInv'
  <2>1. \A d \in Callers : pc'[d] \in OwnerPcs =>
          d # c /\ pc[d] \in OwnerPcs
    BY DEF OwnerPcs, LaunchPcs, Typed
  <2>2. \A d \in Callers : pc'[d] \in OwnerPcs \cup {"release"} <=>
                           pc[d] \in OwnerPcs \cup {"release"}
    BY <1>1 DEF OwnerPcs, LaunchPcs, Typed
  <2> QED
    BY <1>3, <1>5, <2>1, <2>2 DEF OwnerInv
<1>7. PhaseInv'
  <2> SUFFICES ASSUME NEW d \in Callers
               PROVE  /\ pc'[d] \in {"prepare", "create", "start", "reap"} =>
                           ~ cell'[arc[d]].made
                      /\ pc'[d] \in {"verify", "instruct"} => cell'[arc[d]].made
                      /\ pc'[d] = "publish" =>
                           Truthful(result[d], cell'[arc[d]].made)
                      /\ pc'[d] = "release" => cell'[arc[d]].state = result[d]
    BY DEF PhaseInv, Truthful
  <2>1. CASE d = c
    BY <1>3, <2>1 DEF Typed
  <2>2. CASE d # c /\ pc[d] \in OwnerPcs \cup {"release"}
    BY <1>3, <1>5, <2>2 DEF PhaseInv
  <2>3. CASE d # c /\ pc[d] \notin OwnerPcs \cup {"release"}
    BY <2>3 DEF OwnerPcs, LaunchPcs, Typed
  <2> QED
    BY <2>1, <2>2, <2>3
<1>8. CellInv'
  BY <1>1, <1>2, <1>3 DEF CellInv, PhaseInv, Truthful
<1>9. AgentInv'
  <2> SUFFICES ASSUME NEW id \in Ids, id \notin forgotten, agents[id] > 0
               PROVE  entries[id] # NoArc /\ cell'[entries[id]].made
    BY DEF AgentInv, Remembered
  <2>1. entries[id] \in Arcs \cup {NoArc}
    BY DEF Typed
  <2> QED
    BY <1>3, <2>1 DEF AgentInv, Remembered
<1> QED
  BY <1>4, <1>6, <1>7, <1>8, <1>9

----------------------------------------------------------------------------
(* The ledger's steps around the launch.                                   *)

\* A step that adds no entry: the map only loses entries, none of an owner's
\* and none whose Agent is to be remembered; owners stay where they are.
LEMMA LedgerShrinks ==
  ASSUME LaunchInv, Settle(cell),
         entries' \in [Ids -> Arcs \cup {NoArc}],
         \A id \in Ids : entries'[id] \in {entries[id], NoArc},
         pc' \in [Callers -> Pcs], op' \in [Callers -> Ids \cup {NoId}],
         arc' \in [Callers -> Arcs \cup {NoArc}],
         result' \in [Callers -> Results \cup {NoResult}],
         \A d \in Callers :
           /\ pc'[d] = "idle" <=> op'[d] = NoId
           /\ pc'[d] = "idle" <=> arc'[d] = NoArc
           /\ pc'[d] \in {"publish", "release"} <=> result'[d] # NoResult
           /\ arc'[d] # NoArc => Held(arc'[d]),
         \A d \in Callers : pc'[d] \in OwnerPcs \cup {"release"} =>
           /\ pc'[d] = pc[d] /\ op'[d] = op[d]
           /\ arc'[d] = arc[d] /\ result'[d] = result[d],
         \A d \in Callers : pc'[d] \in OwnerPcs => entries'[op[d]] = entries[op[d]],
         UNCHANGED agents, forgotten \subseteq forgotten', forgotten' \subseteq Ids,
         \A id \in Ids \ forgotten' :
           Remembered(id) /\ entries'[id] = NoArc => agents[id] = 0
  PROVE  LaunchInv'
<1> USE DEF LaunchInv
<1>1. \A e \in Arcs : Held(e)' => Held(e)
  BY LedgerAssumption DEF Held
<1>2. \A e \in Arcs : Held(e)' => cell'[e] = cell[e] /\ cell[e] # NoCell
  BY <1>1 DEF Settle, Typed
<1>3. \A e \in Arcs : ~ Held(e)' => cell'[e] = NoCell
  BY DEF Settle
<1>4. Typed'
  <2>1. cell' \in [Arcs -> Cell \cup {NoCell}]
    BY DEF Settle, Typed
  <2>2. \A e \in Arcs : cell'[e] # NoCell <=> Held(e)'
    BY <1>2, <1>3
  <2>3. agents' \in [Ids -> 0 .. 2]
    BY DEF Typed
  <2> QED
    BY <2>1, <2>2, <2>3 DEF Typed
<1>5. \A d \in Callers : pc'[d] \in OwnerPcs \cup {"release"} =>
        arc[d] \in Arcs /\ cell'[arc[d]] = cell[arc[d]]
  <2> SUFFICES ASSUME NEW d \in Callers, pc'[d] \in OwnerPcs \cup {"release"}
               PROVE  arc[d] \in Arcs /\ cell'[arc[d]] = cell[arc[d]]
    OBVIOUS
  <2>1. arc'[d] = arc[d] /\ arc[d] \in Arcs
    BY Known DEF OwnerPcs, LaunchPcs
  <2>2. Held(arc[d])'
    BY <2>1 DEF Held
  <2> QED
    BY <1>2, <2>1, <2>2
<1>6. OwnerInv'
  BY <1>5 DEF OwnerInv, OwnerPcs
<1>7. PhaseInv'
  BY <1>5 DEF PhaseInv, Truthful, OwnerPcs, LaunchPcs
<1>8. CellInv'
  BY <1>2, <1>3 DEF CellInv, Truthful
<1>9. AgentInv'
  <2> SUFFICES ASSUME NEW id \in Ids, id \notin forgotten'
               PROVE  /\ agents[id] <= 1
                      /\ agents[id] > 0 =>
                           entries'[id] # NoArc /\ cell'[entries'[id]].made
    BY DEF AgentInv, Remembered
  <2>1. agents[id] \in 0 .. 2 /\ agents[id] <= 1
    BY DEF Typed, AgentInv
  <2>2. ASSUME agents[id] > 0
        PROVE  entries'[id] # NoArc /\ cell'[entries'[id]].made
    <3>1. Remembered(id) /\ cell[entries[id]].made
      BY <2>2 DEF AgentInv
    <3>2. entries'[id] = entries[id] /\ entries[id] \in Arcs /\ entries'[id] # NoArc
      BY <2>1, <2>2, <3>1, Entered DEF Remembered
    <3>3. Held(entries[id])'
      BY <3>2 DEF Held
    <3> QED
      BY <1>2, <3>1, <3>2, <3>3
  <2> QED
    BY <2>1, <2>2
<1> QED
  BY <1>4, <1>6, <1>7, <1>8, <1>9

\* Pruning alone is such a step.
LEMMA PruneShrinks ==
  ASSUME LaunchInv, Prune, ForgetDropped
  PROVE  /\ entries' \in [Ids -> Arcs \cup {NoArc}]
         /\ \A id \in Ids : entries'[id] \in {entries[id], NoArc}
         /\ \A d \in Callers : pc[d] \in OwnerPcs => entries'[op[d]] = entries[op[d]]
         /\ forgotten \subseteq forgotten' /\ forgotten' \subseteq Ids
         /\ \A id \in Ids \ forgotten' :
              Remembered(id) /\ entries'[id] = NoArc => agents[id] = 0
<1> USE DEF LaunchInv
<1>1. entries' = PrunedEntries
  BY DEF Prune
<1>2. \A d \in Callers : pc[d] \in OwnerPcs =>
        op[d] \in Ids /\ Remembered(op[d]) /\ Running(op[d])
  <2> SUFFICES ASSUME NEW d \in Callers, pc[d] \in OwnerPcs
               PROVE  op[d] \in Ids /\ Remembered(op[d]) /\ Running(op[d])
    OBVIOUS
  <2>1. op[d] \in Ids /\ arc[d] \in Arcs
    BY Known DEF OwnerPcs, LaunchPcs
  <2> QED
    BY <2>1, LedgerAssumption DEF OwnerInv, Remembered, Running
<1> QED
  BY <1>1, <1>2, PruneSpares, PruneForgets

LEMMA ConflictStep ==
  ASSUME LaunchInv, NEW c \in Callers, Conflict(c) PROVE LaunchInv'
<1>1. Prune /\ ForgetDropped /\ Settle(cell) /\ UNCHANGED <<pc, op, arc, result, agents>>
  BY DEF Conflict, Refuse
<1>2. \A d \in Callers : arc[d] # NoArc => Held(arc[d])
  BY DEF Held
<1> QED
  BY <1>1, <1>2, PruneShrinks, LedgerShrinks DEF LaunchInv, Typed

LEMMA AttachStep ==
  ASSUME LaunchInv, NEW c \in Callers, Attach(c) PROVE LaunchInv'
<1> USE DEF LaunchInv
<1>1. PICK id \in Ids, f \in Fingerprints :
        Share(c, id, f) /\ op' = [op EXCEPT ![c] = id]
  BY DEF Attach
<1>2. Prune /\ ForgetDropped /\ Settle(cell) /\ UNCHANGED <<result, agents>>
  BY <1>1 DEF Attach, Share
<1>3. /\ PrunedEntries[id] = entries[id] /\ entries[id] \in Arcs
      /\ Held(entries[id])
  BY <1>1, PruneSpares, Entered DEF Share, Remembered
<1>4. /\ arc' = [arc EXCEPT ![c] = entries[id]]
      /\ pc' = [pc EXCEPT ![c] = "wait"] /\ pc[c] = "idle"
  BY <1>1, <1>3 DEF Attach, Share, Goto
<1>5. /\ pc' \in [Callers -> Pcs] /\ op' \in [Callers -> Ids \cup {NoId}]
      /\ arc' \in [Callers -> Arcs \cup {NoArc}]
      /\ result' \in [Callers -> Results \cup {NoResult}]
  BY <1>1, <1>2, <1>3, <1>4 DEF Typed, Pcs
<1>6. \A d \in Callers :
        /\ pc'[d] = "idle" <=> op'[d] = NoId
        /\ pc'[d] = "idle" <=> arc'[d] = NoArc
        /\ pc'[d] \in {"publish", "release"} <=> result'[d] # NoResult
        /\ arc'[d] # NoArc => Held(arc'[d])
  <2>1. \A d \in Callers : arc[d] # NoArc => Held(arc[d])
    BY DEF Held
  <2> QED
    BY <1>1, <1>2, <1>3, <1>4, <2>1, LedgerAssumption, CallersAssumption
       DEF Typed
<1>7. \A d \in Callers : pc'[d] \in OwnerPcs \cup {"release"} =>
        /\ pc'[d] = pc[d] /\ op'[d] = op[d]
        /\ arc'[d] = arc[d] /\ result'[d] = result[d]
  BY <1>1, <1>2, <1>4 DEF Typed, OwnerPcs, LaunchPcs
<1> QED
  BY <1>2, <1>5, <1>6, <1>7, PruneShrinks, LedgerShrinks

\* What a caller that is done gives up.
LEMMA ReturnFacts ==
  ASSUME LaunchInv, NEW c \in Callers, Return(c)
  PROVE  /\ pc' \in [Callers -> Pcs] /\ op' \in [Callers -> Ids \cup {NoId}]
         /\ arc' \in [Callers -> Arcs \cup {NoArc}]
         /\ result' \in [Callers -> Results \cup {NoResult}]
         /\ \A d \in Callers :
              /\ pc'[d] = "idle" <=> op'[d] = NoId
              /\ pc'[d] = "idle" <=> arc'[d] = NoArc
              /\ pc'[d] \in {"publish", "release"} <=> result'[d] # NoResult
              /\ arc'[d] # NoArc => Held(arc'[d])
         /\ \A d \in Callers : pc'[d] \in OwnerPcs \cup {"release"} =>
              /\ d # c /\ pc'[d] = pc[d] /\ op'[d] = op[d]
              /\ arc'[d] = arc[d] /\ result'[d] = result[d]
<1> USE DEF LaunchInv, Return, Goto
<1>1. /\ pc' \in [Callers -> Pcs] /\ op' \in [Callers -> Ids \cup {NoId}]
      /\ arc' \in [Callers -> Arcs \cup {NoArc}]
      /\ result' \in [Callers -> Results \cup {NoResult}]
  BY DEF Typed, Pcs
<1>2. \A d \in Callers :
        /\ pc'[d] = "idle" <=> op'[d] = NoId
        /\ pc'[d] = "idle" <=> arc'[d] = NoArc
        /\ pc'[d] \in {"publish", "release"} <=> result'[d] # NoResult
  BY DEF Typed
<1>3. \A d \in Callers : arc'[d] # NoArc => Held(arc'[d])
  BY DEF Typed, Held
<1>4. \A d \in Callers : pc'[d] \in OwnerPcs \cup {"release"} => d # c
  BY DEF Typed, OwnerPcs, LaunchPcs
<1>5. \A d \in Callers : d # c =>
        /\ pc'[d] = pc[d] /\ op'[d] = op[d]
        /\ arc'[d] = arc[d] /\ result'[d] = result[d]
  BY DEF Typed
<1> QED
  BY <1>1, <1>2, <1>3, <1>4, <1>5

LEMMA ReplayStep ==
  ASSUME LaunchInv, NEW c \in Callers, Replay(c) PROVE LaunchInv'
<1>1. Return(c) /\ Settle(cell) /\ UNCHANGED <<entries, historyVars>>
  BY DEF Replay
<1> QED
  BY <1>1, ReturnFacts, LedgerShrinks
     DEF LaunchInv, Typed, historyVars, Remembered

\* A failure gives back its own entry only, and has made no Agent.
LEMMA LeaveStep ==
  ASSUME LaunchInv, NEW c \in Callers, Leave(c) PROVE LaunchInv'
<1> USE DEF LaunchInv
<1>1. /\ pc[c] = "release" /\ Return(c) /\ Settle(cell)
      /\ UNCHANGED <<agents, forgotten>>
  BY DEF Leave, historyVars
<1>2. /\ op[c] \in Ids /\ arc[c] \in Arcs /\ cell[arc[c]] # NoCell
      /\ cell[arc[c]].state = result[c]
  BY <1>1, Known, LedgerAssumption DEF PhaseInv
<1>3. CASE UNCHANGED entries
  BY <1>1, <1>3, ReturnFacts, LedgerShrinks DEF Typed, Remembered
<1>4. CASE /\ ~ Retained(result[c]) /\ entries[op[c]] = arc[c]
           /\ entries' = [entries EXCEPT ![op[c]] = NoArc]
  <2>1. /\ entries' \in [Ids -> Arcs \cup {NoArc}]
        /\ \A id \in Ids : entries'[id] \in {entries[id], NoArc}
    BY <1>4 DEF Typed
  <2>2. \A d \in Callers : pc'[d] \in OwnerPcs => entries'[op[d]] = entries[op[d]]
    <3> SUFFICES ASSUME NEW d \in Callers, pc'[d] \in OwnerPcs
                 PROVE  op[d] # op[c] /\ op[d] \in Ids
      BY <1>4, <2>1 DEF Typed
    <3>1. d # c /\ pc[d] \in OwnerPcs
      BY <1>1, ReturnFacts
    <3>2. op[d] \in Ids /\ entries[op[d]] = arc[d] /\ arc[d] # arc[c]
      BY <1>1, <3>1, Known DEF OwnerInv, OwnerPcs, LaunchPcs
    <3> QED
      BY <1>4, <3>2
  <2>3. \A id \in Ids \ forgotten' :
          Remembered(id) /\ entries'[id] = NoArc => agents[id] = 0
    <3> SUFFICES ASSUME NEW id \in Ids, id \notin forgotten,
                        Remembered(id), entries'[id] = NoArc
                 PROVE  agents[id] = 0
      BY <1>1
    <3>1. id = op[c] /\ entries[id] = arc[c]
      BY <1>4 DEF Typed, Remembered
    <3>2. ~ cell[arc[c]].made
      BY <1>2, <1>4 DEF CellInv, Truthful, Retained
    <3> QED
      BY <3>1, <3>2 DEF AgentInv, Typed
  <2> QED
    BY <1>1, <2>1, <2>2, <2>3, ReturnFacts, LedgerShrinks DEF Typed
<1> QED
  BY <1>3, <1>4 DEF Leave, Release

\* The one step that adds an entry, and with it an owner.
LEMMA OwnStep ==
  ASSUME LaunchInv, NEW c \in Callers, Own(c) PROVE LaunchInv'
<1> USE DEF LaunchInv
<1>1. PICK id \in Ids, f \in Fingerprints, e \in Arcs :
        Insert(c, id, e, f) /\ op' = [op EXCEPT ![c] = id]
  BY DEF Own
<1> DEFINE new == [fingerprint |-> f, old |-> FALSE,
                   state |-> "Running", made |-> FALSE]
<1>2. /\ pc[c] = "idle" /\ pc' = [pc EXCEPT ![c] = "prepare"]
      /\ ForgetDropped /\ UNCHANGED <<result, agents>>
  BY DEF Own, Goto
<1>3. /\ PrunedEntries[id] = NoArc /\ ~ Held(e)
      /\ entries' = [PrunedEntries EXCEPT ![id] = e]
      /\ arc' = [arc EXCEPT ![c] = e]
      /\ Settle([cell EXCEPT ![e] = new])
  BY <1>1 DEF Insert
<1> HIDE DEF new
<1>4. new \in Cell /\ new.state = "Running" /\ new.made = FALSE /\ new # NoCell
  <2>1. new \in Cell
    BY DEF new, Cell
  <2>2. new.state = "Running" /\ new.made = FALSE
    BY DEF new
  <2> QED
    BY <2>1, <2>2, LedgerAssumption
<1>5. /\ PrunedEntries \in [Ids -> Arcs \cup {NoArc}]
      /\ \A i \in Ids : PrunedEntries[i] \in {entries[i], NoArc}
      /\ entries'[id] = e /\ \A i \in Ids : i # id => entries'[i] = PrunedEntries[i]
      /\ entries' \in [Ids -> Arcs \cup {NoArc}]
  BY <1>3, PruneSpares
<1>6. /\ arc'[c] = e /\ op'[c] = id /\ pc'[c] = "prepare"
      /\ \A d \in Callers : d # c =>
           arc'[d] = arc[d] /\ op'[d] = op[d] /\ pc'[d] = pc[d]
      /\ result' = result
  BY <1>1, <1>2, <1>3 DEF Typed
<1>7. Held(e)' /\ cell'[e] = new
  <2>1. Held(e)'
    BY <1>6 DEF Held
  <2> QED
    BY <1>3, <2>1 DEF Settle, Typed
<1>8. \A x \in Arcs : x # e /\ Held(x)' => Held(x)
  <2> SUFFICES ASSUME NEW x \in Arcs, x # e, Held(x)' PROVE Held(x)
    OBVIOUS
  <2>1. CASE \E i \in Ids : entries'[i] = x
    BY <1>5, <2>1, LedgerAssumption DEF Held
  <2>2. CASE \E d \in Callers : arc'[d] = x
    BY <1>6, <2>2 DEF Held
  <2> QED
    BY <2>1, <2>2 DEF Held
<1>9. \A x \in Arcs : x # e /\ Held(x)' => cell'[x] = cell[x] /\ cell[x] # NoCell
  BY <1>3, <1>8 DEF Settle, Typed
<1>10. \A x \in Arcs : ~ Held(x)' => cell'[x] = NoCell
  BY <1>3 DEF Settle
<1>11. Typed'
  <2>1. cell' \in [Arcs -> Cell \cup {NoCell}]
    BY <1>3, <1>4 DEF Settle, Typed
  <2>2. \A x \in Arcs : cell'[x] # NoCell <=> Held(x)'
    BY <1>4, <1>7, <1>9, <1>10
  <2>3. forgotten' \subseteq Ids
    BY <1>2, PruneForgets
  <2>4. \A d \in Callers :
          /\ pc'[d] = "idle" <=> op'[d] = NoId
          /\ pc'[d] = "idle" <=> arc'[d] = NoArc
          /\ pc'[d] \in {"publish", "release"} <=> result'[d] # NoResult
    BY <1>2, <1>6, LedgerAssumption, CallersAssumption DEF Typed
  <2>5. /\ pc' \in [Callers -> Pcs] /\ op' \in [Callers -> Ids \cup {NoId}]
        /\ arc' \in [Callers -> Arcs \cup {NoArc}]
    BY <1>1, <1>2, <1>3 DEF Typed, Pcs, OwnerPcs, LaunchPcs
  <2> QED
    BY <1>2, <1>5, <2>1, <2>2, <2>3, <2>4, <2>5 DEF Typed
\* Owners before the step keep their entries, which are not the new one.
<1>12. \A d \in Callers : d # c /\ pc[d] \in OwnerPcs \cup {"release"} =>
         /\ op[d] \in Ids /\ arc[d] \in Arcs /\ arc[d] # e
         /\ cell'[arc[d]] = cell[arc[d]]
         /\ pc[d] \in OwnerPcs => entries'[op[d]] = arc[d]
  <2> SUFFICES ASSUME NEW d \in Callers, d # c, pc[d] \in OwnerPcs \cup {"release"}
               PROVE  /\ op[d] \in Ids /\ arc[d] \in Arcs /\ arc[d] # e
                      /\ cell'[arc[d]] = cell[arc[d]]
                      /\ pc[d] \in OwnerPcs => entries'[op[d]] = arc[d]
    OBVIOUS
  <2>1. op[d] \in Ids /\ arc[d] \in Arcs /\ Held(arc[d])
    BY Known DEF OwnerPcs, LaunchPcs
  <2>2. arc[d] # e
    BY <1>3, <2>1
  <2>3. Held(arc[d])'
    BY <1>6 DEF Held
  <2>4. ASSUME pc[d] \in OwnerPcs PROVE entries'[op[d]] = arc[d]
    <3>1. entries[op[d]] = arc[d] /\ Remembered(op[d]) /\ Running(op[d])
      BY <2>1, <2>4, LedgerAssumption DEF OwnerInv, Remembered, Running
    <3>2. PrunedEntries[op[d]] = arc[d]
      BY <2>1, <3>1, PruneSpares
    <3> QED
      BY <1>3, <1>5, <2>1, <3>2, LedgerAssumption
  <2>5. cell'[arc[d]] = cell[arc[d]]
    BY <1>6, <1>9, <2>1, <2>2, <2>3
  <2> QED
    BY <2>1, <2>2, <2>4, <2>5
<1>13. \A d \in Callers : pc'[d] \in OwnerPcs \cup {"release"} =>
         d = c \/ pc[d] \in OwnerPcs \cup {"release"}
  BY <1>6
<1>14. OwnerInv'
  <2>1. \A d \in Callers : pc'[d] \in OwnerPcs =>
          entries'[op'[d]] = arc'[d] /\ cell'[arc'[d]].state = "Running"
    BY <1>4, <1>5, <1>6, <1>7, <1>12 DEF OwnerInv
  <2>2. \A b, d \in Callers :
          /\ pc'[b] \in OwnerPcs \cup {"release"} /\ pc'[d] \in OwnerPcs \cup {"release"}
          /\ arc'[b] = arc'[d]
          => b = d
    BY <1>6, <1>12, <1>13 DEF OwnerInv
  <2> QED
    BY <2>1, <2>2 DEF OwnerInv
<1>15. PhaseInv'
  <2> SUFFICES ASSUME NEW d \in Callers
               PROVE  /\ pc'[d] \in {"prepare", "create", "start", "reap"} =>
                           ~ cell'[arc'[d]].made
                      /\ pc'[d] \in {"verify", "instruct"} => cell'[arc'[d]].made
                      /\ pc'[d] = "publish" =>
                           Truthful(result'[d], cell'[arc'[d]].made)
                      /\ pc'[d] = "release" => cell'[arc'[d]].state = result'[d]
    BY DEF PhaseInv, Truthful
  <2>1. CASE d = c
    BY <1>4, <1>6, <1>7, <2>1
  <2>2. CASE d # c /\ pc[d] \in OwnerPcs \cup {"release"}
    BY <1>6, <1>12, <2>2 DEF PhaseInv
  <2>3. CASE d # c /\ pc[d] \notin OwnerPcs \cup {"release"}
    BY <1>6, <2>3 DEF OwnerPcs, LaunchPcs
  <2> QED
    BY <2>1, <2>2, <2>3
<1>16. CellInv'
  BY <1>4, <1>7, <1>9, <1>10 DEF CellInv, Truthful
<1>17. AgentInv'
  <2> SUFFICES ASSUME NEW i \in Ids, i \notin forgotten'
               PROVE  /\ agents[i] <= 1
                      /\ agents[i] > 0 =>
                           entries'[i] # NoArc /\ cell'[entries'[i]].made
    BY <1>2 DEF AgentInv, Remembered
  <2>1. agents[i] \in 0 .. 2 /\ agents[i] <= 1 /\ i \notin forgotten
    BY <1>2, PruneForgets DEF Typed, AgentInv
  <2>2. ASSUME agents[i] > 0
        PROVE  entries'[i] # NoArc /\ cell'[entries'[i]].made
    <3>1. Remembered(i) /\ cell[entries[i]].made
      BY <2>1, <2>2 DEF AgentInv
    <3>2. PrunedEntries[i] = entries[i] /\ PrunedEntries[i] # NoArc
      BY <1>2, <1>5, <2>1, <2>2, <3>1, PruneForgets
    <3>3. i # id /\ entries'[i] = entries[i]
      BY <1>3, <1>5, <3>2
    <3>4. entries[i] \in Arcs /\ Held(entries[i])
      BY <3>1, Entered
    <3>5. Held(entries[i])'
      BY <3>3 DEF Held
    <3> QED
      BY <1>3, <1>9, <3>1, <3>2, <3>3, <3>4, <3>5
  <2> QED
    BY <2>1, <2>2
<1> QED
  BY <1>11, <1>14, <1>15, <1>16, <1>17

LEMMA AgeStep ==
  ASSUME LaunchInv, NEW id \in Ids, AgeEntry(id) PROVE LaunchInv'
<1> USE DEF LaunchInv, AgeEntry, Age, historyVars
<1>1. entries[id] \in Arcs /\ cell[entries[id]] \in Cell
  BY Entered
<1>2. /\ cell' \in [Arcs -> Cell \cup {NoCell}]
      /\ \A e \in Arcs : cell[e] # NoCell =>
           cell'[e].state = cell[e].state /\ cell'[e].made = cell[e].made
      /\ \A e \in Arcs : cell'[e] # NoCell <=> cell[e] # NoCell
  BY <1>1, LedgerAssumption DEF Typed, Cell
<1>3. Typed'
  BY <1>2 DEF Typed, Held
<1>4. \A c \in Callers : pc[c] # "idle" => arc[c] \in Arcs /\ cell[arc[c]] # NoCell
  BY Known, LedgerAssumption
<1>5. OwnerInv' /\ PhaseInv'
  BY <1>2, <1>4 DEF OwnerInv, PhaseInv, Truthful, OwnerPcs, LaunchPcs
<1>6. CellInv'
  BY <1>2 DEF CellInv, Truthful
<1>7. AgentInv'
  <2>1. \A i \in Ids : Remembered(i) => entries[i] \in Arcs /\ cell[entries[i]] # NoCell
    BY Entered, LedgerAssumption
  <2> QED
    BY <1>2, <2>1 DEF AgentInv, Remembered
<1> QED
  BY <1>3, <1>5, <1>6, <1>7

----------------------------------------------------------------------------

LEMMA LaunchNext == LaunchInv /\ [Next]_vars => LaunchInv'
<1> SUFFICES ASSUME LaunchInv, [Next]_vars PROVE LaunchInv'
  OBVIOUS
<1>1. ASSUME NEW c \in Callers, Conflict(c) \/ Attach(c) \/ Own(c)
      PROVE  LaunchInv'
  BY <1>1, ConflictStep, AttachStep, OwnStep
<1>2. ASSUME NEW c \in Callers, Proceed(c) PROVE LaunchInv'
  BY <1>2, PrepareStep, StartStep, ReapStep, VerifyStep, InstructStep,
     PublishStep, LeaveStep, ReplayStep DEF Proceed
<1>3. ASSUME NEW id \in Ids, AgeEntry(id) PROVE LaunchInv'
  BY <1>3, AgeStep
<1>4. CASE UNCHANGED vars
  BY <1>4 DEF vars, LaunchInv, Typed, OwnerInv, PhaseInv, CellInv, AgentInv,
              Truthful, Held, Remembered
<1> QED
  BY <1>1, <1>2, <1>3, <1>4 DEF Next

\* The invariant that the next three theorems are read off.
THEOREM LaunchInvCorrect == Spec => []LaunchInv
BY LaunchInit, LaunchNext, PTL DEF Spec

\* For any number of callers and ids, and any capacity, an operation id has one
\* launch at a time (LaunchOperationLedger::execute and prune_locked).
THEOREM OneOwnerCorrect == Spec => []OneOwner
<1>1. LaunchInv => OneOwner
  BY DEF LaunchInv, OwnerInv, OneOwner, OwnerPcs
<1> QED
  BY <1>1, LaunchInvCorrect, PTL

\* However often an operation is retried, and whichever phases fail or lose
\* their answers, it makes one Agent while its outcome is remembered
\* (run_agent_launch_with_ledger).
THEOREM OneAgentPerOperationCorrect == Spec => []OneAgentPerOperation
<1>1. LaunchInv => OneAgentPerOperation
  BY DEF LaunchInv, AgentInv, OneAgentPerOperation
<1> QED
  BY <1>1, LaunchInvCorrect, PTL

\* What callers are told of a launch is what became of it, and the tab of an
\* Agent is never closed (run_agent_launch_inner).
THEOREM OutcomesTellTruthCorrect == Spec => []OutcomesTellTruth
<1>1. LaunchInv => OutcomesTellTruth
  BY DEF LaunchInv, CellInv, PhaseInv, Truthful, OutcomesTellTruth
<1> QED
  BY <1>1, LaunchInvCorrect, PTL

----------------------------------------------------------------------------
(* A running entry has an owner that works on it.                          *)

\* Entries that run after a step did so before or are new with an owner, and
\* who leaves the owners' places takes none with him.
LEMMA OwnersStay ==
  ASSUME RunningHasOwner,
         \A e \in Arcs : cell'[e] # NoCell /\ cell'[e].state = "Running" =>
           \/ cell[e] # NoCell /\ cell[e].state = "Running"
           \/ \E c \in Callers : pc'[c] \in OwnerPcs /\ arc'[c] = e,
         \A c \in Callers : pc[c] \in OwnerPcs =>
           \/ pc'[c] \in OwnerPcs /\ arc'[c] = arc[c]
           \/ cell'[arc[c]].state # "Running"
  PROVE  RunningHasOwner'
<1> SUFFICES ASSUME NEW e \in Arcs, cell'[e] # NoCell, cell'[e].state = "Running"
             PROVE  \E c \in Callers : pc'[c] \in OwnerPcs /\ arc'[c] = e
  BY DEF RunningHasOwner
<1>1. CASE cell[e] # NoCell /\ cell[e].state = "Running"
  <2>1. PICK c \in Callers : pc[c] \in OwnerPcs /\ arc[c] = e
    BY <1>1 DEF RunningHasOwner
  <2> QED
    BY <2>1
<1> QED
  BY <1>1

LEMMA RunningNext ==
  LaunchInv /\ RunningHasOwner /\ [Next]_vars => RunningHasOwner'
<1> SUFFICES ASSUME LaunchInv, RunningHasOwner, [Next]_vars
             PROVE  RunningHasOwner'
  OBVIOUS
<1> USE DEF LaunchInv
<1>settle. ASSUME Settle(cell), NEW e \in Arcs, cell'[e] # NoCell
           PROVE  cell'[e] = cell[e]
  BY <1>settle DEF Settle
<1>1. ASSUME NEW c \in Callers, Conflict(c) \/ Attach(c) PROVE RunningHasOwner'
  <2>1. Settle(cell) /\ pc[c] = "idle"
    BY <1>1 DEF Conflict, Attach, Refuse, Share
  <2>2. \A d \in Callers : d # c => pc'[d] = pc[d] /\ arc'[d] = arc[d]
    BY <1>1 DEF Conflict, Attach, Refuse, Share, Goto, Typed
  <2> QED
    BY <1>settle, <2>1, <2>2, OwnersStay DEF OwnerPcs, LaunchPcs
<1>2. ASSUME NEW c \in Callers, Own(c) PROVE RunningHasOwner'
  <2>1. PICK id \in Ids, f \in Fingerprints, e \in Arcs : Insert(c, id, e, f)
    BY <1>2 DEF Own
  <2>2. /\ pc[c] = "idle" /\ pc'[c] = "prepare" /\ arc'[c] = e
        /\ \A d \in Callers : d # c => pc'[d] = pc[d] /\ arc'[d] = arc[d]
    BY <1>2, <2>1 DEF Own, Insert, Goto, Typed
  <2>3. \A x \in Arcs : x # e /\ cell'[x] # NoCell => cell'[x] = cell[x]
    BY <2>1 DEF Insert, Settle, Typed
  <2> QED
    BY <2>2, <2>3, OwnersStay DEF OwnerPcs, LaunchPcs
<1>3. ASSUME NEW c \in Callers, Replay(c) \/ Leave(c) PROVE RunningHasOwner'
  <2>1. Settle(cell) /\ pc[c] \in {"wait", "release"} /\ Return(c)
    BY <1>3 DEF Replay, Leave
  <2>2. \A d \in Callers : d # c => pc'[d] = pc[d] /\ arc'[d] = arc[d]
    BY <2>1 DEF Return, Goto, Typed
  <2> QED
    BY <1>settle, <2>1, <2>2, OwnersStay DEF OwnerPcs, LaunchPcs
<1>4. ASSUME NEW c \in Callers,
             Prepare(c) \/ Start(c) \/ Reap(c) \/ Verify(c) \/ Instruct(c)
      PROVE  RunningHasOwner'
  <2>1. arc' = arc /\ pc[c] # "idle"
    BY <1>4 DEF Prepare, Start, Reap, Verify, Instruct
  <2>2. pc'[c] \in OwnerPcs /\ \A d \in Callers : d # c => pc'[d] = pc[d]
    BY <1>4 DEF Prepare, Start, Reap, Verify, Instruct, Goto, Conclude, Typed,
                OwnerPcs, LaunchPcs
  <2>3. arc[c] \in Arcs /\ cell[arc[c]] \in Cell
    BY <2>1, Known
  <2>4. cell' = cell \/ cell' = [cell EXCEPT ![arc[c]].made = TRUE]
    BY <1>4 DEF Prepare, Start, Reap, Verify, Instruct, MakeAgent
  <2>5. \A e \in Arcs : cell'[e] # NoCell /\ cell'[e].state = "Running" =>
          cell[e] # NoCell /\ cell[e].state = "Running"
    BY <2>3, <2>4, LedgerAssumption DEF Typed, Cell
  <2> QED
    BY <2>1, <2>2, <2>5, OwnersStay
<1>5. ASSUME NEW c \in Callers, Publish(c) PROVE RunningHasOwner'
  <2>1. /\ arc' = arc /\ pc[c] = "publish" /\ result[c] \in Results
        /\ cell' = [cell EXCEPT ![arc[c]].state = result[c]]
        /\ \A d \in Callers : d # c => pc'[d] = pc[d]
    BY <1>5 DEF Publish, Finish, Goto, Typed
  <2>2. arc[c] \in Arcs /\ cell[arc[c]] \in Cell
    BY <2>1, Known
  <2>3. /\ cell'[arc[c]].state # "Running"
        /\ \A e \in Arcs : e # arc[c] => cell'[e] = cell[e]
    BY <2>1, <2>2 DEF Typed, Cell, Results
  <2> QED
    BY <2>1, <2>3, OwnersStay
<1>6. ASSUME NEW id \in Ids, AgeEntry(id) PROVE RunningHasOwner'
  <2>1. UNCHANGED <<pc, arc>> /\ Remembered(id)
        /\ cell' = [cell EXCEPT ![entries[id]].old = TRUE]
    BY <1>6 DEF AgeEntry, Age
  <2>2. entries[id] \in Arcs /\ cell[entries[id]] \in Cell
    BY <2>1, Entered
  <2>3. \A e \in Arcs : cell'[e] # NoCell /\ cell'[e].state = "Running" =>
          cell[e] # NoCell /\ cell[e].state = "Running"
    BY <2>1, <2>2, LedgerAssumption DEF Typed, Cell
  <2> QED
    BY <2>1, <2>3, OwnersStay
<1>7. CASE UNCHANGED vars
  BY <1>7 DEF vars, RunningHasOwner
<1> QED
  BY <1>1, <1>2, <1>3, <1>4, <1>5, <1>6, <1>7 DEF Next, Proceed

\* Whatever fails, is pruned or ages, an entry that runs is being worked on: a
\* waiter never waits for nobody, and no id is taken for ever by an entry that
\* pruning must spare (execute, prune_locked).  That the owner gets on with it
\* is the liveness that the run launch_waiters checks.
THEOREM RunningHasOwnerCorrect == Spec => []RunningHasOwner
<1>1. Init => RunningHasOwner
  BY DEF Init, InitLedger, RunningHasOwner
<1> QED
  BY <1>1, RunningNext, LaunchInvCorrect, PTL DEF Spec

----------------------------------------------------------------------------
(* The insertion order.  What Keep computes is shown by induction over the *)
(* positions: a position where it went wrong would have a least one.       *)

\* The sequence t lists the members of M, each once.
Lists(t, M) ==
  /\ t \in Seq(M)
  /\ \A x \in M : \E i \in 1 .. Len(t) : t[i] = x
  /\ \A i, j \in 1 .. Len(t) : t[i] = t[j] => i = j

\* One recursion step of Keep.
KeepStep(s, S, f, i) ==
  IF i = 0 THEN <<>>
  ELSE IF s[i] \in S THEN Append(f[i - 1], s[i])
  ELSE f[i - 1]

\* Numbers with a property have a least one.
LEMMA LeastExists ==
  ASSUME NEW T, T \subseteq Nat, T # {}
  PROVE  \E n \in T : \A m \in T : n <= m
<1>1. OpToRel(<, Nat) = {ss \in Nat \X Nat : ss[1] < ss[2]}
  BY DEF OpToRel
<1>2. PICK n \in T :
        \A m \in T : <<m, n>> \notin {ss \in Nat \X Nat : ss[1] < ss[2]}
  BY <1>1, NatLessThanWellFounded, WFMin
<1>3. ASSUME NEW m \in T PROVE n <= m
  <2>1. m \in Nat /\ n \in Nat
    OBVIOUS
  <2>2. <<m, n>> \in Nat \X Nat /\ <<m, n>>[1] = m /\ <<m, n>>[2] = n
    BY <2>1
  <2>3. ~ (m < n)
    BY <1>2, <2>2
  <2> QED
    BY <2>1, <2>3
<1> QED
  BY <1>3

\* The recursion of Keep has a solution.
LEMMA KeepExists ==
  ASSUME NEW s, NEW S, NEW N \in Nat
  PROVE  \E f : f = [i \in 0 .. N |-> KeepStep(s, S, f, i)]
<1> DEFINE Has(n) == \E f : f = [i \in 0 .. n |-> KeepStep(s, S, f, i)]
<1> SUFFICES ASSUME \E n \in Nat : ~ Has(n) PROVE FALSE
  OBVIOUS
<1>1. PICK n \in Nat : ~ Has(n) /\ \A m \in Nat : ~ Has(m) => n <= m
  <2> DEFINE T == {m \in Nat : ~ Has(m)}
  <2> HIDE DEF Has
  <2>1. PICK n \in T : \A m \in T : n <= m
    BY LeastExists
  <2> QED
    BY <2>1
<1>2. CASE n = 0
  <2>1. [i \in 0 .. 0 |-> <<>>] =
          [i \in 0 .. 0 |-> KeepStep(s, S, [j \in 0 .. 0 |-> <<>>], i)]
    BY DEF KeepStep
  <2> QED
    BY <1>1, <1>2, <2>1
<1>3. CASE n # 0
  <2>1. n - 1 \in Nat /\ ~ (n <= n - 1)
    BY <1>3
  <2>2. Has(n - 1)
    BY <1>1, <2>1
  <2>3. PICK f : f = [i \in 0 .. n - 1 |-> KeepStep(s, S, f, i)]
    BY <2>2
  <2> DEFINE g == [i \in 0 .. n |-> IF i = n THEN KeepStep(s, S, f, n) ELSE f[i]]
  <2>4. ASSUME NEW i \in 0 .. n PROVE g[i] = KeepStep(s, S, g, i)
    <3>1. CASE i = 0
      BY <1>3, <2>3, <3>1 DEF KeepStep
    <3>2. CASE i # 0 /\ i # n
      <4>1. g[i] = f[i] /\ g[i - 1] = f[i - 1] /\ i \in 0 .. n - 1
        BY <3>2
      <4>2. f[i] = KeepStep(s, S, f, i)
        BY <2>3, <4>1
      <4> QED
        BY <3>2, <4>1, <4>2 DEF KeepStep
    <3>3. CASE i = n
      <4>1. g[n] = KeepStep(s, S, f, n) /\ g[n - 1] = f[n - 1]
        BY <1>3, <2>1
      <4> QED
        BY <1>3, <3>3, <4>1 DEF KeepStep
    <3> QED
      BY <3>1, <3>2, <3>3
  <2>5. g = [i \in 0 .. n |-> KeepStep(s, S, g, i)]
    BY <2>4
  <2> QED
    BY <1>1, <2>5
<1> QED
  BY <1>2, <1>3

\* A list grows by what it does not name yet.
LEMMA ListsAppend ==
  ASSUME NEW M, NEW t, Lists(t, M), NEW x, x \notin M
  PROVE  Lists(Append(t, x), M \cup {x})
<1>1. t \in Seq(M \cup {x}) /\ Len(t) \in Nat
  BY DEF Lists
<1>2. /\ Append(t, x) \in Seq(M \cup {x})
      /\ Len(Append(t, x)) = Len(t) + 1
      /\ \A i \in 1 .. Len(t) : Append(t, x)[i] = t[i]
      /\ Append(t, x)[Len(t) + 1] = x
  BY <1>1, AppendProperties
<1>3. ASSUME NEW y \in M \cup {x}
      PROVE  \E i \in 1 .. Len(t) + 1 : Append(t, x)[i] = y
  <2>1. CASE y = x
    BY <1>1, <1>2, <2>1
  <2>2. CASE y \in M
    <3>1. PICK i \in 1 .. Len(t) : t[i] = y
      BY <2>2 DEF Lists
    <3> QED
      BY <1>1, <1>2, <3>1
  <2> QED
    BY <2>1, <2>2
<1>4. ASSUME NEW i \in 1 .. Len(t) + 1, NEW j \in 1 .. Len(t) + 1,
             Append(t, x)[i] = Append(t, x)[j]
      PROVE  i = j
  <2>1. i \in 1 .. Len(t) \/ i = Len(t) + 1
    BY <1>1
  <2>2. j \in 1 .. Len(t) \/ j = Len(t) + 1
    BY <1>1
  <2>3. \A k \in 1 .. Len(t) : t[k] \in M /\ t[k] # x
    BY DEF Lists
  <2> QED
    BY <1>2, <1>4, <2>1, <2>2, <2>3 DEF Lists
<1> QED
  BY <1>2, <1>3, <1>4 DEF Lists

\* What Keep leaves of a list is a list of the members it keeps.
LEMMA ListsKeep ==
  ASSUME NEW M, NEW s, Lists(s, M), NEW S
  PROVE  Lists(Keep(s, S), M \cap S)
<1> DEFINE upTo(n) == {s[j] : j \in 1 .. n} \cap S
           solves(f) == f = [i \in 0 .. Len(s) |-> KeepStep(s, S, f, i)]
<1>1. Len(s) \in Nat /\ \A i \in 1 .. Len(s) : s[i] \in M
  BY DEF Lists
<1>2. PICK f : solves(f) /\ Keep(s, S) = f[Len(s)]
  <2>1. Keep(s, S) = (CHOOSE f : solves(f))[Len(s)]
    BY DEF Keep, KeepStep
  <2>2. \E f : solves(f)
    BY <1>1, KeepExists
  <2> HIDE DEF solves
  <2>3. solves(CHOOSE f : solves(f))
    BY <2>2
  <2> QED
    BY <2>1, <2>3
<1>3. \A i \in 0 .. Len(s) : f[i] = KeepStep(s, S, f, i)
  BY <1>2
<1> HIDE DEF solves
<1> DEFINE Good(n) == Lists(f[n], upTo(n))
<1>4. ASSUME \E n \in 0 .. Len(s) : ~ Good(n) PROVE FALSE
  <2> DEFINE T == {m \in 0 .. Len(s) : ~ Good(m)}
  <2>1. PICK n \in T : \A m \in T : n <= m
    <3> HIDE DEF Good
    <3>1. T # {} /\ T \subseteq Nat
      BY <1>1, <1>4
    <3> HIDE DEF T
    <3> QED
      BY <3>1, LeastExists
  <2>2. CASE n = 0
    <3>1. f[0] = <<>>
      BY <1>1, <1>3 DEF KeepStep
    <3>2. upTo(0) = {}
      OBVIOUS
    <3>3. Good(0)
      BY <3>1, <3>2 DEF Lists
    <3> QED
      BY <2>1, <2>2, <3>3
  <2>3. CASE n # 0
    <3>1. n \in 1 .. Len(s) /\ n - 1 \in 0 .. Len(s) /\ ~ (n <= n - 1)
      BY <1>1, <2>1, <2>3
    <3>2. Good(n - 1)
      BY <2>1, <3>1
    <3>3. f[n] = KeepStep(s, S, f, n)
      BY <1>3, <3>1
    <3>4. {s[j] : j \in 1 .. n} = {s[j] : j \in 1 .. n - 1} \cup {s[n]}
      <4>1. \A j : j \in 1 .. n <=> j \in 1 .. n - 1 \/ j = n
        BY <3>1
      <4> QED
        BY <4>1
    <3>5. CASE s[n] \in S
      <4>1. s[n] \notin upTo(n - 1)
        <5>1. ASSUME NEW j \in 1 .. n - 1, s[j] = s[n] PROVE FALSE
          <6>1. j \in 1 .. Len(s) /\ j # n
            BY <1>1, <3>1
          <6> QED
            BY <3>1, <5>1, <6>1 DEF Lists
        <5> QED
          BY <5>1
      <4>2. f[n] = Append(f[n - 1], s[n])
        BY <2>3, <3>3, <3>5 DEF KeepStep
      <4>3. upTo(n) = upTo(n - 1) \cup {s[n]}
        BY <3>4, <3>5
      <4> HIDE DEF upTo
      <4>4. Lists(Append(f[n - 1], s[n]), upTo(n - 1) \cup {s[n]})
        BY <3>2, <4>1, ListsAppend
      <4>5. Good(n)
        BY <4>2, <4>3, <4>4
      <4> QED
        BY <2>1, <4>5
    <3>6. CASE s[n] \notin S
      <4>1. f[n] = f[n - 1]
        BY <2>3, <3>3, <3>6 DEF KeepStep
      <4>2. upTo(n) = upTo(n - 1)
        BY <3>4, <3>6
      <4>3. Good(n)
        BY <3>2, <4>1, <4>2
      <4> QED
        BY <2>1, <4>3
    <3> QED
      BY <3>5, <3>6
  <2> QED
    BY <2>2, <2>3
<1>5. upTo(Len(s)) = M \cap S
  BY <1>1 DEF Lists
<1>6. Good(Len(s))
  <2>1. Len(s) \in 0 .. Len(s)
    BY <1>1
  <2> HIDE DEF Good
  <2> QED
    BY <1>4, <2>1
<1> QED
  BY <1>2, <1>5, <1>6

\* A list whose first member is put to the back names the same.
LEMMA ListsRotated ==
  ASSUME NEW M, NEW t, Lists(t, M), Len(t) > 0
  PROVE  Lists(Append(Tail(t), Head(t)), M)
<1>1. t \in Seq(M) /\ t # <<>> /\ Len(t) \in Nat
  BY DEF Lists
<1>2. /\ Tail(t) \in Seq(M) /\ Len(Tail(t)) = Len(t) - 1
      /\ \A i \in 1 .. Len(t) - 1 : Tail(t)[i] = t[i + 1]
      /\ Head(t) = t[1] /\ Head(t) \in M
  BY <1>1, HeadTailProperties
<1>3. Lists(Tail(t), M \ {Head(t)})
  <2>1. \A i \in 1 .. Len(t) - 1 :
          /\ i + 1 \in 1 .. Len(t) /\ 1 \in 1 .. Len(t) /\ i + 1 # 1
    BY <1>1
  <2>2. Tail(t) \in Seq(M \ {Head(t)})
    <3>1. Tail(t) = SubSeq(t, 2, Len(t))
      BY <1>1, TailIsSubSeq
    <3>2. \A i \in 2 .. Len(t) : t[i] \in M \ {Head(t)}
      BY <1>1, <1>2 DEF Lists
    <3> DEFINE S == M \ {Head(t)}
    <3>3. \A i \in 2 .. Len(t) : t[i] \in S
      BY <3>2
    <3> HIDE DEF S
    <3>4. SubSeq(t, 2, Len(t)) \in Seq(S)
      BY <1>1, <3>3, SubSeqProperties
    <3> QED
      BY <3>1, <3>4 DEF S
  <2>3. ASSUME NEW x \in M \ {Head(t)}
        PROVE  \E i \in 1 .. Len(t) - 1 : Tail(t)[i] = x
    <3>1. PICK k \in 1 .. Len(t) : t[k] = x
      BY DEF Lists
    <3>2. k - 1 \in 1 .. Len(t) - 1 /\ (k - 1) + 1 = k
      BY <1>1, <1>2, <3>1
    <3> QED
      BY <1>2, <3>1, <3>2
  <2>4. ASSUME NEW i \in 1 .. Len(t) - 1, NEW j \in 1 .. Len(t) - 1,
               Tail(t)[i] = Tail(t)[j]
        PROVE  i = j
    <3>1. t[i + 1] = t[j + 1] /\ i + 1 \in 1 .. Len(t) /\ j + 1 \in 1 .. Len(t)
      BY <1>2, <2>1, <2>4
    <3>2. i + 1 = j + 1
      BY <3>1 DEF Lists
    <3> QED
      BY <3>2
  <2> QED
    BY <1>2, <2>2, <2>3, <2>4 DEF Lists
<1>4. Lists(Append(Tail(t), Head(t)), (M \ {Head(t)}) \cup {Head(t)})
  BY <1>3, ListsAppend
<1>5. (M \ {Head(t)}) \cup {Head(t)} = M
  BY <1>2
<1> QED
  BY <1>4, <1>5

----------------------------------------------------------------------------

OrderInv == Lists(order, {id \in Ids : Remembered(id)})

\* Pruning leaves the order and the map in agreement, whatever it drops from
\* either and whichever entry it puts to the back.
LEMMA PruneKeepsOrder ==
  ASSUME Typed, OrderInv
  PROVE  Lists(PrunedOrder, {id \in Ids : PrunedEntries[id] # NoArc})
<1> DEFINE known == {id \in Ids : Remembered(id)}
           live == {id \in Ids : Remembered(id) /\ ~ Expired(id)}
<1>1. ToSet(order) = known
  BY DEF OrderInv, Lists, ToSet
<1>2. Lists(Unexpired, live)
  <2>1. Lists(Unexpired, known \cap live)
    BY ListsKeep DEF OrderInv, Unexpired
  <2>2. known \cap live = live
    OBVIOUS
  <2> QED
    BY <2>1, <2>2
<1>3. Evicted \subseteq live
  BY <1>2, LedgerAssumption DEF Evicted, Lists
<1>4. Lists(Survivors, live \ Evicted)
  <2>1. Lists(Survivors, live \cap (Ids \ Evicted))
    BY <1>2, ListsKeep DEF Survivors
  <2>2. live \cap (Ids \ Evicted) = live \ Evicted
    OBVIOUS
  <2> QED
    BY <2>1, <2>2
<1>5. Lists(PrunedOrder, live \ Evicted)
  <2>1. CASE Len(Survivors) > Capacity
    <3>1. Len(Survivors) > 0
      BY <1>4, <2>1, LedgerAssumption DEF Lists
    <3>2. PrunedOrder = Append(Tail(Survivors), Head(Survivors))
      BY <2>1 DEF PrunedOrder
    <3> QED
      BY <1>4, <3>1, <3>2, ListsRotated
  <2>2. CASE ~ (Len(Survivors) > Capacity)
    BY <1>4, <2>2 DEF PrunedOrder
  <2> QED
    BY <2>1, <2>2
<1>6. ASSUME NEW id \in Ids
      PROVE  PrunedEntries[id] # NoArc <=> id \in live \ Evicted
  BY <1>1, <1>3, <1>6 DEF PrunedEntries, Remembered, Expired
<1>7. {id \in Ids : PrunedEntries[id] # NoArc} = live \ Evicted
  BY <1>6
<1> QED
  BY <1>5, <1>7

LEMMA OrderPrune ==
  ASSUME Typed, OrderInv, Prune
  PROVE  OrderInv'
<1>1. Lists(order', {id \in Ids : entries'[id] # NoArc})
  BY PruneKeepsOrder DEF Prune
<1> QED
  BY <1>1 DEF OrderInv, Remembered

LEMMA OrderInsert ==
  ASSUME Typed, OrderInv, NEW c \in Callers, NEW id \in Ids, NEW e \in Arcs,
         NEW f \in Fingerprints, Insert(c, id, e, f)
  PROVE  OrderInv'
<1> DEFINE left == {i \in Ids : PrunedEntries[i] # NoArc}
<1>1. /\ id \notin left /\ order' = Append(PrunedOrder, id)
      /\ entries' = [PrunedEntries EXCEPT ![id] = e]
  BY DEF Insert
<1>2. Lists(order', left \cup {id})
  BY <1>1, PruneKeepsOrder, ListsAppend
<1>3. {i \in Ids : entries'[i] # NoArc} = left \cup {id}
  BY <1>1, PruneSpares, LedgerAssumption
<1> QED
  BY <1>2, <1>3 DEF OrderInv, Remembered

LEMMA OrderRelease ==
  ASSUME Typed, OrderInv, NEW id \in Ids, NEW e, Release(id, e)
  PROVE  OrderInv'
<1>1. CASE UNCHANGED <<entries, order>>
  BY <1>1 DEF OrderInv, Remembered, Lists
<1>2. CASE /\ entries' = [entries EXCEPT ![id] = NoArc]
           /\ order' = Keep(order, Ids \ {id})
  <2> DEFINE known == {i \in Ids : Remembered(i)}
  <2>1. Lists(order', known \cap (Ids \ {id}))
    BY <1>2, ListsKeep DEF OrderInv
  <2>2. {i \in Ids : entries'[i] # NoArc} = known \cap (Ids \ {id})
    BY <1>2 DEF Typed, Remembered
  <2> QED
    BY <2>1, <2>2 DEF OrderInv, Remembered
<1> QED
  BY <1>1, <1>2 DEF Release

LEMMA OrderNext == LaunchInv /\ OrderInv /\ [Next]_vars => OrderInv'
<1> SUFFICES ASSUME LaunchInv, OrderInv, [Next]_vars PROVE OrderInv'
  OBVIOUS
<1> USE DEF LaunchInv
<1>1. CASE UNCHANGED <<entries, order>>
  BY <1>1 DEF OrderInv, Remembered, Lists
<1>2. ASSUME NEW c \in Callers, Conflict(c) \/ Attach(c) PROVE OrderInv'
  BY <1>2, OrderPrune DEF Conflict, Attach, Refuse, Share
<1>3. ASSUME NEW c \in Callers, Own(c) PROVE OrderInv'
  BY <1>3, OrderInsert DEF Own
<1>4. ASSUME NEW c \in Callers, Leave(c) PROVE OrderInv'
  <2>1. op[c] \in Ids
    BY <1>4, Known DEF Leave
  <2> QED
    BY <1>1, <1>4, <2>1, OrderRelease DEF Leave
<1>5. ASSUME NEW c \in Callers,
             \/ Prepare(c) \/ Start(c) \/ Reap(c) \/ Verify(c) \/ Instruct(c)
             \/ Publish(c) \/ Replay(c)
      PROVE  UNCHANGED <<entries, order>>
  BY <1>5 DEF Prepare, Start, Reap, Verify, Instruct, Publish, Replay
<1>6. ASSUME NEW id \in Ids, AgeEntry(id) PROVE UNCHANGED <<entries, order>>
  BY <1>6 DEF AgeEntry, Age
<1>7. CASE UNCHANGED vars
  BY <1>1, <1>7 DEF vars
<1> QED
  BY <1>1, <1>2, <1>3, <1>4, <1>5, <1>6, <1>7 DEF Next, Proceed

\* The order lists the remembered ids, each once.
THEOREM OrderInvCorrect == Spec => []OrderInv
<1>1. Init => OrderInv
  <2> SUFFICES ASSUME Init PROVE OrderInv
    OBVIOUS
  <2>1. order = <<>> /\ {id \in Ids : Remembered(id)} = {}
    BY DEF Init, InitLedger, Remembered
  <2> QED
    BY <2>1 DEF OrderInv, Lists
<1> QED
  BY <1>1, OrderNext, LaunchInvCorrect, PTL DEF Spec

\* Whatever ages, is evicted, is put to the back or is given back, the order
\* names what the map remembers, and nothing twice (prune_locked, execute).
THEOREM OrderListsEntriesCorrect == Spec => []OrderListsEntries
<1>1. OrderInv => OrderListsEntries
  BY DEF OrderInv, Lists, OrderListsEntries
<1> QED
  BY <1>1, OrderInvCorrect, PTL

\* The variables keep their types; an allocated entry is one that is referred to.
THEOREM TypeCorrect == Spec => []TypeOK
<1>1. LaunchInv /\ OrderInv => TypeOK
  BY DEF LaunchInv, Typed, OrderInv, Lists, TypeOK
<1> QED
  BY <1>1, LaunchInvCorrect, OrderInvCorrect, PTL
=============================================================================
