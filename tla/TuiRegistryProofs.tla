-------------------------- MODULE TuiRegistryProofs --------------------------
(***************************************************************************)
(* What holds of TuiRegistry for every number of managers, children and    *)
(* users: the types, that a published child which has not been proven dead *)
(* is in the slot of its manager, and that a closed slot has a reaper.     *)
(***************************************************************************)
EXTENDS TuiRegistry, TLAPS

\* A child whose exit is proven is nobody's any more.
ReapedUnmade == \A s \in Sessions : handle[s] = "reaped" => maker[s] = NoManager

\* Whoever stops a child finds it in the slot throughout; whoever spawns one
\* has no child left that may live.
LockInv ==
  \A m \in Managers :
    /\ lock[m] \in {"stop", "replace"} => At(m, "Running")
    /\ lock[m] = "spawn" => \A s \in Sessions : maker[s] # m

TuiInv == TypeOK /\ ChildInItsSlot /\ ReapedUnmade /\ LockInv

LEMMA EmptyIsSlot == EmptySlot \in Slots
  BY DEF EmptySlot, Slots

LEMMA HoldingIsSlot ==
  ASSUME NEW st \in {"Running", "Terminating"}, NEW s \in Sessions
  PROVE  /\ Holding(st, s) \in Slots
         /\ Holding(st, s).state = st /\ Holding(st, s).session = s
  BY DEF Holding, Slots

LEMMA Occupied ==
  ASSUME TypeOK, NEW m \in Managers, ~ At(m, "Empty")
  PROVE  slot[m].session \in Sessions
  BY DEF TypeOK, Slots

LEMMA InitInv == Init => TuiInv
<1> SUFFICES ASSUME Init PROVE TuiInv
  OBVIOUS
<1>1. TypeOK
  BY EmptyIsSlot DEF Init, InitTui, TypeOK, Locks, Oses, Handles, At, EmptySlot
<1>2. ChildInItsSlot /\ ReapedUnmade /\ LockInv
  BY DEF Init, InitTui, ChildInItsSlot, ReapedUnmade, LockInv
<1> QED
  BY <1>1, <1>2 DEF TuiInv

----------------------------------------------------------------------------
(* Stopping.                                                               *)

LEMMA KillStep ==
  ASSUME TuiInv, NEW m \in Managers, NEW at \in {"stop", "replace"},
         lock[m] = "free", Kill(m, at),
         registry' \in Managers \cup {NoManager}, latched' \in {"free", "stop", "sweep"},
         held' \in [Users -> Managers \cup {NoManager}]
  PROVE  TuiInv'
<1>1. slot[m].session \in Sessions /\ At(m, "Running")
  BY Occupied DEF Kill, At, TuiInv
<1>2. /\ lock' = [lock EXCEPT ![m] = at]
      /\ UNCHANGED <<slot, running, watched, maker, armed>>
      /\ handle' \in [Sessions -> Handles] /\ os' \in [Sessions -> Oses]
      /\ \A s \in Sessions : handle'[s] = "reaped" => handle[s] = "reaped"
  BY <1>1 DEF Kill, Lock, TuiInv, TypeOK, Handles, Oses
<1>3. TypeOK'
  BY <1>2 DEF TuiInv, TypeOK, Locks, At
<1> QED
  BY <1>1, <1>2, <1>3
     DEF TuiInv, TypeOK, ChildInItsSlot, ReapedUnmade, LockInv, At

\* A slot is vacated whose child, if any, is proven dead.
LEMMA VacateStep ==
  ASSUME TuiInv, NEW m \in Managers, lock[m] = "free" \/ ~ Alive(m),
         At(m, "Terminating"), handle[slot[m].session] = "reaped", Vacate(m),
         armed' \subseteq armed,
         UNCHANGED <<lock, os, handle, running, maker, registry, latched,
         held>>
  PROVE  TuiInv'
<1>1. slot[m].session \in Sessions
  BY Occupied DEF At, TuiInv
<1>2. \A s \in Sessions : maker[s] # m
  BY <1>1, SlotAssumption DEF TuiInv, ChildInItsSlot, ReapedUnmade
<1>3. lock[m] = "free"
  BY DEF Alive
<1>4. /\ slot' = [slot EXCEPT ![m] = EmptySlot]
      /\ watched' = [watched EXCEPT ![m] = FALSE]
  BY DEF Vacate
<1>5. TypeOK'
  BY <1>4, EmptyIsSlot DEF TuiInv, TypeOK, At, EmptySlot
<1> QED
  BY <1>2, <1>3, <1>4, <1>5
     DEF TuiInv, TypeOK, ChildInItsSlot, ReapedUnmade, LockInv, At

LEMMA StopProvenStep ==
  ASSUME TuiInv, NEW m \in Managers, StopProven(m), UNCHANGED userVars
  PROVE  TuiInv'
<1> DEFINE s == slot[m].session
<1>1. At(m, "Running") /\ s \in Sessions /\ lock[m] \in {"stop", "replace"}
  BY Occupied DEF StopProven, At, TuiInv, LockInv
<1>2. /\ handle' = [handle EXCEPT ![s] = "reaped"]
      /\ maker' = [maker EXCEPT ![s] = NoManager]
      /\ running' = [running EXCEPT ![m] = FALSE]
      /\ UNCHANGED <<os, armed, registry, latched, held>>
  BY DEF StopProven, Reaped, userVars
<1>3. \/ /\ lock' = [lock EXCEPT ![m] = "free"]
         /\ slot' = [slot EXCEPT ![m] = EmptySlot]
         /\ watched' = [watched EXCEPT ![m] = FALSE]
      \/ lock' = [lock EXCEPT ![m] = "spawn"] /\ UNCHANGED <<slot, watched>>
  BY DEF StopProven, Lock, Vacate
<1>4. \A t \in Sessions : maker'[t] # m
  BY <1>1, <1>2, SlotAssumption DEF TuiInv, TypeOK, ChildInItsSlot
<1>5. \A t \in Sessions : maker'[t] # NoManager =>
                            maker'[t] = maker[t] /\ handle'[t] = handle[t]
  BY <1>1, <1>2 DEF TuiInv, TypeOK
<1>6. \A n \in Managers \ {m} : slot'[n] = slot[n] /\ lock'[n] = lock[n]
  BY <1>3 DEF TuiInv, TypeOK
<1>7. lock'[m] \in {"free", "spawn"}
  BY <1>3 DEF TuiInv, TypeOK
<1> HIDE DEF s
<1>8. TypeOK'
  <2>1. /\ handle' \in [Sessions -> Handles]
        /\ maker' \in [Sessions -> Managers \cup {NoManager}]
        /\ running' \in [Managers -> BOOLEAN]
        /\ lock' \in [Managers -> Locks]
        /\ watched' \in [Managers -> BOOLEAN]
    BY <1>1, <1>2, <1>3 DEF TuiInv, TypeOK, Handles, Locks
  <2>2. /\ slot' \in [Managers -> Slots]
        /\ \A n \in Managers : slot'[n].state = "Empty" <=> slot'[n].session = NoSession
    BY <1>3, EmptyIsSlot DEF TuiInv, TypeOK, At, EmptySlot
  <2> QED
    BY <1>2, <2>1, <2>2 DEF TuiInv, TypeOK, At
<1>9. ChildInItsSlot'
  BY <1>4, <1>5, <1>6, <1>8 DEF TuiInv, TypeOK, ChildInItsSlot
<1>10. ReapedUnmade'
  BY <1>2, <1>5 DEF TuiInv, TypeOK, ReapedUnmade
<1>11. LockInv'
  <2>1. \A n \in Managers \ {m}, t \in Sessions : maker[t] # n => maker'[t] # n
    BY <1>2, SlotAssumption DEF TuiInv, TypeOK
  <2> QED
    BY <1>4, <1>6, <1>7, <2>1 DEF TuiInv, LockInv, At
<1> QED
  BY <1>8, <1>9, <1>10, <1>11 DEF TuiInv

LEMMA StopUnprovenStep ==
  ASSUME TuiInv, NEW m \in Managers, StopUnproven(m), UNCHANGED userVars
  PROVE  TuiInv'
<1> DEFINE s == slot[m].session
<1>1. At(m, "Running") /\ s \in Sessions
  BY Occupied DEF StopUnproven, At, TuiInv, LockInv
<1>2. /\ handle' = [handle EXCEPT ![s] = "waiter"]
      /\ running' = [running EXCEPT ![m] = FALSE]
      /\ slot' = [slot EXCEPT ![m] = Holding("Terminating", s)]
      /\ armed' = armed \cup {<<m, s>>}
      /\ lock' = [lock EXCEPT ![m] = "free"]
      /\ UNCHANGED <<os, watched, maker, registry, latched, held>>
  BY DEF StopUnproven, Lock, userVars
<1>3. Holding("Terminating", s) \in Slots /\ Holding("Terminating", s).session = s
      /\ Holding("Terminating", s).state = "Terminating"
  BY <1>1, HoldingIsSlot
<1>4. slot'[m].session = s /\ \A n \in Managers : slot'[n].session = slot[n].session
  BY <1>2, <1>3 DEF TuiInv, TypeOK
<1> HIDE DEF s
<1>5. TypeOK'
  <2>1. /\ handle' \in [Sessions -> Handles]
        /\ running' \in [Managers -> BOOLEAN]
        /\ lock' \in [Managers -> Locks]
        /\ armed' \subseteq Managers \X Sessions
    BY <1>1, <1>2 DEF TuiInv, TypeOK, Handles, Locks
  <2>2. /\ slot' \in [Managers -> Slots]
        /\ \A n \in Managers : slot'[n].state = "Empty" <=> slot'[n].session = NoSession
    BY <1>1, <1>2, <1>3, SlotAssumption DEF TuiInv, TypeOK, At
  <2> QED
    BY <1>2, <2>1, <2>2 DEF TuiInv, TypeOK, At
<1>6. ChildInItsSlot'
  BY <1>2, <1>4 DEF TuiInv, TypeOK, ChildInItsSlot
<1>7. ReapedUnmade'
  BY <1>1, <1>2 DEF TuiInv, TypeOK, ReapedUnmade
<1>8. LockInv'
  BY <1>2 DEF TuiInv, TypeOK, LockInv, At
<1> QED
  BY <1>5, <1>6, <1>7, <1>8 DEF TuiInv

LEMMA ReleaseLemma ==
  ASSUME TuiInv, NEW m \in Managers, NEW s \in Sessions, ReleaseStep(m, s)
  PROVE  TuiInv'
<1>1. /\ handle[s] = "reaped" /\ (Alive(m) => lock[m] = "free")
      /\ armed' = armed \ {<<m, s>>}
      /\ \/ ReleasedBy(m, s) /\ Vacate(m)
         \/ UNCHANGED <<slot, watched>>
      /\ UNCHANGED <<lock, os, handle, running, maker, registry, latched, held>>
  BY DEF ReleaseStep, Release, userVars
<1>2. CASE ReleasedBy(m, s) /\ Vacate(m)
  BY <1>1, <1>2, VacateStep DEF ReleasedBy
<1>3. CASE UNCHANGED <<slot, watched>>
  BY <1>1, <1>3 DEF TuiInv, TypeOK, ChildInItsSlot, ReapedUnmade, LockInv, At
<1> QED
  BY <1>1, <1>2, <1>3

----------------------------------------------------------------------------
(* Spawning.                                                               *)

LEMMA SpawnStep ==
  ASSUME TuiInv, NEW m \in Managers, NEW s \in Sessions, Spawn(m, s), UNCHANGED userVars
  PROVE  TuiInv'
<1>1. /\ lock[m] = "spawn" /\ handle[s] = "reaped"
      /\ \A n \in Managers : slot[n].session # s
      /\ lock' = [lock EXCEPT ![m] = "free"]
      /\ os' = [os EXCEPT ![s] = "alive"]
      /\ handle' = [handle EXCEPT ![s] = "session"]
      /\ running' = [running EXCEPT ![m] = TRUE]
      /\ maker' = [maker EXCEPT ![s] = m]
      /\ slot' = [slot EXCEPT ![m] = Holding("Running", s)]
      /\ watched' = [watched EXCEPT ![m] = FALSE]
      /\ UNCHANGED <<armed, registry, latched, held>>
  BY DEF Spawn, Fresh, Unproven, Lock, userVars
<1>2. /\ Holding("Running", s) \in Slots /\ Holding("Running", s).session = s
      /\ Holding("Running", s).state = "Running"
  BY HoldingIsSlot
<1>3. \A t \in Sessions : maker[t] # m
  BY <1>1 DEF TuiInv, LockInv
<1>4. TypeOK'
  <2>1. /\ os' \in [Sessions -> Oses]
        /\ handle' \in [Sessions -> Handles]
        /\ running' \in [Managers -> BOOLEAN]
        /\ watched' \in [Managers -> BOOLEAN]
        /\ lock' \in [Managers -> Locks]
        /\ maker' \in [Sessions -> Managers \cup {NoManager}]
    BY <1>1 DEF TuiInv, TypeOK, Oses, Handles, Locks
  <2>2. /\ slot' \in [Managers -> Slots]
        /\ \A n \in Managers : slot'[n].state = "Empty" <=> slot'[n].session = NoSession
    BY <1>1, <1>2, SlotAssumption DEF TuiInv, TypeOK, At
  <2> QED
    BY <1>1, <2>1, <2>2 DEF TuiInv, TypeOK, At
<1>5. ChildInItsSlot'
  BY <1>1, <1>2, <1>3 DEF TuiInv, TypeOK, ChildInItsSlot
<1>6. ReapedUnmade'
  BY <1>1 DEF TuiInv, TypeOK, ReapedUnmade
<1>7. LockInv'
  BY <1>1 DEF TuiInv, TypeOK, LockInv, At
<1> QED
  BY <1>4, <1>5, <1>6, <1>7 DEF TuiInv

LEMMA SpawnFailsStep ==
  ASSUME TuiInv, NEW m \in Managers, SpawnFails(m), UNCHANGED userVars
  PROVE  TuiInv'
<1>1. /\ lock' = [lock EXCEPT ![m] = "free"]
      /\ UNCHANGED <<slot, running, watched, armed, registry, latched, held>>
  BY DEF SpawnFails, Lock, userVars
<1> DEFINE NothingMade ==
      /\ os' \in [Sessions -> Oses] /\ handle' \in [Sessions -> Handles]
      /\ maker' \in [Sessions -> Managers \cup {NoManager}]
      /\ \A t \in Sessions :
           /\ maker'[t] \in {maker[t], NoManager}
           /\ handle'[t] = "reaped" => maker'[t] = NoManager
<1>2. NothingMade
  <2>1. CASE UNCHANGED <<os, handle, maker>>
    BY <2>1 DEF TuiInv, TypeOK, ReapedUnmade
  <2>2. ASSUME NEW s \in Sessions,
               os' = [os EXCEPT ![s] = "killed"],
               handle' = [handle EXCEPT ![s] = "guard"],
               maker' = [maker EXCEPT ![s] = NoManager]
        PROVE  NothingMade
    BY <2>2 DEF TuiInv, TypeOK, ReapedUnmade, Oses, Handles
  <2> QED
    BY <2>1, <2>2 DEF SpawnFails
<1>3. TypeOK'
  BY <1>1, <1>2 DEF TuiInv, TypeOK, Locks, At
<1> QED
  BY <1>1, <1>2, <1>3, SlotAssumption
     DEF TuiInv, TypeOK, ChildInItsSlot, ReapedUnmade, LockInv, At

----------------------------------------------------------------------------
(* Users and calls through the registry.                                   *)

LEMMA BindStep ==
  ASSUME TuiInv, NEW u \in Users, Bind(u)
  PROVE  TuiInv'
<1>1. UNCHANGED <<lock, os, handle, maker, armed, latched>>
  BY DEF Bind
<1>2. CASE /\ registry # NoManager
           /\ held' = [held EXCEPT ![u] = registry]
           /\ UNCHANGED <<registry, slot, running, watched>>
  BY <1>1, <1>2 DEF TuiInv, TypeOK, ChildInItsSlot, ReapedUnmade, LockInv, At
<1>3. ASSUME NEW m \in Managers, Unused(m), registry' = m,
             slot' = [slot EXCEPT ![m] = EmptySlot],
             running' = [running EXCEPT ![m] = FALSE],
             watched' = [watched EXCEPT ![m] = FALSE],
             held' = [held EXCEPT ![u] = m]
      PROVE  TuiInv'
  <2>1. lock[m] = "free" /\ \A s \in Sessions : maker[s] # m
    BY <1>3 DEF Unused, Alive
  <2>2. TypeOK'
    BY <1>1, <1>3, EmptyIsSlot DEF TuiInv, TypeOK, At, EmptySlot
  <2> QED
    BY <1>1, <1>3, <2>1, <2>2
       DEF TuiInv, TypeOK, ChildInItsSlot, ReapedUnmade, LockInv, At
<1> QED
  BY <1>2, <1>3 DEF Bind

LEMMA OpenStep ==
  ASSUME TuiInv, NEW u \in Users, Open(u)
  PROVE  TuiInv'
<1> DEFINE m == held[u]
<1>1. /\ m \in Managers /\ UNCHANGED <<registry, latched, held>>
      /\ OpenSpawning(m) \/ OpenDead(m) \/ Restart(m)
  BY DEF Open, userVars, TuiInv, TypeOK
<1>2. /\ registry' \in Managers \cup {NoManager}
      /\ latched' \in {"free", "stop", "sweep"}
      /\ held' \in [Users -> Managers \cup {NoManager}]
  BY <1>1 DEF TuiInv, TypeOK
<1> HIDE DEF m
<1>3. CASE OpenSpawning(m)
  <2>1. /\ slot[m].session = NoSession /\ lock' = [lock EXCEPT ![m] = "spawn"]
        /\ UNCHANGED <<slot, os, handle, running, watched, maker, armed>>
    BY <1>1, <1>3 DEF OpenSpawning, Lock, TuiInv, TypeOK
  <2>2. \A s \in Sessions : maker[s] # m
    BY <1>1, <2>1, SlotAssumption DEF TuiInv, ChildInItsSlot
  <2>3. TypeOK'
    BY <1>1, <2>1 DEF TuiInv, TypeOK, Locks, At
  <2> QED
    BY <1>1, <2>1, <2>2, <2>3
       DEF TuiInv, TypeOK, ChildInItsSlot, ReapedUnmade, LockInv, At
<1>4. CASE OpenDead(m) \/ Restart(m)
  BY <1>1, <1>2, <1>4, KillStep DEF OpenDead, Restart
<1> QED
  BY <1>1, <1>3, <1>4

LEMMA CloseStep ==
  ASSUME TuiInv, Close
  PROVE  TuiInv'
<1>1. /\ registry \in Managers /\ UNCHANGED <<registry, held>>
      /\ latched' \in {"free", "stop", "sweep"}
  BY DEF Close, TuiInv, TypeOK
<1>2. /\ registry' \in Managers \cup {NoManager}
      /\ held' \in [Users -> Managers \cup {NoManager}]
  BY <1>1 DEF TuiInv, TypeOK
<1>3. CASE StopUnwatched(registry) \/ StopAllKill(registry)
  BY <1>1, <1>2, <1>3, KillStep DEF StopUnwatched, StopAllKill
<1>4. CASE StopAllRelease(registry) /\ UNCHANGED latched
  <2>1. /\ lock[registry] = "free" /\ At(registry, "Terminating")
        /\ handle[slot[registry].session] = "reaped" /\ Vacate(registry)
        /\ UNCHANGED <<lock, os, handle, running, maker, armed, registry, latched, held>>
    BY <1>1, <1>4 DEF StopAllRelease
  <2> QED
    BY <1>1, <2>1, VacateStep
<1> QED
  BY <1>3, <1>4 DEF Close

LEMMA SweepStep ==
  ASSUME TuiInv, Sweep
  PROVE  TuiInv'
<1>1. /\ registry \in Managers /\ UNCHANGED <<registry, held>> /\ latched' = "sweep"
  BY DEF Sweep, TuiInv, TypeOK
<1>2. /\ registry' \in Managers \cup {NoManager}
      /\ held' \in [Users -> Managers \cup {NoManager}]
  BY <1>1 DEF TuiInv, TypeOK
<1>3. CASE StopUnwatched(registry)
  BY <1>1, <1>2, <1>3, KillStep DEF StopUnwatched
<1>4. CASE UNCHANGED tuiVars
  BY <1>1, <1>2, <1>4
     DEF tuiVars, TuiInv, TypeOK, ChildInItsSlot, ReapedUnmade, LockInv, At
<1> QED
  BY <1>3, <1>4 DEF Sweep

\* Steps that leave the slots, their locks, the handles and the makers alone.
LEMMA OtherSteps ==
  ASSUME TuiInv, UNCHANGED <<slot, lock, handle, maker, armed>>,
         os' \in [Sessions -> Oses],
         running' \in [Managers -> BOOLEAN], watched' \in [Managers -> BOOLEAN],
         registry' \in Managers \cup {NoManager}, latched' \in {"free", "stop", "sweep"},
         held' \in [Users -> Managers \cup {NoManager}]
  PROVE  TuiInv'
BY DEF TuiInv, TypeOK, ChildInItsSlot, ReapedUnmade, LockInv, At

LEMMA UserKept ==
  ASSUME TuiInv, UNCHANGED userVars
  PROVE  /\ registry' \in Managers \cup {NoManager}
         /\ latched' \in {"free", "stop", "sweep"}
         /\ held' \in [Users -> Managers \cup {NoManager}]
BY DEF userVars, TuiInv, TypeOK

LEMMA ChildLemma ==
  ASSUME TuiInv, NEW s \in Sessions, ChildStep(s)
  PROVE  TuiInv'
<1>1. CASE Exits(s)
  <2>1. os' \in [Sessions -> Oses]
    BY <1>1 DEF Exits, TuiInv, TypeOK, Oses
  <2>2. /\ UNCHANGED <<slot, lock, handle, maker, armed>>
        /\ running' \in [Managers -> BOOLEAN] /\ watched' \in [Managers -> BOOLEAN]
    BY <1>1 DEF Exits, TuiInv, TypeOK
  <2> QED
    BY <2>1, <2>2, UserKept, OtherSteps DEF ChildStep
<1>2. CASE WaiterProves(s)
  <2>1. /\ handle' = [handle EXCEPT ![s] = "reaped"]
        /\ maker' = [maker EXCEPT ![s] = NoManager]
        /\ UNCHANGED <<slot, lock, os, running, watched, armed, registry, latched, held>>
    BY <1>2 DEF ChildStep, WaiterProves, Reaped, userVars
  <2>2. TypeOK'
    BY <2>1 DEF TuiInv, TypeOK, Handles, At
  <2> QED
    BY <2>1, <2>2, SlotAssumption
       DEF TuiInv, TypeOK, ChildInItsSlot, ReapedUnmade, LockInv, At
<1> QED
  BY <1>1, <1>2 DEF ChildStep

LEMMA StreamLemma ==
  ASSUME TuiInv, NEW m \in Managers, StreamStep(m)
  PROVE  TuiInv'
<1>1. /\ UNCHANGED <<slot, lock, os, handle, maker, armed>> /\ UNCHANGED userVars
      /\ \/ running' = [running EXCEPT ![m] = FALSE] /\ UNCHANGED watched
         \/ watched' = [watched EXCEPT ![m] = ~ watched[m]] /\ UNCHANGED running
  BY DEF StreamStep, StreamEnds, Watch
<1>2. running' \in [Managers -> BOOLEAN]
  BY <1>1 DEF TuiInv, TypeOK
<1>3. watched' \in [Managers -> BOOLEAN]
  BY <1>1 DEF TuiInv, TypeOK
<1>4. os' \in [Sessions -> Oses]
  BY <1>1 DEF TuiInv, TypeOK
<1> QED
  BY <1>1, <1>2, <1>3, <1>4, UserKept, OtherSteps

----------------------------------------------------------------------------

LEMMA StepsKeepTuiInv == TuiInv /\ [Next]_vars => TuiInv'
<1> SUFFICES ASSUME TuiInv, [Next]_vars PROVE TuiInv'
  OBVIOUS
<1>1. CASE UNCHANGED vars
  BY <1>1 DEF vars, TuiInv, TypeOK, ChildInItsSlot, ReapedUnmade, LockInv, At
<1>2. ASSUME NEW u \in Users, Bind(u) \/ Open(u) PROVE TuiInv'
  BY <1>2, BindStep, OpenStep
<1>3. ASSUME NEW u \in Users, Unbind(u) PROVE TuiInv'
  <2>1. /\ UNCHANGED tuiVars /\ UNCHANGED <<registry, latched>>
        /\ held' \in [Users -> Managers \cup {NoManager}]
    BY <1>3 DEF Unbind, TuiInv, TypeOK
  <2> QED
    BY <2>1, OtherSteps DEF tuiVars, TuiInv, TypeOK
<1>4. CASE Return \/ Retain
  <2>1. /\ UNCHANGED tuiVars /\ UNCHANGED held /\ latched' = "free"
        /\ registry' \in Managers \cup {NoManager}
    BY <1>4 DEF Return, Retain, TuiInv, TypeOK
  <2> QED
    BY <2>1, OtherSteps DEF tuiVars, TuiInv, TypeOK
<1>5. ASSUME NEW m \in Managers, ManagerStep(m) PROVE TuiInv'
  BY <1>5, StopProvenStep, StopUnprovenStep, SpawnStep, SpawnFailsStep
     DEF ManagerStep
<1>6. ASSUME NEW m \in Managers, StreamStep(m) PROVE TuiInv'
  BY <1>6, StreamLemma
<1>7. ASSUME NEW m \in Managers, NEW s \in Sessions, ReleaseStep(m, s)
      PROVE  TuiInv'
  BY <1>7, ReleaseLemma
<1>8. ASSUME NEW s \in Sessions, ChildStep(s) PROVE TuiInv'
  BY <1>8, ChildLemma
<1> QED
  BY <1>1, <1>2, <1>3, <1>4, <1>5, <1>6, <1>7, <1>8, CloseStep, SweepStep
     DEF Next

\* The strengthening that makes the types and ChildInItsSlot inductive: whoever
\* holds a slot's lock to stop finds a running session in it, whoever holds it to
\* spawn has no child left that may live, and a reaped child has no manager.
THEOREM TuiInvCorrect == Spec => []TuiInv
  BY InitInv, StepsKeepTuiInv, PTL DEF Spec

\* Slots, locks, handles and the registry are of their kind, and a slot is
\* empty exactly when it names no session.
THEOREM TuiTypeCorrect == Spec => []TypeOK
<1>1. TuiInv => TypeOK
  BY DEF TuiInv
<1> QED
  BY <1>1, TuiInvCorrect, PTL

\* A manager never has a second child beside one whose exit is not proven:
\* the slot is held until the wait returns (stop_with_reap, open, restart).
THEOREM ChildInItsSlotCorrect == Spec => []ChildInItsSlot
<1>1. TuiInv => ChildInItsSlot
  BY DEF TuiInv
<1> QED
  BY <1>1, TuiInvCorrect, PTL

----------------------------------------------------------------------------
(* A closed slot can open again.                                           *)

OneSlotPerSession ==
  \A m, n \in Managers :
    slot[m].session = slot[n].session /\ slot[m].session # NoSession => m = n

\* A running session still has its handle, unless its exit has been seen; while
\* a stop is under way the stopper has it.
RunningHandle ==
  \A m \in Managers :
    At(m, "Running") =>
      handle[slot[m].session] \in
        {"reaped", IF lock[m] \in {"stop", "replace"} THEN "stopper" ELSE "session"}

HandsInv == OneSlotPerSession /\ RunningHandle /\ ClosedSlotHasReaper

LEMMA InitHandsInv == Init => HandsInv
BY DEF Init, InitTui, HandsInv, OneSlotPerSession, RunningHandle,
       ClosedSlotHasReaper, At, EmptySlot

\* What one step may do to the slot of one manager without touching any other:
\* the session stays or is nobody else's, nobody else's child but one that a
\* thread has proven dead changes hands, and nobody comes back to life.
LEMMA OneSlotMoves ==
  ASSUME TuiInv, TuiInv', HandsInv, NEW m \in Managers,
         \A n \in Managers \ {m} :
           /\ slot'[n] = slot[n] /\ lock'[n] = lock[n]
           /\ slot[n].session # NoSession =>
                /\ handle'[slot[n].session] \in {handle[slot[n].session], "reaped"}
                /\ slot'[m].session # slot[n].session
           /\ Alive(n)' => Alive(n)
           /\ \A s \in Sessions : <<n, s>> \in armed => <<n, s>> \in armed',
         slot'[m].state = "Running" =>
           handle'[slot'[m].session] \in
             {"reaped", IF lock'[m] \in {"stop", "replace"} THEN "stopper" ELSE "session"},
         slot'[m].state = "Terminating" =>
           /\ handle'[slot'[m].session] \in {"waiter", "reaped"}
           /\ Alive(m)' => <<m, slot'[m].session>> \in armed'
  PROVE  HandsInv'
<1>1. \A n \in Managers \ {m} : ~ At(n, "Empty") => slot[n].session \in Sessions
  BY Occupied DEF TuiInv
<1>2. OneSlotPerSession'
  BY DEF HandsInv, OneSlotPerSession
<1>3. RunningHandle'
  <2> SUFFICES ASSUME NEW n \in Managers, At(n, "Running")'
               PROVE  handle'[slot'[n].session] \in
                        {"reaped", IF lock'[n] \in {"stop", "replace"}
                                     THEN "stopper" ELSE "session"}
    BY DEF RunningHandle
  <2>1. CASE n = m
    BY <2>1 DEF At
  <2>2. CASE n # m
    <3>1. At(n, "Running") /\ slot[n].session # NoSession
      BY <1>1, <2>2, SlotAssumption DEF At
    <3> QED
      BY <2>2, <3>1 DEF HandsInv, RunningHandle
  <2> QED
    BY <2>1, <2>2
<1>4. ClosedSlotHasReaper'
  <2> SUFFICES ASSUME NEW n \in Managers, At(n, "Terminating")'
               PROVE  /\ handle'[slot'[n].session] \in {"waiter", "reaped"}
                      /\ Alive(n)' => <<n, slot'[n].session>> \in armed'
    BY DEF ClosedSlotHasReaper
  <2>1. CASE n = m
    BY <2>1 DEF At
  <2>2. CASE n # m
    <3>1. At(n, "Terminating") /\ slot[n].session \in Sessions
      BY <1>1, <2>2 DEF At
    <3> QED
      BY <2>2, <3>1, SlotAssumption DEF HandsInv, ClosedSlotHasReaper
  <2> QED
    BY <2>1, <2>2
<1> QED
  BY <1>2, <1>3, <1>4 DEF HandsInv

\* A step that leaves slots, locks and reapers alone may prove children dead
\* and lose managers.
LEMMA SlotsLeftAlone ==
  ASSUME TuiInv, HandsInv, UNCHANGED <<slot, lock, armed>>,
         \A s \in Sessions : handle'[s] \in {handle[s], "reaped"},
         \A m \in Managers : Alive(m)' => Alive(m)
  PROVE  HandsInv'
<1>1. \A m \in Managers : ~ At(m, "Empty") => slot[m].session \in Sessions
  BY Occupied DEF TuiInv
<1>2. RunningHandle'
  BY <1>1 DEF HandsInv, RunningHandle, At
<1>3. ClosedSlotHasReaper'
  BY <1>1 DEF HandsInv, ClosedSlotHasReaper, At
<1> QED
  BY <1>2, <1>3 DEF HandsInv, OneSlotPerSession

\* Other managers hold other sessions.
LEMMA OthersDiffer ==
  ASSUME TuiInv, HandsInv, NEW m \in Managers, NEW n \in Managers \ {m},
         slot[m].session # NoSession
  PROVE  slot[n].session # slot[m].session
BY DEF HandsInv, OneSlotPerSession

\* Who is alive depends on the registry, the users and the locks only.
LEMMA AliveKept ==
  ASSUME NEW m \in Managers, UNCHANGED <<registry, held>>, lock'[m] = lock[m]
  PROVE  Alive(m)' <=> Alive(m)
BY DEF Alive

LEMMA KillHands ==
  ASSUME TuiInv, TuiInv', HandsInv, NEW m \in Managers, NEW at \in {"stop", "replace"},
         lock[m] = "free", Kill(m, at), UNCHANGED <<registry, held>>
  PROVE  HandsInv'
<1> DEFINE s == slot[m].session
<1>1. s \in Sessions /\ At(m, "Running")
  BY Occupied DEF Kill, At, TuiInv
<1>2. /\ lock' = [lock EXCEPT ![m] = at]
      /\ UNCHANGED <<slot, armed>>
      /\ \/ handle[s] = "session" /\ handle' = [handle EXCEPT ![s] = "stopper"]
         \/ handle[s] # "session" /\ UNCHANGED handle
  BY DEF Kill, Lock
<1>3. handle[s] \in {"session", "reaped"}
  BY <1>1 DEF HandsInv, RunningHandle
<1>4. handle'[s] \in {"stopper", "reaped"} /\ lock'[m] \in {"stop", "replace"}
  BY <1>1, <1>2, <1>3 DEF TuiInv, TypeOK
<1>5. \A n \in Managers \ {m} : slot[n].session # s
  BY <1>1, OthersDiffer, SlotAssumption
<1>6. \A t \in Sessions \ {s} : handle'[t] = handle[t]
  BY <1>2 DEF TuiInv, TypeOK
<1>7. \A n \in Managers \ {m} : lock'[n] = lock[n]
  BY <1>2 DEF TuiInv, TypeOK
<1>8. \A n \in Managers : slot[n].session # NoSession => slot[n].session \in Sessions
  BY Occupied DEF TuiInv, TypeOK
<1> QED
  BY <1>1, <1>2, <1>4, <1>5, <1>6, <1>7, <1>8, AliveKept, OneSlotMoves DEF At

LEMMA VacateHands ==
  ASSUME TuiInv, TuiInv', HandsInv, NEW m \in Managers, Vacate(m),
         \A n \in Managers \ {m} :
           /\ lock'[n] = lock[n]
           /\ \A s \in Sessions : <<n, s>> \in armed => <<n, s>> \in armed',
         \A s \in Sessions : handle'[s] \in {handle[s], "reaped"},
         UNCHANGED <<registry, held>>
  PROVE  HandsInv'
<1>1. slot' = [slot EXCEPT ![m] = EmptySlot]
  BY DEF Vacate
<1>2. slot'[m].state = "Empty" /\ slot'[m].session = NoSession
  BY <1>1 DEF EmptySlot, TuiInv, TypeOK
<1>3. \A n \in Managers \ {m} : slot'[n] = slot[n]
  BY <1>1 DEF TuiInv, TypeOK
<1>4. \A n \in Managers : slot[n].session # NoSession => slot[n].session \in Sessions
  BY DEF TuiInv, TypeOK, Slots
<1> QED
  BY <1>2, <1>3, <1>4, AliveKept, OneSlotMoves

LEMMA StopProvenHands ==
  ASSUME TuiInv, TuiInv', HandsInv, NEW m \in Managers, StopProven(m), UNCHANGED userVars
  PROVE  HandsInv'
<1> DEFINE s == slot[m].session
<1>1. At(m, "Running") /\ s \in Sessions
  BY Occupied DEF StopProven, At, TuiInv, LockInv
<1>2. handle' = [handle EXCEPT ![s] = "reaped"] /\ UNCHANGED <<armed, registry, held>>
  BY DEF StopProven, Reaped, userVars
<1>3. \A t \in Sessions : handle'[t] \in {handle[t], "reaped"}
  BY <1>2 DEF TuiInv, TypeOK
<1>4. CASE Lock(m, "free") /\ Vacate(m)
  <2>1. \A n \in Managers \ {m} : lock'[n] = lock[n]
    BY <1>4 DEF Lock, TuiInv, TypeOK
  <2> QED
    BY <1>2, <1>3, <1>4, <2>1, VacateHands
<1>5. CASE Lock(m, "spawn") /\ UNCHANGED <<slot, watched>>
  <2>1. \A n \in Managers \ {m} : lock'[n] = lock[n]
    BY <1>5 DEF Lock, TuiInv, TypeOK
  <2>2. handle'[s] = "reaped"
    BY <1>1, <1>2 DEF TuiInv, TypeOK
  <2>3. \A n \in Managers : slot[n].session # NoSession => slot[n].session \in Sessions
    BY DEF TuiInv, TypeOK, Slots
  <2>4. \A n \in Managers \ {m} : slot[n].session # s
    BY <1>1, OthersDiffer, SlotAssumption
  <2> QED
    BY <1>1, <1>2, <1>3, <1>5, <2>1, <2>2, <2>3, <2>4, AliveKept,
       OneSlotMoves
       DEF At
<1> QED
  BY <1>4, <1>5 DEF StopProven

LEMMA StopUnprovenHands ==
  ASSUME TuiInv, TuiInv', HandsInv, NEW m \in Managers, StopUnproven(m), UNCHANGED userVars
  PROVE  HandsInv'
<1> DEFINE s == slot[m].session
<1>1. At(m, "Running") /\ s \in Sessions
  BY Occupied DEF StopUnproven, At, TuiInv, LockInv
<1>2. /\ handle' = [handle EXCEPT ![s] = "waiter"]
      /\ slot' = [slot EXCEPT ![m] = Holding("Terminating", s)]
      /\ armed' = armed \cup {<<m, s>>}
      /\ lock' = [lock EXCEPT ![m] = "free"]
      /\ UNCHANGED <<registry, held>>
  BY DEF StopUnproven, Lock, userVars
<1>3. slot'[m] = Holding("Terminating", s)
  BY <1>2 DEF TuiInv, TypeOK
<1>4. slot'[m].session = s /\ slot'[m].state = "Terminating"
  BY <1>1, <1>3, HoldingIsSlot
<1>5. handle'[s] = "waiter" /\ <<m, s>> \in armed'
  BY <1>1, <1>2 DEF TuiInv, TypeOK
<1>6. \A n \in Managers \ {m} : slot[n].session # s
  BY <1>1, OthersDiffer, SlotAssumption
<1>7. \A n \in Managers \ {m} : slot'[n] = slot[n] /\ lock'[n] = lock[n]
  BY <1>2 DEF TuiInv, TypeOK
<1>8. \A t \in Sessions \ {s} : handle'[t] = handle[t]
  BY <1>2 DEF TuiInv, TypeOK
<1>9. \A n \in Managers : slot[n].session # NoSession => slot[n].session \in Sessions
  BY DEF TuiInv, TypeOK, Slots
<1>10. \A n \in Managers \ {m} : Alive(n)' => Alive(n)
  BY <1>2, <1>7, AliveKept
<1>11. \A n \in Managers \ {m}, t \in Sessions : <<n, t>> \in armed => <<n, t>> \in armed'
  BY <1>2
<1> HIDE DEF s
<1> QED
  BY <1>4, <1>5, <1>6, <1>7, <1>8, <1>9, <1>10, <1>11, OneSlotMoves

LEMMA SpawnHands ==
  ASSUME TuiInv, TuiInv', HandsInv, NEW m \in Managers, NEW s \in Sessions,
         Spawn(m, s), UNCHANGED userVars
  PROVE  HandsInv'
<1>1. /\ \A n \in Managers : slot[n].session # s
      /\ lock' = [lock EXCEPT ![m] = "free"]
      /\ handle' = [handle EXCEPT ![s] = "session"]
      /\ slot' = [slot EXCEPT ![m] = Holding("Running", s)]
      /\ UNCHANGED <<armed, registry, held>>
  BY DEF Spawn, Fresh, Lock, userVars
<1>2. slot'[m] = Holding("Running", s) /\ lock'[m] = "free" /\ handle'[s] = "session"
  BY <1>1 DEF TuiInv, TypeOK
<1>3. slot'[m].session = s /\ slot'[m].state = "Running"
  BY <1>2, HoldingIsSlot
<1>4. \A n \in Managers \ {m} : slot'[n] = slot[n] /\ lock'[n] = lock[n]
  BY <1>1 DEF TuiInv, TypeOK
<1>5. \A t \in Sessions \ {s} : handle'[t] = handle[t]
  BY <1>1 DEF TuiInv, TypeOK
<1>6. \A n \in Managers : slot[n].session # NoSession => slot[n].session \in Sessions
  BY DEF TuiInv, TypeOK, Slots
<1>7. \A n \in Managers \ {m} : Alive(n)' => Alive(n)
  BY <1>1, <1>4, AliveKept
<1>8. \A n \in Managers \ {m} :
        slot[n].session # NoSession =>
          /\ handle'[slot[n].session] = handle[slot[n].session]
          /\ slot[n].session # slot'[m].session
  BY <1>1, <1>3, <1>5, <1>6
<1>9. handle'[slot'[m].session] = "session" /\ lock'[m] = "free"
  BY <1>2, <1>3
<1> QED
  BY <1>1, <1>3, <1>4, <1>7, <1>8, <1>9, OneSlotMoves

LEMMA SpawnFailsHands ==
  ASSUME TuiInv, TuiInv', HandsInv, NEW m \in Managers, SpawnFails(m), UNCHANGED userVars
  PROVE  HandsInv'
<1>1. /\ lock[m] = "spawn" /\ lock' = [lock EXCEPT ![m] = "free"]
      /\ UNCHANGED <<slot, armed, registry, held>>
  BY DEF SpawnFails, Lock, userVars
<1>2. \A n \in Managers : slot[n].session # NoSession =>
        /\ slot[n].session \in Sessions
        /\ handle'[slot[n].session] = handle[slot[n].session]
  <2>1. CASE UNCHANGED handle
    BY <2>1 DEF TuiInv, TypeOK, Slots
  <2>2. ASSUME NEW s \in Sessions, Fresh(s), handle' = [handle EXCEPT ![s] = "guard"]
        PROVE  \A n \in Managers : slot[n].session # NoSession =>
                 /\ slot[n].session \in Sessions
                 /\ handle'[slot[n].session] = handle[slot[n].session]
    BY <2>2 DEF TuiInv, TypeOK, Slots, Fresh
  <2> QED
    BY <2>1, <2>2 DEF SpawnFails
<1>3. \A n \in Managers \ {m} : lock'[n] = lock[n] /\ (Alive(n)' => Alive(n))
  BY <1>1, AliveKept DEF TuiInv, TypeOK
<1>4. lock'[m] = "free" /\ Alive(m)
  BY <1>1 DEF TuiInv, TypeOK, Alive
<1>5. At(m, "Running") \/ At(m, "Terminating") => slot[m].session # NoSession
  BY DEF At, TuiInv, TypeOK
<1>6. At(m, "Running") => handle'[slot[m].session] \in {"reaped", "session"}
  BY <1>1, <1>2, <1>5 DEF HandsInv, RunningHandle
<1>7. At(m, "Terminating") => /\ handle'[slot[m].session] \in {"waiter", "reaped"}
                              /\ <<m, slot[m].session>> \in armed
  BY <1>2, <1>4, <1>5 DEF HandsInv, ClosedSlotHasReaper
<1>8. \A n \in Managers \ {m} :
        slot[n].session # NoSession => slot[m].session # slot[n].session
  BY DEF HandsInv, OneSlotPerSession
<1> QED
  BY <1>1, <1>2, <1>3, <1>4, <1>6, <1>7, <1>8, OneSlotMoves DEF At

\* The slot that opens loses its reaper; a manager that is gone keeps its slot
\* closed, and nobody can come by it any more.
LEMMA ReleaseHands ==
  ASSUME TuiInv, TuiInv', HandsInv, NEW m \in Managers, NEW s \in Sessions,
         ReleaseStep(m, s)
  PROVE  HandsInv'
<1>1. /\ armed' = armed \ {<<m, s>>}
      /\ UNCHANGED <<lock, handle, registry, held>>
      /\ \/ Alive(m) /\ ReleasedBy(m, s) /\ Vacate(m)
         \/ ~ (Alive(m) /\ ReleasedBy(m, s)) /\ UNCHANGED slot
  BY DEF ReleaseStep, Release, userVars
<1>2. \A n \in Managers \ {m}, t \in Sessions : <<n, t>> \in armed => <<n, t>> \in armed'
  BY <1>1
<1>3. CASE Vacate(m)
  BY <1>1, <1>2, <1>3, VacateHands
<1>4. CASE ~ (Alive(m) /\ ReleasedBy(m, s)) /\ UNCHANGED slot
  <2>1. \A n \in Managers : Alive(n)' <=> Alive(n)
    BY <1>1, AliveKept
  <2>2. ASSUME NEW n \in Managers, At(n, "Terminating"), Alive(n)
        PROVE  <<n, slot[n].session>> \in armed'
    BY <1>1, <1>4, <2>2 DEF HandsInv, ClosedSlotHasReaper, ReleasedBy
  <2>3. ClosedSlotHasReaper'
    BY <1>1, <1>4, <2>1, <2>2 DEF HandsInv, ClosedSlotHasReaper, At
  <2> QED
    BY <1>1, <1>4, <2>3 DEF HandsInv, OneSlotPerSession, RunningHandle, At
<1> QED
  BY <1>1, <1>3, <1>4

LEMMA BindHands ==
  ASSUME TuiInv, TuiInv', HandsInv, NEW u \in Users, Bind(u)
  PROVE  HandsInv'
<1>1. UNCHANGED <<lock, handle, armed>>
  BY DEF Bind
<1>2. CASE /\ registry # NoManager
           /\ held' = [held EXCEPT ![u] = registry]
           /\ UNCHANGED <<registry, slot>>
  <2>1. \A m \in Managers : Alive(m)' => Alive(m)
    BY <1>1, <1>2 DEF Alive, TuiInv, TypeOK
  <2> QED
    BY <1>1, <1>2, <2>1, SlotsLeftAlone
<1>3. ASSUME NEW m \in Managers, registry = NoManager, Unused(m), registry' = m,
             slot' = [slot EXCEPT ![m] = EmptySlot],
             held' = [held EXCEPT ![u] = m]
      PROVE  HandsInv'
  <2>1. \A n \in Managers \ {m} : slot'[n] = slot[n] /\ (Alive(n)' => Alive(n))
    BY <1>1, <1>3 DEF Alive, TuiInv, TypeOK
  <2>2. slot'[m].state = "Empty" /\ slot'[m].session = NoSession
    BY <1>3 DEF EmptySlot, TuiInv, TypeOK
  <2>3. \A n \in Managers : slot[n].session # NoSession => slot[n].session \in Sessions
    BY DEF TuiInv, TypeOK, Slots
  <2> QED
    BY <1>1, <2>1, <2>2, <2>3, OneSlotMoves
<1> QED
  BY <1>2, <1>3 DEF Bind

LEMMA OpenHands ==
  ASSUME TuiInv, TuiInv', HandsInv, NEW u \in Users, Open(u)
  PROVE  HandsInv'
<1> DEFINE m == held[u]
<1>1. /\ m \in Managers /\ UNCHANGED <<registry, latched, held>>
      /\ OpenSpawning(m) \/ OpenDead(m) \/ Restart(m)
  BY DEF Open, userVars, TuiInv, TypeOK
<1> HIDE DEF m
<1>2. CASE OpenSpawning(m)
  <2>1. /\ At(m, "Empty") /\ lock' = [lock EXCEPT ![m] = "spawn"]
        /\ UNCHANGED <<slot, handle, armed>>
    BY <1>1, <1>2 DEF OpenSpawning, Lock
  <2>2. \A n \in Managers \ {m} : lock'[n] = lock[n] /\ (Alive(n)' => Alive(n))
    BY <1>1, <2>1, AliveKept DEF TuiInv, TypeOK
  <2>3. slot[m].session = NoSession
    BY <1>1, <2>1 DEF TuiInv, TypeOK
  <2> QED
    BY <1>1, <2>1, <2>2, <2>3, OneSlotMoves DEF At
<1>3. CASE OpenDead(m) \/ Restart(m)
  BY <1>1, <1>3, KillHands DEF OpenDead, Restart
<1> QED
  BY <1>1, <1>2, <1>3

LEMMA RegistryHands ==
  ASSUME TuiInv, TuiInv', HandsInv, Close \/ Sweep
  PROVE  HandsInv'
<1>1. registry \in Managers /\ UNCHANGED <<registry, held>>
  BY DEF Close, Sweep, TuiInv, TypeOK
<1>2. CASE StopUnwatched(registry) \/ StopAllKill(registry)
  BY <1>1, <1>2, KillHands DEF StopUnwatched, StopAllKill
<1>3. CASE StopAllRelease(registry)
  <2>1. Vacate(registry) /\ UNCHANGED <<lock, handle, armed>>
    BY <1>3 DEF StopAllRelease
  <2> QED
    BY <1>1, <2>1, VacateHands
<1>4. CASE UNCHANGED tuiVars
  <2>1. UNCHANGED <<slot, lock, armed, handle>>
    BY <1>4 DEF tuiVars
  <2>2. \A m \in Managers : Alive(m)' => Alive(m)
    BY <1>1, <2>1, AliveKept
  <2> QED
    BY <2>1, <2>2, SlotsLeftAlone
<1> QED
  BY <1>2, <1>3, <1>4 DEF Close, Sweep

\* Users that leave, the end of a sweep, readers, viewers and children.
LEMMA QuietHands ==
  ASSUME TuiInv, HandsInv,
         \/ UNCHANGED vars
         \/ \E u \in Users : Unbind(u)
         \/ Return \/ Retain
         \/ \E m \in Managers : StreamStep(m)
         \/ \E s \in Sessions : ChildStep(s)
  PROVE  HandsInv'
<1>1. UNCHANGED <<slot, lock, armed>>
  BY DEF vars, tuiVars, Unbind, Return, Retain, StreamStep, StreamEnds, Watch,
         ChildStep,
         Exits, WaiterProves
<1>2. \A s \in Sessions : handle'[s] \in {handle[s], "reaped"}
  <2>1. ASSUME NEW s \in Sessions, WaiterProves(s)
        PROVE  \A t \in Sessions : handle'[t] \in {handle[t], "reaped"}
    BY <2>1 DEF WaiterProves, Reaped, TuiInv, TypeOK
  <2>2. CASE UNCHANGED handle
    BY <2>2
  <2> QED
    BY <2>1, <2>2
       DEF vars, tuiVars, Unbind, Return, Retain, StreamStep, StreamEnds,
           Watch,
           ChildStep, Exits
<1>3. registry' \in {registry, NoManager}
  BY DEF vars, userVars, Unbind, Return, Retain, StreamStep, ChildStep
<1>4. \A u \in Users : held'[u] \in {held[u], NoManager}
  BY DEF vars, userVars, Unbind, Return, Retain, StreamStep, ChildStep,
         TuiInv, TypeOK
<1>5. \A m \in Managers : Alive(m)' => Alive(m)
  BY <1>1, <1>3, <1>4, SlotAssumption DEF Alive
<1> QED
  BY <1>1, <1>2, <1>5, SlotsLeftAlone

LEMMA StepsKeepHandsInv == TuiInv /\ TuiInv' /\ HandsInv /\ [Next]_vars => HandsInv'
<1> SUFFICES ASSUME TuiInv, TuiInv', HandsInv, [Next]_vars PROVE HandsInv'
  OBVIOUS
<1>1. ASSUME NEW u \in Users, Bind(u) \/ Open(u) PROVE HandsInv'
  BY <1>1, BindHands, OpenHands
<1>2. ASSUME NEW m \in Managers, ManagerStep(m) PROVE HandsInv'
  BY <1>2, StopProvenHands, StopUnprovenHands, SpawnHands, SpawnFailsHands
     DEF ManagerStep
<1>3. ASSUME NEW m \in Managers, NEW s \in Sessions, ReleaseStep(m, s)
      PROVE  HandsInv'
  BY <1>3, ReleaseHands
<1> QED
  BY <1>1, <1>2, <1>3, RegistryHands, QuietHands DEF Next

\* The invariant of the registry: slots and locks, and who owes which wait.
LEMMA RegistryInvCorrect == Spec => [](TuiInv /\ HandsInv)
<1>1. TuiInv /\ HandsInv /\ [Next]_vars => (TuiInv /\ HandsInv)'
  BY StepsKeepTuiInv, StepsKeepHandsInv
<1>2. Init => TuiInv /\ HandsInv
  BY InitInv, InitHandsInv
<1> QED
  BY <1>1, <1>2, PTL DEF Spec

\* What a stop leaves closed opens again if the threads it left go on: a slot
\* that is terminating has a child somebody waits for or has seen exit, and an
\* armed reaper, for as long as its manager is there (stop_with_reap,
\* arm_termination_reap).
THEOREM ClosedSlotHasReaperCorrect == Spec => []ClosedSlotHasReaper
<1>1. HandsInv => ClosedSlotHasReaper
  BY DEF HandsInv
<1> QED
  BY <1>1, RegistryInvCorrect, PTL

----------------------------------------------------------------------------
(* A child whose end is awaited guards a slot.                             *)

\* Whose exit is still owed by a published session, has its manager.
OwedChildIsMade ==
  \A s \in Sessions :
    handle[s] \in {"session", "stopper", "waiter"} => maker[s] # NoManager

\* While somebody is stopping a child or waits for it, the slot of its manager
\* holds it, with the slot's lock held during the stop and closed afterwards.
OwedChildInSlot ==
  \A s \in Sessions :
    /\ handle[s] = "stopper" =>
         \E m \in Managers :
           /\ At(m, "Running") /\ slot[m].session = s
           /\ lock[m] \in {"stop", "replace"}
    /\ handle[s] = "waiter" =>
         \E m \in Managers : At(m, "Terminating") /\ slot[m].session = s

\* A handle passes from hand to hand under one maker, and ends with it.
HandsOn ==
  \/ UNCHANGED <<handle, maker>>
  \/ \E s \in Sessions, at \in {"stopper", "waiter"} :
       /\ handle[s] \in {"session", "stopper"}
       /\ handle' = [handle EXCEPT ![s] = at]
       /\ UNCHANGED maker
  \/ \E s \in Sessions, at \in {"reaped", "guard"} :
       /\ handle' = [handle EXCEPT ![s] = at]
       /\ maker' = [maker EXCEPT ![s] = NoManager]
  \/ \E s \in Sessions, m \in Managers :
       /\ handle' = [handle EXCEPT ![s] = "session"]
       /\ maker' = [maker EXCEPT ![s] = m]

LEMMA KillHandsOn ==
  ASSUME TuiInv, NEW m \in Managers, NEW at, Kill(m, at)
  PROVE  HandsOn
<1>1. slot[m].session \in Sessions
  BY Occupied DEF Kill, At, TuiInv
<1> QED
  BY <1>1 DEF Kill, HandsOn

LEMMA ManagerHandsOn ==
  ASSUME TuiInv, NEW m \in Managers, ManagerStep(m)
  PROVE  HandsOn
<1>1. ASSUME StopProven(m) \/ StopUnproven(m)
      PROVE  slot[m].session \in Sessions
  BY <1>1, Occupied DEF StopProven, StopUnproven, At, TuiInv, LockInv
<1>2. CASE StopProven(m)
  BY <1>1, <1>2 DEF StopProven, Reaped, HandsOn
<1>3. CASE StopUnproven(m)
  BY <1>1, <1>3 DEF StopUnproven, HandsOn
<1>4. CASE SpawnFails(m)
  BY <1>4 DEF SpawnFails, HandsOn
<1>5. ASSUME NEW s \in Sessions, Spawn(m, s) PROVE HandsOn
  BY <1>5 DEF Spawn, HandsOn
<1> QED
  BY <1>2, <1>3, <1>4, <1>5 DEF ManagerStep

LEMMA EachStepHandsOn == ASSUME TuiInv, [Next]_vars PROVE HandsOn
<1>1. ASSUME NEW u \in Users, Bind(u) \/ Unbind(u) PROVE HandsOn
  BY <1>1 DEF Bind, Unbind, tuiVars, HandsOn
<1>2. ASSUME NEW u \in Users, Open(u) PROVE HandsOn
  <2>1. held[u] \in Managers
    BY <1>2 DEF Open, TuiInv, TypeOK
  <2> QED
    BY <1>2, <2>1, KillHandsOn
       DEF Open, OpenSpawning, OpenDead, Restart, HandsOn
<1>3. CASE Close \/ Sweep
  <2>1. registry \in Managers
    BY <1>3 DEF Close, Sweep, TuiInv, TypeOK
  <2> QED
    BY <1>3, <2>1, KillHandsOn
       DEF Close, Sweep, StopUnwatched, StopAllKill, StopAllRelease, tuiVars,
           HandsOn
<1>4. CASE Return \/ Retain \/ UNCHANGED vars
  BY <1>4 DEF Return, Retain, vars, tuiVars, HandsOn
<1>5. ASSUME NEW m \in Managers, StreamStep(m) PROVE HandsOn
  BY <1>5 DEF StreamStep, StreamEnds, Watch, HandsOn
<1>6. ASSUME NEW m \in Managers, NEW s \in Sessions, ReleaseStep(m, s)
      PROVE  HandsOn
  BY <1>6 DEF ReleaseStep, Release, HandsOn
<1>7. ASSUME NEW s \in Sessions, ChildStep(s) PROVE HandsOn
  BY <1>7 DEF ChildStep, Exits, WaiterProves, Reaped, HandsOn
<1> QED
  BY <1>1, <1>2, <1>3, <1>4, <1>5, <1>6, <1>7, ManagerHandsOn DEF Next

LEMMA OwedNext == TuiInv /\ OwedChildIsMade /\ [Next]_vars => OwedChildIsMade'
<1> SUFFICES ASSUME TypeOK, OwedChildIsMade, HandsOn PROVE OwedChildIsMade'
  BY EachStepHandsOn DEF TuiInv
<1>1. CASE UNCHANGED <<handle, maker>>
  BY <1>1 DEF OwedChildIsMade
<1>2. ASSUME NEW s \in Sessions, NEW at \in {"stopper", "waiter"},
             handle[s] \in {"session", "stopper"},
             handle' = [handle EXCEPT ![s] = at], UNCHANGED maker
      PROVE  OwedChildIsMade'
  BY <1>2 DEF OwedChildIsMade, TypeOK
<1>3. ASSUME NEW s \in Sessions, NEW at \in {"reaped", "guard"},
             handle' = [handle EXCEPT ![s] = at],
             maker' = [maker EXCEPT ![s] = NoManager]
      PROVE  OwedChildIsMade'
  BY <1>3 DEF OwedChildIsMade, TypeOK
<1>4. ASSUME NEW s \in Sessions, NEW m \in Managers,
             handle' = [handle EXCEPT ![s] = "session"],
             maker' = [maker EXCEPT ![s] = m]
      PROVE  OwedChildIsMade'
  BY <1>4, SlotAssumption DEF OwedChildIsMade, TypeOK
<1> QED
  BY <1>1, <1>2, <1>3, <1>4 DEF HandsOn

LEMMA OwedIsInSlot == TuiInv /\ HandsInv /\ OwedChildIsMade => OwedChildInSlot
<1> SUFFICES ASSUME TuiInv, HandsInv, OwedChildIsMade, NEW s \in Sessions,
                    handle[s] \in {"stopper", "waiter"}
             PROVE  \E m \in Managers :
                      /\ slot[m].session = s
                      /\ handle[s] = "stopper" =>
                           At(m, "Running") /\ lock[m] \in {"stop", "replace"}
                      /\ handle[s] = "waiter" => At(m, "Terminating")
  BY DEF OwedChildInSlot
<1> DEFINE m == maker[s]
<1>1. m \in Managers /\ slot[m].session = s
  BY DEF OwedChildIsMade, TuiInv, TypeOK, ChildInItsSlot
<1>2. At(m, "Running") \/ At(m, "Terminating")
  BY <1>1, SlotAssumption DEF TuiInv, TypeOK, Slots, At
<1>3. CASE At(m, "Running")
  BY <1>1, <1>3 DEF HandsInv, RunningHandle
<1>4. CASE At(m, "Terminating")
  BY <1>1, <1>4 DEF HandsInv, ClosedSlotHasReaper
<1> QED
  BY <1>1, <1>2, <1>3, <1>4

\* A child that is being stopped or waited for guards the slot it is in: no
\* sweep, failed spawn or reaper of another session takes it out before its exit
\* is proven (stop_with_reap, arm_termination_reap, stop_all).
THEOREM OwedChildInSlotCorrect == Spec => []OwedChildInSlot
<1>1. Init => OwedChildIsMade
  BY DEF Init, InitTui, OwedChildIsMade
<1> QED
  BY <1>1, OwedNext, OwedIsInSlot, RegistryInvCorrect, PTL DEF Spec
=============================================================================
