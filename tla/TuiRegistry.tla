---------------------------- MODULE TuiRegistry ----------------------------
(***************************************************************************)
(* TuiManagerRegistry (shardlane-host/src/shared_tui.rs) and its users:    *)
(* desktop windows, which keep the manager that they looked up when they   *)
(* were bound (herdr-gui/src/main.rs, shell_tui.rs), and Remote requests,  *)
(* which look it up each time (shardlane-remote/src/tui.rs).  The desktop  *)
(* and the Remote server sweep the registry now and then.                  *)
(*                                                                         *)
(* One instance is modelled: managers of different instances share no      *)
(* state but the registry lock.                                            *)
(***************************************************************************)
EXTENDS TuiManager

CONSTANTS Users

VARIABLES
  registry,   \* the manager registered for the instance
  latched,    \* who holds the registry lock: a call that stops, or a sweep
  held        \* the manager that each user holds

vars == <<slot, lock, os, handle, running, watched, maker, armed,
          registry, latched, held>>
userVars == <<registry, latched, held>>

TypeOK ==
  /\ slot \in [Managers -> Slots]
  /\ lock \in [Managers -> Locks]
  /\ os \in [Sessions -> Oses]
  /\ handle \in [Sessions -> Handles]
  /\ running \in [Managers -> BOOLEAN]
  /\ watched \in [Managers -> BOOLEAN]
  /\ maker \in [Sessions -> Managers \cup {NoManager}]
  /\ armed \subseteq Managers \X Sessions
  /\ registry \in Managers \cup {NoManager}
  /\ latched \in {"free", "stop", "sweep"}
  /\ held \in [Users -> Managers \cup {NoManager}]
  /\ \A m \in Managers : At(m, "Empty") <=> slot[m].session = NoSession

Init ==
  /\ InitTui
  /\ registry = NoManager
  /\ latched = "free"
  /\ held = [u \in Users |-> NoManager]

\* Somebody has an Arc of the manager; a call in progress has one of its own.
Alive(m) == m = registry \/ lock[m] # "free" \/ \E u \in Users : held[u] = m

\* Nobody refers to m any more: its name may stand for the next manager.
Unused(m) ==
  /\ ~ Alive(m)
  /\ \A s \in Sessions : <<m, s>> \notin armed /\ maker[s] # m

----------------------------------------------------------------------------
(* Users.                                                                  *)

\* get_or_create: a window is bound to the instance, or a request begins.
Bind(u) ==
  /\ latched = "free"
  /\ \/ /\ registry # NoManager
        /\ held' = [held EXCEPT ![u] = registry]
        /\ UNCHANGED <<registry, slot, running, watched>>
     \/ \E m \in Managers :
          /\ registry = NoManager
          /\ Unused(m)
          /\ registry' = m
          /\ slot' = [slot EXCEPT ![m] = EmptySlot]
          /\ running' = [running EXCEPT ![m] = FALSE]
          /\ watched' = [watched EXCEPT ![m] = FALSE]
          /\ held' = [held EXCEPT ![u] = m]
  /\ UNCHANGED <<lock, os, handle, maker, armed, latched>>

\* The window is bound elsewhere or closed, the request has been served.
Unbind(u) ==
  /\ held[u] # NoManager
  /\ held' = [held EXCEPT ![u] = NoManager]
  /\ UNCHANGED <<tuiVars, registry, latched>>

Open(u) ==
  /\ held[u] # NoManager
  /\ OpenSpawning(held[u]) \/ OpenDead(held[u]) \/ Restart(held[u])
  /\ UNCHANGED userVars

----------------------------------------------------------------------------
(* Calls through the registry; they keep its lock until they return.       *)

\* close_session, and stop_all_managers when the application quits.
Close ==
  /\ latched = "free"
  /\ registry # NoManager
  /\ \/ StopUnwatched(registry) /\ latched' = "stop"
     \/ StopAllKill(registry) /\ latched' = "stop"
     \/ StopAllRelease(registry) /\ UNCHANGED latched
  /\ UNCHANGED <<registry, held>>

Return ==
  /\ latched = "stop"
  /\ lock[registry] # "stop"
  /\ latched' = "free"
  /\ UNCHANGED <<tuiVars, registry, held>>

\* reap_idle_all: reap, then look again and drop the manager if it is empty.
\* The idle lease is a matter of time: an unwatched session may be idle.
Sweep ==
  /\ latched = "free"
  /\ registry # NoManager
  /\ latched' = "sweep"
  /\ \/ StopUnwatched(registry)
     \/ lock[registry] = "free" /\ UNCHANGED tuiVars
  /\ UNCHANGED <<registry, held>>

Retain ==
  /\ latched = "sweep"
  /\ lock[registry] = "free"
  /\ latched' = "free"
  /\ registry' = IF At(registry, "Empty") THEN NoManager ELSE registry
  /\ UNCHANGED <<tuiVars, held>>

----------------------------------------------------------------------------
ManagerStep(m) ==
  /\ \/ StopProven(m)
     \/ StopUnproven(m)
     \/ SpawnFails(m)
     \/ \E s \in Sessions : Spawn(m, s)
  /\ UNCHANGED userVars

StreamStep(m) ==
  /\ StreamEnds(m) \/ Watch(m)
  /\ UNCHANGED userVars
ReleaseStep(m, s) == Release(m, s, Alive(m)) /\ UNCHANGED userVars

ChildStep(s) ==
  /\ Exits(s) \/ WaiterProves(s)
  /\ UNCHANGED userVars

Next ==
  \/ \E u \in Users : Bind(u) \/ Unbind(u) \/ Open(u)
  \/ Close \/ Return \/ Sweep \/ Retain
  \/ \E m \in Managers : ManagerStep(m) \/ StreamStep(m)
  \/ \E m \in Managers, s \in Sessions : ReleaseStep(m, s)
  \/ \E s \in Sessions : ChildStep(s)

Spec == Init /\ [][Next]_vars

\* A killed child dies and the threads that wait for it and that hold a slot
\* lock go on; nothing obliges a user, a viewer or a sweep.
FairSpec ==
  /\ Spec
  /\ \A m \in Managers : WF_vars(ManagerStep(m))
  /\ \A m \in Managers, s \in Sessions : WF_vars(ReleaseStep(m, s))
  /\ \A s \in Sessions :
       /\ WF_vars(os[s] = "killed" /\ Exits(s) /\ UNCHANGED userVars)
       /\ WF_vars(WaiterProves(s) /\ UNCHANGED userVars)

----------------------------------------------------------------------------
(* Properties.                                                             *)

\* A child that was published and is not proven dead is in the slot of its
\* manager: no successor is spawned beside it, however a kill that takes long,
\* an early end of the stream, a failed spawn, an application quit and a late
\* reaper of an earlier session interleave.
ChildInItsSlot ==
  \A s \in Sessions :
    maker[s] # NoManager => slot[maker[s]].session = s

\* A slot that a stop left closed can open again: somebody still waits for its
\* child or has seen it exit, and the thread that releases this slot for this
\* session is armed as long as the manager is there to be upgraded.  A reaper
\* of an earlier session, stop_all or a sweep does not take it away.
ClosedSlotHasReaper ==
  \A m \in Managers :
    At(m, "Terminating") =>
      /\ handle[slot[m].session] \in {"waiter", "reaped"}
      /\ Alive(m) => <<m, slot[m].session>> \in armed

\* A slot that waits for a killed child is released in the end, unless its
\* manager has gone.
SlotReleased ==
  \A m \in Managers :
    At(m, "Terminating") ~> At(m, "Empty") \/ ~ Alive(m)

\* The registry's promise: at most one hosted child per instance.
OneChildPerInstance ==
  \A s, t \in Sessions :
    maker[s] # NoManager /\ maker[t] # NoManager => s = t
=============================================================================
