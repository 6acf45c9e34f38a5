----------------------------- MODULE TuiManager -----------------------------
(***************************************************************************)
(* TuiManager (shardlane-host/src/shared_tui.rs): the slot that owns the   *)
(* one Herdr TUI child of an instance, and the life of a child from its    *)
(* spawn to the proof that the OS has reaped it.                           *)
(*                                                                         *)
(* Every operation of a manager holds the slot lock.  The ones that stop a *)
(* child hold it for the five seconds that the exit may take and, when     *)
(* they spawn a successor, until that is done; meanwhile the child, its    *)
(* reader and the threads that wait for it go on.  lock is where the       *)
(* holder stands.                                                          *)
(***************************************************************************)
EXTENDS Naturals

CONSTANTS
  Managers,   \* TuiManager objects
  Sessions,   \* HerdrTuiSession objects, each with the child it was made for
  NoManager, NoSession

VARIABLES
  slot,      \* what each manager holds
  lock,      \* where the holder of its slot lock stands
  os,        \* each child, as the operating system sees it
  handle,    \* who can wait for it: the handle of a child has one owner
  running,   \* the status of the session in each slot is Running
  watched,   \* the session in each slot has viewers
  maker,     \* the manager that published a child which may still live
  armed      \* armed reapers: which slot they will release, for which session

tuiVars == <<slot, lock, os, handle, running, watched, maker, armed>>

ASSUME SlotAssumption == NoSession \notin Sessions /\ NoManager \notin Managers

Slots   == [state : {"Empty", "Running", "Terminating"},
            session : Sessions \cup {NoSession}]
Locks   == {"free", "stop", "replace", "spawn"}
Oses    == {"alive", "killed", "exited"}
Handles == {"session", "stopper", "waiter", "guard", "reaped"}

EmptySlot      == [state |-> "Empty", session |-> NoSession]
Holding(st, s) == [state |-> st, session |-> s]

\* A session that has not been made yet is like one whose child is reaped.
InitTui ==
  /\ slot = [m \in Managers |-> EmptySlot]
  /\ lock = [m \in Managers |-> "free"]
  /\ os = [s \in Sessions |-> "exited"]
  /\ handle = [s \in Sessions |-> "reaped"]
  /\ running = [m \in Managers |-> FALSE]
  /\ watched = [m \in Managers |-> FALSE]
  /\ maker = [s \in Sessions |-> NoManager]
  /\ armed = {}

At(m, st) == slot[m].state = st
Lock(m, at) == lock' = [lock EXCEPT ![m] = at]

\* The exit of the child has not been proven.
Unproven(s) == handle[s] # "reaped"

\* Nobody refers to s any more: its name may stand for the next session.
Fresh(s) ==
  /\ ~ Unproven(s)
  /\ \A m \in Managers : slot[m].session # s /\ <<m, s>> \notin armed

Reaped(s) ==
  /\ handle' = [handle EXCEPT ![s] = "reaped"]
  /\ maker' = [maker EXCEPT ![s] = NoManager]

\* Mutant: the slot keeps the session it released.
VacateKeepingSession(m) ==
  /\ slot' = [slot EXCEPT ![m].state = "Empty"]
  /\ watched' = [watched EXCEPT ![m] = FALSE]

\* Who still views a session that has left its slot matters to nobody.
Vacate(m) ==
  /\ slot' = [slot EXCEPT ![m] = EmptySlot]
  /\ watched' = [watched EXCEPT ![m] = FALSE]

----------------------------------------------------------------------------
(* stop_with_reap.                                                         *)

\* The stopper takes the handle and kills.  When another stopper has taken it
\* before, only its proof counts.
Kill(m, at) ==
  LET s == slot[m].session IN
  /\ At(m, "Running")
  /\ Lock(m, at)
  /\ IF handle[s] = "session"
       THEN /\ handle' = [handle EXCEPT ![s] = "stopper"]
            /\ os' = [os EXCEPT ![s] = IF @ = "alive" THEN "killed" ELSE @]
       ELSE UNCHANGED <<handle, os>>
  /\ UNCHANGED <<slot, running, watched, maker, armed>>

\* The exit is seen before the barrier falls: a stop releases the slot, a
\* replacement goes on to spawn.
StopProven(m) ==
  LET s == slot[m].session IN
  /\ lock[m] \in {"stop", "replace"}
  /\ os[s] = "exited"
  /\ handle[s] \in {"stopper", "reaped"}
  /\ Reaped(s)
  /\ running' = [running EXCEPT ![m] = FALSE]
  /\ \/ lock[m] = "stop" /\ Lock(m, "free") /\ Vacate(m)
     \/ lock[m] = "replace" /\ Lock(m, "spawn") /\ UNCHANGED <<slot, watched>>
  /\ UNCHANGED <<os, armed>>

\* Mutant: nobody is left to release the slot.
StopUnprovenUnarmed(m) ==
  LET s == slot[m].session IN
  /\ lock[m] \in {"stop", "replace"}
  /\ handle[s] = "stopper"
  /\ handle' = [handle EXCEPT ![s] = "waiter"]
  /\ running' = [running EXCEPT ![m] = FALSE]
  /\ slot' = [slot EXCEPT ![m] = Holding("Terminating", s)]
  /\ Lock(m, "free")
  /\ UNCHANGED <<os, watched, maker, armed>>

\* The barrier falls first, or try_wait fails: a thread waits for the child,
\* the slot stays closed and its release is armed.
StopUnproven(m) ==
  LET s == slot[m].session IN
  /\ lock[m] \in {"stop", "replace"}
  /\ handle[s] = "stopper"
  /\ handle' = [handle EXCEPT ![s] = "waiter"]
  /\ running' = [running EXCEPT ![m] = FALSE]
  /\ slot' = [slot EXCEPT ![m] = Holding("Terminating", s)]
  /\ armed' = armed \cup {<<m, s>>}
  /\ Lock(m, "free")
  /\ UNCHANGED <<os, watched, maker>>

\* Child::wait returns in the thread that stop_with_reap, or the guard of a
\* child that was never published, left behind.
WaiterProves(s) ==
  /\ handle[s] \in {"waiter", "guard"}
  /\ os[s] = "exited"
  /\ Reaped(s)
  /\ UNCHANGED <<slot, lock, os, running, watched, armed>>

\* Mutant: whatever is being terminated is released.
ReleasedByAny(m, s) == At(m, "Terminating")

\* The slot may belong to a later session by now.
ReleasedBy(m, s) == At(m, "Terminating") /\ slot[m].session = s

\* arm_termination_reap wakes up; a manager that is gone is not upgraded.
Release(m, s, alive) ==
  /\ <<m, s>> \in armed
  /\ handle[s] = "reaped"
  /\ alive => lock[m] = "free"
  /\ armed' = armed \ {<<m, s>>}
  /\ IF alive /\ ReleasedBy(m, s) THEN Vacate(m) ELSE UNCHANGED <<slot, watched>>
  /\ UNCHANGED <<lock, os, handle, running, maker>>

----------------------------------------------------------------------------
(* The operations.                                                         *)

\* open: a running session is shared, a slot that is still closed refuses, a
\* dead session must be proven dead first.
OpenSpawning(m) ==
  /\ lock[m] = "free"
  /\ At(m, "Empty")
  /\ Lock(m, "spawn")
  /\ UNCHANGED <<slot, os, handle, running, watched, maker, armed>>

OpenDead(m) ==
  /\ lock[m] = "free"
  /\ At(m, "Running")
  /\ ~ running[m]
  /\ Kill(m, "replace")

\* restart: as open, but a running session is stopped as well.
Restart(m) ==
  /\ lock[m] = "free"
  /\ Kill(m, "replace")

\* spawn_tui_session returns.  A failure leaves the slot as it was; one that
\* comes after the OS spawn leaves a killed child to the thread of its guard.
Spawn(m, s) ==
  /\ lock[m] = "spawn"
  /\ Fresh(s)
  /\ Lock(m, "free")
  /\ os' = [os EXCEPT ![s] = "alive"]
  /\ handle' = [handle EXCEPT ![s] = "session"]
  /\ running' = [running EXCEPT ![m] = TRUE]
  /\ maker' = [maker EXCEPT ![s] = m]
  /\ slot' = [slot EXCEPT ![m] = Holding("Running", s)]
  /\ watched' = [watched EXCEPT ![m] = FALSE]
  /\ UNCHANGED armed

SpawnFails(m) ==
  /\ lock[m] = "spawn"
  /\ Lock(m, "free")
  /\ \/ UNCHANGED <<os, handle, maker>>
     \/ \E s \in Sessions : /\ Fresh(s)
                            /\ os' = [os EXCEPT ![s] = "killed"]
                            /\ handle' = [handle EXCEPT ![s] = "guard"]
                            /\ maker' = [maker EXCEPT ![s] = NoManager]
  /\ UNCHANGED <<slot, running, watched, armed>>

\* close of the session's last viewer and reap_idle.
StopUnwatched(m) ==
  /\ lock[m] = "free"
  /\ At(m, "Running")
  /\ ~ watched[m]
  /\ Kill(m, "stop")

\* stop_all: kill what runs, release what has been proven dead meanwhile.
StopAllKill(m) ==
  /\ lock[m] = "free"
  /\ Kill(m, "stop")

StopAllRelease(m) ==
  /\ lock[m] = "free"
  /\ At(m, "Terminating")
  /\ handle[slot[m].session] = "reaped"
  /\ Vacate(m)
  /\ UNCHANGED <<lock, os, handle, running, maker, armed>>

----------------------------------------------------------------------------
(* Children, readers and viewers.                                          *)

\* A child leaves when it is killed, or by itself.
Exits(s) ==
  /\ os[s] \in {"alive", "killed"}
  /\ os' = [os EXCEPT ![s] = "exited"]
  /\ UNCHANGED <<slot, lock, handle, running, watched, maker, armed>>

\* The reader meets the end of the PTY, which says nothing about the child, or
\* the reader or the writer fails.
StreamEnds(m) ==
  /\ running[m]
  /\ running' = [running EXCEPT ![m] = FALSE]
  /\ UNCHANGED <<slot, lock, os, handle, watched, maker, armed>>

\* The first viewer attaches or the last one leaves.
Watch(m) ==
  /\ At(m, "Running")
  /\ watched' = [watched EXCEPT ![m] = ~ @]
  /\ UNCHANGED <<slot, lock, os, handle, running, maker, armed>>
=============================================================================
