---------------------------- MODULE LiveSessions -----------------------------
(***************************************************************************)
(* The live conversation sessions of the Host (conversation_sessions.rs)   *)
(* for one source: a map entry that holds the one incremental session of   *)
(* the source, leases of the desktop's Chat workers that keep it and drive *)
(* its sync, shared reads of the Remote that must not take what a lease    *)
(* holder has yet to see, and a reaper of sessions that nobody uses.       *)
(*                                                                         *)
(* A message is the number of the rewrite of the file that wrote it. A     *)
(* session mutex is held for one step here: the reaper passes over a busy  *)
(* session.                                                                *)
(***************************************************************************)
EXTENDS Integers, Sequences, FiniteSets

CONSTANTS
  Workers,      \* Chat workers, one to a window
  Readers,      \* threads that serve shared reads
  MaxMessages,  \* bound on the length of the file
  MaxRewrites,  \* bound on its rewrites
  NoSession, NoDelta, NoView

ASSUME BoundsAssumption ==
  MaxMessages \in Nat /\ MaxRewrites \in Nat /\ IsFiniteSet(Workers)

VARIABLES
  file,     \* [rewrite, len] of the provider's file
  live,     \* the session in the map, or NoSession
  pc,       \* [Workers -> where its task stands]
  view,     \* [Workers -> the messages its Chat shows, or NoView]
  got,      \* [Workers -> a result that is not applied yet, or NoDelta]
  mine,     \* workers whose background sync is under way, with a lease clone
  stray,    \* workers with a background sync from before they were hidden
  hydrated, \* [Workers \cup Readers -> what was read when a session was opened]
  rpc,      \* [Readers -> where its call stands]
  sole      \* history: workers that alone lease a session opened for them

workerVars == <<pc, view, got, mine, stray, sole>>
vars == <<file, live, workerVars, hydrated, rpc>>

Messages == 0 .. MaxRewrites
Lists == UNION {[1 .. n -> Messages] : n \in 0 .. MaxMessages}
\* ManagedSession with the report of its LiveSession; `recent` says that
\* last_shared_read is within the retention.
Sessions == [content : Lists, delivered : BOOLEAN,
             subscribers : Nat, recent : BOOLEAN]
Deltas == [kind : {"appended", "reset"}, from : Nat, messages : Lists]

ASSUME NullsAssumption ==
  NoSession \notin Sessions /\ NoDelta \notin Deltas /\ NoView \notin Lists

Init ==
  /\ file \in {[rewrite |-> 0, len |-> n] : n \in 0 .. MaxMessages}
  /\ live = NoSession
  /\ pc = [w \in Workers |-> "hidden"]
  /\ view = [w \in Workers |-> NoView]
  /\ got = [w \in Workers |-> NoDelta]
  /\ mine = {} /\ stray = {} /\ sole = {}
  /\ hydrated = [t \in Workers \cup Readers |-> <<>>]
  /\ rpc = [r \in Readers |-> "idle"]

----------------------------------------------------------------------------
\* The provider's file.

Text(n) == [i \in 1 .. n |-> file.rewrite]

Write ==
  /\ \/ file.len < MaxMessages /\ file' = [file EXCEPT !.len = @ + 1]
     \/ /\ file.rewrite < MaxRewrites
        /\ \E n \in 0 .. MaxMessages :
             file' = [rewrite |-> file.rewrite + 1, len |-> n]
  /\ UNCHANGED <<live, workerVars, hydrated, rpc>>

----------------------------------------------------------------------------
\* LiveSession.

Opened(content) ==
  [content |-> content, delivered |-> FALSE, subscribers |-> 0, recent |-> TRUE]

Unchanged == [kind |-> "unchanged", from |-> 1, messages |-> <<>>]

\* poll() compares lengths: growth is read from where the session stands, and
\* only a file that shrank is read anew.
Shrunk == file.len < Len(live.content)
Unread == SubSeq(Text(file.len), Len(live.content) + 1, file.len)
Fed == IF Shrunk THEN Text(file.len) ELSE live.content \o Unread

\* sync() reports only what was not reported before.
Report ==
  IF Shrunk THEN [kind |-> "reset", from |-> 1, messages |-> Fed]
  ELSE IF Unread = <<>> THEN Unchanged
  ELSE [kind |-> "appended", from |-> Len(live.content) + 1, messages |-> Unread]

\* initial_delivery(): everything, once in the life of a session.
InitialReport ==
  IF live.delivered THEN Unchanged
  ELSE [kind |-> "appended", from |-> 1, messages |-> live.content]

\* Mutant: applies whatever comes back.
WorthAnyway(delta) == delta

\* A result without a change is not applied (apply_chat_sync_result).
Worth(delta) == IF delta = Unchanged THEN NoDelta ELSE delta

\* upsert_batch(): indices beyond the end are skipped.
Upsert(shown, delta) ==
  IF delta.from > Len(shown) + 1 THEN shown
  ELSE LET last == delta.from + Len(delta.messages) - 1
       IN  SubSeq(shown, 1, delta.from - 1) \o delta.messages
             \o SubSeq(shown, last + 1, Len(shown))

\* apply_sync(): a first delivery is installed as if it were all there is.
Applied(shown, delta) ==
  IF delta.kind = "reset" \/ shown = NoView THEN delta.messages
  ELSE Upsert(shown, delta)

----------------------------------------------------------------------------
\* Leases.

\* The last lease to go counts as a read, so that of a leased session `recent`
\* says nothing.
Lease(session) == [session EXCEPT !.subscribers = @ + 1, !.recent = TRUE]
Unlease(session) == [session EXCEPT !.subscribers = @ - 1]

\* History: whether w alone leases a session whose content nobody was given yet.
Acquire(w, session) ==
  /\ live' = Lease(session)
  /\ sole' = IF session.subscribers = 0 /\ ~ session.delivered /\ view[w] = NoView
               THEN {w} ELSE {}

\* subscribe(): adopts the entry of the source, or opens a session outside the
\* map's lock and takes the entry that is there when it comes back.
Subscribe(w) ==
  /\ pc[w] = "hidden"
  /\ IF live = NoSession
       THEN pc' = [pc EXCEPT ![w] = "missed"] /\ UNCHANGED <<live, sole>>
       ELSE pc' = [pc EXCEPT ![w] = "leased"] /\ Acquire(w, live)
  /\ UNCHANGED <<file, view, got, mine, stray, hydrated, rpc>>

OpenForLease(w) ==
  /\ pc[w] = "missed"
  /\ pc' = [pc EXCEPT ![w] = "opened"]
  /\ hydrated' = [hydrated EXCEPT ![w] = Text(file.len)]
  /\ UNCHANGED <<file, live, view, got, mine, stray, sole, rpc>>

\* Mutant: replaces the entry that another thread made meanwhile.
InsertLeasedOver(w) ==
  /\ pc[w] = "opened"
  /\ pc' = [pc EXCEPT ![w] = "leased"]
  /\ Acquire(w, Opened(hydrated[w]))
  /\ hydrated' = [hydrated EXCEPT ![w] = <<>>]
  /\ UNCHANGED <<file, view, got, mine, stray, rpc>>

InsertLeased(w) ==
  /\ pc[w] = "opened"
  /\ pc' = [pc EXCEPT ![w] = "leased"]
  /\ Acquire(w, IF live = NoSession THEN Opened(hydrated[w]) ELSE live)
  /\ hydrated' = [hydrated EXCEPT ![w] = <<>>]
  /\ UNCHANGED <<file, view, got, mine, stray, rpc>>

Deliver(w) ==
  /\ pc[w] = "leased"
  /\ pc' = [pc EXCEPT ![w] = "watching"]
  /\ got' = [got EXCEPT ![w] = Worth(InitialReport)]
  /\ live' = [live EXCEPT !.delivered = TRUE]
  /\ UNCHANGED <<file, view, mine, stray, sole, hydrated, rpc>>

Apply(w) ==
  /\ got[w] # NoDelta
  /\ view' = [view EXCEPT ![w] = Applied(view[w], got[w])]
  /\ got' = [got EXCEPT ![w] = NoDelta]
  /\ UNCHANGED <<file, live, pc, mine, stray, sole, hydrated, rpc>>

\* A round of the worker clones its lease for a sync in the background.
StartSync(w) ==
  /\ pc[w] = "watching" /\ got[w] = NoDelta /\ w \notin mine
  /\ mine' = mine \cup {w}
  /\ live' = Lease(live)
  /\ UNCHANGED <<file, pc, view, got, stray, sole, hydrated, rpc>>

\* The mutex of the session is held while the file is read; then the clone goes.
Sync == live' = Unlease([live EXCEPT !.content = Fed])

RunSync(w) ==
  /\ w \in mine
  /\ Sync
  /\ got' = [got EXCEPT ![w] = Worth(Report)]
  /\ mine' = mine \ {w}
  /\ UNCHANGED <<file, pc, view, stray, sole, hydrated, rpc>>

\* The Chat is hidden or bound to another source: the task and its lease are
\* dropped, with what it had not applied.  A sync that runs in the background
\* runs on.  Another binding resets what is shown.
Hide(w) ==
  /\ pc[w] = "watching"
  /\ w \in mine => w \notin stray
  /\ pc' = [pc EXCEPT ![w] = "hidden"]
  /\ live' = Unlease(live)
  /\ got' = [got EXCEPT ![w] = NoDelta]
  /\ stray' = stray \cup (mine \cap {w})
  /\ mine' = mine \ {w}
  /\ sole' = sole \ {w}
  /\ \E shown \in {view[w], NoView} : view' = [view EXCEPT ![w] = shown]
  /\ UNCHANGED <<file, hydrated, rpc>>

\* The Chat is bound to another source and back within a round of its worker,
\* which notices nothing and keeps its lease: only what is shown is reset.
Rebound(w) ==
  /\ pc[w] # "hidden"
  /\ view' = [view EXCEPT ![w] = NoView]
  /\ sole' = sole \ {w}
  /\ UNCHANGED <<file, live, pc, got, mine, stray, hydrated, rpc>>

\* What a left-over sync reports is lost, unless it never started.
EndStray(w) ==
  /\ w \in stray
  /\ Sync \/ live' = Unlease(live)
  /\ stray' = stray \ {w}
  /\ UNCHANGED <<file, pc, view, got, mine, sole, hydrated, rpc>>

----------------------------------------------------------------------------
\* Shared reads and the reaper.

\* Mutant: only sessions that were never leased are reaped.
ReapableNeverLeased(session) ==
  /\ session # NoSession
  /\ session.subscribers = 0 /\ ~ session.recent /\ ~ session.delivered

Reapable(session) ==
  session # NoSession /\ session.subscribers = 0 /\ ~ session.recent
Kept == IF Reapable(live) THEN NoSession ELSE live

\* A reader keeps the session it cloned out of the map, reaped or not.
Orphaned == [r \in Readers |->
  IF Reapable(live) /\ rpc[r] = "cloned" THEN "orphaned" ELSE rpc[r]]

\* shared_snapshot(): reaps, then clones the entry out of the map.
Look(r) ==
  /\ rpc[r] = "idle"
  /\ live' = Kept
  /\ rpc' = [Orphaned EXCEPT ![r] = IF Kept = NoSession THEN "missed" ELSE "cloned"]
  /\ UNCHANGED <<file, workerVars, hydrated>>

Touched(session) == [session EXCEPT !.recent = TRUE]

\* Mutant: syncs a session that a worker leases.
ReadDraining(r) ==
  /\ rpc[r] = "cloned"
  /\ live' = Touched([live EXCEPT !.content = Fed])
  /\ rpc' = [rpc EXCEPT ![r] = "idle"]
  /\ UNCHANGED <<file, workerVars, hydrated>>

\* Whether the session is leased is decided under its mutex.
Read(r) ==
  /\ rpc[r] = "cloned"
  /\ live' = Touched(IF live.subscribers = 0 THEN [live EXCEPT !.content = Fed]
                     ELSE live)
  /\ rpc' = [rpc EXCEPT ![r] = "idle"]
  /\ UNCHANGED <<file, workerVars, hydrated>>

ReadOrphan(r) ==
  /\ rpc[r] = "orphaned"
  /\ rpc' = [rpc EXCEPT ![r] = "idle"]
  /\ UNCHANGED <<file, live, workerVars, hydrated>>

OpenShared(r) ==
  /\ rpc[r] = "missed"
  /\ rpc' = [rpc EXCEPT ![r] = "opened"]
  /\ hydrated' = [hydrated EXCEPT ![r] = Text(file.len)]
  /\ UNCHANGED <<file, live, workerVars>>

InsertShared(r) ==
  /\ rpc[r] = "opened"
  /\ live' = IF Kept = NoSession THEN Opened(hydrated[r]) ELSE Touched(Kept)
  /\ rpc' = [Orphaned EXCEPT ![r] = "idle"]
  /\ hydrated' = [hydrated EXCEPT ![r] = <<>>]
  /\ UNCHANGED <<file, workerVars>>

\* spawn_shared_reaper().
Reap ==
  /\ Reapable(live)
  /\ live' = NoSession
  /\ rpc' = Orphaned
  /\ UNCHANGED <<file, workerVars, hydrated>>

\* The retention runs out.
Idle ==
  /\ live # NoSession
  /\ live.subscribers = 0 /\ live.recent
  /\ live' = [live EXCEPT !.recent = FALSE]
  /\ UNCHANGED <<file, workerVars, hydrated, rpc>>

----------------------------------------------------------------------------
WorkerStep(w) ==
  \/ OpenForLease(w) \/ InsertLeased(w) \/ Deliver(w) \/ Apply(w)
  \/ RunSync(w) \/ EndStray(w)
ReaderStep(r) == Read(r) \/ ReadOrphan(r) \/ OpenShared(r) \/ InsertShared(r)

Background ==
  \/ \E w \in Workers : WorkerStep(w)
  \/ \E r \in Readers : ReaderStep(r)
  \/ Reap \/ Idle

Next ==
  \/ Write
  \/ \E w \in Workers : Subscribe(w) \/ StartSync(w) \/ Hide(w) \/ Rebound(w)
  \/ \E r \in Readers : Look(r)
  \/ Background

Spec == Init /\ [][Next]_vars

\* As long as some call or background task is under way, or a retention has not
\* run out or been noticed, some such step is taken: less than the scheduler of
\* the process gives to each.
FairSpec == Spec /\ WF_vars(Background)

----------------------------------------------------------------------------
TypeOK ==
  /\ file \in [rewrite : Messages, len : 0 .. MaxMessages]
  /\ live \in Sessions \cup {NoSession}
  /\ pc \in [Workers -> {"hidden", "missed", "opened", "leased", "watching"}]
  /\ view \in [Workers -> Lists \cup {NoView}]
  /\ got \in [Workers -> Deltas \cup {NoDelta}]
  /\ mine \subseteq Workers /\ stray \subseteq Workers /\ sole \subseteq Workers
  /\ hydrated \in [Workers \cup Readers -> Lists]
  /\ rpc \in [Readers -> {"idle", "cloned", "orphaned", "missed", "opened"}]

Leasing == {w \in Workers : pc[w] \in {"leased", "watching"}}

\* The session counts its leases and their clones exactly, so that while one is
\* held the entry stays in the map and the lease never expires, whatever else is
\* opened, read, dropped or reaped (subscribe, Clone and Drop of LiveLease).
LeasesCounted ==
  LET leases == Cardinality(Leasing) + Cardinality(mine) + Cardinality(stray)
  IN  IF live = NoSession THEN leases = 0 ELSE live.subscribers = leases

\* A Chat that alone leases a session which had delivered nothing before shows,
\* until it is bound anew, all that the session has reported: no shared read takes
\* a message from it,
\* also one that found the session unleased, or drained it before the lease
\* (shared_snapshot, initial_delivery, report_feed).
SoleViewComplete ==
  \A w \in sole :
    pc[w] = "watching" /\ got[w] = NoDelta => view[w] = live.content

\* A session that is left alone is released, also when Chats were hidden in the
\* midst of a sync (Drop of LiveLease, reap_shared_only_locked).
AbandonedReaped ==
  <>[](pc = [w \in Workers |-> "hidden"] /\ rpc = [r \in Readers |-> "idle"])
    => <>[](live = NoSession)
=============================================================================
