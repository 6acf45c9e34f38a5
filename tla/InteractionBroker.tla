-------------------------- MODULE InteractionBroker --------------------------
(***************************************************************************)
(* The records of ConversationInteractionBroker                            *)
(* (shardlane-host/src/conversation_interactions.rs): publishing, the      *)
(* compare-and-set resolution, the shared settle loop, and what a snapshot *)
(* expires and prunes.  Each operation is one critical section of the      *)
(* records lock.  The responders it takes out of the records are called    *)
(* after the lock is released, by the thread that took them: notices is    *)
(* what each thread still has to deliver.                                  *)
(*                                                                         *)
(* An interaction is published by one bridge connection and a connection   *)
(* publishes at most one, so an interaction id is its connection.  All     *)
(* interactions belong to one Conversation: the id of another is answered  *)
(* like an unknown interaction.                                            *)
(***************************************************************************)
EXTENDS Naturals

CONSTANTS
  Conns,      \* bridge connections, each with the thread that serves it
  Callers,    \* Host threads: Conversation readers, responders, observers
  Requests,   \* bridge request ids, chosen by the providers
  Occupants,  \* session fingerprints the Agent can have
  Answers,    \* what a response asks for, as its disposition
  NoRecord, NoDecision

VARIABLES
  records,    \* the broker's map
  notices,    \* responders taken and not called yet, per thread
  decided     \* history: how an interaction was settled, its record pruned or not

Threads == Conns \cup Callers

\* How an interaction is settled: the disposition its responder is called with.
Reasons  == {"ProviderCancelled", "IdentityChanged", "Expired"}
Decision == Reasons \cup Answers

Terminal == {"Resolved", "Rejected", "Cancelled", "NativeFallback", "Expired"}

\* deadline: expires_at_ms, and whether it has passed.  old: terminal for
\* longer than the retention window.
Record == [state : Terminal \cup {"Pending"}, revision : Nat,
           occupant : Occupants, request : Requests, responder : BOOLEAN,
           deadline : {"none", "ahead", "passed"}, old : BOOLEAN]

ASSUME BrokerAssumption ==
  /\ Answers \subseteq {"Resolved", "Rejected", "NativeFallback", "UserDismissed"}
  /\ Conns \cap Callers = {}
  /\ NoDecision \notin Decision
  /\ NoRecord \notin Record

InitBroker ==
  /\ records = [i \in Conns |-> NoRecord]
  /\ notices = [t \in Threads |-> {}]
  /\ decided = [i \in Conns |-> NoDecision]

Live    == {i \in Conns : records[i] # NoRecord}
Pending == {i \in Live : records[i].state = "Pending"}

PublishRequest(i, fingerprint, r, deadline) ==
  /\ records' = [records EXCEPT ![i] =
                   [state |-> "Pending", revision |-> 1,
                    occupant |-> fingerprint, request |-> r,
                    responder |-> TRUE, deadline |-> deadline, old |-> FALSE]]
  /\ UNCHANGED <<notices, decided>>

----------------------------------------------------------------------------
(* Settling.                                                               *)

Settled(rec, state) ==
  [rec EXCEPT !.state = state, !.revision = @ + 1, !.responder = FALSE]

\* The interactions in S become terminal and thread t has their responders.
Collect(t, S, state, d) ==
  /\ records' = [i \in Conns |-> IF i \in S THEN Settled(records[i], state)
                                            ELSE records[i]]
  /\ notices' = [notices EXCEPT ![t] =
                   @ \cup {<<i, d>> : i \in {j \in S : records[j].responder}}]
  /\ decided' = [i \in Conns |-> IF i \in S THEN d ELSE decided[i]]

\* Mutant: what has been settled may be answered again.
CanAnswerSettled(i, revision, fingerprint) ==
  /\ i \in Live
  /\ records[i].revision = revision
  /\ records[i].occupant = fingerprint

\* The checks of resolve, in its order.
CanAnswer(i, revision, fingerprint) ==
  /\ i \in Pending
  /\ records[i].revision = revision
  /\ records[i].occupant = fingerprint

StateOf(answer) == IF answer = "UserDismissed" THEN "Cancelled" ELSE answer

Resolve(u, i, revision, fingerprint, answer) ==
  /\ CanAnswer(i, revision, fingerprint)
  /\ Collect(u, {i}, StateOf(answer), answer)

CancelByBridge(t, r) ==
  Collect(t, {i \in Pending : records[i].request = r},
          "Cancelled", "ProviderCancelled")

CancelOnOccupantChange(t, fingerprint) ==
  Collect(t, {i \in Pending : records[i].occupant # fingerprint},
          "Cancelled", "IdentityChanged")

Overdue == {i \in Pending : records[i].deadline = "passed"}

\* Mutant: what is past its deadline is dropped with what is old.
PrunableOverdue ==
  {i \in Live : records[i].old \/ records[i].deadline = "passed"}

Prunable == {i \in Live : records[i].old}

\* snapshot: expire what is overdue, then drop what has been terminal for long.
\* What expires now has only just become terminal.
Snapshot(t) ==
  LET S == Overdue \ Prunable
  IN /\ records' = [i \in Conns |->
                      IF i \in Prunable THEN NoRecord
                      ELSE IF i \in S THEN Settled(records[i], "Expired")
                      ELSE records[i]]
     /\ notices' = [notices EXCEPT ![t] =
                      @ \cup {<<i, "Expired">> :
                                i \in {j \in S : records[j].responder}}]
     /\ decided' = [i \in Conns |-> IF i \in S THEN "Expired" ELSE decided[i]]

----------------------------------------------------------------------------
(* Time.                                                                   *)

DeadlinePasses(i) ==
  /\ i \in Pending
  /\ records[i].deadline = "ahead"
  /\ records' = [records EXCEPT ![i].deadline = "passed"]
  /\ UNCHANGED <<notices, decided>>

RetentionPasses(i) ==
  /\ i \in Live \ Pending
  /\ ~ records[i].old
  /\ records' = [records EXCEPT ![i].old = TRUE]
  /\ UNCHANGED <<notices, decided>>
=============================================================================
