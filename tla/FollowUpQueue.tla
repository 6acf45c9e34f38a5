--------------------------- MODULE FollowUpQueue ---------------------------
(***************************************************************************)
(* The semantic follow-up queue of the Host                                *)
(* (shardlane-host/src/conversation_queue.rs): one slot per Agent holding  *)
(* at most one follow-up, moved between its states by operations that each *)
(* run under the queue's own mutex and so are one atomic step.  The module *)
(* declares the queue's state and one operator per operation; the threads  *)
(* that call them are in PromptDelivery.                                   *)
(*                                                                         *)
(* A ConversationId names an Agent and the fingerprint of the session that *)
(* occupied it, so within an Agent's slot a Conversation is a session.     *)
(***************************************************************************)
EXTENDS Naturals, FiniteSets

CONSTANTS
  Agents,    \* panes that can host an Agent (AgentRef)
  Sessions,  \* session fingerprints an occupant can have
  Requests,  \* logical request ids
  Texts,     \* prompt texts, all of them non-empty after trimming
  NoItem     \* an empty slot

VARIABLE items

\* The states an item is stored in.  Delivered and Cancelled are removals.
DeliverableStates == {"Queued", "WaitingForTurnBoundary"}
TerminalStates    == {"FailedRecoverable", "DeliveryUncertain"}
QueueState        == DeliverableStates \cup {"Delivering"} \cup TerminalStates

QueuedFollowUp ==
  [rid : Requests, session : Sessions, text : Texts, state : QueueState]

ASSUME NoItemAssumption == NoItem \notin QueuedFollowUp

Occupied(a) == items[a] # NoItem

InState(a, states) == Occupied(a) /\ items[a].state \in states

\* The slot of a holds the item a claim token names.
Holds(a, rid) == Occupied(a) /\ items[a].rid = rid

InitQueue == items = [a \in Agents |-> NoItem]

----------------------------------------------------------------------------
\* A slot accepts an item when it is empty, or when it holds the terminal
\* trail of another Conversation: an old occupant of the pane.
CanEnqueue(a, session) ==
  \/ ~ Occupied(a)
  \/ InState(a, TerminalStates) /\ items[a].session # session

Enqueue(a, rid, session, text) ==
  /\ CanEnqueue(a, session)
  /\ items' = [items EXCEPT ![a] = [rid |-> rid, session |-> session,
                                    text |-> text, state |-> "Queued"]]

\* The compare-and-set Queued -> WaitingForTurnBoundary: whoever makes it owns
\* the delivery of exactly this item.
ClaimForDelivery(a) ==
  /\ InState(a, {"Queued"})
  /\ items' = [items EXCEPT ![a].state = "WaitingForTurnBoundary"]

\* Mutant: the token is not compared, any item not yet on its way will do.
ClaimStandsAnyItem(a, rid) == InState(a, DeliverableStates)

\* The claim a token stands for is still in force.
ClaimStands(a, rid) == Holds(a, rid) /\ InState(a, {"WaitingForTurnBoundary"})

BeginDelivery(a, rid) ==
  /\ ClaimStands(a, rid)
  /\ items' = [items EXCEPT ![a].state = "Delivering"]

\* Mutant: a retained attempt forgets to give the claim back.
ReleaseClaimLost(a, rid) == UNCHANGED items

ReleaseClaim(a, rid) ==
  items' = IF ClaimStands(a, rid)
             THEN [items EXCEPT ![a].state = "Queued"]
             ELSE items

\* Mutant: finish removes whatever the slot holds.
FinishRemoveAnyItem(a, rid) == items' = [items EXCEPT ![a] = NoItem]

\* finish with Delivered or Dismissed: the item goes, in whatever state it is.
FinishRemove(a, rid) ==
  items' = IF Holds(a, rid) THEN [items EXCEPT ![a] = NoItem] ELSE items

\* Mutant: an unsettled delivery goes back in line.
FinishRetainRequeue(a, rid, state) ==
  items' = IF Holds(a, rid) /\ InState(a, {"Delivering"})
             THEN [items EXCEPT ![a].state = "Queued"]
             ELSE items

\* finish with Failed or Uncertain: a Delivering item keeps a visible trail.
FinishRetain(a, rid, state) ==
  items' = IF Holds(a, rid) /\ InState(a, {"Delivering"})
             THEN [items EXCEPT ![a].state = state]
             ELSE items

\* Mutant: cancel is not refused while the prompt is on its way.
CancelItemAnyState(a) ==
  /\ Occupied(a)
  /\ items' = [items EXCEPT ![a] = NoItem]

\* The user takes the text back; refused once delivery has begun.
CancelItem(a) ==
  /\ InState(a, DeliverableStates \cup TerminalStates)
  /\ items' = [items EXCEPT ![a] = NoItem]

\* Mutant: a claimed item may still be edited.
ReplaceTextClaimed(a, text) ==
  /\ InState(a, DeliverableStates)
  /\ items' = [items EXCEPT ![a].text = text]

\* An edit is refused once a worker has taken its snapshot.
ReplaceText(a, text) ==
  /\ InState(a, {"Queued"})
  /\ items' = [items EXCEPT ![a].text = text]

\* Something accepted earlier for this Conversation is not settled yet.
HasUnresolved(a, session) == InState(a, QueueState) /\ items[a].session = session

DeliverableItemExists(a) == InState(a, DeliverableStates)
============================================================================
