--------------------------- MODULE ProviderBridge ----------------------------
(***************************************************************************)
(* The local provider bridge and the Host threads around the broker.       *)
(*                                                                         *)
(* A bridge connection (handle_client_connection in                        *)
(* shardlane-host/src/provider_bridges/local_ipc.rs) reads one envelope,   *)
(* lets the registry resolve its session, consult the capture policy and   *)
(* publish, and then waits on a channel of capacity one, for an hour at    *)
(* most, before it writes its one reply.  Callers are the Host threads     *)
(* that read a Conversation (and so expire and prune), answer an           *)
(* interaction, or report a changed occupant.  The fingerprint that they   *)
(* and the connections pass to the broker was read earlier and may be out  *)
(* of date by then, so it is any the Agent can have.                       *)
(***************************************************************************)
EXTENDS InteractionBroker

CONSTANTS NoRequest, NoReply

VARIABLES
  pc,        \* where each connection stands
  request,   \* its request id
  channel,   \* what its responder has sent it
  replied    \* what it told the provider, if it waited

brokerVars == <<records, notices, decided>>
vars == <<records, notices, decided, pc, request, channel, replied>>

\* Replies that carry no decision.
Failures == {"TimedOut", "EncodeFailed"}

ASSUME NullsAssumption ==
  /\ NoRequest \notin Requests
  /\ NoReply \notin Decision \cup Failures

Pcs == {"envelope", "wait", "giveup", "hangup", "done"}

TypeOK ==
  /\ records \in [Conns -> Record \cup {NoRecord}]
  /\ notices \in [Threads -> SUBSET (Conns \X Decision)]
  /\ decided \in [Conns -> Decision \cup {NoDecision}]
  /\ pc \in [Conns -> Pcs]
  /\ request \in [Conns -> Requests \cup {NoRequest}]
  /\ channel \in [Conns -> Decision \cup {NoDecision}]
  /\ replied \in [Conns -> Decision \cup Failures \cup {NoReply}]
  /\ \A c \in Conns :
       /\ pc[c] = "envelope" => records[c] = NoRecord
       /\ pc[c] \in {"wait", "giveup", "hangup"} => request[c] \in Requests

Init ==
  /\ InitBroker
  /\ pc = [c \in Conns |-> "envelope"]
  /\ request = [c \in Conns |-> NoRequest]
  /\ channel = [c \in Conns |-> NoDecision]
  /\ replied = [c \in Conns |-> NoReply]

Goto(c, at) == pc' = [pc EXCEPT ![c] = at]

----------------------------------------------------------------------------
(* A bridge connection.                                                    *)

\* Mutant: the connection does not keep the id it will cancel with.
CaptureForgettingRequest(c) ==
  /\ pc[c] = "envelope"
  /\ \E r \in Requests, fingerprint \in Occupants, deadline \in {"none", "ahead"} :
       PublishRequest(c, fingerprint, r, deadline)
  /\ Goto(c, "wait")
  /\ UNCHANGED <<request, channel, replied>>

\* handle_envelope publishes what is asked in a tracked session that is open
\* in Chat, if the adapter can parse it.
Capture(c) ==
  /\ pc[c] = "envelope"
  /\ \E r \in Requests, fingerprint \in Occupants, deadline \in {"none", "ahead"} :
       /\ PublishRequest(c, fingerprint, r, deadline)
       /\ request' = [request EXCEPT ![c] = r]
  /\ Goto(c, "wait")
  /\ UNCHANGED <<channel, replied>>

\* Everything else (a bad frame, an unknown session, an observation, a
\* Conversation shown in its Terminal) is answered at once.
NotCaptured(c) ==
  /\ pc[c] = "envelope"
  /\ Goto(c, "done")
  /\ UNCHANGED <<brokerVars, request, channel, replied>>

\* The connection replies and drops its end of the channel.
Reply(c, r) ==
  /\ Goto(c, "done")
  /\ replied' = [replied EXCEPT ![c] = r]
  /\ channel' = [channel EXCEPT ![c] = NoDecision]
  /\ UNCHANGED <<brokerVars, request>>

\* Encoding an answer for the provider may fail.
Hear(c) ==
  /\ pc[c] = "wait"
  /\ channel[c] # NoDecision
  /\ \/ Reply(c, channel[c])
     \/ channel[c] \in {"Resolved", "Rejected"} /\ Reply(c, "EncodeFailed")

\* Mutant: the wait is bounded by the deadline of the request alone.
WaitEndsAtDeadline(c) ==
  /\ pc[c] = "wait"
  /\ channel[c] = NoDecision
  /\ c \in Overdue
  /\ Goto(c, "giveup")
  /\ UNCHANGED <<brokerVars, request, channel, replied>>

\* recv_timeout looks at the channel a last time.
WaitEnds(c) ==
  /\ pc[c] = "wait"
  /\ channel[c] = NoDecision
  /\ Goto(c, "giveup")
  /\ UNCHANGED <<brokerVars, request, channel, replied>>

\* Whatever is still pending under the request id is cancelled, interactions of
\* other connections too.
GiveUp(c) ==
  /\ pc[c] = "giveup"
  /\ CancelByBridge(c, request[c])
  /\ Goto(c, "hangup")
  /\ UNCHANGED <<request, channel, replied>>

HangUp(c) ==
  /\ pc[c] = "hangup"
  /\ notices[c] = {}
  /\ Reply(c, "TimedOut")

----------------------------------------------------------------------------
(* Host threads, and the call of a responder by the thread that took it.   *)

Idle(u) == notices[u] = {}

Answer(u) ==
  /\ Idle(u)
  /\ \E i \in Conns, revision \in {1, 2}, fingerprint \in Occupants, a \in Answers :
       Resolve(u, i, revision, fingerprint, a)
  /\ UNCHANGED <<pc, request, channel, replied>>

ReportOccupant(u) ==
  /\ Idle(u)
  /\ \E fingerprint \in Occupants : CancelOnOccupantChange(u, fingerprint)
  /\ UNCHANGED <<pc, request, channel, replied>>

ReadConversation(u) ==
  /\ Idle(u)
  /\ Snapshot(u)
  /\ UNCHANGED <<pc, request, channel, replied>>

\* The send waits while the channel is full; it is lost when the connection
\* has returned.
Deliver(t) ==
  \E n \in notices[t] :
    LET c == n[1] IN
    /\ pc[c] # "done" => channel[c] = NoDecision
    /\ channel' = IF pc[c] = "done" THEN channel
                                    ELSE [channel EXCEPT ![c] = n[2]]
    /\ notices' = [notices EXCEPT ![t] = @ \ {n}]
    /\ UNCHANGED <<records, decided, pc, request, replied>>

TimePasses ==
  /\ \E i \in Conns : DeadlinePasses(i) \/ RetentionPasses(i)
  /\ UNCHANGED <<pc, request, channel, replied>>

ConnStep(c) ==
  \/ Capture(c) \/ NotCaptured(c)
  \/ Hear(c) \/ WaitEnds(c) \/ GiveUp(c) \/ HangUp(c)

CallerStep(u) == Answer(u) \/ ReportOccupant(u) \/ ReadConversation(u)

Next ==
  \/ \E c \in Conns : ConnStep(c)
  \/ \E u \in Callers : CallerStep(u)
  \/ \E t \in Threads : Deliver(t)
  \/ TimePasses

Spec == Init /\ [][Next]_vars

\* A connection's thread runs and its wait is bounded; a thread that holds
\* responders calls them.  Nobody has to answer or to read the Conversation.
FairSpec ==
  /\ Spec
  /\ \A c \in Conns : WF_vars(ConnStep(c))
  /\ \A t \in Threads : WF_vars(Deliver(t))

----------------------------------------------------------------------------
(* Properties.                                                             *)

\* A connection that waits can always still hear: its responder is in a
\* pending record, in the hands of exactly one thread, or has been called.
\* Its wait never ends because every sender is gone, so the Disconnected arm
\* of handle_client_connection, which would send no reply, is never taken.
Holders(c) == {t \in Threads : \E n \in notices[t] : n[1] = c}

ResponderNeverLost ==
  \A c \in Conns :
    pc[c] = "wait" /\ channel[c] = NoDecision =>
      \/ c \in Pending /\ records[c].responder /\ Holders(c) = {}
      \/ c \notin Pending /\ \E t \in Threads : Holders(c) = {t}

\* The abstract specification (first responder wins): an interaction is
\* settled once, whichever of two responders, a timeout, an expiry and a
\* report of a changed occupant comes first, and its provider is told that
\* outcome or that the wait failed, once and never before.
AO == INSTANCE AnswerOnce
        WITH Interactions <- Conns, Decisions <- Decision,
             Undecided <- NoDecision, Unheard <- NoReply, heard <- replied

ImplementsAnswerOnce == AO!Spec

\* Every interaction that is published gets settled and its provider gets a
\* reply, though nobody answers it and nobody reads the Conversation.
EveryRequestAnswered ==
  \A c \in Conns :
    pc[c] = "wait" ~> replied[c] # NoReply /\ decided[c] # NoDecision
=============================================================================
