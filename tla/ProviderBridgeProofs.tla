------------------------ MODULE ProviderBridgeProofs ------------------------
(***************************************************************************)
(* What holds of ProviderBridge for every number of connections, callers,  *)
(* request ids and occupants: the types, that a waiting connection can     *)
(* still hear, and that the bridges implement AnswerOnce.                  *)
(***************************************************************************)
EXTENDS ProviderBridge, TLAPS

Waiting == {"wait", "giveup", "hangup"}

\* Where a connection stands against its record and its channel.
ConnInv(c) ==
  /\ pc[c] = "envelope" =>
       records[c] = NoRecord /\ decided[c] = NoDecision /\ channel[c] = NoDecision
  /\ pc[c] # "done" => replied[c] = NoReply
  /\ pc[c] = "done" => channel[c] = NoDecision
  /\ channel[c] # NoDecision => channel[c] = decided[c]
  /\ c \in Pending =>
       /\ pc[c] \in {"wait", "giveup"}
       /\ decided[c] = NoDecision /\ channel[c] = NoDecision
       /\ records[c].responder /\ ~ records[c].old
       /\ records[c].request = request[c]
  /\ pc[c] \in Waiting /\ c \notin Pending => decided[c] # NoDecision

\* A responder that is taken belongs to a settled interaction and has not been
\* called; one thread has it, and some thread if the connection has not heard.
NoticeInv(c) ==
  /\ \A t \in Threads, d \in Decision :
       <<c, d>> \in notices[t] =>
         d = decided[c] /\ c \notin Pending /\ channel[c] = NoDecision
  /\ \A t, u \in Threads :
       <<c, decided[c]>> \in notices[t] /\ <<c, decided[c]>> \in notices[u] => t = u
  /\ pc[c] \in Waiting /\ c \notin Pending /\ channel[c] = NoDecision =>
       \E t \in Threads : <<c, decided[c]>> \in notices[t]

BridgeInv == TypeOK /\ \A c \in Conns : ConnInv(c) /\ NoticeInv(c)

\* What a thread holds are pairs of a connection and a decision.
LEMMA NoticeTyped ==
  ASSUME BridgeInv, NEW t \in Threads, NEW c, NEW d, <<c, d>> \in notices[t]
  PROVE  c \in Conns /\ d \in Decision
<1>1. <<c, d>> \in Conns \X Decision
  BY DEF BridgeInv, TypeOK
<1> QED
  BY <1>1

LEMMA InitBridge == Init => BridgeInv
<1> SUFFICES ASSUME Init PROVE BridgeInv
  OBVIOUS
<1>1. TypeOK
  BY DEF Init, InitBroker, TypeOK, Pcs
<1>2. ASSUME NEW c \in Conns PROVE ConnInv(c) /\ NoticeInv(c)
  BY DEF Init, InitBroker, ConnInv, NoticeInv, Pending, Live, Waiting
<1> QED
  BY <1>1, <1>2 DEF BridgeInv

----------------------------------------------------------------------------

\* A record settles once, and stays a record.
LEMMA SettledRecord ==
  ASSUME NEW r \in Record, NEW state \in Terminal
  PROVE  /\ Settled(r, state) \in Record
         /\ Settled(r, state) # NoRecord
         /\ Settled(r, state).state # "Pending"
<1>1. ASSUME NEW n \in Nat
      PROVE  [r EXCEPT !.state = state, !.revision = n, !.responder = FALSE] \in Record
  BY DEF Record
<1>2. r.revision + 1 \in Nat
  BY DEF Record
<1>3. Settled(r, state) \in Record
  BY <1>1, <1>2 DEF Settled
<1>4. Settled(r, state).state = state
  BY DEF Settled, Record
<1> QED
  BY <1>3, <1>4, BrokerAssumption DEF Terminal

\* Settling the pending interactions S while dropping the settled D: the part
\* that answers, reports of occupants, ended waits and readers share.
SettlesAll(t, S, D, d) ==
  /\ \A i \in Conns :
       \/ i \in D /\ records'[i] = NoRecord
       \/ i \in S \ D /\ \E state \in Terminal : records'[i] = Settled(records[i], state)
       \/ i \notin S \cup D /\ records'[i] = records[i]
  /\ records' \in [Conns -> Record \cup {NoRecord}]
  /\ notices' = [notices EXCEPT ![t] = @ \cup {<<i, d>> : i \in S}]
  /\ decided' = [i \in Conns |-> IF i \in S THEN d ELSE decided[i]]
  /\ UNCHANGED <<request, channel, replied>>

\* The pending interactions after it are those that were pending, without S.
LEMMA SettlesPending ==
  ASSUME BridgeInv, NEW t \in Threads, NEW S \in SUBSET Pending,
         NEW D \in SUBSET (Live \ Pending), NEW d \in Decision,
         SettlesAll(t, S, D, d)
  PROVE  Pending' = Pending \ S /\ \A i \in Pending \ S : records'[i] = records[i]
<1>1. ASSUME NEW i \in Conns PROVE i \in Pending' <=> i \in Pending \ S
  <2>1. CASE i \in D
    BY <2>1 DEF SettlesAll, Pending, Live
  <2>2. CASE i \in S
    <3>1. records[i] \in Record /\ i \notin D
      BY <2>2 DEF Pending, Live, BridgeInv, TypeOK
    <3> QED
      BY <2>2, <3>1, SettledRecord DEF SettlesAll, Pending, Live
  <2>3. CASE i \notin S \cup D
    BY <2>3 DEF SettlesAll, Pending, Live
  <2> QED
    BY <2>1, <2>2, <2>3
<1>2. Pending' \subseteq Conns /\ Pending \subseteq Conns
  BY DEF Pending, Live
<1>3. \A i \in Pending \ S : records'[i] = records[i]
  BY DEF SettlesAll, Pending, Live
<1> QED
  BY <1>1, <1>2, <1>3

\* No connection moves, except one that has given up and has nothing pending.
PcKept(S) ==
  /\ pc' \in [Conns -> Pcs]
  /\ \A c \in Conns :
       \/ pc'[c] = pc[c]
       \/ pc[c] = "giveup" /\ pc'[c] = "hangup" /\ c \notin Pending \ S

LEMMA SettlesKeepInv ==
  ASSUME BridgeInv, NEW t \in Threads, NEW S \in SUBSET Pending,
         NEW D \in SUBSET (Live \ Pending), NEW d \in Decision,
         SettlesAll(t, S, D, d), PcKept(S)
  PROVE  BridgeInv'
<1>1. Pending' = Pending \ S /\ \A i \in Pending \ S : records'[i] = records[i]
  BY SettlesPending
<1>2. S \subseteq Conns /\ S \cap D = {} /\ d # NoDecision
  BY BrokerAssumption DEF Pending, Live
<1>3. \A c \in Conns : decided'[c] = IF c \in S THEN d ELSE decided[c]
  BY DEF SettlesAll
<1>4. \A u \in Threads, c \in Conns, e \in Decision :
        <<c, e>> \in notices'[u] <=>
          <<c, e>> \in notices[u] \/ (u = t /\ c \in S /\ e = d)
  BY DEF SettlesAll, BridgeInv, TypeOK
<1>5. \A c \in S : pc[c] \in {"wait", "giveup"}
  BY <1>2 DEF BridgeInv, ConnInv
<1>6. TypeOK'
  <2>1. notices' \in [Threads -> SUBSET (Conns \X Decision)]
    BY <1>2 DEF SettlesAll, BridgeInv, TypeOK
  <2>2. decided' \in [Conns -> Decision \cup {NoDecision}]
    BY DEF SettlesAll, BridgeInv, TypeOK
  <2>3. \A c \in Conns : pc'[c] = "envelope" => records'[c] = NoRecord
    BY <1>2, <1>5 DEF PcKept, SettlesAll, BridgeInv, TypeOK
  <2> QED
    BY <2>1, <2>2, <2>3 DEF PcKept, SettlesAll, BridgeInv, TypeOK
<1>7. ASSUME NEW c \in Conns PROVE ConnInv(c)'
  <2>1. /\ request'[c] = request[c] /\ channel'[c] = channel[c]
        /\ replied'[c] = replied[c]
    BY DEF SettlesAll
  <2>2. pc'[c] = "envelope" => records'[c] = NoRecord
    BY <1>6 DEF TypeOK
  <2>3. c \in S => channel[c] = NoDecision
    BY DEF BridgeInv, ConnInv
  <2> QED
    BY <1>1, <1>2, <1>3, <1>5, <2>1, <2>2, <2>3
       DEF BridgeInv, ConnInv, PcKept, Waiting
<1>8. ASSUME NEW c \in Conns PROVE NoticeInv(c)'
  <2>1. channel'[c] = channel[c] /\ decided'[c] = IF c \in S THEN d ELSE decided[c]
    BY <1>3 DEF SettlesAll
  <2>2. CASE c \in S
    <3>1. c \in Pending /\ channel[c] = NoDecision /\ c \notin Pending'
      BY <1>1, <2>2 DEF BridgeInv, ConnInv
    <3>2. \A u \in Threads, e \in Decision : <<c, e>> \notin notices[u]
      BY <3>1 DEF BridgeInv, NoticeInv
    <3> QED
      BY <1>4, <2>1, <2>2, <3>1, <3>2 DEF NoticeInv
  <2>3. CASE c \notin S
    <3>1. c \in Pending' <=> c \in Pending
      BY <1>1, <2>3
    <3>2. \A u \in Threads, e \in Decision :
            <<c, e>> \in notices'[u] <=> <<c, e>> \in notices[u]
      BY <1>4, <2>3
    <3>3. decided[c] \in Decision \cup {NoDecision}
      BY DEF BridgeInv, TypeOK
    <3>4. \A u \in Threads : <<c, decided[c]>> \in notices'[u] <=>
                             <<c, decided[c]>> \in notices[u]
      BY <2>3 DEF SettlesAll, BridgeInv, TypeOK
    <3>5. pc'[c] \in Waiting <=> pc[c] \in Waiting
      BY DEF PcKept, Waiting
    <3> QED
      BY <2>1, <2>3, <3>1, <3>2, <3>4, <3>5 DEF BridgeInv, NoticeInv
  <2> QED
    BY <2>2, <2>3
<1> QED
  BY <1>6, <1>7, <1>8 DEF BridgeInv

\* The abstract specification sees the decision of S.
LEMMA SettlesDecide ==
  ASSUME BridgeInv, NEW t \in Threads, NEW S \in SUBSET Pending,
         NEW D \in SUBSET (Live \ Pending), NEW d \in Decision,
         SettlesAll(t, S, D, d)
  PROVE  AO!Next
<1>1. S \in SUBSET Conns
  BY DEF Pending, Live
<1>2. \A i \in S : decided[i] = NoDecision /\ replied[i] = NoReply
  BY <1>1 DEF BridgeInv, ConnInv
<1>3. AO!Decide(S, d)
  BY <1>2 DEF AO!Decide, SettlesAll
<1> QED
  BY <1>1, <1>3 DEF AO!Next

----------------------------------------------------------------------------

\* What the settle loop takes: every pending interaction has its responder.
LEMMA CollectSettles ==
  ASSUME BridgeInv, NEW t \in Threads, NEW S \in SUBSET Pending,
         NEW state \in Terminal, NEW d, Collect(t, S, state, d),
         UNCHANGED <<request, channel, replied>>
  PROVE  SettlesAll(t, S, {}, d)
<1>1. S \subseteq Conns /\ \A i \in S : records[i] \in Record /\ records[i].responder
  BY DEF Pending, Live, BridgeInv, TypeOK, ConnInv
<1>2. {<<i, d>> : i \in {j \in S : records[j].responder}} = {<<i, d>> : i \in S}
  BY <1>1
<1>3. \A i \in Conns :
        records'[i] = IF i \in S THEN Settled(records[i], state) ELSE records[i]
  BY DEF Collect
<1>4. records' \in [Conns -> Record \cup {NoRecord}]
  <2>1. \A i \in S : Settled(records[i], state) \in Record
    BY <1>1, SettledRecord
  <2> QED
    BY <2>1 DEF Collect, BridgeInv, TypeOK
<1> QED
  BY <1>2, <1>3, <1>4 DEF Collect, SettlesAll

\* What a reader expires and drops.
LEMMA SnapshotSettles ==
  ASSUME BridgeInv, NEW t \in Threads, Snapshot(t),
         UNCHANGED <<request, channel, replied>>
  PROVE  /\ Overdue \ Prunable \in SUBSET Pending
         /\ Prunable \in SUBSET (Live \ Pending)
         /\ SettlesAll(t, Overdue \ Prunable, Prunable, "Expired")
<1> DEFINE S == Overdue \ Prunable
<1>1. S \in SUBSET Pending /\ S \subseteq Conns
  BY DEF Overdue, Pending, Live
<1>2. Prunable \in SUBSET (Live \ Pending)
  BY DEF Prunable, Pending, Live, BridgeInv, ConnInv
<1>3. \A i \in S : records[i] \in Record /\ records[i].responder
  BY <1>1 DEF Pending, Live, BridgeInv, TypeOK, ConnInv
<1>4. {<<i, "Expired">> : i \in {j \in S : records[j].responder}}
        = {<<i, "Expired">> : i \in S}
  BY <1>3
<1>5. \A i \in Conns :
        records'[i] = IF i \in Prunable THEN NoRecord
                      ELSE IF i \in S THEN Settled(records[i], "Expired")
                      ELSE records[i]
  BY DEF Snapshot
<1>6. records' \in [Conns -> Record \cup {NoRecord}]
  <2>1. \A i \in S : Settled(records[i], "Expired") \in Record
    BY <1>3, SettledRecord DEF Terminal
  <2> QED
    BY <2>1 DEF Snapshot, BridgeInv, TypeOK
<1>7. SettlesAll(t, S, Prunable, "Expired")
  <2>1. \A i \in Conns :
          \/ i \in Prunable /\ records'[i] = NoRecord
          \/ /\ i \in S \ Prunable
             /\ \E state \in Terminal : records'[i] = Settled(records[i], state)
          \/ i \notin S \cup Prunable /\ records'[i] = records[i]
    BY <1>5 DEF Terminal
  <2>2. /\ notices' = [notices EXCEPT ![t] = @ \cup {<<i, "Expired">> : i \in S}]
        /\ decided' = [i \in Conns |-> IF i \in S THEN "Expired" ELSE decided[i]]
    BY <1>4 DEF Snapshot
  <2> QED
    BY <1>6, <2>1, <2>2 DEF SettlesAll
<1> QED
  BY <1>1, <1>2, <1>7

----------------------------------------------------------------------------
\* One connection c is disturbed; every other keeps its part of the invariant.

Undisturbed(b) ==
  /\ records'[b] = records[b] /\ decided'[b] = decided[b] /\ pc'[b] = pc[b]
  /\ request'[b] = request[b] /\ channel'[b] = channel[b] /\ replied'[b] = replied[b]
  /\ \A t \in Threads : \A d : <<b, d>> \in notices'[t] <=> <<b, d>> \in notices[t]

LEMMA UndisturbedKept ==
  ASSUME BridgeInv, NEW b \in Conns, Undisturbed(b)
  PROVE  ConnInv(b)' /\ NoticeInv(b)'
<1>1. b \in Pending' <=> b \in Pending
  BY DEF Undisturbed, Pending, Live
<1>2. ConnInv(b)'
  <2>1. ConnInv(b)
    BY DEF BridgeInv
  <2>2. /\ records'[b] = records[b] /\ decided'[b] = decided[b] /\ pc'[b] = pc[b]
        /\ request'[b] = request[b] /\ channel'[b] = channel[b]
        /\ replied'[b] = replied[b]
    BY DEF Undisturbed
  <2> QED
    BY <1>1, <2>1, <2>2 DEF ConnInv
<1>3. NoticeInv(b)'
  <2>1. NoticeInv(b)
    BY DEF BridgeInv
  <2>2. /\ decided'[b] = decided[b] /\ pc'[b] = pc[b] /\ channel'[b] = channel[b]
    BY DEF Undisturbed
  <2>3. \A t \in Threads : \A d : <<b, d>> \in notices'[t] <=> <<b, d>> \in notices[t]
    BY DEF Undisturbed
  <2> QED
    BY <1>1, <2>1, <2>2, <2>3 DEF NoticeInv
<1> QED
  BY <1>2, <1>3

\* A step that leaves all connections but c alone.
LEMMA OneDisturbed ==
  ASSUME BridgeInv, NEW c \in Conns, TypeOK', ConnInv(c)', NoticeInv(c)',
         \A b \in Conns \ {c} : Undisturbed(b)
  PROVE  BridgeInv'
<1>1. \A b \in Conns \ {c} : ConnInv(b)' /\ NoticeInv(b)'
  BY UndisturbedKept
<1> QED
  BY <1>1 DEF BridgeInv

----------------------------------------------------------------------------
(* The connections.                                                        *)

LEMMA CaptureStep ==
  ASSUME BridgeInv, NEW c \in Conns, Capture(c)
  PROVE  BridgeInv' /\ UNCHANGED <<decided, replied>>
<1>1. PICK r \in Requests, o \in Occupants, l \in {"none", "ahead"} :
        /\ records' = [records EXCEPT ![c] =
             [state |-> "Pending", revision |-> 1, occupant |-> o, request |-> r,
              responder |-> TRUE, deadline |-> l, old |-> FALSE]]
        /\ request' = [request EXCEPT ![c] = r]
  BY DEF Capture, PublishRequest
<1> DEFINE new == [state |-> "Pending", revision |-> 1, occupant |-> o, request |-> r,
                   responder |-> TRUE, deadline |-> l, old |-> FALSE]
<1>2. new \in Record /\ new # NoRecord
  <2>1. new \in Record
    BY DEF Record
  <2> QED
    BY <2>1, BrokerAssumption
<1>3. /\ new.state = "Pending" /\ new.responder /\ ~ new.old /\ new.request = r
  OBVIOUS
<1>4. records'[c] = new /\ records' = [records EXCEPT ![c] = new]
  BY <1>1 DEF BridgeInv, TypeOK
<1> HIDE DEF new
<1>5. /\ pc[c] = "envelope" /\ pc' = [pc EXCEPT ![c] = "wait"]
      /\ request'[c] = r
      /\ UNCHANGED <<notices, decided, channel, replied>>
  BY <1>1 DEF Capture, PublishRequest, Goto, BridgeInv, TypeOK
<1>6. TypeOK'
  BY <1>1, <1>2, <1>4, <1>5 DEF BridgeInv, TypeOK, Pcs
<1>7. c \in Pending' /\ c \notin Pending
  BY <1>2, <1>3, <1>4, <1>5 DEF Pending, Live, BridgeInv, ConnInv
<1>8. ConnInv(c)'
  BY <1>3, <1>4, <1>5, <1>7 DEF BridgeInv, ConnInv, TypeOK
<1>9. NoticeInv(c)'
  <2>1. \A t \in Threads : \A d : <<c, d>> \notin notices[t]
    <3> SUFFICES ASSUME NEW t \in Threads, NEW d, <<c, d>> \in notices[t] PROVE FALSE
      OBVIOUS
    <3>1. d \in Decision
      BY NoticeTyped
    <3>2. d = decided[c] /\ decided[c] = NoDecision
      BY <1>5, <3>1 DEF BridgeInv, ConnInv, NoticeInv
    <3> QED
      BY <3>1, <3>2, BrokerAssumption
  <2> QED
    BY <1>5, <1>7, <2>1 DEF NoticeInv
<1>10. \A b \in Conns \ {c} : Undisturbed(b)
  BY <1>1, <1>4, <1>5 DEF Undisturbed, BridgeInv, TypeOK
<1> QED
  BY <1>5, <1>6, <1>8, <1>9, <1>10, OneDisturbed

LEMMA MovesStep ==
  ASSUME BridgeInv, NEW c \in Conns, NotCaptured(c) \/ WaitEnds(c)
  PROVE  BridgeInv' /\ UNCHANGED <<decided, replied>>
<1>1. /\ \/ pc[c] = "envelope" /\ pc' = [pc EXCEPT ![c] = "done"]
         \/ pc[c] = "wait" /\ pc' = [pc EXCEPT ![c] = "giveup"]
      /\ UNCHANGED <<records, notices, decided, request, channel, replied>>
  BY DEF NotCaptured, WaitEnds, Goto, brokerVars
<1>2. TypeOK'
  BY <1>1 DEF BridgeInv, TypeOK, Pcs
<1>3. Pending' = Pending
  BY <1>1 DEF Pending, Live
<1>4. ConnInv(c)'
  BY <1>1, <1>3 DEF BridgeInv, TypeOK, ConnInv, Waiting, Pending, Live
<1>5. NoticeInv(c)'
  BY <1>1, <1>3 DEF BridgeInv, TypeOK, NoticeInv, Waiting
<1>6. \A b \in Conns \ {c} : Undisturbed(b)
  BY <1>1 DEF Undisturbed, BridgeInv, TypeOK
<1> QED
  BY <1>1, <1>2, <1>4, <1>5, <1>6, OneDisturbed

LEMMA ReplyStep ==
  ASSUME BridgeInv, NEW c \in Conns, pc[c] \in Waiting, c \notin Pending,
         NEW r \in {decided[c]} \cup Failures, Reply(c, r),
         channel[c] = NoDecision => \A d : <<c, d>> \notin notices[c]
  PROVE  BridgeInv' /\ AO!Next
<1>1. /\ pc' = [pc EXCEPT ![c] = "done"]
      /\ replied' = [replied EXCEPT ![c] = r]
      /\ channel' = [channel EXCEPT ![c] = NoDecision]
      /\ UNCHANGED <<records, notices, decided, request>>
  BY DEF Reply, Goto, brokerVars
<1>2. decided[c] \in Decision /\ replied[c] = NoReply
  BY DEF BridgeInv, TypeOK, ConnInv, Waiting
<1>3. TypeOK'
  BY <1>1, <1>2 DEF BridgeInv, TypeOK, Pcs, Waiting
<1>4. Pending' = Pending
  BY <1>1 DEF Pending, Live
<1>5. ConnInv(c)'
  BY <1>1, <1>4 DEF BridgeInv, TypeOK, ConnInv, Waiting
<1>6. NoticeInv(c)'
  BY <1>1, <1>4 DEF BridgeInv, TypeOK, NoticeInv, Waiting
<1>7. \A b \in Conns \ {c} : Undisturbed(b)
  BY <1>1 DEF Undisturbed, BridgeInv, TypeOK
<1>8. AO!Hear(c)
  BY <1>1, <1>2, BrokerAssumption DEF AO!Hear
<1> QED
  BY <1>3, <1>5, <1>6, <1>7, <1>8, OneDisturbed DEF AO!Next

LEMMA HearStep ==
  ASSUME BridgeInv, NEW c \in Conns, Hear(c)
  PROVE  BridgeInv' /\ AO!Next
<1>1. /\ pc[c] = "wait" /\ channel[c] # NoDecision
      /\ Reply(c, channel[c]) \/ Reply(c, "EncodeFailed")
  BY DEF Hear
<1>2. channel[c] = decided[c] /\ c \notin Pending /\ pc[c] \in Waiting
  BY <1>1 DEF BridgeInv, ConnInv, Waiting
<1> QED
  BY <1>1, <1>2, ReplyStep DEF Failures

LEMMA HangUpStep ==
  ASSUME BridgeInv, NEW c \in Conns, HangUp(c)
  PROVE  BridgeInv' /\ AO!Next
<1>1. pc[c] = "hangup" /\ notices[c] = {} /\ Reply(c, "TimedOut")
  BY DEF HangUp
<1>2. c \notin Pending /\ pc[c] \in Waiting
  BY <1>1 DEF BridgeInv, ConnInv, Waiting
<1> QED
  BY <1>1, <1>2, ReplyStep DEF Failures

LEMMA GiveUpStep ==
  ASSUME BridgeInv, NEW c \in Conns, GiveUp(c)
  PROVE  BridgeInv' /\ AO!Next
<1> DEFINE S == {i \in Pending : records[i].request = request[c]}
<1>1. /\ pc[c] = "giveup" /\ pc' = [pc EXCEPT ![c] = "hangup"]
      /\ Collect(c, S, "Cancelled", "ProviderCancelled")
      /\ UNCHANGED <<request, channel, replied>>
  BY DEF GiveUp, CancelByBridge, Goto
<1>2. S \in SUBSET Pending /\ {} \in SUBSET (Live \ Pending) /\ c \in Threads
  BY DEF Threads
<1>3. "Cancelled" \in Terminal /\ "ProviderCancelled" \in Decision
  BY DEF Terminal, Decision, Reasons
<1>4. c \notin Pending \ S
  BY DEF BridgeInv, ConnInv
<1> HIDE DEF S
<1>5. SettlesAll(c, S, {}, "ProviderCancelled")
  BY <1>1, <1>2, <1>3, CollectSettles
<1>6. PcKept(S)
  BY <1>1, <1>4 DEF PcKept, BridgeInv, TypeOK, Pcs
<1> QED
  BY <1>2, <1>3, <1>5, <1>6, SettlesKeepInv, SettlesDecide

----------------------------------------------------------------------------
(* The Host threads.                                                       *)

LEMMA AnswerStep ==
  ASSUME BridgeInv, NEW u \in Callers, Answer(u)
  PROVE  BridgeInv' /\ AO!Next
<1>1. PICK i \in Conns, a \in Answers :
        /\ i \in Pending
        /\ Collect(u, {i}, StateOf(a), a)
        /\ UNCHANGED <<pc, request, channel, replied>>
  BY DEF Answer, Resolve, CanAnswer
<1>2. {i} \in SUBSET Pending /\ {} \in SUBSET (Live \ Pending) /\ u \in Threads
  BY <1>1 DEF Threads
<1>3. StateOf(a) \in Terminal /\ a \in Decision
  BY BrokerAssumption DEF StateOf, Terminal, Decision
<1>4. SettlesAll(u, {i}, {}, a)
  BY <1>1, <1>2, <1>3, CollectSettles
<1>5. PcKept({i})
  BY <1>1 DEF PcKept, BridgeInv, TypeOK
<1> QED
  BY <1>2, <1>3, <1>4, <1>5, SettlesKeepInv, SettlesDecide

LEMMA ReportOccupantStep ==
  ASSUME BridgeInv, NEW u \in Callers, ReportOccupant(u)
  PROVE  BridgeInv' /\ AO!Next
<1>1. PICK o \in Occupants :
        /\ Collect(u, {i \in Pending : records[i].occupant # o},
                   "Cancelled", "IdentityChanged")
        /\ UNCHANGED <<pc, request, channel, replied>>
  BY DEF ReportOccupant, CancelOnOccupantChange
<1> DEFINE S == {i \in Pending : records[i].occupant # o}
<1>2. S \in SUBSET Pending /\ {} \in SUBSET (Live \ Pending) /\ u \in Threads
  BY DEF Threads
<1>3. "Cancelled" \in Terminal /\ "IdentityChanged" \in Decision
  BY DEF Terminal, Decision, Reasons
<1> HIDE DEF S
<1>4. SettlesAll(u, S, {}, "IdentityChanged")
  BY <1>1, <1>2, <1>3, CollectSettles DEF S
<1>5. PcKept(S)
  BY <1>1 DEF PcKept, BridgeInv, TypeOK
<1> QED
  BY <1>2, <1>3, <1>4, <1>5, SettlesKeepInv, SettlesDecide

LEMMA ReadConversationStep ==
  ASSUME BridgeInv, NEW u \in Callers, ReadConversation(u)
  PROVE  BridgeInv' /\ AO!Next
<1>1. Snapshot(u) /\ UNCHANGED <<pc, request, channel, replied>> /\ u \in Threads
  BY DEF ReadConversation, Threads
<1>2. "Expired" \in Decision
  BY DEF Decision, Reasons
<1>3. /\ Overdue \ Prunable \in SUBSET Pending
      /\ Prunable \in SUBSET (Live \ Pending)
      /\ SettlesAll(u, Overdue \ Prunable, Prunable, "Expired")
  BY <1>1, SnapshotSettles
<1>4. PcKept(Overdue \ Prunable)
  BY <1>1 DEF PcKept, BridgeInv, TypeOK
<1> QED
  BY <1>1, <1>2, <1>3, <1>4, SettlesKeepInv, SettlesDecide

LEMMA DeliverStep ==
  ASSUME BridgeInv, NEW t \in Threads, Deliver(t)
  PROVE  BridgeInv' /\ UNCHANGED <<decided, replied>>
<1>1. PICK c \in Conns, d \in Decision :
        /\ <<c, d>> \in notices[t]
        /\ pc[c] # "done" => channel[c] = NoDecision
        /\ channel' = IF pc[c] = "done" THEN channel
                                        ELSE [channel EXCEPT ![c] = d]
        /\ notices' = [notices EXCEPT ![t] = @ \ {<<c, d>>}]
        /\ UNCHANGED <<records, decided, pc, request, replied>>
  <2>1. PICK n \in notices[t] :
          LET c == n[1] IN
          /\ pc[c] # "done" => channel[c] = NoDecision
          /\ channel' = IF pc[c] = "done" THEN channel
                                          ELSE [channel EXCEPT ![c] = n[2]]
          /\ notices' = [notices EXCEPT ![t] = @ \ {n}]
          /\ UNCHANGED <<records, decided, pc, request, replied>>
    BY DEF Deliver
  <2>2. n \in Conns \X Decision
    BY DEF BridgeInv, TypeOK
  <2>3. n = <<n[1], n[2]>> /\ n[1] \in Conns /\ n[2] \in Decision
    BY <2>2
  <2> QED
    BY <2>1, <2>3
<1>2. d = decided[c] /\ c \notin Pending /\ channel[c] = NoDecision
  BY <1>1 DEF BridgeInv, NoticeInv
<1>3. Pending' = Pending
  BY <1>1 DEF Pending, Live
<1>4. TypeOK'
  BY <1>1 DEF BridgeInv, TypeOK
<1>5. pc[c] # "envelope" /\ decided[c] # NoDecision
  BY <1>1, <1>2, BrokerAssumption DEF BridgeInv, ConnInv
<1>6. channel'[c] = IF pc[c] = "done" THEN NoDecision ELSE decided[c]
  BY <1>1, <1>2 DEF BridgeInv, TypeOK
<1>7. ConnInv(c)'
  BY <1>1, <1>2, <1>3, <1>5, <1>6 DEF BridgeInv, ConnInv
<1>8. \A u \in Threads : \A e : <<c, e>> \notin notices'[u]
  <2> SUFFICES ASSUME NEW u \in Threads, NEW e, <<c, e>> \in notices'[u] PROVE FALSE
    OBVIOUS
  <2>1. <<c, e>> \in notices[u]
    BY <1>1 DEF BridgeInv, TypeOK
  <2>2. e = decided[c]
    BY <2>1, NoticeTyped DEF BridgeInv, NoticeInv
  <2>3. u = t
    BY <1>1, <1>2, <2>1, <2>2 DEF BridgeInv, NoticeInv
  <2> QED
    BY <1>1, <1>2, <2>2, <2>3 DEF BridgeInv, TypeOK
<1>9. NoticeInv(c)'
  <2>1. pc'[c] \in Waiting => channel'[c] # NoDecision
    BY <1>1, <1>5, <1>6 DEF Waiting
  <2> QED
    BY <1>8, <2>1 DEF NoticeInv
<1>10. \A b \in Conns \ {c} : Undisturbed(b)
  BY <1>1 DEF Undisturbed, BridgeInv, TypeOK
<1> QED
  BY <1>1, <1>4, <1>7, <1>9, <1>10, OneDisturbed

LEMMA TimePassesStep ==
  ASSUME BridgeInv, TimePasses
  PROVE  BridgeInv' /\ UNCHANGED <<decided, replied>>
<1>1. PICK c \in Conns : DeadlinePasses(c) \/ RetentionPasses(c)
  BY DEF TimePasses
<1>2. /\ UNCHANGED <<notices, decided, pc, request, channel, replied>>
      /\ c \in Live
      /\ \/ records' = [records EXCEPT ![c].deadline = "passed"]
         \/ c \notin Pending /\ records' = [records EXCEPT ![c].old = TRUE]
  BY <1>1 DEF TimePasses, DeadlinePasses, RetentionPasses, Pending
<1>3. /\ records'[c] \in Record
      /\ records'[c].state = records[c].state
      /\ records'[c].request = records[c].request
      /\ records'[c].responder = records[c].responder
      /\ c \in Pending => records'[c].old = records[c].old
  <2>1. records[c] \in Record
    BY <1>2 DEF BridgeInv, TypeOK, Live
  <2>2. \/ records'[c] = [records[c] EXCEPT !.deadline = "passed"]
        \/ c \notin Pending /\ records'[c] = [records[c] EXCEPT !.old = TRUE]
    BY <1>2 DEF BridgeInv, TypeOK
  <2> QED
    BY <2>1, <2>2 DEF Record
<1>4. \A b \in Conns \ {c} : records'[b] = records[b]
  BY <1>2 DEF BridgeInv, TypeOK
<1>5. records' \in [Conns -> Record \cup {NoRecord}]
  BY <1>2, <1>3, <1>4 DEF BridgeInv, TypeOK
<1>6. pc[c] # "envelope" /\ (c \in Pending' <=> c \in Pending)
  BY <1>2, <1>3, BrokerAssumption DEF Pending, Live, BridgeInv, TypeOK
<1>7. TypeOK'
  BY <1>2, <1>4, <1>5, <1>6 DEF BridgeInv, TypeOK
<1>8. ConnInv(c)' /\ NoticeInv(c)'
  BY <1>2, <1>3, <1>6 DEF BridgeInv, ConnInv, NoticeInv
<1>9. \A b \in Conns \ {c} : Undisturbed(b)
  BY <1>2, <1>4 DEF Undisturbed
<1> QED
  BY <1>2, <1>7, <1>8, <1>9, OneDisturbed

----------------------------------------------------------------------------

\* Every step keeps the invariant and is a step of AnswerOnce or a stutter.
LEMMA BridgeStep ==
  ASSUME BridgeInv, [Next]_vars
  PROVE  BridgeInv' /\ [AO!Next]_<<decided, replied>>
<1>1. CASE UNCHANGED vars
  BY <1>1 DEF vars, BridgeInv, TypeOK, ConnInv, NoticeInv, Pending, Live
<1>2. ASSUME NEW c \in Conns, ConnStep(c)
      PROVE  BridgeInv' /\ [AO!Next]_<<decided, replied>>
  BY <1>2, CaptureStep, MovesStep, HearStep, GiveUpStep, HangUpStep
     DEF ConnStep
<1>3. ASSUME NEW u \in Callers, CallerStep(u)
      PROVE  BridgeInv' /\ [AO!Next]_<<decided, replied>>
  BY <1>3, AnswerStep, ReportOccupantStep, ReadConversationStep DEF CallerStep
<1>4. ASSUME NEW t \in Threads, Deliver(t)
      PROVE  BridgeInv' /\ [AO!Next]_<<decided, replied>>
  BY <1>4, DeliverStep
<1> QED
  BY <1>1, <1>2, <1>3, <1>4, TimePassesStep DEF Next

\* The strengthening that makes the rest inductive.
THEOREM BridgeInvCorrect == Spec => []BridgeInv
<1>1. BridgeInv /\ [Next]_vars => BridgeInv'
  BY BridgeStep
<1> QED
  BY InitBridge, <1>1, PTL DEF Spec

\* Every record, notice, decision and reply is of its kind.
THEOREM BridgeTypeCorrect == Spec => []TypeOK
<1>1. BridgeInv => TypeOK
  BY DEF BridgeInv
<1> QED
  BY <1>1, BridgeInvCorrect, PTL

\* A connection that waits can always still hear: its responder is in a
\* pending record or in the hands of exactly one thread, so recv_timeout never
\* returns because all senders are gone.
THEOREM ResponderNeverLostCorrect == Spec => []ResponderNeverLost
<1>1. BridgeInv => ResponderNeverLost
  <2> SUFFICES ASSUME BridgeInv, NEW c \in Conns, pc[c] = "wait", channel[c] = NoDecision
               PROVE  \/ c \in Pending /\ records[c].responder /\ Holders(c) = {}
                      \/ c \notin Pending /\ \E t \in Threads : Holders(c) = {t}
    BY DEF ResponderNeverLost
  <2>1. \A t \in Threads : t \in Holders(c) <=> <<c, decided[c]>> \in notices[t]
    <3>1. ASSUME NEW t \in Threads, NEW n \in notices[t], n[1] = c
          PROVE  n = <<c, decided[c]>> /\ c \notin Pending
      <4>1. n = <<c, n[2]>> /\ n[2] \in Decision
        BY <3>1 DEF BridgeInv, TypeOK
      <4>2. <<c, n[2]>> \in notices[t]
        BY <4>1
      <4>3. n[2] = decided[c] /\ c \notin Pending
        BY <4>1, <4>2 DEF BridgeInv, NoticeInv
      <4> QED
        BY <4>1, <4>3
    <3> QED
      BY <3>1 DEF Holders
  <2>2. Holders(c) \subseteq Threads
    BY DEF Holders
  <2>3. CASE c \in Pending
    <3>1. \A t \in Threads : <<c, decided[c]>> \notin notices[t]
      BY <2>3 DEF BridgeInv, NoticeInv, ConnInv, TypeOK
    <3> QED
      BY <2>1, <2>2, <2>3, <3>1 DEF BridgeInv, ConnInv
  <2>4. CASE c \notin Pending
    <3>1. PICK t \in Threads : <<c, decided[c]>> \in notices[t]
      BY <2>4 DEF BridgeInv, NoticeInv, Waiting
    <3>2. Holders(c) = {t}
      BY <2>1, <2>2, <3>1 DEF BridgeInv, NoticeInv
    <3> QED
      BY <2>4, <3>2
  <2> QED
    BY <2>3, <2>4
<1> QED
  BY <1>1, BridgeInvCorrect, PTL

\* The bridges, the broker and the Host threads around it implement the
\* promise that the first responder wins and the provider hears it once.
THEOREM ImplementsAnswerOnceCorrect == Spec => ImplementsAnswerOnce
<1>1. Init => AO!Init
  BY DEF Init, InitBroker, AO!Init
<1>2. BridgeInv /\ [Next]_vars => [AO!Next]_<<decided, replied>>
  BY BridgeStep
<1> QED
  BY <1>1, <1>2, BridgeInvCorrect, PTL DEF Spec, ImplementsAnswerOnce, AO!Spec
=============================================================================
