------------------------- MODULE LiveSessionsProofs -------------------------
(***************************************************************************)
(* What holds of LiveSessions for every finite number of windows, every    *)
(* number of readers and every bound on the file: the types, that leases   *)
(* are counted, and that a Chat alone with its session shows all of it.    *)
(***************************************************************************)
EXTENDS LiveSessions, TLAPS, FiniteSetTheorems, SequenceTheorems

\* A result that is not applied yet is of a worker that watches and stays
\* within the file's bound; a worker has a result or a sync, not both.
GotInv ==
  \A w \in Workers :
    /\ got[w] # NoDelta =>
         /\ pc[w] = "watching" /\ got[w].from >= 1
         /\ got[w].from + Len(got[w].messages) - 1 <= MaxMessages
    /\ w \in mine => pc[w] = "watching" /\ got[w] = NoDelta

\* A reader loses the map's session only by becoming an orphan.
ClonedInv == \A r \in Readers : rpc[r] = "cloned" => live # NoSession

\* What a worker shows that alone leases its session, with what it has yet to
\* apply, is what the session holds.
SoleInv ==
  \A w \in sole :
    /\ Leasing = {w} /\ mine \subseteq {w} /\ stray = {}
    /\ pc[w] = "leased" => ~ live.delivered /\ view[w] = NoView
    /\ pc[w] = "watching" =>
         IF got[w] = NoDelta THEN view[w] = live.content
         ELSE Applied(view[w], got[w]) = live.content

LiveInv == TypeOK /\ GotInv /\ ClonedInv /\ LeasesCounted /\ SoleInv

----------------------------------------------------------------------------
(* Lists of messages.                                                      *)

LEMMA ListsSeq == \A s : s \in Lists <=> s \in Seq(Messages) /\ Len(s) <= MaxMessages
<1>1. ASSUME NEW s \in Lists PROVE s \in Seq(Messages) /\ Len(s) <= MaxMessages
  <2>1. PICK n \in 0 .. MaxMessages : s \in [1 .. n -> Messages]
    BY DEF Lists
  <2>2. n \in Nat /\ s \in Seq(Messages)
    BY <2>1, BoundsAssumption, SeqDef
  <2>3. Len(s) = n
    BY <2>1, <2>2, LenProperties
  <2> QED
    BY <2>1, <2>2, <2>3, BoundsAssumption
<1>2. ASSUME NEW s \in Seq(Messages), Len(s) <= MaxMessages PROVE s \in Lists
  <2>1. Len(s) \in 0 .. MaxMessages /\ s \in [1 .. Len(s) -> Messages]
    BY <1>2, LenProperties, BoundsAssumption
  <2> QED
    BY <2>1 DEF Lists
<1> QED
  BY <1>1, <1>2

LEMMA EmptyIsList == <<>> \in Lists
<1>1. <<>> \in Seq(Messages) /\ Len(<<>>) = 0
  BY EmptySeq
<1> DEFINE e == <<>>
<1>2. e \in Seq(Messages) /\ Len(e) = 0
  BY <1>1
<1> HIDE DEF e
<1>3. Len(e) <= MaxMessages
  BY <1>2, BoundsAssumption
<1>4. e \in Lists
  BY <1>2, <1>3, ListsSeq
<1> QED
  BY <1>4 DEF e

LEMMA TextIsList ==
  ASSUME TypeOK, NEW n \in 0 .. MaxMessages
  PROVE  /\ Text(n) \in Lists /\ Len(Text(n)) = n
         /\ \A i \in 1 .. n : Text(n)[i] \in Messages
<1>1. file.rewrite \in Messages
  BY DEF TypeOK
<1>2. Text(n) \in [1 .. n -> Messages]
  BY <1>1 DEF Text
<1>3. n \in Nat
  BY BoundsAssumption
<1>4. Text(n) \in Seq(Messages)
  BY <1>2, <1>3, SeqDef
<1>5. Len(Text(n)) = n
  BY <1>2, <1>3, <1>4, LenProperties
<1> QED
  BY <1>2, <1>4, <1>5, ListsSeq

\* What a sync feeds is a list, and what it reports leads a reader of the old
\* content to it.
LEMMA Feeding ==
  ASSUME TypeOK, live # NoSession
  PROVE  /\ Fed \in Lists
         /\ Report = Unchanged => Fed = live.content
         /\ Report # Unchanged =>
              /\ Report \in Deltas /\ Report.from >= 1
              /\ Report.from + Len(Report.messages) - 1 <= MaxMessages
              /\ Applied(live.content, Report) = Fed
<1> DEFINE c == live.content
           f == file.len
           u == SubSeq(Text(f), Len(c) + 1, f)
<1>1. c \in Lists /\ f \in 0 .. MaxMessages /\ f \in Nat
  BY BoundsAssumption DEF TypeOK, Sessions
<1>2. c \in Seq(Messages) /\ Len(c) \in Nat /\ Len(c) <= MaxMessages
  BY <1>1, ListsSeq, LenProperties
<1>3. /\ Text(f) \in Lists /\ Len(Text(f)) = f
      /\ \A i \in 1 .. f : Text(f)[i] \in Messages
  BY <1>1, TextIsList
<1>4. Shrunk <=> f < Len(c)
  BY DEF Shrunk
<1>5. CASE Shrunk
  <2>1. Fed = Text(f) /\ Report = [kind |-> "reset", from |-> 1, messages |-> Text(f)]
    BY <1>5 DEF Fed, Report
  <2>2. Report # Unchanged /\ Report \in Deltas /\ Report.from = 1
        /\ Report.messages = Text(f) /\ Report.kind = "reset"
    BY <1>3, <2>1 DEF Unchanged, Deltas
  <2> QED
    BY <1>1, <1>3, <2>1, <2>2, BoundsAssumption DEF Applied
<1>6. CASE ~ Shrunk
  <2>1. Fed = c \o u /\ Unread = u /\ f >= Len(c)
    <3>1. Fed = c \o u
      BY <1>6 DEF Fed, Unread
    <3>2. Unread = u
      BY DEF Unread
    <3> HIDE DEF c, f, u
    <3>3. f >= Len(c)
      BY <1>1, <1>2, <1>4, <1>6
    <3> QED
      BY <3>1, <3>2, <3>3
  <2>2. \A i \in Len(c) + 1 .. f : Text(f)[i] \in Messages
    BY <1>2, <1>3
  <2>3. u \in Seq(Messages) /\ Len(u) = f - Len(c)
    <3> HIDE DEF c, f
    <3>1. Len(c) + 1 \in Int /\ f \in Int
      BY <1>1, <1>2
    <3>2. /\ u \in Seq(Messages)
          /\ Len(u) = IF Len(c) + 1 <= f THEN f - (Len(c) + 1) + 1 ELSE 0
      BY <2>2, <3>1, SubSeqProperties
    <3> QED
      BY <1>1, <1>2, <2>1, <3>2
  <2> HIDE DEF u, c, f
  <2>4. c \o u \in Seq(Messages) /\ Len(c \o u) = f
    BY <1>1, <1>2, <2>3, ConcatProperties
  <2>5. Fed \in Lists /\ u \in Lists
    <3>1. f <= MaxMessages /\ Len(u) <= MaxMessages
      BY <1>1, <1>2, <2>3, BoundsAssumption
    <3>2. Len(Fed) = f /\ Fed \in Seq(Messages)
      BY <2>1, <2>4
    <3> QED
      BY <2>3, <3>1, <3>2, ListsSeq
  <2>6. CASE u = <<>>
    <3>1. Report = Unchanged
      BY <1>6, <2>1, <2>6 DEF Report
    <3>2. c \o u = c
      BY <1>2, <2>6, ConcatEmptySeq
    <3> QED
      BY <2>1, <2>5, <3>1, <3>2 DEF c
  <2>7. CASE u # <<>>
    <3>1. Report = [kind |-> "appended", from |-> Len(c) + 1, messages |-> u]
      BY <1>6, <2>1, <2>7 DEF Report, c
    <3>2. /\ Report # Unchanged /\ Report.from = Len(c) + 1 /\ Report.messages = u
          /\ Report.kind = "appended"
      BY <3>1 DEF Unchanged
    <3>3. Report \in Deltas
      BY <1>2, <2>5, <3>1 DEF Deltas
    <3>4. Report.from >= 1 /\ Report.from + Len(Report.messages) - 1 <= MaxMessages
      BY <1>1, <1>2, <2>3, <3>2, BoundsAssumption
    <3>5. SubSeq(c, 1, Len(c)) = c
      BY <1>2, SubSeqFull
    <3>6. SubSeq(c, Len(c) + 1 + Len(u) - 1 + 1, Len(c)) = <<>>
      BY <1>1, <1>2, <2>1, <2>3, SubSeqEmpty
    <3>7. Upsert(c, Report) = c \o u
      <4>1. Report.from - 1 = Len(c) /\ ~ (Report.from > Len(c) + 1)
        BY <1>2, <3>2
      <4>2. (c \o u) \o <<>> = c \o u
        BY <2>4, ConcatEmptySeq
      <4> QED
        BY <3>2, <3>5, <3>6, <4>1, <4>2 DEF Upsert
    <3>8. c # NoView
      BY <1>1, NullsAssumption
    <3>9. Applied(c, Report) = Fed
      BY <2>1, <3>2, <3>7, <3>8 DEF Applied
    <3> QED
      BY <2>5, <3>2, <3>3, <3>4, <3>9 DEF c
  <2> QED
    BY <2>6, <2>7
<1> QED
  BY <1>5, <1>6

\* What is shown stays a list within the bound.
LEMMA AppliedIsList ==
  ASSUME NEW shown \in Lists \cup {NoView}, NEW d \in Deltas,
         d.from >= 1, d.from + Len(d.messages) - 1 <= MaxMessages
  PROVE  Applied(shown, d) \in Lists
<1>1. d.messages \in Lists /\ d.from \in Nat
  BY DEF Deltas
<1>2. CASE d.kind = "reset" \/ shown = NoView
  BY <1>1, <1>2 DEF Applied
<1>3. CASE ~ (d.kind = "reset" \/ shown = NoView)
  <2>1. shown \in Lists /\ Applied(shown, d) = Upsert(shown, d)
    BY <1>3 DEF Applied
  <2>2. CASE d.from > Len(shown) + 1
    BY <2>1, <2>2 DEF Upsert
  <2>3. CASE ~ (d.from > Len(shown) + 1)
    <3> DEFINE n == Len(shown)
               k == Len(d.messages)
               last == d.from + k - 1
               a == SubSeq(shown, 1, d.from - 1)
               z == SubSeq(shown, last + 1, n)
    <3>1. /\ shown \in Seq(Messages) /\ n \in Nat /\ n <= MaxMessages
          /\ d.messages \in Seq(Messages) /\ k \in Nat
      BY <1>1, <2>1, ListsSeq, LenProperties
    <3>2. \A i \in 1 .. n : shown[i] \in Messages
      BY <3>1, ElementOfSeq
    <3>3. d.from - 1 <= n /\ last \in Int /\ last + 1 >= 1 /\ d.from - 1 \in Nat
      BY <1>1, <2>3, <3>1
    <3> HIDE DEF n, k, last
    <3>4. a \in Seq(Messages) /\ Len(a) = d.from - 1
      <4>1. \A i \in 1 .. d.from - 1 : shown[i] \in Messages
        BY <3>1, <3>2, <3>3
      <4>2. /\ a \in Seq(Messages)
            /\ Len(a) = IF 1 <= d.from - 1 THEN d.from - 1 - 1 + 1 ELSE 0
        BY <3>3, <4>1, SubSeqProperties
      <4> QED
        BY <3>3, <4>2
    <3>5. z \in Seq(Messages) /\ Len(z) = IF last + 1 <= n THEN n - last ELSE 0
      <4>1. \A i \in last + 1 .. n : shown[i] \in Messages
        BY <3>1, <3>2, <3>3
      <4>2. /\ z \in Seq(Messages)
            /\ Len(z) = IF last + 1 <= n THEN n - (last + 1) + 1 ELSE 0
        <5>1. last + 1 \in Int /\ n \in Int
          BY <3>1, <3>3
        <5> QED
          BY <4>1, <5>1, SubSeqProperties
      <4> QED
        BY <3>1, <3>3, <4>2
    <3> HIDE DEF a, z
    <3> DEFINE am == a \o d.messages
    <3>6. am \in Seq(Messages) /\ Len(am) = d.from - 1 + k
      BY <3>1, <3>4, ConcatProperties DEF k
    <3>upsert. Upsert(shown, d) = am \o z
      BY <2>3 DEF Upsert, a, z, last, k, n
    <3> HIDE DEF am
    <3>7. am \o z \in Seq(Messages) /\ Len(am \o z) = d.from - 1 + k + Len(z)
      BY <3>5, <3>6, ConcatProperties
    <3>8. d.from - 1 + k = last
      BY <1>1, <3>1 DEF last
    <3>9. last <= MaxMessages
      BY DEF last, k
    <3>10. Len(am \o z) <= MaxMessages
      BY <3>1, <3>3, <3>5, <3>7, <3>8, <3>9, BoundsAssumption
    <3> QED
      BY <2>1, <3>7, <3>10, <3>upsert, ListsSeq
  <2> QED
    BY <2>2, <2>3
<1> QED
  BY <1>2, <1>3

----------------------------------------------------------------------------
(* Sessions and their leases.                                              *)

LEMMA SessionKinds ==
  ASSUME NEW s \in Sessions
  PROVE  /\ Lease(s) \in Sessions /\ Lease(s).subscribers = s.subscribers + 1
         /\ Lease(s).content = s.content /\ Lease(s).delivered = s.delivered
         /\ s.subscribers > 0 => Unlease(s) \in Sessions
         /\ Unlease(s).subscribers = s.subscribers - 1
         /\ Unlease(s).content = s.content /\ Unlease(s).delivered = s.delivered
         /\ Touched(s) \in Sessions /\ Touched(s).subscribers = s.subscribers
         /\ Touched(s).content = s.content /\ Touched(s).delivered = s.delivered
<1>1. /\ s.content \in Lists /\ s.delivered \in BOOLEAN
      /\ s.subscribers \in Nat /\ s.recent \in BOOLEAN
  BY DEF Sessions
<1>2. s.subscribers + 1 \in Nat
  BY <1>1
<1>3. Lease(s) \in Sessions
  BY <1>2 DEF Lease, Sessions
<1>4. /\ Lease(s).subscribers = s.subscribers + 1
      /\ Lease(s).content = s.content /\ Lease(s).delivered = s.delivered
  BY DEF Lease, Sessions
<1>5. ASSUME s.subscribers > 0 PROVE Unlease(s) \in Sessions
  <2>1. s.subscribers - 1 \in Nat
    BY <1>1, <1>5
  <2> QED
    BY <2>1 DEF Unlease, Sessions
<1>6. /\ Unlease(s).subscribers = s.subscribers - 1
      /\ Unlease(s).content = s.content /\ Unlease(s).delivered = s.delivered
  BY DEF Unlease, Sessions
<1>7. Touched(s) \in Sessions
  BY DEF Touched, Sessions
<1>8. /\ Touched(s).subscribers = s.subscribers
      /\ Touched(s).content = s.content /\ Touched(s).delivered = s.delivered
  BY DEF Touched, Sessions
<1> QED
  BY <1>3, <1>4, <1>5, <1>6, <1>7, <1>8

LEMMA Refilled ==
  ASSUME NEW s \in Sessions, NEW c \in Lists
  PROVE  /\ [s EXCEPT !.content = c] \in Sessions
         /\ [s EXCEPT !.content = c].content = c
         /\ [s EXCEPT !.content = c].subscribers = s.subscribers
         /\ [s EXCEPT !.content = c].delivered = s.delivered
BY DEF Sessions

LEMMA OpenedSession ==
  ASSUME NEW c \in Lists
  PROVE  /\ Opened(c) \in Sessions /\ Opened(c).subscribers = 0
         /\ Opened(c).content = c /\ ~ Opened(c).delivered
BY DEF Opened, Sessions

LEMMA Counts ==
  ASSUME NEW T \in SUBSET Workers, NEW w
  PROVE  /\ Cardinality(T) \in Nat /\ (Cardinality(T) = 0 <=> T = {})
         /\ Cardinality(T \cup {w}) = IF w \in T THEN Cardinality(T) ELSE Cardinality(T) + 1
         /\ Cardinality(T \ {w}) = IF w \in T THEN Cardinality(T) - 1 ELSE Cardinality(T)
         /\ w \in T => Cardinality(T) > 0
<1>1. IsFiniteSet(T)
  BY FS_Subset, BoundsAssumption
<1>2. Cardinality(T) \in Nat /\ (Cardinality(T) = 0 <=> T = {})
  BY <1>1, FS_CardinalityType, FS_EmptySet
<1> QED
  BY <1>1, <1>2, FS_AddElement, FS_RemoveElement

\* Without leases nobody holds one.
LEMMA NoLeases ==
  ASSUME TypeOK, LeasesCounted, live = NoSession \/ live.subscribers = 0
  PROVE  Leasing = {} /\ mine = {} /\ stray = {}
<1>1. Leasing \in SUBSET Workers /\ mine \in SUBSET Workers /\ stray \in SUBSET Workers
  BY DEF TypeOK, Leasing
<1>2. Cardinality(Leasing) + Cardinality(mine) + Cardinality(stray) = 0
  BY DEF LeasesCounted
<1>3. /\ Cardinality(Leasing) \in Nat /\ Cardinality(mine) \in Nat
      /\ Cardinality(stray) \in Nat
  BY <1>1, Counts
<1>4. Cardinality(Leasing) = 0 /\ Cardinality(mine) = 0 /\ Cardinality(stray) = 0
  BY <1>2, <1>3
<1> QED
  BY <1>1, <1>4, Counts

\* Whoever holds a lease finds a session with one.
LEMMA Leased ==
  ASSUME TypeOK, LeasesCounted, NEW w \in Leasing \cup mine \cup stray
  PROVE  live # NoSession /\ live \in Sessions /\ live.subscribers > 0
<1>1. live # NoSession /\ live.subscribers # 0
  BY NoLeases
<1>2. live \in Sessions
  BY <1>1 DEF TypeOK
<1> QED
  BY <1>1, <1>2 DEF Sessions

LEMMA InitLive == Init => LiveInv
<1> SUFFICES ASSUME Init PROVE LiveInv
  OBVIOUS
<1>1. <<>> \in Lists
  BY EmptyIsList
<1>2. file \in [rewrite : Messages, len : 0 .. MaxMessages]
  BY BoundsAssumption DEF Init, Messages
<1>3. TypeOK
  BY <1>1, <1>2 DEF Init, TypeOK
<1>4. Leasing = {}
  BY DEF Init, Leasing
<1>5. LeasesCounted
  BY <1>4, FS_EmptySet DEF Init, LeasesCounted
<1> QED
  BY <1>3, <1>5 DEF Init, LiveInv, GotInv, ClonedInv, SoleInv

----------------------------------------------------------------------------
(* Steps that leave the workers alone.                                     *)

LEMMA WriteStep ==
  ASSUME LiveInv, Write
  PROVE  LiveInv'
<1>1. UNCHANGED <<live, pc, view, got, mine, stray, sole, hydrated, rpc>>
  BY DEF Write, workerVars
<1>2. file' \in [rewrite : Messages, len : 0 .. MaxMessages]
  <2>1. file.rewrite \in 0 .. MaxRewrites /\ file.len \in 0 .. MaxMessages
    BY DEF LiveInv, TypeOK, Messages
  <2>2. CASE file.len < MaxMessages /\ file' = [file EXCEPT !.len = @ + 1]
    <3>1. file.len + 1 \in 0 .. MaxMessages
      BY <2>1, <2>2, BoundsAssumption
    <3> QED
      BY <2>2, <3>1 DEF LiveInv, TypeOK
  <2>3. ASSUME file.rewrite < MaxRewrites, NEW n \in 0 .. MaxMessages,
               file' = [rewrite |-> file.rewrite + 1, len |-> n]
        PROVE  file' \in [rewrite : Messages, len : 0 .. MaxMessages]
    <3>1. file.rewrite + 1 \in Messages
      BY <2>1, <2>3, BoundsAssumption DEF Messages
    <3> QED
      BY <2>3, <3>1
  <2> QED
    BY <2>2, <2>3 DEF Write
<1>3. TypeOK'
  BY <1>1, <1>2 DEF LiveInv, TypeOK
<1>4. Leasing' = Leasing
  BY <1>1 DEF Leasing
<1> QED
  BY <1>1, <1>3, <1>4
     DEF LiveInv, GotInv, ClonedInv, LeasesCounted, SoleInv, Applied, Upsert

\* What shared reads and the reaper do to the map's session: a leased one keeps
\* what it holds, another may go or come.
SharedChange ==
  \/ /\ live \in Sessions /\ live' \in Sessions
     /\ live'.subscribers = live.subscribers /\ live'.delivered = live.delivered
     /\ live.subscribers # 0 => live'.content = live.content
  \/ /\ live = NoSession \/ live.subscribers = 0
     /\ live' = NoSession \/ (live' \in Sessions /\ live'.subscribers = 0)

LEMMA SharedStep ==
  ASSUME LiveInv, SharedChange, UNCHANGED <<file, workerVars>>,
         hydrated' \in [Workers \cup Readers -> Lists],
         rpc' \in [Readers -> {"idle", "cloned", "orphaned", "missed", "opened"}],
         \A r \in Readers : rpc'[r] = "cloned" => live' # NoSession
  PROVE  LiveInv'
<1>1. UNCHANGED <<file, pc, view, got, mine, stray, sole>> /\ Leasing' = Leasing
  BY DEF workerVars, Leasing
<1>2. live' \in Sessions \cup {NoSession}
  BY DEF SharedChange
<1>3. TypeOK'
  BY <1>1, <1>2 DEF LiveInv, TypeOK
<1>4. GotInv' /\ ClonedInv'
  BY <1>1 DEF LiveInv, GotInv, ClonedInv
<1>5. CASE /\ live \in Sessions /\ live' \in Sessions
           /\ live'.subscribers = live.subscribers /\ live'.delivered = live.delivered
           /\ live.subscribers # 0 => live'.content = live.content
  <2>1. live # NoSession /\ live' # NoSession
    BY <1>5, NullsAssumption
  <2>2. LeasesCounted'
    BY <1>1, <1>5, <2>1 DEF LiveInv, LeasesCounted
  <2>3. ASSUME NEW w \in sole PROVE live'.content = live.content
    <3>1. w \in Leasing
      BY <2>3 DEF LiveInv, SoleInv
    <3> QED
      BY <1>5, <3>1, NoLeases DEF LiveInv
  <2>4. SoleInv'
    BY <1>1, <1>5, <2>3 DEF LiveInv, SoleInv, Applied, Upsert
  <2> QED
    BY <1>3, <1>4, <2>2, <2>4 DEF LiveInv
<1>6. CASE /\ live = NoSession \/ live.subscribers = 0
           /\ live' = NoSession \/ (live' \in Sessions /\ live'.subscribers = 0)
  <2>1. Leasing = {} /\ mine = {} /\ stray = {} /\ sole = {}
    BY <1>6, NoLeases DEF LiveInv, SoleInv
  <2>2. LeasesCounted'
    BY <1>1, <1>6, <2>1, FS_EmptySet DEF LeasesCounted
  <2>3. SoleInv'
    BY <1>1, <2>1 DEF SoleInv
  <2> QED
    BY <1>3, <1>4, <2>2, <2>3 DEF LiveInv
<1> QED
  BY <1>5, <1>6 DEF SharedChange

\* The reaper's part of a shared read.
LEMMA Reaping ==
  ASSUME LiveInv
  PROVE  /\ Kept \in Sessions \cup {NoSession}
         /\ Kept = live \/ (Kept = NoSession /\ live.subscribers = 0)
         /\ Orphaned \in [Readers -> {"idle", "cloned", "orphaned", "missed", "opened"}]
         /\ \A r \in Readers : Orphaned[r] = "cloned" => Kept = live /\ live # NoSession
<1>1. live \in Sessions \cup {NoSession}
  BY DEF LiveInv, TypeOK
<1>2. /\ Kept \in Sessions \cup {NoSession}
      /\ Kept = live \/ (Kept = NoSession /\ live.subscribers = 0)
  BY <1>1 DEF Kept, Reapable
<1>3. Orphaned \in [Readers -> {"idle", "cloned", "orphaned", "missed", "opened"}]
  BY DEF LiveInv, TypeOK, Orphaned
<1>4. ASSUME NEW r \in Readers, Orphaned[r] = "cloned"
      PROVE  Kept = live /\ live # NoSession
  <2>1. rpc[r] = "cloned" /\ ~ Reapable(live)
    BY <1>4 DEF Orphaned
  <2> QED
    BY <2>1 DEF Kept, LiveInv, ClonedInv
<1> QED
  BY <1>2, <1>3, <1>4

LEMMA LookStep ==
  ASSUME LiveInv, NEW r \in Readers, Look(r)
  PROVE  LiveInv'
<1>1. /\ live' = Kept
      /\ rpc' = [Orphaned EXCEPT ![r] = IF Kept = NoSession THEN "missed" ELSE "cloned"]
      /\ UNCHANGED <<file, workerVars, hydrated>>
  BY DEF Look
<1>2. SharedChange
  BY <1>1, Reaping DEF SharedChange, LiveInv, TypeOK
<1>3. /\ rpc' \in [Readers -> {"idle", "cloned", "orphaned", "missed", "opened"}]
      /\ \A q \in Readers : rpc'[q] = "cloned" => live' # NoSession
  BY <1>1, Reaping
<1> QED
  BY <1>1, <1>2, <1>3, SharedStep DEF LiveInv, TypeOK

LEMMA ReadStep ==
  ASSUME LiveInv, NEW r \in Readers, Read(r)
  PROVE  LiveInv'
<1>1. /\ rpc[r] = "cloned" /\ rpc' = [rpc EXCEPT ![r] = "idle"]
      /\ live' = Touched(IF live.subscribers = 0 THEN [live EXCEPT !.content = Fed]
                         ELSE live)
      /\ UNCHANGED <<file, workerVars, hydrated>>
  BY DEF Read
<1>2. live # NoSession /\ live \in Sessions
  BY <1>1 DEF LiveInv, ClonedInv, TypeOK
<1>3. Fed \in Lists
  BY <1>2, Feeding DEF LiveInv
<1>4. SharedChange /\ live' \in Sessions
  <2>1. CASE live.subscribers = 0
    <3> DEFINE s == [live EXCEPT !.content = Fed]
    <3>1. s \in Sessions /\ s.subscribers = live.subscribers /\ s.delivered = live.delivered
      BY <1>2, <1>3, Refilled
    <3>2. live' = Touched(s)
      BY <1>1, <2>1
    <3> HIDE DEF s
    <3> QED
      BY <1>2, <2>1, <3>1, <3>2, SessionKinds DEF SharedChange
  <2>2. CASE live.subscribers # 0
    BY <1>1, <1>2, <2>2, SessionKinds DEF SharedChange
  <2> QED
    BY <2>1, <2>2
<1>5. live' # NoSession
  BY <1>4, NullsAssumption
<1> QED
  BY <1>1, <1>4, <1>5, SharedStep DEF LiveInv, TypeOK

LEMMA InsertSharedStep ==
  ASSUME LiveInv, NEW r \in Readers, InsertShared(r)
  PROVE  LiveInv'
<1>1. /\ live' = IF Kept = NoSession THEN Opened(hydrated[r]) ELSE Touched(Kept)
      /\ rpc' = [Orphaned EXCEPT ![r] = "idle"]
      /\ hydrated' = [hydrated EXCEPT ![r] = <<>>]
      /\ UNCHANGED <<file, workerVars>>
  BY DEF InsertShared
<1>2. hydrated[r] \in Lists /\ <<>> \in Lists
  BY EmptyIsList DEF LiveInv, TypeOK
<1>3. SharedChange /\ live' \in Sessions
  <2>1. CASE Kept = NoSession
    <3>1. live = NoSession \/ live.subscribers = 0
      BY <2>1, Reaping
    <3> QED
      BY <1>1, <1>2, <2>1, <3>1, OpenedSession DEF SharedChange
  <2>2. CASE Kept # NoSession
    <3>1. Kept = live /\ live \in Sessions
      BY <2>2, Reaping
    <3> QED
      BY <1>1, <2>2, <3>1, SessionKinds DEF SharedChange
  <2> QED
    BY <2>1, <2>2
<1>4. live' # NoSession
  BY <1>3, NullsAssumption
<1>5. rpc' \in [Readers -> {"idle", "cloned", "orphaned", "missed", "opened"}]
  BY <1>1, Reaping
<1>6. hydrated' \in [Workers \cup Readers -> Lists]
  BY <1>1, <1>2 DEF LiveInv, TypeOK
<1> QED
  BY <1>1, <1>3, <1>4, <1>5, <1>6, SharedStep

LEMMA OtherReaderSteps ==
  ASSUME LiveInv, NEW r \in Readers, ReadOrphan(r) \/ OpenShared(r)
  PROVE  LiveInv'
<1>1. /\ \/ rpc' = [rpc EXCEPT ![r] = "idle"] /\ UNCHANGED hydrated
         \/ /\ rpc' = [rpc EXCEPT ![r] = "opened"]
            /\ hydrated' = [hydrated EXCEPT ![r] = Text(file.len)]
      /\ UNCHANGED <<file, live, workerVars>>
  BY DEF ReadOrphan, OpenShared
<1>2. Text(file.len) \in Lists
  BY TextIsList DEF LiveInv, TypeOK
<1>3. SharedChange
  BY <1>1 DEF SharedChange, LiveInv, TypeOK
<1>4. hydrated' \in [Workers \cup Readers -> Lists]
  BY <1>1, <1>2 DEF LiveInv, TypeOK
<1>5. /\ rpc' \in [Readers -> {"idle", "cloned", "orphaned", "missed", "opened"}]
      /\ \A q \in Readers : rpc'[q] = "cloned" => live' # NoSession
  BY <1>1 DEF LiveInv, TypeOK, ClonedInv
<1> QED
  BY <1>1, <1>3, <1>4, <1>5, SharedStep

LEMMA ReapStep ==
  ASSUME LiveInv, Reap
  PROVE  LiveInv'
<1>1. /\ live # NoSession /\ live.subscribers = 0 /\ live' = NoSession
      /\ rpc' = Orphaned /\ UNCHANGED <<file, workerVars, hydrated>>
      /\ \A r \in Readers : rpc'[r] # "cloned"
  BY DEF Reap, Reapable, Orphaned
<1>2. SharedChange
  BY <1>1 DEF SharedChange
<1> QED
  BY <1>1, <1>2, Reaping, SharedStep DEF LiveInv, TypeOK

LEMMA IdleStep ==
  ASSUME LiveInv, Idle
  PROVE  LiveInv'
<1>1. /\ live # NoSession /\ live \in Sessions
      /\ live' = [live EXCEPT !.recent = FALSE]
      /\ UNCHANGED <<file, workerVars, hydrated, rpc>>
  BY DEF Idle, LiveInv, TypeOK
<1>2. /\ live' \in Sessions /\ live'.subscribers = live.subscribers
      /\ live'.delivered = live.delivered /\ live'.content = live.content
  BY <1>1 DEF Sessions
<1>3. SharedChange /\ live' # NoSession
  BY <1>1, <1>2, NullsAssumption DEF SharedChange
<1> QED
  BY <1>1, <1>3, SharedStep DEF LiveInv, TypeOK

----------------------------------------------------------------------------
(* Steps of the workers.                                                   *)

\* Nothing changes for a worker that alone leases its session.
LEMMA Unleased ==
  ASSUME LiveInv, NEW w \in Workers, w \notin Leasing
  PROVE  w \notin sole /\ w \notin mine /\ got[w] = NoDelta
BY DEF LiveInv, SoleInv, GotInv, Leasing

LEMMA AcquireStep ==
  ASSUME LiveInv, NEW w \in Workers, pc[w] \in {"hidden", "opened"},
         NEW s \in Sessions, s = live \/ (live = NoSession /\ s.subscribers = 0),
         pc' = [pc EXCEPT ![w] = "leased"], Acquire(w, s),
         hydrated' \in [Workers \cup Readers -> Lists],
         UNCHANGED <<file, view, got, mine, stray, rpc>>
  PROVE  LiveInv'
<1>1. /\ live' = Lease(s) /\ live' \in Sessions /\ live' # NoSession
      /\ live'.subscribers = s.subscribers + 1 /\ live'.delivered = s.delivered
  BY SessionKinds, NullsAssumption DEF Acquire
<1>2. w \notin Leasing /\ Leasing' = Leasing \cup {w} /\ Leasing \in SUBSET Workers
  BY DEF LiveInv, TypeOK, Leasing
<1>3. w \notin sole /\ w \notin mine /\ got[w] = NoDelta
  BY <1>2, Unleased
<1>4. /\ pc' \in [Workers -> {"hidden", "missed", "opened", "leased", "watching"}]
      /\ sole' \subseteq Workers
  BY DEF LiveInv, TypeOK, Acquire
<1>5. TypeOK'
  BY <1>1, <1>4 DEF LiveInv, TypeOK
<1>6. \A v \in Workers \ {w} : pc'[v] = pc[v]
  BY DEF LiveInv, TypeOK
<1>7. GotInv' /\ ClonedInv'
  BY <1>1, <1>3, <1>6 DEF LiveInv, GotInv, ClonedInv
<1>8. LeasesCounted'
  <2>1. s.subscribers = Cardinality(Leasing) + Cardinality(mine) + Cardinality(stray)
    BY NullsAssumption DEF LiveInv, LeasesCounted
  <2>2. Cardinality(Leasing') = Cardinality(Leasing) + 1 /\ Cardinality(Leasing) \in Nat
    BY <1>2, Counts
  <2>3. Cardinality(mine) \in Nat /\ Cardinality(stray) \in Nat
    BY Counts DEF LiveInv, TypeOK
  <2> QED
    BY <1>1, <2>1, <2>2, <2>3 DEF LeasesCounted
<1>9. SoleInv'
  <2> SUFFICES ASSUME NEW v \in sole'
               PROVE  /\ v = w /\ Leasing' = {w} /\ mine' = {} /\ stray' = {}
                      /\ pc'[w] = "leased" /\ ~ live'.delivered /\ view'[w] = NoView
    BY DEF SoleInv
  <2>1. v = w /\ s.subscribers = 0 /\ ~ s.delivered /\ view[w] = NoView
    BY DEF Acquire
  <2>2. Leasing = {} /\ mine = {} /\ stray = {}
    BY <2>1, NoLeases DEF LiveInv
  <2> QED
    BY <1>1, <1>2, <2>1, <2>2 DEF LiveInv, TypeOK
<1> QED
  BY <1>5, <1>7, <1>8, <1>9 DEF LiveInv

LEMMA SubscribeStep ==
  ASSUME LiveInv, NEW w \in Workers, Subscribe(w) \/ InsertLeased(w)
  PROVE  LiveInv'
<1>1. CASE Subscribe(w) /\ live = NoSession
  <2>1. /\ pc[w] = "hidden" /\ pc' = [pc EXCEPT ![w] = "missed"]
        /\ UNCHANGED <<file, live, view, got, mine, stray, sole, hydrated, rpc>>
    BY <1>1 DEF Subscribe
  <2>2. Leasing' = Leasing /\ w \notin Leasing
    BY <2>1 DEF LiveInv, TypeOK, Leasing
  <2>3. TypeOK'
    BY <2>1 DEF LiveInv, TypeOK
  <2>4. GotInv' /\ ClonedInv'
    BY <2>1 DEF LiveInv, TypeOK, GotInv, ClonedInv
  <2>5. LeasesCounted' /\ SoleInv'
    BY <2>1, <2>2, <1>1, NoLeases DEF LiveInv, LeasesCounted, SoleInv
  <2> QED
    BY <2>3, <2>4, <2>5 DEF LiveInv
<1>2. CASE Subscribe(w) /\ live # NoSession
  <2>1. /\ pc[w] = "hidden" /\ pc' = [pc EXCEPT ![w] = "leased"] /\ Acquire(w, live)
        /\ UNCHANGED <<file, view, got, mine, stray, hydrated, rpc>>
    BY <1>2 DEF Subscribe
  <2>2. live \in Sessions /\ hydrated' \in [Workers \cup Readers -> Lists]
    BY <1>2, <2>1 DEF LiveInv, TypeOK
  <2> QED
    BY <2>1, <2>2, AcquireStep
<1>3. CASE InsertLeased(w)
  <2> DEFINE s == IF live = NoSession THEN Opened(hydrated[w]) ELSE live
  <2>1. /\ pc[w] = "opened" /\ pc' = [pc EXCEPT ![w] = "leased"] /\ Acquire(w, s)
        /\ hydrated' = [hydrated EXCEPT ![w] = <<>>]
        /\ UNCHANGED <<file, view, got, mine, stray, rpc>>
    BY <1>3 DEF InsertLeased
  <2>2. s \in Sessions /\ (s = live \/ (live = NoSession /\ s.subscribers = 0))
    BY OpenedSession DEF LiveInv, TypeOK
  <2>3. hydrated' \in [Workers \cup Readers -> Lists]
    BY <2>1, EmptyIsList DEF LiveInv, TypeOK
  <2> HIDE DEF s
  <2> QED
    BY <2>1, <2>2, <2>3, AcquireStep
<1> QED
  BY <1>1, <1>2, <1>3

LEMMA OpenForLeaseStep ==
  ASSUME LiveInv, NEW w \in Workers, OpenForLease(w)
  PROVE  LiveInv'
<1>1. /\ pc[w] = "missed" /\ pc' = [pc EXCEPT ![w] = "opened"]
      /\ hydrated' = [hydrated EXCEPT ![w] = Text(file.len)]
      /\ UNCHANGED <<file, live, view, got, mine, stray, sole, rpc>>
  BY DEF OpenForLease
<1>2. Text(file.len) \in Lists
  BY TextIsList DEF LiveInv, TypeOK
<1>3. Leasing' = Leasing /\ w \notin Leasing
  BY <1>1 DEF LiveInv, TypeOK, Leasing
<1>4. TypeOK'
  BY <1>1, <1>2 DEF LiveInv, TypeOK
<1>5. GotInv' /\ ClonedInv'
  BY <1>1 DEF LiveInv, TypeOK, GotInv, ClonedInv
<1>6. LeasesCounted'
  BY <1>1, <1>3 DEF LiveInv, LeasesCounted
<1>7. SoleInv'
  <2>1. \A v \in sole : pc'[v] = pc[v]
    BY <1>1, <1>3 DEF LiveInv, TypeOK, SoleInv
  <2> QED
    BY <1>1, <1>3, <2>1 DEF LiveInv, SoleInv, Applied, Upsert
<1> QED
  BY <1>4, <1>5, <1>6, <1>7 DEF LiveInv

LEMMA DeliverStep ==
  ASSUME LiveInv, NEW w \in Workers, Deliver(w)
  PROVE  LiveInv'
<1>1. /\ pc[w] = "leased" /\ pc' = [pc EXCEPT ![w] = "watching"]
      /\ got' = [got EXCEPT ![w] = Worth(InitialReport)]
      /\ live' = [live EXCEPT !.delivered = TRUE]
      /\ UNCHANGED <<file, view, mine, stray, sole, hydrated, rpc>>
  BY DEF Deliver
<1>2. w \in Leasing /\ Leasing' = Leasing
  BY <1>1 DEF LiveInv, TypeOK, Leasing
<1>3. live \in Sessions /\ live # NoSession
  BY <1>2, Leased DEF LiveInv
<1>4. /\ live' \in Sessions /\ live' # NoSession /\ live'.content = live.content
      /\ live'.subscribers = live.subscribers
  BY <1>1, <1>3, NullsAssumption DEF Sessions
<1> DEFINE d == [kind |-> "appended", from |-> 1, messages |-> live.content]
<1>5. /\ d \in Deltas /\ d # NoDelta /\ d # Unchanged
      /\ d.kind = "appended" /\ d.from = 1 /\ d.messages = live.content
      /\ Len(d.messages) \in Nat /\ Len(d.messages) <= MaxMessages
  <2>1. live.content \in Lists
    BY <1>3 DEF Sessions
  <2>2. Len(live.content) \in Nat /\ Len(live.content) <= MaxMessages
    BY <2>1, ListsSeq, LenProperties
  <2>3. d \in Deltas
    BY <2>1 DEF Deltas
  <2> QED
    BY <2>2, <2>3, NullsAssumption DEF Unchanged
<1>6. got'[w] = (IF live.delivered THEN NoDelta ELSE d)
  BY <1>1, <1>5 DEF LiveInv, TypeOK, Worth, InitialReport
<1> HIDE DEF d
<1>7. \A v \in Workers \ {w} : pc'[v] = pc[v] /\ got'[v] = got[v]
  BY <1>1 DEF LiveInv, TypeOK
<1>8. TypeOK'
  <2>1. got' \in [Workers -> Deltas \cup {NoDelta}]
    BY <1>1, <1>5, <1>6 DEF LiveInv, TypeOK
  <2> QED
    BY <1>1, <1>4, <2>1 DEF LiveInv, TypeOK
<1>9. GotInv'
  <2>1. pc'[w] = "watching"
    BY <1>1 DEF LiveInv, TypeOK
  <2>2. w \notin mine
    BY <1>1 DEF LiveInv, GotInv
  <2>3. got'[w] # NoDelta => /\ got'[w].from >= 1
                             /\ got'[w].from + Len(got'[w].messages) - 1 <= MaxMessages
    BY <1>5, <1>6, BoundsAssumption
  <2> QED
    BY <1>1, <1>7, <2>1, <2>2, <2>3 DEF LiveInv, GotInv
<1>10. ClonedInv' /\ LeasesCounted'
  BY <1>1, <1>2, <1>3, <1>4 DEF LiveInv, ClonedInv, LeasesCounted
<1>11. SoleInv'
  <2> SUFFICES ASSUME NEW v \in sole
               PROVE  /\ v = w /\ Leasing' = {w} /\ mine' \subseteq {w} /\ stray' = {}
                      /\ pc'[w] = "watching" /\ got'[w] # NoDelta
                      /\ Applied(view'[w], got'[w]) = live'.content
    BY <1>1 DEF SoleInv
  <2>1. v = w /\ ~ live.delivered /\ view[w] = NoView
    BY <1>1, <1>2 DEF LiveInv, SoleInv
  <2>2. Applied(NoView, d) = live.content
    BY <1>5 DEF Applied
  <2> QED
    BY <1>1, <1>2, <1>4, <1>5, <1>6, <2>1, <2>2 DEF LiveInv, TypeOK, SoleInv
<1> QED
  BY <1>8, <1>9, <1>10, <1>11 DEF LiveInv

LEMMA ApplyStep ==
  ASSUME LiveInv, NEW w \in Workers, Apply(w)
  PROVE  LiveInv'
<1>1. /\ got[w] # NoDelta
      /\ view' = [view EXCEPT ![w] = Applied(view[w], got[w])]
      /\ got' = [got EXCEPT ![w] = NoDelta]
      /\ UNCHANGED <<file, live, pc, mine, stray, sole, hydrated, rpc>>
  BY DEF Apply
<1>2. Applied(view[w], got[w]) \in Lists
  <2>1. view[w] \in Lists \cup {NoView} /\ got[w] \in Deltas
    BY <1>1 DEF LiveInv, TypeOK
  <2> QED
    BY <1>1, <2>1, AppliedIsList DEF LiveInv, GotInv
<1>3. /\ got'[w] = NoDelta /\ view'[w] = Applied(view[w], got[w])
      /\ \A v \in Workers \ {w} : view'[v] = view[v] /\ got'[v] = got[v]
  BY <1>1 DEF LiveInv, TypeOK
<1>4. TypeOK'
  BY <1>1, <1>2 DEF LiveInv, TypeOK
<1>5. Leasing' = Leasing
  BY <1>1 DEF Leasing
<1>6. GotInv' /\ ClonedInv' /\ LeasesCounted'
  BY <1>1, <1>3, <1>5 DEF LiveInv, GotInv, ClonedInv, LeasesCounted
<1>7. SoleInv'
  <2> SUFFICES ASSUME NEW v \in sole
               PROVE  /\ v = w
                      /\ pc'[v] = "leased" => FALSE
                      /\ got'[v] = NoDelta
                      /\ pc'[v] = "watching" => view'[v] = live'.content
    BY <1>1, <1>5 DEF LiveInv, SoleInv
  <2>1. pc[w] = "watching"
    BY <1>1 DEF LiveInv, GotInv
  <2>2. v = w
    BY <2>1 DEF LiveInv, SoleInv, Leasing
  <2> QED
    BY <1>1, <1>3, <2>1, <2>2 DEF LiveInv, SoleInv
<1> QED
  BY <1>4, <1>6, <1>7 DEF LiveInv

LEMMA StartSyncStep ==
  ASSUME LiveInv, NEW w \in Workers, StartSync(w)
  PROVE  LiveInv'
<1>1. /\ pc[w] = "watching" /\ got[w] = NoDelta /\ w \notin mine
      /\ mine' = mine \cup {w} /\ live' = Lease(live)
      /\ UNCHANGED <<file, pc, view, got, stray, sole, hydrated, rpc>>
  BY DEF StartSync
<1>2. w \in Leasing /\ Leasing' = Leasing
  BY <1>1 DEF Leasing
<1>3. live \in Sessions /\ live # NoSession
  BY <1>2, Leased DEF LiveInv
<1>4. /\ live' \in Sessions /\ live' # NoSession /\ live'.content = live.content
      /\ live'.subscribers = live.subscribers + 1 /\ live'.delivered = live.delivered
  BY <1>1, <1>3, SessionKinds, NullsAssumption
<1>5. TypeOK'
  BY <1>1, <1>4 DEF LiveInv, TypeOK
<1>6. GotInv' /\ ClonedInv'
  BY <1>1, <1>4 DEF LiveInv, GotInv, ClonedInv
<1>7. LeasesCounted'
  <2>1. Cardinality(mine') = Cardinality(mine) + 1 /\ Cardinality(mine) \in Nat
    BY <1>1, Counts DEF LiveInv, TypeOK
  <2>2. Cardinality(Leasing) \in Nat /\ Cardinality(stray) \in Nat
    BY Counts DEF LiveInv, TypeOK, Leasing
  <2>3. live.subscribers = Cardinality(Leasing) + Cardinality(mine) + Cardinality(stray)
    BY <1>3 DEF LiveInv, LeasesCounted
  <2> QED
    BY <1>1, <1>2, <1>4, <2>1, <2>2, <2>3 DEF LeasesCounted
<1>8. SoleInv'
  BY <1>1, <1>2, <1>4 DEF LiveInv, SoleInv, Applied, Upsert
<1> QED
  BY <1>5, <1>6, <1>7, <1>8 DEF LiveInv

\* The end of a sync: the session is fed, and the clone of the lease goes.
LEMMA SyncFacts ==
  ASSUME LiveInv, NEW w \in mine \cup stray, Sync
  PROVE  /\ live \in Sessions /\ live # NoSession
         /\ live' \in Sessions /\ live' # NoSession /\ live'.content = Fed
         /\ live'.subscribers = live.subscribers - 1 /\ live'.delivered = live.delivered
<1>1. live # NoSession /\ live \in Sessions /\ live.subscribers > 0
  BY Leased DEF LiveInv
<1>2. Fed \in Lists
  BY <1>1, Feeding DEF LiveInv
<1> DEFINE s == [live EXCEPT !.content = Fed]
<1>3. /\ s \in Sessions /\ s.content = Fed
      /\ s.subscribers = live.subscribers /\ s.delivered = live.delivered
  BY <1>1, <1>2, Refilled
<1>4. live' = Unlease(s)
  BY DEF Sync
<1> HIDE DEF s
<1> QED
  BY <1>1, <1>3, <1>4, SessionKinds, NullsAssumption

LEMMA RunSyncStep ==
  ASSUME LiveInv, NEW w \in Workers, RunSync(w)
  PROVE  LiveInv'
<1>1. /\ w \in mine /\ Sync
      /\ got' = [got EXCEPT ![w] = Worth(Report)]
      /\ mine' = mine \ {w}
      /\ UNCHANGED <<file, pc, view, stray, sole, hydrated, rpc>>
  BY DEF RunSync
<1>2. /\ live \in Sessions /\ live # NoSession
      /\ live' \in Sessions /\ live' # NoSession /\ live'.content = Fed
      /\ live'.subscribers = live.subscribers - 1 /\ live'.delivered = live.delivered
  BY <1>1, SyncFacts
<1>3. /\ Report = Unchanged => Fed = live.content
      /\ Report # Unchanged =>
           /\ Report \in Deltas /\ Report # NoDelta /\ Report.from >= 1
           /\ Report.from + Len(Report.messages) - 1 <= MaxMessages
           /\ Applied(live.content, Report) = Fed
  BY <1>2, Feeding, NullsAssumption DEF LiveInv
<1>4. pc[w] = "watching" /\ got[w] = NoDelta /\ Leasing' = Leasing
  BY <1>1 DEF LiveInv, GotInv, Leasing
<1>5. /\ got'[w] = IF Report = Unchanged THEN NoDelta ELSE Report
      /\ \A v \in Workers \ {w} : got'[v] = got[v]
  BY <1>1 DEF LiveInv, TypeOK, Worth
<1>6. TypeOK'
  <2>1. got' \in [Workers -> Deltas \cup {NoDelta}]
    BY <1>1, <1>3, <1>5 DEF LiveInv, TypeOK
  <2> QED
    BY <1>1, <1>2, <2>1 DEF LiveInv, TypeOK
<1>7. GotInv' /\ ClonedInv'
  BY <1>1, <1>2, <1>3, <1>4, <1>5 DEF LiveInv, GotInv, ClonedInv
<1>8. LeasesCounted'
  <2>1. Cardinality(mine') = Cardinality(mine) - 1 /\ Cardinality(mine) \in Nat
    BY <1>1, Counts DEF LiveInv, TypeOK
  <2>2. Cardinality(Leasing) \in Nat /\ Cardinality(stray) \in Nat
    BY Counts DEF LiveInv, TypeOK, Leasing
  <2>3. live.subscribers = Cardinality(Leasing) + Cardinality(mine) + Cardinality(stray)
    BY <1>2 DEF LiveInv, LeasesCounted
  <2> QED
    BY <1>1, <1>2, <1>4, <2>1, <2>2, <2>3 DEF LeasesCounted
<1>9. SoleInv'
  <2> SUFFICES ASSUME NEW v \in sole
               PROVE  /\ Leasing' = {v} /\ mine' \subseteq {v} /\ stray' = {}
                      /\ pc'[v] = "watching"
                      /\ IF got'[v] = NoDelta THEN view'[v] = live'.content
                         ELSE Applied(view'[v], got'[v]) = live'.content
    BY <1>1 DEF SoleInv
  <2>1. v = w /\ view[w] = live.content /\ Leasing = {w} /\ mine \subseteq {w} /\ stray = {}
    BY <1>1, <1>4 DEF LiveInv, SoleInv
  <2>2. IF Report = Unchanged THEN view'[w] = Fed ELSE Applied(view'[w], Report) = Fed
    BY <1>1, <1>3, <2>1
  <2> QED
    BY <1>1, <1>2, <1>3, <1>4, <1>5, <2>1, <2>2
<1> QED
  BY <1>6, <1>7, <1>8, <1>9 DEF LiveInv

LEMMA HideStep ==
  ASSUME LiveInv, NEW w \in Workers, Hide(w)
  PROVE  LiveInv'
<1>1. /\ pc[w] = "watching" /\ pc' = [pc EXCEPT ![w] = "hidden"]
      /\ w \in mine => w \notin stray
      /\ live' = Unlease(live)
      /\ got' = [got EXCEPT ![w] = NoDelta]
      /\ stray' = stray \cup (mine \cap {w})
      /\ mine' = mine \ {w} /\ sole' = sole \ {w}
      /\ UNCHANGED <<file, hydrated, rpc>>
  BY DEF Hide
<1>2. w \in Leasing /\ Leasing' = Leasing \ {w} /\ Leasing \in SUBSET Workers
  BY <1>1 DEF LiveInv, TypeOK, Leasing
<1>3. live \in Sessions /\ live # NoSession /\ live.subscribers > 0
  BY <1>2, Leased DEF LiveInv
<1>4. live' \in Sessions /\ live' # NoSession /\ live'.subscribers = live.subscribers - 1
  BY <1>1, <1>3, SessionKinds, NullsAssumption
<1>5. view' \in [Workers -> Lists \cup {NoView}]
  BY DEF Hide, LiveInv, TypeOK
<1>6. TypeOK'
  BY <1>1, <1>4, <1>5 DEF LiveInv, TypeOK
<1>7. GotInv' /\ ClonedInv'
  BY <1>1, <1>4 DEF LiveInv, TypeOK, GotInv, ClonedInv
<1>8. LeasesCounted'
  <2>1. Cardinality(Leasing') = Cardinality(Leasing) - 1 /\ Cardinality(Leasing) \in Nat
    BY <1>2, Counts
  <2>2. /\ Cardinality(mine) \in Nat /\ Cardinality(stray) \in Nat
        /\ Cardinality(mine') + Cardinality(stray') = Cardinality(mine) + Cardinality(stray)
    <3>1. mine \in SUBSET Workers /\ stray \in SUBSET Workers
      BY DEF LiveInv, TypeOK
    <3>2. CASE w \in mine
      <4>1. stray' = stray \cup {w} /\ w \notin stray
        BY <1>1, <3>2
      <4>2. Cardinality(mine') = Cardinality(mine) - 1 /\ Cardinality(mine) \in Nat
        BY <1>1, <3>1, <3>2, Counts
      <4>3. Cardinality(stray') = Cardinality(stray) + 1 /\ Cardinality(stray) \in Nat
        BY <3>1, <4>1, Counts
      <4> QED
        BY <4>2, <4>3
    <3>3. CASE w \notin mine
      <4>1. mine' = mine /\ stray' = stray
        BY <1>1, <3>3
      <4> QED
        BY <3>1, <4>1, Counts
    <3> QED
      BY <3>2, <3>3
  <2>3. live.subscribers = Cardinality(Leasing) + Cardinality(mine) + Cardinality(stray)
    BY <1>3 DEF LiveInv, LeasesCounted
  <2>4. /\ Cardinality(mine') \in Nat /\ Cardinality(stray') \in Nat
    <3>1. mine' \in SUBSET Workers /\ stray' \in SUBSET Workers
      BY <1>6 DEF TypeOK
    <3> QED
      BY <3>1, Counts
  <2>5. live'.subscribers = Cardinality(Leasing') + Cardinality(mine') + Cardinality(stray')
    BY <1>4, <2>1, <2>2, <2>3, <2>4
  <2> QED
    BY <1>4, <2>5 DEF LeasesCounted
<1>9. SoleInv'
  <2>1. sole' = {}
    BY <1>1, <1>2 DEF LiveInv, SoleInv
  <2> QED
    BY <2>1 DEF SoleInv
<1> QED
  BY <1>6, <1>7, <1>8, <1>9 DEF LiveInv

LEMMA ReboundStep ==
  ASSUME LiveInv, NEW w \in Workers, Rebound(w)
  PROVE  LiveInv'
<1>1. /\ view' = [view EXCEPT ![w] = NoView] /\ sole' = sole \ {w}
      /\ UNCHANGED <<file, live, pc, got, mine, stray, hydrated, rpc>>
  BY DEF Rebound
<1>2. Leasing' = Leasing
  BY <1>1 DEF Leasing
<1>3. TypeOK' /\ GotInv' /\ ClonedInv' /\ LeasesCounted'
  BY <1>1, <1>2 DEF LiveInv, TypeOK, GotInv, ClonedInv, LeasesCounted
<1>4. SoleInv'
  <2>1. \A v \in Workers \ {w} : view'[v] = view[v]
    BY <1>1 DEF LiveInv, TypeOK
  <2>2. sole' \subseteq sole /\ sole' \subseteq Workers \ {w}
    BY <1>1 DEF LiveInv, TypeOK
  <2> QED
    BY <1>1, <1>2, <2>1, <2>2 DEF LiveInv, SoleInv
<1> QED
  BY <1>3, <1>4 DEF LiveInv

LEMMA EndStrayStep ==
  ASSUME LiveInv, NEW w \in Workers, EndStray(w)
  PROVE  LiveInv'
<1>1. /\ w \in stray /\ stray' = stray \ {w}
      /\ Sync \/ live' = Unlease(live)
      /\ UNCHANGED <<file, pc, view, got, mine, sole, hydrated, rpc>>
      /\ Leasing' = Leasing
  BY DEF EndStray, Leasing
<1>2. live \in Sessions /\ live # NoSession /\ live.subscribers > 0
  BY <1>1, Leased DEF LiveInv
<1>3. live' \in Sessions /\ live' # NoSession /\ live'.subscribers = live.subscribers - 1
  <2>1. CASE Sync
    BY <1>1, <2>1, SyncFacts
  <2>2. CASE live' = Unlease(live)
    BY <1>2, <2>2, SessionKinds, NullsAssumption
  <2> QED
    BY <1>1, <2>1, <2>2
<1>4. TypeOK'
  BY <1>1, <1>3 DEF LiveInv, TypeOK
<1>5. GotInv' /\ ClonedInv'
  BY <1>1, <1>3 DEF LiveInv, GotInv, ClonedInv
<1>6. LeasesCounted'
  <2>1. Cardinality(stray') = Cardinality(stray) - 1 /\ Cardinality(stray) \in Nat
    BY <1>1, Counts DEF LiveInv, TypeOK
  <2>2. Cardinality(Leasing) \in Nat /\ Cardinality(mine) \in Nat
    BY Counts DEF LiveInv, TypeOK, Leasing
  <2>3. live.subscribers = Cardinality(Leasing) + Cardinality(mine) + Cardinality(stray)
    BY <1>2 DEF LiveInv, LeasesCounted
  <2> QED
    BY <1>1, <1>3, <2>1, <2>2, <2>3 DEF LeasesCounted
<1>7. SoleInv'
  <2>1. sole = {}
    BY <1>1 DEF LiveInv, SoleInv
  <2> QED
    BY <1>1, <2>1 DEF SoleInv
<1> QED
  BY <1>4, <1>5, <1>6, <1>7 DEF LiveInv

----------------------------------------------------------------------------

LEMMA StepsKeepLiveInv == LiveInv /\ [Next]_vars => LiveInv'
<1> SUFFICES ASSUME LiveInv, [Next]_vars PROVE LiveInv'
  OBVIOUS
<1>1. CASE UNCHANGED vars
  <2>1. UNCHANGED <<file, live, pc, view, got, mine, stray, sole, hydrated, rpc>>
    BY <1>1 DEF vars, workerVars
  <2>2. Leasing' = Leasing
    BY <2>1 DEF Leasing
  <2> QED
    BY <2>1, <2>2
       DEF LiveInv, TypeOK, GotInv, ClonedInv, LeasesCounted, SoleInv,
           Applied, Upsert
<1>2. ASSUME NEW w \in Workers, Subscribe(w) \/ StartSync(w) \/ Hide(w) \/ Rebound(w)
      PROVE  LiveInv'
  BY <1>2, SubscribeStep, StartSyncStep, HideStep, ReboundStep
<1>3. ASSUME NEW w \in Workers, WorkerStep(w) PROVE LiveInv'
  BY <1>3, OpenForLeaseStep, SubscribeStep, DeliverStep, ApplyStep,
     RunSyncStep,
     EndStrayStep DEF WorkerStep
<1>4. ASSUME NEW r \in Readers, Look(r) \/ ReaderStep(r) PROVE LiveInv'
  BY <1>4, LookStep, ReadStep, OtherReaderSteps, InsertSharedStep
     DEF ReaderStep
<1> QED
  BY <1>1, <1>2, <1>3, <1>4, WriteStep, ReapStep, IdleStep DEF Next, Background

\* The strengthening that makes the rest inductive.
THEOREM LiveInvCorrect == Spec => []LiveInv
  BY InitLive, StepsKeepLiveInv, PTL DEF Spec

\* Sessions, views and results are of their kind, and none outgrows the file.
THEOREM LiveTypeCorrect == Spec => []TypeOK
<1>1. LiveInv => TypeOK
  BY DEF LiveInv
<1> QED
  BY <1>1, LiveInvCorrect, PTL

\* A session counts its leases and their clones exactly, however many windows
\* subscribe, sync in the background and hide at once.
THEOREM LeasesCountedCorrect == Spec => []LeasesCounted
<1>1. LiveInv => LeasesCounted
  BY DEF LiveInv
<1> QED
  BY <1>1, LiveInvCorrect, PTL

\* A Chat that alone leases a session nobody was given yet shows all of it:
\* the first delivery and every report after it add up to the content.
THEOREM SoleViewCompleteCorrect == Spec => []SoleViewComplete
<1>1. LiveInv => SoleViewComplete
  BY DEF LiveInv, SoleInv, SoleViewComplete
<1> QED
  BY <1>1, LiveInvCorrect, PTL
=============================================================================
