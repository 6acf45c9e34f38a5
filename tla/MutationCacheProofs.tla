------------------------- MODULE MutationCacheProofs --------------------------
(***************************************************************************)
(* What holds of MutationCache for every number of calls, keys and bodies  *)
(* and for every capacity.                                                 *)
(***************************************************************************)
EXTENDS MutationCache, SequenceTheorems, TLAPS

Asked == \A c \in Calls : pc[c] # "idle" => key[c] \in Keys /\ shape[c] \in Shapes

\* Who waits or executes holds the slot that the map knows for the key, and of
\* those who hold one slot one executes.
SlotInv ==
  /\ \A c \in Calls :
       pc[c] \in {"wait", "run"} => slot[c] # NoSlot /\ inFlight[key[c]] = slot[c]
  /\ \A c, d \in Calls :
       pc[c] = "run" /\ pc[d] = "run" /\ slot[c] = slot[d] => c = d

\* Who executes does it for a key of which nothing is known.
RunInv == \A c \in Calls : pc[c] = "run" => ~ Known(key[c])

\* What is known of a key is what its one settled call was told.
SettledInv ==
  \A k \in Keys :
    /\ Known(k) => settled[k] # {}
    /\ \A d \in settled[k] :
         /\ pc[d] = "answered" /\ Known(k)
         /\ entries[k].shape = shape[d] /\ entries[k].outcome = answer[d]
    /\ \A c, d \in settled[k] : c = d

CacheInv ==
  TypeOK /\ OrderListsEntries /\ Asked /\ SlotInv /\ RunInv /\ SettledInv

----------------------------------------------------------------------------

LEMMA InitCache == Init => CacheInv
<1> SUFFICES ASSUME Init PROVE CacheInv
  OBVIOUS
<1>1. order = <<>> /\ order \in Seq(Keys) /\ Len(order) = 0
  BY DEF Init
<1>2. TypeOK
  BY <1>1 DEF Init, TypeOK
<1>3. OrderListsEntries
  BY <1>1, CapacityAssumption DEF Init, OrderListsEntries
<1> QED
  BY <1>2, <1>3, NullsAssumption
  DEF Init, CacheInv, Asked, SlotInv, RunInv, SettledInv, Known

\* Executions with one key share its slot, and so are one.
LEMMA OneRun == CacheInv => OneRunPerKey
  BY DEF CacheInv, SlotInv, OneRunPerKey

\* A replay is an outcome of the entry, or a conflict.
LEMMA ReplayedOutcome ==
  ASSUME TypeOK, NEW k \in Keys, NEW f, Known(k)
  PROVE  /\ entries[k] \in Entries
         /\ Replayed(k, f) \in Outcomes \cup {"conflict"}
         /\ Replayed(k, f) = "conflict" <=> entries[k].shape # f
         /\ Replayed(k, f) # "conflict" => Replayed(k, f) = entries[k].outcome
<1>1. entries[k] \in Entries
  BY DEF TypeOK, Known
<1>2. entries[k].outcome \in Storable
  BY <1>1 DEF Entries
<1> QED
  BY <1>1, <1>2 DEF Replayed, Outcomes, Storable

\* Whoever is answered from the cache is told what the settled call was told.
LEMMA ReplayedTold ==
  ASSUME CacheInv, NEW k \in Keys, NEW f, Known(k)
  PROVE  \E d \in settled[k] :
           IF Replayed(k, f) = "conflict"
             THEN shape[d] # f
             ELSE answer[d] = Replayed(k, f) /\ shape[d] = f
<1>1. PICK d \in settled[k] : entries[k].shape = shape[d] /\ entries[k].outcome = answer[d]
  BY DEF CacheInv, SettledInv
<1> QED
  BY <1>1, ReplayedOutcome DEF CacheInv

----------------------------------------------------------------------------

\* The first look.
LEMMA LookStep ==
  ASSUME CacheInv, NEW c \in Calls, Look(c)
  PROVE  CacheInv'
<1> USE DEF CacheInv
<1>1. PICK k \in Keys, f \in Shapes :
        /\ key' = [key EXCEPT ![c] = k]
        /\ shape' = [shape EXCEPT ![c] = f]
        /\ IF Known(k)
             THEN Answer(c, Replayed(k, f))
             ELSE Goto(c, "join") /\ UNCHANGED <<answer, slot>>
  BY DEF Look
<1>2. /\ pc[c] = "idle"
      /\ pc'[c] \in {"join", "answered"}
      /\ pc' \in [Calls -> {"idle", "join", "wait", "run", "answered", "dropped"}]
      /\ \A d \in Calls \ {c} :
           /\ pc'[d] = pc[d] /\ slot'[d] = slot[d] /\ answer'[d] = answer[d]
           /\ key'[d] = key[d] /\ shape'[d] = shape[d]
      /\ UNCHANGED <<entries, order, settled, inFlight>>
  BY <1>1 DEF Look, Answer, Goto, TypeOK, cacheVars
<1>types. /\ answer' \in [Calls -> Outcomes \cup {"none", "conflict"}]
      /\ slot' \in [Calls -> Calls \cup {NoSlot}]
  <2>1. CASE Known(k)
    <3>1. Replayed(k, f) \in Outcomes \cup {"conflict"}
      BY <2>1, ReplayedOutcome
    <3>2. /\ answer' = [answer EXCEPT ![c] = Replayed(k, f)]
          /\ slot' = [slot EXCEPT ![c] = NoSlot]
      BY <1>1, <2>1 DEF Answer
    <3> QED
      BY <3>1, <3>2 DEF TypeOK
  <2>2. CASE ~ Known(k)
    BY <1>1, <2>2 DEF TypeOK
  <2> QED
    BY <2>1, <2>2
<1>3. TypeOK'
  BY <1>1, <1>2, <1>types DEF TypeOK
<1>4. Asked'
  BY <1>1, <1>2 DEF Asked, TypeOK
<1>5. SlotInv'
  BY <1>2 DEF SlotInv
<1>6. RunInv'
  BY <1>2 DEF RunInv, Known
<1>7. SettledInv'
  <2>1. \A j \in Keys : c \notin settled[j] /\ settled[j] \subseteq Calls
    BY <1>2 DEF SettledInv, TypeOK
  <2> QED
    BY <1>2, <2>1 DEF SettledInv, Known
<1>8. OrderListsEntries'
  BY <1>2 DEF OrderListsEntries
<1> QED
  BY <1>3, <1>4, <1>5, <1>6, <1>7, <1>8

\* A slot is shared or made.
LEMMA JoinStep ==
  ASSUME CacheInv, NEW c \in Calls, Join(c)
  PROVE  CacheInv'
<1> USE DEF CacheInv
<1>1. /\ pc[c] = "join" /\ key[c] \in Keys
      /\ pc'[c] = "wait"
      /\ pc' \in [Calls -> {"idle", "join", "wait", "run", "answered", "dropped"}]
      /\ \A d \in Calls \ {c} : pc'[d] = pc[d] /\ slot'[d] = slot[d]
      /\ UNCHANGED <<entries, order, settled, key, shape, answer>>
  BY DEF Join, Goto, TypeOK, Asked, cacheVars, callVars
<1>2. /\ slot' \in [Calls -> Calls \cup {NoSlot}]
      /\ inFlight' \in [Keys -> Calls \cup {NoSlot}]
      /\ slot'[c] # NoSlot /\ inFlight'[key[c]] = slot'[c]
  BY <1>1, NullsAssumption DEF Join, TypeOK
<1>3. ASSUME NEW d \in Calls \ {c}, pc[d] \in {"wait", "run"}
      PROVE  inFlight'[key[d]] = slot[d]
  <2>1. key[d] \in Keys /\ slot[d] # NoSlot /\ inFlight[key[d]] = slot[d]
    BY <1>3 DEF SlotInv, Asked
  <2>2. Live(inFlight[key[d]])
    BY <2>1 DEF Live
  <2> QED
    BY <1>1, <2>1, <2>2 DEF Join
<1>4. TypeOK'
  BY <1>1, <1>2 DEF TypeOK
<1>5. Asked'
  BY <1>1 DEF Asked
<1>6. SlotInv'
  BY <1>1, <1>2, <1>3 DEF SlotInv
<1>7. RunInv'
  BY <1>1 DEF RunInv, Known
<1>8. SettledInv'
  <2>1. \A j \in Keys : c \notin settled[j] /\ settled[j] \subseteq Calls
    BY <1>1 DEF SettledInv, TypeOK
  <2> QED
    BY <1>1, <2>1 DEF SettledInv, Known
<1>9. OrderListsEntries'
  BY <1>1 DEF OrderListsEntries
<1> QED
  BY <1>4, <1>5, <1>6, <1>7, <1>8, <1>9

\* The second look.
LEMMA EnterStep ==
  ASSUME CacheInv, NEW c \in Calls, Enter(c)
  PROVE  CacheInv'
<1> USE DEF CacheInv
<1>1. /\ pc[c] = "wait" /\ key[c] \in Keys
      /\ pc'[c] \in {"run", "answered"}
      /\ pc' \in [Calls -> {"idle", "join", "wait", "run", "answered", "dropped"}]
      /\ \A d \in Calls \ {c} :
           pc'[d] = pc[d] /\ slot'[d] = slot[d] /\ answer'[d] = answer[d]
      /\ UNCHANGED <<entries, order, settled, key, shape, inFlight>>
  BY DEF Enter, Granted, Answer, Goto, TypeOK, Asked, cacheVars, callVars
<1>2. pc'[c] = "run" => ~ Known(key[c]) /\ slot' = slot
  BY DEF Enter, Answer, Goto, TypeOK
<1>3. \A d \in Calls : pc[d] = "run" => slot[d] # slot[c]
  BY DEF Enter, Granted
<1>4. TypeOK'
  BY <1>1, ReplayedOutcome DEF Enter, Answer, TypeOK
<1>5. Asked'
  BY <1>1 DEF Asked
<1>6. SlotInv'
  BY <1>1, <1>2, <1>3 DEF SlotInv
<1>7. RunInv'
  BY <1>1, <1>2 DEF RunInv, Known
<1>8. SettledInv'
  <2>1. \A j \in Keys : c \notin settled[j] /\ settled[j] \subseteq Calls
    BY <1>1 DEF SettledInv, TypeOK
  <2> QED
    BY <1>1, <2>1 DEF SettledInv, Known
<1>9. OrderListsEntries'
  BY <1>1 DEF OrderListsEntries
<1> QED
  BY <1>4, <1>5, <1>6, <1>7, <1>8, <1>9

\* A key that is stored is listed once, at the end unless it was listed already.
LEMMA ListedProperties ==
  ASSUME TypeOK, OrderListsEntries, NEW k \in Keys
  PROVE  /\ Listed(k) \in Seq(Keys)
         /\ Len(Listed(k)) \in Nat
         /\ \A j \in Keys :
              (j = k \/ entries[j] # NoEntry) <=>
                \E i \in 1 .. Len(Listed(k)) : Listed(k)[i] = j
         /\ \A i, j \in 1 .. Len(Listed(k)) : Listed(k)[i] = Listed(k)[j] => i = j
<1>1. order \in Seq(Keys) /\ Len(order) \in Nat
  BY DEF TypeOK
<1>2. CASE entries[k] # NoEntry
  <2>1. Listed(k) = order
    BY <1>2 DEF Listed
  <2> QED
    BY <1>1, <1>2, <2>1 DEF OrderListsEntries
<1>3. CASE entries[k] = NoEntry
  <2>1. Listed(k) = Append(order, k)
    BY <1>3 DEF Listed
  <2>2. /\ Append(order, k) \in Seq(Keys)
        /\ Len(Append(order, k)) = Len(order) + 1
        /\ \A i \in 1 .. Len(order) : Append(order, k)[i] = order[i]
        /\ Append(order, k)[Len(order) + 1] = k
    BY <1>1, AppendProperties
  <2>3. \A i \in 1 .. Len(order) : order[i] # k
    BY <1>3 DEF OrderListsEntries
  <2>4. ASSUME NEW j \in Keys
        PROVE  (j = k \/ entries[j] # NoEntry) <=>
                 \E i \in 1 .. Len(order) + 1 : Append(order, k)[i] = j
    <3>1. ASSUME j = k
          PROVE  \E i \in 1 .. Len(order) + 1 : Append(order, k)[i] = j
      BY <1>1, <2>2, <3>1
    <3>2. ASSUME entries[j] # NoEntry
          PROVE  \E i \in 1 .. Len(order) + 1 : Append(order, k)[i] = j
      <4>1. PICK i \in 1 .. Len(order) : order[i] = j
        BY <3>2 DEF OrderListsEntries
      <4> QED
        BY <1>1, <2>2, <4>1
    <3>3. ASSUME NEW i \in 1 .. Len(order) + 1, Append(order, k)[i] = j
          PROVE  j = k \/ entries[j] # NoEntry
      <4>1. CASE i = Len(order) + 1
        BY <2>2, <3>3, <4>1
      <4>2. CASE i \in 1 .. Len(order)
        BY <2>2, <3>3, <4>2 DEF OrderListsEntries
      <4> QED
        BY <1>1, <4>1, <4>2
    <3> QED
      BY <3>1, <3>2, <3>3
  <2>5. ASSUME NEW i \in 1 .. Len(order) + 1, NEW j \in 1 .. Len(order) + 1,
               Append(order, k)[i] = Append(order, k)[j]
        PROVE  i = j
    <3>1. i \in 1 .. Len(order) \/ i = Len(order) + 1
      BY <1>1
    <3>2. j \in 1 .. Len(order) \/ j = Len(order) + 1
      BY <1>1
    <3> QED
      BY <2>2, <2>3, <2>5, <3>1, <3>2 DEF OrderListsEntries
  <2> QED
    BY <1>1, <2>1, <2>2, <2>4, <2>5
<1> QED
  BY <1>2, <1>3

\* What is left of a list without repetition when its first n members are gone.
LEMMA Kept ==
  ASSUME NEW S, NEW s \in Seq(S), NEW n \in 0 .. Len(s),
         \A i, j \in 1 .. Len(s) : s[i] = s[j] => i = j
  PROVE  LET t == SubSeq(s, n + 1, Len(s))
             gone == {s[i] : i \in 1 .. n}
         IN  /\ t \in Seq(S)
             /\ Len(t) = Len(s) - n
             /\ \A i, j \in 1 .. Len(t) : t[i] = t[j] => i = j
             /\ \A x : (\E i \in 1 .. Len(t) : t[i] = x) <=>
                         x \notin gone /\ \E i \in 1 .. Len(s) : s[i] = x
<1> DEFINE t == SubSeq(s, n + 1, Len(s))
           gone == {s[i] : i \in 1 .. n}
<1>1. Len(s) \in Nat /\ n \in Nat /\ n <= Len(s)
  OBVIOUS
<1>2. \A i \in n + 1 .. Len(s) : s[i] \in S
  BY <1>1
<1>3. /\ t \in Seq(S)
      /\ Len(t) = IF n + 1 <= Len(s) THEN Len(s) - (n + 1) + 1 ELSE 0
      /\ \A i \in 1 .. Len(s) - (n + 1) + 1 : t[i] = s[(n + 1) + i - 1]
  BY <1>1, <1>2, SubSeqProperties
<1> HIDE DEF t
<1>4. Len(t) = Len(s) - n
  BY <1>1, <1>3
<1>5. \A i \in 1 .. Len(t) : i + n \in 1 .. Len(s) /\ t[i] = s[i + n]
  BY <1>1, <1>3, <1>4
<1>6. \A i, j \in 1 .. Len(t) : t[i] = t[j] => i = j
  <2> SUFFICES ASSUME NEW i \in 1 .. Len(t), NEW j \in 1 .. Len(t), t[i] = t[j]
               PROVE  i = j
    OBVIOUS
  <2>1. s[i + n] = s[j + n] /\ i + n \in 1 .. Len(s) /\ j + n \in 1 .. Len(s)
    BY <1>5
  <2>2. i + n = j + n
    BY <2>1
  <2> QED
    BY <1>1, <1>4, <2>2
<1>7. ASSUME NEW x, NEW i \in 1 .. Len(t), t[i] = x
      PROVE  x \notin gone /\ \E j \in 1 .. Len(s) : s[j] = x
  <2>1. i + n \in 1 .. Len(s) /\ s[i + n] = x
    BY <1>5, <1>7
  <2>2. ASSUME NEW j \in 1 .. n, s[j] = x PROVE FALSE
    <3>1. j \in 1 .. Len(s)
      BY <1>1
    <3>2. j = i + n
      BY <2>1, <2>2, <3>1
    <3> QED
      BY <1>1, <1>4, <3>2
  <2> QED
    BY <2>1, <2>2
<1>8. ASSUME NEW x, x \notin gone, NEW i \in 1 .. Len(s), s[i] = x
      PROVE  \E j \in 1 .. Len(t) : t[j] = x
  <2>1. i \notin 1 .. n
    BY <1>8
  <2>2. i - n \in 1 .. Len(t) /\ (i - n) + n = i
    BY <1>1, <1>4, <2>1
  <2>3. t[i - n] = x
    BY <1>5, <1>8, <2>2
  <2> QED
    BY <2>2, <2>3
<1> QED
  BY <1>3, <1>4, <1>6, <1>7, <1>8 DEF t

\* What storing does to a key: it is forgotten, or keeps what it had, or, for
\* the key of the call, now has that call and its outcome.  The keys in the order
\* remain those that are remembered.
LEMMA Stored ==
  ASSUME CacheInv, NEW c \in Calls, NEW outcome \in Storable,
         key[c] \in Keys, shape[c] \in Shapes, Store(c, outcome)
  PROVE  /\ entries' \in [Keys -> Entries \cup {NoEntry}]
         /\ order' \in Seq(Keys)
         /\ OrderListsEntries'
         /\ settled' \in [Keys -> SUBSET Calls]
         /\ \A j \in Keys :
              \/ entries'[j] = NoEntry /\ settled'[j] = {}
              \/ j # key[c] /\ entries'[j] = entries[j] /\ settled'[j] = settled[j]
              \/ /\ j = key[c] /\ settled'[j] = settled[j] \cup {c}
                 /\ entries'[j] =
                      [shape |-> shape[c], outcome |-> outcome, fresh |-> TRUE]
<1> DEFINE k == key[c]
           listed == Listed(k)
           new == [shape |-> shape[c], outcome |-> outcome, fresh |-> TRUE]
           stored == [entries EXCEPT ![k] = new]
<1>1. new \in Entries
  BY DEF Entries
<1>2. stored \in [Keys -> Entries \cup {NoEntry}]
  BY <1>1 DEF CacheInv, TypeOK
<1>3. PICK n \in 0 .. Len(listed) :
        LET gone == {listed[i] : i \in 1 .. n}
        IN  /\ Drops(stored, listed, n)
            /\ entries' = [j \in Keys |-> IF j \in gone THEN NoEntry ELSE stored[j]]
            /\ order' = SubSeq(listed, n + 1, Len(listed))
            /\ settled' = [j \in Keys |->
                 IF j \in gone THEN {}
                 ELSE IF j = k THEN settled[k] \cup {c} ELSE settled[j]]
  BY DEF Store
<1> DEFINE gone == {listed[i] : i \in 1 .. n}
<1>4. \A j \in Keys : stored[j] = IF j = k THEN new ELSE entries[j]
  BY DEF CacheInv, TypeOK
<1>5. /\ listed \in Seq(Keys) /\ Len(listed) \in Nat
      /\ \A j \in Keys : (j = k \/ entries[j] # NoEntry) <=>
                           \E i \in 1 .. Len(listed) : listed[i] = j
      /\ \A i, j \in 1 .. Len(listed) : listed[i] = listed[j] => i = j
  BY ListedProperties DEF CacheInv
<1>6. new # NoEntry
  BY <1>1, NullsAssumption
<1> HIDE DEF listed
<1>7. /\ order' \in Seq(Keys)
      /\ Len(order') = Len(listed) - n
      /\ \A i, j \in 1 .. Len(order') : order'[i] = order'[j] => i = j
      /\ \A x : (\E i \in 1 .. Len(order') : order'[i] = x) <=>
                  x \notin gone /\ \E i \in 1 .. Len(listed) : listed[i] = x
  <2> DEFINE t == SubSeq(listed, n + 1, Len(listed))
  <2>1. order' = t
    BY <1>3
  <2>2. /\ t \in Seq(Keys)
        /\ Len(t) = Len(listed) - n
        /\ \A i, j \in 1 .. Len(t) : t[i] = t[j] => i = j
        /\ \A x : (\E i \in 1 .. Len(t) : t[i] = x) <=>
                    x \notin gone /\ \E i \in 1 .. Len(listed) : listed[i] = x
    <3> HIDE DEF stored, new
    <3> QED
      BY <1>5, Kept
  <2> HIDE DEF t
  <2> QED
    BY <2>1, <2>2
<1> HIDE DEF stored, gone, new
<1>8. entries' = [j \in Keys |-> IF j \in gone THEN NoEntry ELSE stored[j]]
  BY <1>3 DEF gone
<1>9. settled' = [j \in Keys |->
        IF j \in gone THEN {} ELSE IF j = k THEN settled[k] \cup {c} ELSE settled[j]]
  BY <1>3 DEF gone
<1>10. entries' \in [Keys -> Entries \cup {NoEntry}]
  BY <1>2, <1>8
<1>11. settled' \in [Keys -> SUBSET Calls]
  BY <1>9 DEF CacheInv, TypeOK
<1>12. ASSUME NEW j \in Keys
       PROVE  \/ entries'[j] = NoEntry /\ settled'[j] = {}
              \/ j # key[c] /\ entries'[j] = entries[j] /\ settled'[j] = settled[j]
              \/ j = key[c] /\ settled'[j] = settled[j] \cup {c} /\ entries'[j] = new
  BY <1>4, <1>8, <1>9
<1>13. Len(order') <= Capacity
  <2>1. CASE n = Len(listed)
    BY <1>5, <1>7, <2>1, CapacityAssumption
  <2>2. CASE n < Len(listed)
    <3>1. ~ Droppable(stored, listed, n + 1)
      BY <1>3, <2>2 DEF Drops
    <3>2. ~ (n + 1 <= Len(listed) - Capacity)
      BY <3>1 DEF Droppable
    <3> QED
      BY <1>5, <1>7, <3>2, CapacityAssumption
  <2> QED
    BY <1>5, <2>1, <2>2
<1>14. ASSUME NEW j \in Keys
       PROVE  entries'[j] # NoEntry <=> \E i \in 1 .. Len(order') : order'[i] = j
  <2>1. stored[j] # NoEntry <=> \E i \in 1 .. Len(listed) : listed[i] = j
    BY <1>4, <1>5, <1>6
  <2>2. entries'[j] = IF j \in gone THEN NoEntry ELSE stored[j]
    BY <1>8
  <2> QED
    BY <1>7, <2>1, <2>2
<1>15. OrderListsEntries'
  BY <1>7, <1>13, <1>14 DEF OrderListsEntries
<1> QED
  BY <1>7, <1>10, <1>11, <1>12, <1>15 DEF new

\* An execution comes back.
LEMMA FinishStep ==
  ASSUME CacheInv, NEW c \in Calls, NEW outcome \in Outcomes, Finish(c, outcome)
  PROVE  CacheInv'
<1> USE DEF CacheInv
<1>1. /\ pc[c] = "run" /\ key[c] \in Keys /\ shape[c] \in Shapes
      /\ pc'[c] = "answered" /\ answer'[c] = outcome
      /\ pc' \in [Calls -> {"idle", "join", "wait", "run", "answered", "dropped"}]
      /\ slot' \in [Calls -> Calls \cup {NoSlot}]
      /\ answer' \in [Calls -> Outcomes \cup {"none", "conflict"}]
      /\ \A d \in Calls \ {c} :
           pc'[d] = pc[d] /\ slot'[d] = slot[d] /\ answer'[d] = answer[d]
      /\ UNCHANGED <<key, shape, inFlight>>
  BY DEF Finish, Answer, Goto, TypeOK, Asked, callVars
<1>2. SlotInv' /\ Asked'
  BY <1>1 DEF SlotInv, Asked
<1>3. ASSUME NEW d \in Calls, pc'[d] = "run"
      PROVE  pc[d] = "run" /\ key[d] \in Keys /\ key[d] # key[c] /\ ~ Known(key[d])
  <2>1. pc[d] = "run" /\ d # c
    BY <1>1, <1>3
  <2> QED
    BY <1>1, <2>1, OneRun DEF OneRunPerKey, RunInv, Asked
<1>4. \A j \in Keys : c \notin settled[j] /\ settled[j] \subseteq Calls
  BY <1>1 DEF SettledInv, TypeOK
<1>5. CASE outcome \notin Storable
  <2>1. UNCHANGED <<entries, order, settled>>
    BY <1>5 DEF Finish, cacheVars
  <2>2. TypeOK'
    BY <1>1, <2>1 DEF TypeOK
  <2>3. RunInv'
    BY <1>1, <1>3, <2>1 DEF RunInv, Known
  <2>4. SettledInv'
    BY <1>1, <1>4, <2>1 DEF SettledInv, Known
  <2>5. OrderListsEntries'
    BY <2>1 DEF OrderListsEntries
  <2> QED
    BY <1>2, <2>2, <2>3, <2>4, <2>5
<1>6. CASE outcome \in Storable
  <2>1. Store(c, outcome)
    BY <1>6 DEF Finish
  <2> DEFINE new == [shape |-> shape[c], outcome |-> outcome, fresh |-> TRUE]
  <2>2. /\ entries' \in [Keys -> Entries \cup {NoEntry}]
        /\ order' \in Seq(Keys) /\ OrderListsEntries'
        /\ settled' \in [Keys -> SUBSET Calls]
        /\ \A j \in Keys :
             \/ entries'[j] = NoEntry /\ settled'[j] = {}
             \/ j # key[c] /\ entries'[j] = entries[j] /\ settled'[j] = settled[j]
             \/ j = key[c] /\ settled'[j] = settled[j] \cup {c} /\ entries'[j] = new
    BY <1>1, <1>6, <2>1, Stored
  <2>fields. new.fresh /\ new.shape = shape[c] /\ new.outcome = outcome
    OBVIOUS
  <2>entry. new \in Entries
    BY <1>1, <1>6 DEF Entries
  <2>3. new # NoEntry /\ new.fresh /\ new.shape = shape[c] /\ new.outcome = outcome
    BY <2>fields, <2>entry, NullsAssumption
  <2> HIDE DEF new
  <2>4. TypeOK'
    BY <1>1, <2>2 DEF TypeOK
  <2>5. RunInv'
    BY <1>1, <1>3, <2>2 DEF RunInv, Known
  <2>6. settled[key[c]] = {}
    BY <1>1 DEF SettledInv, RunInv
  <2>7. ASSUME NEW j \in Keys
        PROVE  /\ Known(j)' => settled'[j] # {}
               /\ \A d \in settled'[j] :
                    /\ pc'[d] = "answered" /\ Known(j)'
                    /\ entries'[j].shape = shape'[d]
                    /\ entries'[j].outcome = answer'[d]
               /\ \A b, d \in settled'[j] : b = d
    <3>1. CASE entries'[j] = NoEntry /\ settled'[j] = {}
      BY <3>1 DEF Known
    <3>2. CASE j # key[c] /\ entries'[j] = entries[j] /\ settled'[j] = settled[j]
      <4>1. Known(j)' <=> Known(j)
        BY <3>2 DEF Known
      <4> QED
        BY <1>1, <1>4, <3>2, <4>1 DEF SettledInv
    <3>3. CASE j = key[c] /\ settled'[j] = settled[j] \cup {c} /\ entries'[j] = new
      <4>1. Known(j)'
        BY <2>3, <3>3 DEF Known
      <4>2. settled'[j] = {c}
        BY <2>6, <3>3
      <4> QED
        BY <1>1, <2>3, <3>3, <4>1, <4>2
    <3> QED
      BY <2>2, <3>1, <3>2, <3>3
  <2>8. SettledInv'
    BY <2>7 DEF SettledInv
  <2> QED
    BY <1>2, <2>2, <2>4, <2>5, <2>8
<1> QED
  BY <1>5, <1>6

\* A handler is dropped.
LEMMA DropStep ==
  ASSUME CacheInv, NEW c \in Calls, Drop(c)
  PROVE  CacheInv'
<1> USE DEF CacheInv
<1>1. /\ pc[c] \in {"wait", "run"} /\ pc'[c] = "dropped"
      /\ pc' \in [Calls -> {"idle", "join", "wait", "run", "answered", "dropped"}]
      /\ slot' \in [Calls -> Calls \cup {NoSlot}]
      /\ \A d \in Calls \ {c} : pc'[d] = pc[d] /\ slot'[d] = slot[d]
      /\ UNCHANGED <<entries, order, settled, key, shape, inFlight, answer>>
  BY DEF Drop, Goto, TypeOK, cacheVars, callVars
<1>2. TypeOK' /\ Asked' /\ SlotInv' /\ RunInv'
  BY <1>1 DEF TypeOK, Asked, SlotInv, RunInv, Known
<1>3. \A j \in Keys : c \notin settled[j] /\ settled[j] \subseteq Calls
  BY <1>1 DEF SettledInv, TypeOK
<1>4. SettledInv'
  BY <1>1, <1>3 DEF SettledInv, Known
<1>5. OrderListsEntries'
  BY <1>1 DEF OrderListsEntries
<1> QED
  BY <1>2, <1>4, <1>5

\* An outcome expires.
LEMMA AgeStep ==
  ASSUME CacheInv, NEW k \in Keys, Age(k)
  PROVE  CacheInv'
<1> USE DEF CacheInv
<1>1. entries[k] \in Entries
  BY DEF Age, Known, TypeOK
<1>2. /\ entries' = [entries EXCEPT ![k].fresh = FALSE]
      /\ settled' = [settled EXCEPT ![k] = {}]
      /\ UNCHANGED <<order, inFlight, pc, key, shape, slot, answer>>
  BY DEF Age
<1>3. /\ entries'[k] \in Entries /\ ~ entries'[k].fresh /\ settled'[k] = {}
      /\ \A j \in Keys \ {k} : entries'[j] = entries[j] /\ settled'[j] = settled[j]
      /\ entries' \in [Keys -> Entries \cup {NoEntry}]
  BY <1>1, <1>2 DEF TypeOK, Entries
<1>4. /\ ~ Known(k)'
      /\ \A j \in Keys \ {k} : Known(j)' <=> Known(j)
  BY <1>3 DEF Known
<1>5. TypeOK' /\ Asked' /\ SlotInv'
  BY <1>2, <1>3 DEF TypeOK, Asked, SlotInv
<1>6. RunInv'
  <2>1. ASSUME NEW c \in Calls, pc[c] = "run"
        PROVE  ~ (entries'[key[c]] # NoEntry /\ entries'[key[c]].fresh)
    <3>1. key[c] \in Keys /\ ~ Known(key[c])
      BY <2>1 DEF Asked, RunInv
    <3>2. CASE key[c] = k
      BY <1>3, <3>2
    <3>3. CASE key[c] # k
      BY <1>3, <3>1, <3>3 DEF Known
    <3> QED
      BY <3>2, <3>3
  <2> QED
    BY <1>2, <2>1 DEF RunInv, Known
<1>7. SettledInv'
  BY <1>2, <1>3, <1>4 DEF SettledInv
<1>8. OrderListsEntries'
  <2>1. \A j \in Keys : entries'[j] # NoEntry <=> entries[j] # NoEntry
    BY <1>1, <1>3, NullsAssumption
  <2> QED
    BY <1>2, <2>1 DEF OrderListsEntries
<1> QED
  BY <1>5, <1>6, <1>7, <1>8

LEMMA StepsKeepCacheInv == CacheInv /\ [Next]_vars => CacheInv'
<1> SUFFICES ASSUME CacheInv, [Next]_vars PROVE CacheInv'
  OBVIOUS
<1>1. CASE UNCHANGED vars
  BY <1>1
     DEF CacheInv, TypeOK, OrderListsEntries, Asked, SlotInv, RunInv,
         SettledInv, Known, vars
<1>2. ASSUME NEW c \in Calls, Look(c) PROVE CacheInv'
  BY <1>2, LookStep
<1>3. ASSUME NEW c \in Calls, Join(c) PROVE CacheInv'
  BY <1>3, JoinStep
<1>4. ASSUME NEW c \in Calls, Enter(c) PROVE CacheInv'
  BY <1>4, EnterStep
<1>5. ASSUME NEW c \in Calls, Drop(c) PROVE CacheInv'
  BY <1>5, DropStep
<1>6. ASSUME NEW c \in Calls, NEW outcome \in Outcomes, Finish(c, outcome)
      PROVE  CacheInv'
  BY <1>6, FinishStep
<1>7. ASSUME NEW k \in Keys, Age(k) PROVE CacheInv'
  BY <1>7, AgeStep
<1> QED
  BY <1>1, <1>2, <1>3, <1>4, <1>5, <1>6, <1>7 DEF Next

THEOREM CacheInvCorrect == Spec => []CacheInv
  BY InitCache, StepsKeepCacheInv, PTL DEF Spec

----------------------------------------------------------------------------

\* The variables keep their types: in particular the order lists keys only.
THEOREM TypeCorrect == Spec => []TypeOK
  BY CacheInvCorrect, PTL DEF CacheInv

\* The order names the remembered keys, each once and never more than the
\* capacity, whatever expires and is stored again in between (store).
THEOREM OrderListsEntriesCorrect == Spec => []OrderListsEntries
  BY CacheInvCorrect, PTL DEF CacheInv

\* Executions of one key never overlap (in_flight_slot, execute): the map
\* knows the slot of whoever waits or executes, because that slot lives.
THEOREM OneRunPerKeyCorrect == Spec => []OneRunPerKey
  BY CacheInvCorrect, OneRun, PTL

\* A remembered outcome is the only one of its key: whoever executes found,
\* under the slot, that nothing was known (the second look of execute).
THEOREM SettledOnceCorrect == Spec => []SettledOnce
<1>1. CacheInv => SettledOnce
  BY DEF CacheInv, SettledInv, SettledOnce
<1> QED
  BY <1>1, CacheInvCorrect, PTL

\* Every answer without an execution repeats the settled one, or reports the
\* conflict with its body (cached, before and after the wait).
THEOREM ReplaysTellOutcomeCorrect == Spec => ReplaysTellOutcome
<1>1. CacheInv /\ [Next]_vars => [Repeats]_vars
  <2> SUFFICES ASSUME CacheInv, Next,
                      NEW c \in Calls, pc[c] # "run", answer'[c] # answer[c]
               PROVE  \E d \in settled[key'[c]] :
                        IF answer'[c] = "conflict"
                          THEN shape[d] # shape'[c]
                          ELSE answer[d] = answer'[c] /\ shape[d] = shape'[c]
    BY DEF Repeats
  <2> DEFINE Told(k, f) ==
        k \in Keys /\ Known(k) /\ key'[c] = k /\ shape'[c] = f /\ answer'[c] = Replayed(k, f)
  <2>1. ASSUME NEW b \in Calls, Look(b) PROVE \E k, f : Told(k, f)
    <3>1. PICK k \in Keys, f \in Shapes :
            /\ key' = [key EXCEPT ![b] = k]
            /\ shape' = [shape EXCEPT ![b] = f]
            /\ IF Known(k)
                 THEN Answer(b, Replayed(k, f))
                 ELSE Goto(b, "join") /\ UNCHANGED <<answer, slot>>
      BY <2>1 DEF Look
    <3>2. Known(k) /\ b = c /\ answer'[c] = Replayed(k, f)
      BY <3>1 DEF Answer, CacheInv, TypeOK
    <3>3. Told(k, f)
      BY <3>1, <3>2 DEF CacheInv, TypeOK
    <3> QED
      BY <3>3
  <2>2. ASSUME NEW b \in Calls, Enter(b) PROVE \E k, f : Told(k, f)
    <3>1. /\ Known(key[b]) /\ b = c /\ answer'[c] = Replayed(key[b], shape[b])
          /\ UNCHANGED <<key, shape>>
      BY <2>2 DEF Enter, Answer, CacheInv, TypeOK, callVars
    <3>2. key[c] \in Keys
      BY <2>2, <3>1 DEF Enter, Granted, CacheInv, Asked
    <3>3. Told(key[c], shape[c])
      BY <3>1, <3>2
    <3> QED
      BY <3>3
  <2>3. ASSUME NEW b \in Calls, NEW outcome \in Outcomes, Finish(b, outcome)
        PROVE  FALSE
    BY <2>3 DEF Finish, Answer, CacheInv, TypeOK
  <2>4. ASSUME NEW b \in Calls, Join(b) \/ Drop(b) PROVE FALSE
    BY <2>4 DEF Join, Drop
  <2>5. ASSUME NEW k \in Keys, Age(k) PROVE FALSE
    BY <2>5 DEF Age
  <2>6. PICK k, f : Told(k, f)
    BY <2>1, <2>2, <2>3, <2>4, <2>5 DEF Next
  <2> QED
    BY <2>6, ReplayedTold
<1> QED
  BY <1>1, CacheInvCorrect, PTL DEF Spec, ReplaysTellOutcome
=============================================================================
