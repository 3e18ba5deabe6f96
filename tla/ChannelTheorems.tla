-------------------------- MODULE ChannelTheorems ---------------------------
(***************************************************************************)
(* The reliability layer delivers each message once and the ordered ones   *)
(* in order: it implements Channel, as long as a connection does not send  *)
(* more messages than there are numbers (the order of the heap may wrap    *)
(* after that, see LongGap).                                               *)
(***************************************************************************)
EXTENDS ReliabilityTheorems

FewMessages == MaxMessages <= Modulus

\* The ordering index of a message, or the one the next ordered message gets.
IndexOf(i) == IF i \in Messages THEN pushed[i].index ELSE orderedWriteIndex
IsOrdered(i) == pushed[i].ordered

\* Ordered messages are numbered one after another in the order of sending;
\* others bear the number of the next ordered one.
Numbered ==
  /\ Len(pushed) <= MaxMessages
  /\ IndexOf(1) = OldMessages
  /\ \A i, j \in 1..(Len(pushed) + 1) : i < j =>
       /\ IndexOf(i) <= IndexOf(j) /\ IndexOf(j) - IndexOf(i) <= j - i
       /\ IsOrdered(i) => IndexOf(i) < IndexOf(j)
  /\ \A o \in OldMessages..(orderedWriteIndex - 1) :
       \E i \in Messages : IsOrdered(i) /\ IndexOf(i) = o

\* A message that may come out when it is received, and one that must wait.
InTurn(i) == IsOrdered(i) => IndexOf(i) < orderedReadIndex
TooEarly(i) == IsOrdered(i) /\ IndexOf(i) > orderedReadIndex
Entry(i) == [index |-> OrderingIndex(i), message |-> i]
Kept == {i \in received : TooEarly(i)}

\* What has had its turn is there, and the one whose turn it is, is not.
TurnsTaken ==
  /\ OldMessages <= orderedReadIndex /\ orderedReadIndex <= orderedWriteIndex
  /\ \A i \in Messages :
       IsOrdered(i) /\ IndexOf(i) < orderedReadIndex => i \in received
NextMissing == \A i \in received : IsOrdered(i) => IndexOf(i) # orderedReadIndex

\* A received message is in the output or in the heap.
HeapHolds == heap = {Entry(i) : i \in Kept}
OutputHolds == {output[k] : k \in DOMAIN output} = {i \in received : InTurn(i)}

\* The heap was last empty at a turn not after this one.
OffsetKnown ==
  heap # {} => \E h \in OldMessages..orderedReadIndex : heapOffset = Wrap(h)

OrderInv ==
  /\ Numbered
  /\ TurnsTaken
  /\ NextMissing
  /\ HeapHolds
  /\ OutputHolds
  /\ OffsetKnown
  /\ OnceInOrder

-----------------------------------------------------------------------------
(* The ordering indices of the messages sent.                              *)

LEMMA MessageFacts ==
  ASSUME ReliabilityTypeOK
  PROVE  /\ Len(pushed) \in Nat /\ sent \in Nat /\ sent <= Len(pushed)
         /\ orderedWriteIndex \in Nat /\ orderedReadIndex \in Nat /\ OldMessages \in Nat
         /\ \A i \in Messages : /\ i \in Nat /\ IsOrdered(i) \in BOOLEAN
                                /\ IndexOf(i) \in Nat /\ IndexOf(i) = pushed[i].index
                                /\ OrderingIndex(i) = Wrap(IndexOf(i))
         /\ 1..sent \subseteq Messages /\ received \subseteq 1..sent
         /\ parsing \subseteq 1..sent
<1>1. /\ Len(pushed) \in Nat /\ sent \in 0..Len(pushed)
      /\ orderedWriteIndex \in Nat /\ orderedReadIndex \in Nat
      /\ received \subseteq 1..sent /\ parsing \subseteq 1..sent
  BY TypeFacts DEF ReliabilityTypeOK
<1>2. \A i \in 1..Len(pushed) : pushed[i] \in [ordered: BOOLEAN, index: Nat]
  BY ElementOfSeq DEF ReliabilityTypeOK
<1>3. OldMessages \in Nat
  BY ReliabilityAssumption
<1>4. QED
  BY <1>1, <1>2, <1>3 DEF Messages, IsOrdered, IndexOf, OrderingIndex

LEMMA IndexSteps ==
  ASSUME ReliabilityTypeOK, Numbered, NEW i \in Messages, NEW j \in Messages, i < j
  PROVE  /\ IndexOf(i) <= IndexOf(j) /\ IndexOf(j) - IndexOf(i) <= j - i
         /\ IsOrdered(i) => IndexOf(i) < IndexOf(j)
<1>1. i \in 1..(Len(pushed) + 1) /\ j \in 1..(Len(pushed) + 1)
  BY MessageFacts DEF Messages
<1>2. QED
  BY <1>1 DEF Numbered

LEMMA IndexSpan ==
  ASSUME ReliabilityTypeOK, Numbered, NEW i \in Messages
  PROVE  /\ OldMessages <= IndexOf(i) /\ IndexOf(i) <= OldMessages + i - 1
         /\ i <= MaxMessages
         /\ IsOrdered(i) => IndexOf(i) < orderedWriteIndex
<1> DEFINE n == Len(pushed)
<1>1. n \in Nat /\ i \in 1..n /\ i \in Nat /\ OldMessages \in Nat /\ IndexOf(i) \in Nat
  BY MessageFacts DEF Messages
<1>2. n <= MaxMessages /\ MaxMessages \in Nat
  BY ReliabilityAssumption DEF Numbered
<1>3. IndexOf(1) = OldMessages
  BY DEF Numbered
<1>4. OldMessages <= IndexOf(i) /\ IndexOf(i) <= OldMessages + i - 1
  <2>1. CASE i = 1
    BY <1>1, <1>3, <2>1
  <2>2. CASE i # 1
    <3>1. 1 \in Messages /\ 1 < i
      BY <1>1, <2>2 DEF Messages
    <3>2. IndexOf(1) <= IndexOf(i) /\ IndexOf(i) - IndexOf(1) <= i - 1
      BY <3>1, IndexSteps
    <3>3. QED
      BY <1>1, <1>3, <3>2
  <2>3. QED
    BY <2>1, <2>2
<1>5. IsOrdered(i) => IndexOf(i) < orderedWriteIndex
  <2>1. IndexOf(n + 1) = orderedWriteIndex
    BY <1>1 DEF IndexOf, Messages
  <2>2. i \in 1..(n + 1) /\ n + 1 \in 1..(n + 1) /\ i < n + 1
    BY <1>1
  <2>3. QED
    BY <2>1, <2>2 DEF Numbered
<1>6. QED
  BY <1>1, <1>2, <1>4, <1>5

LEMMA OneIndexEach ==
  ASSUME ReliabilityTypeOK, Numbered, NEW i \in Messages, NEW j \in Messages,
         IsOrdered(i), IsOrdered(j)
  PROVE  /\ IndexOf(i) = IndexOf(j) => i = j
         /\ IndexOf(i) < IndexOf(j) => i < j
<1>1. i \in Nat /\ j \in Nat /\ IndexOf(i) \in Nat /\ IndexOf(j) \in Nat
  BY MessageFacts
<1>2. CASE i < j
  BY <1>1, <1>2, IndexSteps
<1>3. CASE j < i
  BY <1>1, <1>3, IndexSteps
<1>4. QED
  BY <1>1, <1>2, <1>3

\* An ordered message that is not received yet is recent; whatever was sent
\* after it is less than half the numbers ahead.
LEMMA NotFarAhead ==
  ASSUME LinkInv, Numbered, TurnsTaken, NextMissing, NEW i \in 1..sent,
         IsOrdered(i), orderedReadIndex <= IndexOf(i)
  PROVE  IndexOf(i) - orderedReadIndex < HalfRange
<1> DEFINE r == orderedReadIndex
<1>1. /\ ReliabilityTypeOK /\ i \in Messages /\ i \in Nat /\ r \in Nat /\ IndexOf(i) \in Nat
      /\ OldMessages \in Nat /\ sent \in Nat /\ sent <= Len(pushed) /\ i <= sent
      /\ orderedWriteIndex \in Nat
  BY MessageFacts DEF LinkInv
<1>2. RESEND_BUFFER_ARRAY_LENGTH \in Nat \ {0} /\ RESEND_BUFFER_ARRAY_LENGTH <= HalfRange
      /\ HalfRange \in Nat
  BY ModulusFacts
<1>3. CASE IndexOf(i) = r
  BY <1>1, <1>2, <1>3
<1>4. CASE IndexOf(i) # r
  <2>1. r < IndexOf(i) /\ IndexOf(i) < orderedWriteIndex /\ OldMessages <= r
    BY <1>1, <1>4, IndexSpan DEF TurnsTaken
  <2>2. r \in OldMessages..(orderedWriteIndex - 1)
    BY <1>1, <2>1
  <2>3. PICK j \in Messages : IsOrdered(j) /\ IndexOf(j) = r
    BY <2>2 DEF Numbered
  <2>4. j \in Nat /\ j < i
    BY <1>1, <2>1, <2>3, OneIndexEach, MessageFacts
  <2>5. IndexOf(i) - r <= i - j
    BY <1>1, <2>3, <2>4, IndexSteps
  <2>6. j \in (1..sent) \ received
    <3>1. j \in 1..sent
      BY <1>1, <2>4 DEF Messages
    <3>2. j \notin received
      BY <2>3 DEF NextMissing
    <3>3. QED
      BY <3>1, <3>2
  <2>7. sent - j < RESEND_BUFFER_ARRAY_LENGTH
    BY <2>6 DEF LinkInv, NoLoss, Window
  <2>8. QED
    BY <1>1, <1>2, <2>4, <2>5, <2>7
<1>5. QED
  BY <1>3, <1>4

-----------------------------------------------------------------------------
(* The heap: what the loop over it takes out, and what it leaves.          *)

LEMMA KeptFacts ==
  ASSUME LinkInv, OrderInv, NEW i \in Kept
  PROVE  /\ i \in received /\ i \in Messages /\ i \in 1..sent /\ IsOrdered(i)
         /\ IndexOf(i) \in Nat /\ orderedReadIndex \in Nat
         /\ orderedReadIndex < IndexOf(i)
         /\ IndexOf(i) - orderedReadIndex < HalfRange
         /\ Entry(i).index = Wrap(IndexOf(i)) /\ Entry(i).message = i
<1>1. ReliabilityTypeOK /\ i \in received /\ IsOrdered(i) /\ IndexOf(i) > orderedReadIndex
  BY DEF LinkInv, Kept, TooEarly
<1>2. /\ i \in Messages /\ i \in 1..sent /\ IndexOf(i) \in Nat /\ orderedReadIndex \in Nat
      /\ OrderingIndex(i) = Wrap(IndexOf(i))
  BY <1>1, MessageFacts
<1>3. orderedReadIndex < IndexOf(i) /\ orderedReadIndex <= IndexOf(i)
  BY <1>1, <1>2
<1>4. IndexOf(i) - orderedReadIndex < HalfRange
  BY <1>1, <1>2, <1>3, NotFarAhead DEF OrderInv
<1>5. Entry(i).index = OrderingIndex(i) /\ Entry(i).message = i
  BY DEF Entry
<1>6. QED
  BY <1>1, <1>2, <1>3, <1>4, <1>5

\* Among the messages kept an index on the wire names one.
LEMMA OneKeptEach ==
  ASSUME LinkInv, OrderInv, NEW i \in Kept, NEW j \in Kept,
         Wrap(IndexOf(i)) = Wrap(IndexOf(j))
  PROVE  i = j
<1>1. /\ IndexOf(i) \in Nat /\ IndexOf(j) \in Nat /\ orderedReadIndex \in Nat
      /\ orderedReadIndex < IndexOf(i) /\ IndexOf(i) - orderedReadIndex < HalfRange
      /\ orderedReadIndex < IndexOf(j) /\ IndexOf(j) - orderedReadIndex < HalfRange
  BY KeptFacts
<1>2. HalfRange \in Nat /\ HalfRange < Modulus /\ Modulus \in Nat
  BY ModulusFacts
<1>3. IndexOf(i) = IndexOf(j)
  BY <1>1, <1>2, WrapEqual
<1>4. QED
  BY <1>3, KeptFacts, OneIndexEach DEF LinkInv, OrderInv

\* The entry found by an index is the one of the message that bears it.
LEMMA PickIs ==
  ASSUME LinkInv, OrderInv, NEW i \in Kept
  PROVE  Pick(IndexOf(i)) = Entry(i)
<1>1. heap = {Entry(j) : j \in Kept}
  BY DEF OrderInv, HeapHolds
<1>2. Entry(i) \in Waiting(IndexOf(i))
  BY <1>1, KeptFacts DEF Waiting
<1>3. ASSUME NEW e \in Waiting(IndexOf(i)) PROVE e = Entry(i)
  <2>1. PICK j \in Kept : e = Entry(j)
    BY <1>1 DEF Waiting
  <2>2. Wrap(IndexOf(j)) = Wrap(IndexOf(i))
    BY <2>1, KeptFacts DEF Waiting
  <2>3. QED
    BY <2>1, <2>2, OneKeptEach
<1>4. QED
  BY <1>2, <1>3 DEF Pick

\* The entry the loop finds after k rounds is that of the message k + 1 turns
\* ahead, not of one that bears the same number on the wire.
LEMMA DueIs ==
  ASSUME LinkInv, OrderInv, NEW k \in Nat, Due(k) # {}
  PROVE  \E i \in Kept : IndexOf(i) = orderedReadIndex + k + 1
<1> DEFINE r == orderedReadIndex
<1>1. PICK e \in Left(k) : e.index = Wrap(r + k + 1)
  BY DEF Due, Top
<1>2. PICK i \in Kept : e = Entry(i)
  BY <1>1 DEF Left, OrderInv, HeapHolds
<1> DEFINE d == IndexOf(i) - r
<1>3. /\ IndexOf(i) \in Nat /\ r \in Nat /\ d \in Nat /\ 0 < d /\ d < HalfRange
      /\ r + d = IndexOf(i) /\ e.index = Wrap(IndexOf(i))
  BY <1>2, KeptFacts
<1>4. HalfRange \in Nat /\ HalfRange < Modulus /\ Modulus \in Nat
  BY ModulusFacts
<1>5. ~ (d <= k)
  <2> SUFFICES ASSUME d <= k PROVE FALSE
    OBVIOUS
  <2>1. d \in 1..k
    BY <1>3
  <2>2. Pick(r + d) = e
    BY <1>2, <1>3, PickIs
  <2>3. QED
    BY <1>1, <2>1, <2>2 DEF Left
<1>6. IndexOf(i) = r + k + 1
  <2>1. Wrap(IndexOf(i)) = Wrap(r + k + 1)
    BY <1>1, <1>3
  <2>2. /\ r + k + 1 \in Int /\ IndexOf(i) \in Int
        /\ IndexOf(i) - (r + k + 1) < Modulus /\ (r + k + 1) - IndexOf(i) < Modulus
    BY <1>3, <1>4, <1>5
  <2>3. QED
    BY <2>1, <2>2, WrapEqual
<1>7. QED
  BY <1>6

\* What the loop has taken in n rounds: the next n ordered messages.
LEMMA LoopTakes ==
  ASSUME LinkInv, OrderInv, NEW n \in Nat, \A k \in 0..(n - 1) : Due(k) # {}
  PROVE  /\ \A k \in 1..n : \E i \in Kept : /\ IndexOf(i) = orderedReadIndex + k
                                            /\ Pick(orderedReadIndex + k) = Entry(i)
         /\ Left(n) = {Entry(i) : i \in {j \in Kept : IndexOf(j) > orderedReadIndex + n}}
<1> DEFINE r == orderedReadIndex
<1>1. r \in Nat
  BY MessageFacts DEF LinkInv
<1>2. ASSUME NEW k \in 1..n
      PROVE  \E i \in Kept : IndexOf(i) = r + k /\ Pick(r + k) = Entry(i)
  <2>1. k - 1 \in 0..(n - 1) /\ k - 1 \in Nat /\ r + (k - 1) + 1 = r + k
    BY <1>1
  <2>2. PICK i \in Kept : IndexOf(i) = r + k
    BY <2>1, DueIs
  <2>3. QED
    BY <2>2, PickIs
<1>3. ASSUME NEW i \in Kept
      PROVE  Entry(i) \in Left(n) <=> IndexOf(i) > r + n
  <2>1. Entry(i) \in heap
    BY DEF OrderInv, HeapHolds
  <2>2. IndexOf(i) \in Nat /\ r < IndexOf(i)
    BY KeptFacts
  <2>3. CASE IndexOf(i) > r + n
    <3>1. ASSUME NEW k \in 1..n PROVE Pick(r + k) # Entry(i)
      <4>1. PICK j \in Kept : IndexOf(j) = r + k /\ Pick(r + k) = Entry(j)
        BY <1>2
      <4>2. IndexOf(j) # IndexOf(i)
        BY <1>1, <2>2, <2>3, <4>1
      <4>3. Entry(j).message # Entry(i).message
        BY <4>2, KeptFacts
      <4>4. QED
        BY <4>1, <4>3
    <3>2. QED
      BY <2>1, <2>3, <3>1 DEF Left
  <2>4. CASE ~(IndexOf(i) > r + n)
    <3> DEFINE d == IndexOf(i) - r
    <3>1. d \in 1..n /\ r + d = IndexOf(i)
      BY <1>1, <2>2, <2>4
    <3>2. Pick(r + d) = Entry(i)
      BY <3>1, PickIs
    <3>3. QED
      BY <2>4, <3>1, <3>2 DEF Left
  <2>5. QED
    BY <2>3, <2>4
<1>4. Left(n) \subseteq {Entry(i) : i \in Kept}
  BY DEF Left, OrderInv, HeapHolds
<1>5. Left(n) = {Entry(i) : i \in {j \in Kept : IndexOf(j) > r + n}}
  BY <1>3, <1>4
<1>6. QED
  BY <1>2, <1>5

\* With fewer messages than numbers the heap is ordered by the indices.
LEMMA WeightIs ==
  ASSUME LinkInv, OrderInv, FewMessages, NEW h \in OldMessages..orderedReadIndex,
         heapOffset = Wrap(h), NEW i \in Kept
  PROVE  Weight(Entry(i)) = IndexOf(i) - h
<1>1. /\ IndexOf(i) \in Nat /\ orderedReadIndex \in Nat /\ orderedReadIndex < IndexOf(i)
      /\ Entry(i).index = Wrap(IndexOf(i)) /\ i \in Messages
  BY KeptFacts
<1>2. i \in Nat /\ OldMessages \in Nat
  BY <1>1, MessageFacts DEF LinkInv
<1>3. IndexOf(i) <= OldMessages + i - 1 /\ i <= MaxMessages
  BY <1>1, IndexSpan DEF LinkInv, OrderInv
<1>4. Modulus \in Nat /\ MaxMessages \in Nat /\ MaxMessages <= Modulus
  BY ModulusFacts, ReliabilityAssumption DEF FewMessages
<1>5. h \in Int /\ IndexOf(i) - h \in 0..(Modulus - 1)
  BY <1>1, <1>2, <1>3, <1>4
<1>6. Wrap(Wrap(IndexOf(i)) - Wrap(h)) = Wrap(IndexOf(i) - h)
  BY <1>1, <1>5, WrapDifference
<1>7. Wrap(IndexOf(i) - h) = IndexOf(i) - h
  BY <1>5, WrapSmall DEF DatagramNumber
<1>8. QED
  BY <1>1, <1>6, <1>7 DEF Weight

\* When the loop ends, the next ordered message is not in the heap: it would
\* be on top.
LEMMA LoopMissesNone ==
  ASSUME LinkInv, OrderInv, FewMessages, NEW n \in Nat,
         \A k \in 0..(n - 1) : Due(k) # {}, Due(n) = {}, NEW i \in Kept
  PROVE  IndexOf(i) # orderedReadIndex + n + 1
<1> SUFFICES ASSUME IndexOf(i) = orderedReadIndex + n + 1 PROVE FALSE
  OBVIOUS
<1> DEFINE r == orderedReadIndex
           later == {j \in Kept : IndexOf(j) > r + n}
<1>1. r \in Nat /\ IndexOf(i) \in Nat /\ Entry(i).index = Wrap(r + n + 1)
  BY KeptFacts
<1>2. Left(n) = {Entry(j) : j \in later} /\ i \in later
  BY <1>1, LoopTakes
<1>3. heap # {}
  BY DEF OrderInv, HeapHolds
<1>4. PICK h \in OldMessages..r : heapOffset = Wrap(h)
  BY <1>3 DEF OrderInv, OffsetKnown
<1>5. h \in Int
  BY <1>1, MessageFacts DEF LinkInv
<1>6. ASSUME NEW f \in Left(n) PROVE Weight(Entry(i)) <= Weight(f)
  <2>1. PICK j \in later : f = Entry(j)
    BY <1>2
  <2>2. IndexOf(j) \in Nat /\ IndexOf(i) <= IndexOf(j)
    BY <1>1, <2>1, KeptFacts
  <2>3. Weight(Entry(i)) = IndexOf(i) - h /\ Weight(f) = IndexOf(j) - h
    BY <1>4, <2>1, WeightIs
  <2>4. QED
    BY <1>1, <1>5, <2>2, <2>3
<1>7. Entry(i) \in Due(n)
  BY <1>1, <1>2, <1>6 DEF Due, Top
<1>8. QED
  BY <1>7

-----------------------------------------------------------------------------
(* The output.                                                             *)

LEMMA OutputJoined ==
  ASSUME ReliabilityTypeOK, NEW f \in Seq(1..sent), output' = output \o f
  PROVE  /\ output' \in Seq(1..sent) /\ Len(output') = Len(output) + Len(f)
         /\ \A k \in 1..(Len(output) + Len(f)) :
              output'[k] = IF k <= Len(output) THEN output[k] ELSE f[k - Len(output)]
<1> DEFINE T == 1..sent
<1>1. output \in Seq(T) /\ f \in Seq(T)
  BY DEF ReliabilityTypeOK
<1>2. output' = output \o f
  OBVIOUS
<1>3. /\ output' \in Seq(T) /\ Len(output') = Len(output) + Len(f)
      /\ \A k \in 1..(Len(output) + Len(f)) :
           output'[k] = IF k <= Len(output) THEN output[k] ELSE f[k - Len(output)]
  <2> HIDE DEF T
  <2>1. QED
    BY <1>1, <1>2, ConcatProperties
<1>4. QED
  BY <1>3

\* Messages that join the output, none of which is there, each behind all
\* the ordered ones that were sent before it if it is ordered itself.
LEMMA OrderKept ==
  ASSUME ReliabilityTypeOK, OnceInOrder, pushed' = pushed,
         NEW m \in Nat, NEW f \in Seq(1..sent), Len(f) = m, output' = output \o f,
         \A k \in 1..m : \A l \in DOMAIN output : f[k] # output[l],
         \A k, l \in 1..m : f[k] = f[l] => k = l,
         \A k \in 1..m : IsOrdered(f[k]) =>
           \A j \in 1..(f[k] - 1) : IsOrdered(j) =>
             \/ j \in {output[l] : l \in DOMAIN output}
             \/ \E l \in 1..(k - 1) : f[l] = j
  PROVE  /\ OnceInOrder'
         /\ {output'[k] : k \in DOMAIN output'} =
              {output[k] : k \in DOMAIN output} \cup {f[k] : k \in 1..m}
<1> DEFINE L == Len(output)
           T == 1..sent
<1>1. output \in Seq(T) /\ f \in Seq(T)
  BY DEF ReliabilityTypeOK
<1>2. L \in Nat /\ DOMAIN output = 1..L
  BY TypeFacts
<1>3. /\ output' \in Seq(T) /\ Len(output') = L + m
      /\ \A k \in 1..(L + m) : output'[k] = IF k <= L THEN output[k] ELSE f[k - L]
  BY OutputJoined
<1>4. DOMAIN output' = 1..(L + m)
  BY <1>3, LenProperties
<1> HIDE DEF L, T
<1>5. \A k \in 1..L : k \in 1..(L + m) /\ output'[k] = output[k]
  BY <1>2, <1>3
<1>6. \A k \in 1..m : L + k \in 1..(L + m) /\ output'[L + k] = f[k]
  <2>1. ASSUME NEW k \in 1..m PROVE L + k \in 1..(L + m) /\ output'[L + k] = f[k]
    <3>1. L + k \in 1..(L + m) /\ ~(L + k <= L) /\ (L + k) - L = k
      BY <1>2
    <3>2. QED
      BY <1>3, <3>1
  <2>2. QED
    BY <2>1
<1>7. \A k \in 1..(L + m) : k \in 1..L \/ \E j \in 1..m : k = L + j
  <2>1. ASSUME NEW k \in 1..(L + m), k \notin 1..L PROVE \E j \in 1..m : k = L + j
    <3>1. k - L \in 1..m /\ k = L + (k - L)
      BY <1>2, <2>1
    <3>2. QED
      BY <3>1
  <2>2. QED
    BY <2>1
<1>8. ASSUME NEW k \in 1..(L + m), NEW l \in 1..(L + m), output'[k] = output'[l]
      PROVE  k = l
  <2>1. CASE k \in 1..L /\ l \in 1..L
    BY <1>2, <1>5, <1>8, <2>1 DEF OnceInOrder
  <2>2. ASSUME k \in 1..L, NEW j \in 1..m, l = L + j PROVE FALSE
    <3>1. output[k] = f[j] /\ k \in DOMAIN output
      BY <1>2, <1>5, <1>6, <1>8, <2>2
    <3>2. QED
      BY <3>1
  <2>3. ASSUME l \in 1..L, NEW j \in 1..m, k = L + j PROVE FALSE
    <3>1. output[l] = f[j] /\ l \in DOMAIN output
      BY <1>2, <1>5, <1>6, <1>8, <2>3
    <3>2. QED
      BY <3>1
  <2>4. ASSUME NEW i \in 1..m, k = L + i, NEW j \in 1..m, l = L + j PROVE k = l
    <3>1. f[i] = f[j]
      BY <1>6, <1>8, <2>4
    <3>2. QED
      BY <2>4, <3>1
  <2>5. QED
    BY <1>7, <2>1, <2>2, <2>3, <2>4
<1>9. ASSUME NEW k \in 1..(L + m), IsOrdered(output'[k]),
             NEW j \in 1..(output'[k] - 1), IsOrdered(j)
      PROVE  \E l \in 1..(k - 1) : output'[l] = j
  <2>1. CASE k \in 1..L
    <3>1. output'[k] = output[k]
      BY <1>5, <2>1
    <3>2. PICK l \in 1..(k - 1) : output[l] = j
      BY <1>2, <1>9, <2>1, <3>1 DEF OnceInOrder, IsOrdered
    <3>3. l \in 1..L
      BY <1>2, <2>1
    <3>4. QED
      BY <1>5, <3>2, <3>3
  <2>2. ASSUME NEW i \in 1..m, k = L + i PROVE \E l \in 1..(k - 1) : output'[l] = j
    <3>1. output'[k] = f[i]
      BY <1>6, <2>2
    <3>2. \/ j \in {output[l] : l \in DOMAIN output}
          \/ \E l \in 1..(i - 1) : f[l] = j
      BY <1>9, <3>1
    <3>3. CASE j \in {output[l] : l \in DOMAIN output}
      <4>1. PICK l \in 1..L : output[l] = j
        BY <1>2, <3>3
      <4>2. l \in 1..(k - 1)
        BY <1>2, <2>2
      <4>3. QED
        BY <1>5, <4>1, <4>2
    <3>4. CASE \E l \in 1..(i - 1) : f[l] = j
      <4>1. PICK l \in 1..(i - 1) : f[l] = j
        BY <3>4
      <4>2. l \in 1..m /\ L + l \in 1..(k - 1)
        BY <1>2, <2>2
      <4>3. output'[L + l] = j
        BY <1>6, <4>1, <4>2
      <4>4. QED
        BY <4>2, <4>3
    <3>5. QED
      BY <3>2, <3>3, <3>4
  <2>3. QED
    BY <1>7, <2>1, <2>2
<1>10. OnceInOrder'
  <2>1. \A k \in DOMAIN output' : pushed'[output'[k]].ordered =>
          \A j \in 1..(output'[k] - 1) : pushed'[j].ordered =>
            \E l \in 1..(k - 1) : output'[l] = j
    <3> SUFFICES ASSUME NEW k \in DOMAIN output', pushed'[output'[k]].ordered,
                        NEW j \in 1..(output'[k] - 1), pushed'[j].ordered
                 PROVE  \E l \in 1..(k - 1) : output'[l] = j
      OBVIOUS
    <3>1. IsOrdered(output'[k]) /\ IsOrdered(j) /\ k \in 1..(L + m)
      BY <1>4 DEF IsOrdered
    <3>2. QED
      BY <1>9, <3>1
  <2>2. \A k, l \in DOMAIN output' : output'[k] = output'[l] => k = l
    BY <1>4, <1>8
  <2>3. QED
    BY <2>1, <2>2 DEF OnceInOrder
<1>11. {output'[k] : k \in DOMAIN output'} =
         {output[k] : k \in DOMAIN output} \cup {f[k] : k \in 1..m}
  <2> DEFINE before == {output[k] : k \in DOMAIN output}
             after == {output'[k] : k \in DOMAIN output'}
             new == {f[k] : k \in 1..m}
  <2>1. before \subseteq after
    BY <1>2, <1>4, <1>5
  <2>2. new \subseteq after
    BY <1>4, <1>6
  <2>3. ASSUME NEW k \in 1..(L + m) PROVE output'[k] \in before \cup new
    <3>1. CASE k \in 1..L
      BY <1>2, <1>5, <3>1
    <3>2. ASSUME NEW j \in 1..m, k = L + j PROVE output'[k] \in new
      BY <1>6, <3>2
    <3>3. QED
      BY <1>7, <3>1, <3>2
  <2>4. after \subseteq before \cup new
    <3> SUFFICES ASSUME NEW e \in after PROVE e \in before \cup new
      OBVIOUS
    <3>1. PICK k \in DOMAIN output' : e = output'[k]
      OBVIOUS
    <3>2. k \in 1..(L + m)
      BY <1>4
    <3> HIDE DEF before, new
    <3>3. QED
      BY <2>3, <3>1, <3>2
  <2> HIDE DEF before, new, after
  <2>5. before \cup new = after
    BY <2>1, <2>2, <2>4
  <2>6. QED
    BY <2>5 DEF before, new, after
<1>12. QED
  BY <1>10, <1>11

\* What a step leaves that does nothing to the messages sent.
LEMMA NumberedKept ==
  ASSUME UNCHANGED <<pushed, orderedWriteIndex>>
  PROVE  /\ Numbered => Numbered'
         /\ \A i : IndexOf(i)' = IndexOf(i) /\ Entry(i)' = Entry(i)
         /\ \A i : IsOrdered(i)' = IsOrdered(i)
  BY DEF Numbered, IndexOf, Entry, IsOrdered, OrderingIndex, Messages

LEMMA UnorderedKeeps ==
  ASSUME LinkInv, OrderInv, NEW i \in parsing, ParseMessage(i), Unordered(i)
  PROVE  OrderInv'
<1>1. /\ UNCHANGED <<pushed, orderedWriteIndex>> /\ received' = received \cup {i}
      /\ i \notin received /\ ~IsOrdered(i) /\ output' = Append(output, i)
      /\ UNCHANGED <<orderedReadIndex, heap, heapOffset>>
  BY HoleCountIs DEF ParseMessage, sendVars, Unordered, MarkReceived, IsOrdered
<1>2. /\ ReliabilityTypeOK /\ i \in 1..sent /\ i \in Messages
      /\ OrderInv
  BY MessageFacts DEF LinkInv
<1>3. Numbered' /\ TurnsTaken' /\ NextMissing' /\ OffsetKnown'
  BY <1>1, <1>2, NumberedKept
     DEF OrderInv, TurnsTaken, NextMissing, OffsetKnown, Messages
<1>4. HeapHolds'
  BY <1>1, <1>2, NumberedKept DEF OrderInv, HeapHolds, Kept, TooEarly
<1> DEFINE f == <<i>>
           T == 1..sent
<1>5. /\ f \in Seq(T) /\ Len(f) = 1 /\ \A k \in 1..1 : f[k] = i
  BY <1>2
<1>6. output' = output \o f
  <2>1. output \in Seq(T)
    BY <1>2 DEF ReliabilityTypeOK
  <2> HIDE DEF T
  <2>2. QED
    BY <1>1, <1>5, <2>1
<1> HIDE DEF f
<1>7. i \notin {output[k] : k \in DOMAIN output}
  BY <1>1, <1>2 DEF OrderInv, OutputHolds
<1>8. /\ OnceInOrder'
      /\ {output'[k] : k \in DOMAIN output'} =
           {output[k] : k \in DOMAIN output} \cup {f[k] : k \in 1..1}
  <2>1. /\ \A k \in 1..1 : \A l \in DOMAIN output : f[k] # output[l]
        /\ \A k, l \in 1..1 : f[k] = f[l] => k = l
        /\ \A k \in 1..1 : ~IsOrdered(f[k])
    BY <1>1, <1>5, <1>7
  <2>2. QED
    BY <1>1, <1>2, <1>5, <1>6, <2>1, OrderKept DEF OrderInv
<1>9. OutputHolds'
  <2>1. {f[k] : k \in 1..1} = {i}
    BY <1>5
  <2>2. QED
    BY <1>1, <1>2, <1>8, <2>1, NumberedKept DEF OrderInv, OutputHolds, InTurn
<1>10. QED
  BY <1>3, <1>4, <1>8, <1>9 DEF OrderInv

-----------------------------------------------------------------------------
(* A message that comes early, and one whose turn it is.                   *)

\* What comes less than half the numbers ahead is not taken for old.
LEMMA NotOlder ==
  ASSUME NEW r \in Nat, NEW n \in Nat, r < n, n - r < HalfRange
  PROVE  ~IsOlderOrderedPacket(Wrap(n), Wrap(r))
<1> DEFINE w == Wrap(r)
           d == n - r
           v == Wrap(n)
           H == HalfRange
<1>1. w \in Nat /\ w < Modulus /\ d \in Nat /\ 0 < d /\ d < H
  BY WrapType
<1>2. H \in Nat /\ Modulus \in Nat \ {0} /\ 2 * H + 1 <= Modulus
  BY ModulusFacts
<1>3. v = Wrap(w + d)
  <2>1. Wrap(Wrap(r) + d) = Wrap(r + d) /\ r + d = n
    BY <1>1, WrapSum
  <2>2. QED
    BY <2>1
<1> HIDE DEF w, v, d, H
<1>4. v = w + d \/ v = w + d - Modulus
  <2>1. CASE w + d < Modulus
    <3>1. w + d \in DatagramNumber
      BY <1>1, <1>2, <2>1 DEF DatagramNumber
    <3>2. QED
      BY <1>3, <3>1, WrapSmall
  <2>2. CASE ~(w + d < Modulus)
    <3>1. w + d \in Int /\ Modulus <= w + d /\ w + d < 2 * Modulus
      BY <1>1, <1>2, <2>2
    <3>2. Wrap(w + d) = (w + d) - Modulus
      BY <3>1, WrapAbove
    <3>3. QED
      BY <1>1, <1>2, <1>3, <3>2
  <2>3. QED
    BY <2>1, <2>2
<1>5. v \in Nat /\ v < Modulus
  BY WrapType DEF v
<1>6. CASE w > H
  <2>1. w - H + 1 \in DatagramNumber
    BY <1>1, <1>2, <1>6 DEF DatagramNumber
  <2>2. Wrap(w - H + 1) = w - H + 1
    BY <2>1, WrapSmall
  <2>3. ~(w - H + 1 <= v /\ v < w)
    BY <1>1, <1>2, <1>4, <1>5, <1>6
  <2>4. QED
    BY <1>6, <2>2, <2>3 DEF IsOlderOrderedPacket, w, v, H
<1>7. CASE ~(w > H)
  <2>1. /\ w - (H + 1) \in Int /\ w - (H + 1) < 0 /\ -Modulus <= w - (H + 1)
    BY <1>1, <1>2, <1>7
  <2>2. Wrap(w - (H + 1)) = w - (H + 1) + Modulus
    BY <2>1, WrapBelow
  <2>3. ~(w - (H + 1) + Modulus <= v \/ v < w)
    BY <1>1, <1>2, <1>4, <1>5, <1>7
  <2>4. QED
    BY <1>7, <2>2, <2>3 DEF IsOlderOrderedPacket, w, v, H
<1>8. QED
  BY <1>6, <1>7

\* What is known of an ordered message that is accepted: it is new, and its
\* turn has not passed.
LEMMA AcceptedFacts ==
  ASSUME LinkInv, OrderInv, NEW i \in parsing, ParseMessage(i), Ordered(i)
  PROVE  /\ UNCHANGED <<pushed, orderedWriteIndex, sent>>
         /\ received' = received \cup {i} /\ i \notin received
         /\ i \in 1..sent /\ i \in Messages /\ IsOrdered(i)
         /\ IndexOf(i) \in Nat /\ orderedReadIndex \in Nat
         /\ orderedReadIndex <= IndexOf(i) /\ IndexOf(i) - orderedReadIndex < HalfRange
         /\ OrderingIndex(i) = Wrap(IndexOf(i))
<1>1. /\ UNCHANGED <<pushed, orderedWriteIndex, sent>> /\ received' = received \cup {i}
      /\ i \notin received /\ IsOrdered(i)
  BY HoleCountIs DEF ParseMessage, sendVars, Ordered, MarkReceived, IsOrdered
<1>2. /\ i \in 1..sent /\ i \in Messages /\ IndexOf(i) \in Nat /\ orderedReadIndex \in Nat
      /\ OrderingIndex(i) = Wrap(IndexOf(i))
  BY MessageFacts DEF LinkInv
<1>3. orderedReadIndex <= IndexOf(i)
  BY <1>1, <1>2 DEF OrderInv, TurnsTaken
<1>4. IndexOf(i) - orderedReadIndex < HalfRange
  BY <1>1, <1>2, <1>3, NotFarAhead DEF OrderInv
<1>5. QED
  BY <1>1, <1>2, <1>3, <1>4

LEMMA EarlyKeeps ==
  ASSUME LinkInv, OrderInv, NEW i \in parsing, ParseMessage(i), Ordered(i),
         Early(i, OrderingIndex(i))
  PROVE  OrderInv'
<1> DEFINE r == orderedReadIndex
<1>1. /\ UNCHANGED <<pushed, orderedWriteIndex, sent>> /\ received' = received \cup {i}
      /\ i \notin received /\ i \in Messages /\ IsOrdered(i)
      /\ IndexOf(i) \in Nat /\ r \in Nat /\ r <= IndexOf(i) /\ IndexOf(i) - r < HalfRange
      /\ OrderingIndex(i) = Wrap(IndexOf(i))
  BY AcceptedFacts
<1>2. r < IndexOf(i)
  BY <1>1 DEF Early
<1>3. ~IsOlderOrderedPacket(OrderingIndex(i), Wrap(r))
  BY <1>1, <1>2, NotOlder
<1>4. /\ heapOffset' = IF heap = {} THEN Wrap(r) ELSE heapOffset
      /\ heap' = heap \cup {Entry(i)}
      /\ UNCHANGED <<orderedReadIndex, output>>
  BY <1>3 DEF Early, Entry
<1>5. Numbered' /\ TurnsTaken'
  BY <1>1, <1>4, NumberedKept DEF OrderInv, TurnsTaken, Messages
<1>6. NextMissing'
  BY <1>1, <1>2, <1>4, NumberedKept DEF OrderInv, NextMissing
<1>7. HeapHolds'
  <2>1. Kept' = Kept \cup {i}
    BY <1>1, <1>2, <1>4, NumberedKept DEF Kept, TooEarly
  <2>2. \A j : Entry(j)' = Entry(j)
    BY <1>1, NumberedKept
  <2>3. heap' = {Entry(j) : j \in Kept \cup {i}}
    BY <1>4 DEF OrderInv, HeapHolds
  <2>4. QED
    BY <2>1, <2>2, <2>3 DEF HeapHolds
<1>8. OutputHolds'
  <2>1. {j \in received' : InTurn(j)'} = {j \in received : InTurn(j)}
    BY <1>1, <1>2, <1>4, NumberedKept DEF InTurn
  <2>2. QED
    BY <1>4, <2>1 DEF OrderInv, OutputHolds
<1>9. OffsetKnown'
  <2>1. r \in OldMessages..r
    BY <1>1, MessageFacts DEF OrderInv, TurnsTaken, LinkInv
  <2>2. QED
    BY <1>4, <2>1 DEF OrderInv, OffsetKnown
<1>10. OnceInOrder'
  BY <1>1, <1>4 DEF OrderInv, OnceInOrder
<1>11. QED
  BY <1>5, <1>6, <1>7, <1>8, <1>9, <1>10 DEF OrderInv

LEMMA InOrderKeeps ==
  ASSUME LinkInv, OrderInv, FewMessages, NEW i \in parsing, ParseMessage(i), Ordered(i),
         InOrder(i, OrderingIndex(i))
  PROVE  OrderInv'
<1> DEFINE r == orderedReadIndex
<1>1. /\ UNCHANGED <<pushed, orderedWriteIndex, sent>> /\ received' = received \cup {i}
      /\ i \notin received /\ i \in 1..sent /\ i \in Messages /\ IsOrdered(i)
      /\ IndexOf(i) \in Nat /\ r \in Nat /\ r <= IndexOf(i) /\ IndexOf(i) - r < HalfRange
      /\ OrderingIndex(i) = Wrap(IndexOf(i))
  BY AcceptedFacts
<1>2. IndexOf(i) = r
  <2>1. Wrap(IndexOf(i)) = Wrap(r)
    BY <1>1 DEF InOrder
  <2>2. HalfRange \in Nat /\ HalfRange < Modulus /\ Modulus \in Nat
    BY ModulusFacts
  <2>3. IndexOf(i) - r < Modulus /\ r - IndexOf(i) < Modulus
    BY <1>1, <2>2
  <2>4. QED
    BY <1>1, <2>1, <2>3, WrapEqual
<1>3. PICK n \in 0..Cardinality(heap) :
        /\ \A k \in 0..(n - 1) : Due(k) # {}
        /\ Due(n) = {}
        /\ output' = output \o [k \in 1..(n + 1) |->
             IF k = 1 THEN i ELSE Pick(r + k - 1).message]
        /\ heap' = Left(n)
        /\ orderedReadIndex' = r + n + 1
        /\ heapOffset' = heapOffset
  BY DEF InOrder
<1>4. n \in Nat
  OBVIOUS
<1>5. /\ \A k \in 1..n : \E j \in Kept : IndexOf(j) = r + k /\ Pick(r + k) = Entry(j)
      /\ Left(n) = {Entry(j) : j \in {j \in Kept : IndexOf(j) > r + n}}
  BY <1>3, <1>4, LoopTakes
<1>6. \A j \in Kept : IndexOf(j) # r + n + 1
  BY <1>3, <1>4, LoopMissesNone
\* The messages that come out: the turn's own, and those kept that follow.
<1> DEFINE f == [k \in 1..(n + 1) |-> IF k = 1 THEN i ELSE Pick(r + k - 1).message]
<1>7. /\ \A k \in 1..(n + 1) : /\ f[k] \in received' /\ f[k] \in Messages /\ f[k] \in 1..sent
                               /\ IsOrdered(f[k]) /\ IndexOf(f[k]) = r + (k - 1)
  <2> SUFFICES ASSUME NEW k \in 1..(n + 1)
               PROVE  /\ f[k] \in received' /\ f[k] \in Messages /\ f[k] \in 1..sent
                      /\ IsOrdered(f[k]) /\ IndexOf(f[k]) = r + (k - 1)
    OBVIOUS
  <2>1. CASE k = 1
    BY <1>1, <1>2, <2>1
  <2>2. CASE k # 1
    <3>1. k - 1 \in 1..n /\ r + k - 1 = r + (k - 1)
      BY <1>1, <1>4, <2>2
    <3>2. PICK j \in Kept : IndexOf(j) = r + (k - 1) /\ Pick(r + (k - 1)) = Entry(j)
      BY <1>5, <3>1
    <3>3. f[k] = j
      BY <2>2, <3>1, <3>2, KeptFacts
    <3>4. j \in received /\ j \in Messages /\ j \in 1..sent /\ IsOrdered(j)
      BY KeptFacts
    <3> HIDE DEF f
    <3>5. QED
      BY <1>1, <3>2, <3>3, <3>4
  <2>3. QED
    BY <2>1, <2>2
<1>8. f \in Seq(1..sent) /\ Len(f) = n + 1
  <2>1. \A k \in 1..(n + 1) : f[k] \in 1..sent
    BY <1>7
  <2>2. f \in Seq(1..sent)
    BY <1>4, <2>1, IsASeq
  <2>3. Len(f) \in Nat /\ 1..Len(f) = 1..(n + 1)
    BY <2>2, LenProperties
  <2> HIDE DEF f
  <2>4. Len(f) = n + 1
    BY <1>4, <2>3
  <2>5. QED
    BY <2>2, <2>4
<1>9. output' = output \o f
  BY <1>3
<1> HIDE DEF f, r
\* These are the messages whose turn it becomes.
<1>10. ASSUME NEW j \in Messages, IsOrdered(j), IndexOf(j) \in r..(r + n)
       PROVE  \E k \in 1..(n + 1) : k = IndexOf(j) - r + 1 /\ f[k] = j
  <2>1. PICK k \in 1..(n + 1) : k = IndexOf(j) - r + 1
    BY <1>1, <1>4, <1>10
  <2>2. f[k] \in Messages /\ IsOrdered(f[k]) /\ IndexOf(f[k]) = IndexOf(j)
    <3>1. r + (k - 1) = IndexOf(j)
      BY <1>1, <1>4, <1>10, <2>1
    <3>2. QED
      BY <1>7, <3>1
  <2>3. f[k] = j
    BY <1>10, <2>2, OneIndexEach DEF LinkInv, OrderInv
  <2>4. QED
    BY <2>1, <2>3
<1>11. Numbered'
  BY <1>1, NumberedKept DEF OrderInv
<1>12. /\ \A j : IndexOf(j)' = IndexOf(j) /\ Entry(j)' = Entry(j) /\ IsOrdered(j)' = IsOrdered(j)
       /\ Messages' = Messages
  BY <1>1, NumberedKept DEF Messages
<1>13. orderedReadIndex' = r + n + 1 /\ orderedReadIndex = r
  BY <1>3 DEF r
<1>14. \A j \in Messages : IndexOf(j) \in Nat
  BY MessageFacts DEF LinkInv
<1>15. received \subseteq Messages
  BY MessageFacts DEF LinkInv
<1>16. TurnsTaken'
  <2>1. OldMessages <= orderedReadIndex'
    BY <1>1, <1>4, <1>13, MessageFacts DEF OrderInv, TurnsTaken, LinkInv
  <2>2. ASSUME NEW j \in Messages, IsOrdered(j), IndexOf(j) < r + n + 1
        PROVE  j \in received'
    <3>1. CASE IndexOf(j) < r
      BY <1>1, <1>13, <2>2, <3>1 DEF OrderInv, TurnsTaken
    <3>2. CASE ~(IndexOf(j) < r)
      <4>1. IndexOf(j) \in r..(r + n)
        BY <1>1, <1>4, <1>14, <2>2, <3>2
      <4>2. QED
        BY <1>7, <1>10, <2>2, <4>1
    <3>3. QED
      BY <3>1, <3>2
  <2>3. r + n + 1 <= orderedWriteIndex
    <3>1. n + 1 \in 1..(n + 1)
      BY <1>4
    <3>2. f[n + 1] \in Messages /\ IsOrdered(f[n + 1]) /\ IndexOf(f[n + 1]) = r + ((n + 1) - 1)
      BY <1>7, <3>1
    <3>3. r + ((n + 1) - 1) < orderedWriteIndex
      BY <3>2, IndexSpan DEF LinkInv, OrderInv
    <3>4. QED
      BY <1>1, <1>4, <3>3, MessageFacts DEF LinkInv
  <2>4. QED
    BY <1>1, <1>12, <1>13, <2>1, <2>2, <2>3 DEF TurnsTaken
\* A message received that is not in turn now was kept, and is later still.
<1>17. ASSUME NEW j \in received', IsOrdered(j), ~(IndexOf(j) < r + n + 1)
       PROVE  j \in Kept /\ IndexOf(j) > r + n /\ IndexOf(j) > r + n + 1
  <2>1. j \in received /\ IndexOf(j) \in Nat
    BY <1>1, <1>2, <1>4, <1>14, <1>15, <1>17
  <2>2. IndexOf(j) > r /\ IndexOf(j) > r + n
    BY <1>1, <1>4, <1>17, <2>1
  <2>3. j \in Kept
    BY <1>13, <1>17, <2>1, <2>2 DEF Kept, TooEarly
  <2>4. IndexOf(j) # r + n + 1
    BY <1>6, <2>3
  <2>5. QED
    BY <1>1, <1>4, <1>17, <2>1, <2>2, <2>3, <2>4
<1>18. NextMissing'
  <2>1. ASSUME NEW j \in received', IsOrdered(j) PROVE IndexOf(j) # r + n + 1
    <3>1. CASE IndexOf(j) < r + n + 1
      BY <1>1, <1>4, <3>1
    <3>2. CASE ~(IndexOf(j) < r + n + 1)
      BY <1>6, <1>17, <2>1, <3>2
    <3>3. QED
      BY <3>1, <3>2
  <2>2. QED
    BY <1>12, <1>13, <2>1 DEF NextMissing
<1>19. HeapHolds'
  <2>1. Kept' = {j \in Kept : IndexOf(j) > r + n}
    <3>1. Kept' = {j \in received' : IsOrdered(j) /\ IndexOf(j) > r + n + 1}
      BY <1>12, <1>13 DEF Kept, TooEarly
    <3>2. ASSUME NEW j \in received', IsOrdered(j), IndexOf(j) > r + n + 1
          PROVE  j \in Kept /\ IndexOf(j) > r + n
      <4>1. ~(IndexOf(j) < r + n + 1)
        BY <1>1, <1>4, <1>14, <1>15, <3>2
      <4>2. QED
        BY <1>17, <3>2, <4>1
    <3>3. ASSUME NEW j \in Kept, IndexOf(j) > r + n
          PROVE  j \in received' /\ IsOrdered(j) /\ IndexOf(j) > r + n + 1
      <4>1. j \in received /\ IsOrdered(j) /\ IndexOf(j) \in Nat
        BY KeptFacts
      <4>2. IndexOf(j) # r + n + 1
        BY <1>6
      <4>3. IndexOf(j) > r + n + 1
        BY <1>1, <1>4, <3>3, <4>1, <4>2
      <4>4. QED
        BY <1>1, <4>1, <4>3
    <3>4. QED
      BY <3>1, <3>2, <3>3
  <2>2. heap' = {Entry(j) : j \in Kept'}
    BY <1>3, <1>5, <2>1
  <2>3. QED
    BY <1>12, <2>2 DEF HeapHolds
<1>20. OffsetKnown'
  <2>1. \A h \in OldMessages..r : h \in OldMessages..(r + n + 1)
    BY <1>1, <1>4, MessageFacts DEF LinkInv
  <2>2. heap' # {} => heap # {}
    BY <1>3 DEF Left
  <2>3. QED
    BY <1>3, <1>13, <2>1, <2>2 DEF OrderInv, OffsetKnown
<1>21. /\ OnceInOrder'
       /\ {output'[k] : k \in DOMAIN output'} =
            {output[k] : k \in DOMAIN output} \cup {f[k] : k \in 1..(n + 1)}
  <2>1. \A l \in DOMAIN output : output[l] \in received /\ InTurn(output[l])
    BY DEF OrderInv, OutputHolds
  <2>2. ASSUME NEW k \in 1..(n + 1), NEW l \in DOMAIN output PROVE f[k] # output[l]
    <3>1. IsOrdered(f[k]) /\ ~(IndexOf(f[k]) < r)
      BY <1>1, <1>4, <1>7
    <3>2. QED
      BY <1>13, <2>1, <3>1 DEF InTurn
  <2>3. ASSUME NEW k \in 1..(n + 1), NEW l \in 1..(n + 1), f[k] = f[l] PROVE k = l
    BY <1>1, <1>4, <1>7, <2>3
  <2>4. ASSUME NEW k \in 1..(n + 1), NEW j \in 1..(f[k] - 1), IsOrdered(j)
        PROVE  \/ j \in {output[l] : l \in DOMAIN output}
               \/ \E l \in 1..(k - 1) : f[l] = j
    <3>1. f[k] \in Messages /\ IsOrdered(f[k]) /\ IndexOf(f[k]) = r + (k - 1)
      BY <1>7
    <3>2. j \in Messages /\ j < f[k]
      BY <3>1, MessageFacts DEF Messages, LinkInv
    <3>3. IndexOf(j) < r + (k - 1)
      BY <2>4, <3>1, <3>2, IndexSteps DEF LinkInv, OrderInv
    <3>4. CASE IndexOf(j) < r
      <4>1. j \in received /\ InTurn(j)
        BY <1>13, <2>4, <3>2, <3>4 DEF OrderInv, TurnsTaken, InTurn
      <4>2. QED
        BY <4>1 DEF OrderInv, OutputHolds
    <3>5. CASE ~(IndexOf(j) < r)
      <4>1. IndexOf(j) \in r..(r + n)
        BY <1>1, <1>4, <1>14, <3>2, <3>3, <3>5
      <4>2. PICK l \in 1..(n + 1) : l = IndexOf(j) - r + 1 /\ f[l] = j
        BY <1>10, <2>4, <3>2, <4>1
      <4>3. l \in 1..(k - 1)
        BY <1>1, <1>4, <1>14, <3>2, <3>3, <4>2
      <4>4. QED
        BY <4>2, <4>3
    <3>6. QED
      BY <3>4, <3>5
  <2>5. n + 1 \in Nat /\ pushed' = pushed /\ ReliabilityTypeOK /\ OnceInOrder
    BY <1>1, <1>4 DEF LinkInv, OrderInv
  <2> DEFINE m == n + 1
  <2>6. m \in Nat /\ f \in Seq(1..sent) /\ Len(f) = m /\ output' = output \o f
    BY <1>8, <1>9, <2>5
  <2>7. \A k \in 1..m : \A l \in DOMAIN output : f[k] # output[l]
    BY <2>2
  <2>8. \A k, l \in 1..m : f[k] = f[l] => k = l
    BY <2>3
  <2>9. \A k \in 1..m : IsOrdered(f[k]) =>
          \A j \in 1..(f[k] - 1) : IsOrdered(j) =>
            \/ j \in {output[l] : l \in DOMAIN output}
            \/ \E l \in 1..(k - 1) : f[l] = j
    BY <2>4
  <2> HIDE DEF m
  <2>10. /\ OnceInOrder'
         /\ {output'[k] : k \in DOMAIN output'} =
              {output[k] : k \in DOMAIN output} \cup {f[k] : k \in 1..m}
    BY <2>5, <2>6, <2>7, <2>8, <2>9, OrderKept
  <2>11. QED
    BY <2>10 DEF m
<1>22. OutputHolds'
  <2> DEFINE now == {j \in received' : IsOrdered(j) => IndexOf(j) < r + n + 1}
             before == {j \in received : InTurn(j)}
             new == {f[k] : k \in 1..(n + 1)}
  <2>1. before \subseteq now
    <3>1. ASSUME NEW j \in received, InTurn(j)
          PROVE  j \in received' /\ (IsOrdered(j) => IndexOf(j) < r + n + 1)
      <4>1. IndexOf(j) \in Nat /\ (IsOrdered(j) => IndexOf(j) < r)
        BY <1>13, <1>14, <1>15, <3>1 DEF InTurn
      <4>2. QED
        BY <1>1, <1>4, <4>1
    <3>2. QED
      BY <3>1
  <2>2. new \subseteq now
    <3>1. \A k \in 1..(n + 1) : f[k] \in received' /\ IndexOf(f[k]) < r + n + 1
      BY <1>1, <1>4, <1>7
    <3>2. QED
      BY <3>1
  <2>3. ASSUME NEW j \in now PROVE j \in before \cup new
    <3>1. CASE IsOrdered(j) /\ ~(IndexOf(j) < r)
      <4>1. j \in Messages
        BY <1>1, <1>15
      <4>2. IndexOf(j) \in r..(r + n)
        BY <1>1, <1>4, <1>14, <3>1, <4>1
      <4>3. QED
        BY <1>10, <3>1, <4>1, <4>2
    <3>2. CASE ~(IsOrdered(j) /\ ~(IndexOf(j) < r))
      <4>1. j # i
        BY <1>1, <1>2, <3>2
      <4>2. QED
        BY <1>1, <1>13, <3>2, <4>1 DEF InTurn
    <3>3. QED
      BY <3>1, <3>2
  <2>4. now = {j \in received' : InTurn(j)'}
    BY <1>12, <1>13 DEF InTurn
  <2>5. {output[k] : k \in DOMAIN output} = before
    BY DEF OrderInv, OutputHolds
  <2> HIDE DEF now, before, new
  <2>6. before \cup new = now
    BY <2>1, <2>2, <2>3
  <2>7. QED
    BY <1>21, <2>4, <2>5, <2>6 DEF OutputHolds, new
<1>23. QED
  BY <1>11, <1>16, <1>18, <1>19, <1>20, <1>21, <1>22 DEF OrderInv

-----------------------------------------------------------------------------
(* The other steps.                                                        *)

\* Send appends a message with the next index.
LEMMA SendNumbers ==
  ASSUME ReliabilityTypeOK, Numbered, TurnsTaken, Send
  PROVE  /\ Numbered'
         /\ UNCHANGED <<orderVars, sent, taken, dead>>
         /\ Messages' = Messages \cup {Len(pushed) + 1}
         /\ \A i \in Messages : /\ pushed'[i] = pushed[i]
                                /\ IsOrdered(i)' = IsOrdered(i) /\ IndexOf(i)' = IndexOf(i)
                                /\ Entry(i)' = Entry(i)
         /\ \A i : i = Len(pushed) + 1 => IndexOf(i)' = orderedWriteIndex
         /\ \E ordered \in Kinds : pushed' = Append(pushed, [ordered |-> ordered,
                                                             index |-> orderedWriteIndex])
<1> DEFINE w == orderedWriteIndex
<1>0. PICK n \in Nat : n = Len(pushed)
  BY MessageFacts
<1>1. /\ n \in Nat /\ w \in Nat /\ OldMessages \in Nat /\ n < MaxMessages
      /\ \A i \in 1..n : IndexOf(i) \in Nat /\ IsOrdered(i) \in BOOLEAN
      /\ MaxMessages \in Nat
  BY <1>0, MessageFacts, ReliabilityAssumption DEF Send, Messages
<1>2. PICK ordered \in Kinds :
        /\ pushed' = Append(pushed, [ordered |-> ordered, index |-> w])
        /\ w' = w + IF ordered THEN 1 ELSE 0
  BY DEF Send
<1>3. ordered \in BOOLEAN
  BY ReliabilityAssumption
<1> DEFINE e == [ordered |-> ordered, index |-> w]
<1>4. /\ Len(pushed') = n + 1 /\ pushed'[n + 1] = e
      /\ \A i \in 1..n : pushed'[i] = pushed[i]
  <2> DEFINE R == [ordered: BOOLEAN, index: Nat]
  <2>1. pushed \in Seq(R) /\ e \in R /\ pushed' = Append(pushed, e)
    BY <1>1, <1>2, <1>3 DEF ReliabilityTypeOK
  <2> HIDE DEF e, R
  <2>2. QED
    BY <1>0, <2>1, AppendProperties
<1>5. Messages = 1..n /\ Messages' = 1..(n + 1) /\ Messages' = Messages \cup {n + 1}
  BY <1>0, <1>1, <1>4 DEF Messages
<1>6. \A i \in 1..n : IsOrdered(i)' = IsOrdered(i) /\ IndexOf(i)' = IndexOf(i)
  BY <1>4, <1>5 DEF IsOrdered, IndexOf
<1>7. /\ IsOrdered(n + 1)' = ordered /\ IndexOf(n + 1)' = w /\ IndexOf(n + 1) = w
      /\ IndexOf(n + 2)' = w'
  <2>1. n + 1 \in Messages' /\ n + 1 \notin Messages /\ n + 2 \notin Messages'
    BY <1>1, <1>5
  <2>2. QED
    BY <1>4, <2>1 DEF IsOrdered, IndexOf
<1> HIDE DEF e
<1>8. \A i, j \in 1..(n + 1) : i < j =>
        /\ IndexOf(i) <= IndexOf(j) /\ IndexOf(j) - IndexOf(i) <= j - i
        /\ IsOrdered(i) => IndexOf(i) < IndexOf(j)
  BY <1>0 DEF Numbered
<1>9. \A i \in 1..(n + 1) : IndexOf(i)' = IndexOf(i) /\ IndexOf(i) \in Nat
  <2>1. \A i \in 1..(n + 1) : i \in 1..n \/ i = n + 1
    BY <1>1
  <2>2. QED
    BY <1>1, <1>6, <1>7, <2>1
<1>10. ASSUME NEW i \in 1..(n + 2), NEW j \in 1..(n + 2), i < j
       PROVE  /\ IndexOf(i)' <= IndexOf(j)' /\ IndexOf(j)' - IndexOf(i)' <= j - i
              /\ IsOrdered(i)' => IndexOf(i)' < IndexOf(j)'
  <2>1. i \in 1..(n + 1) /\ (j \in 1..(n + 1) \/ j = n + 2)
    BY <1>1, <1>10
  <2>2. CASE j \in 1..(n + 1)
    <3>1. i \in 1..n
      BY <1>1, <1>10, <2>1, <2>2
    <3>2. QED
      BY <1>6, <1>8, <1>9, <1>10, <2>1, <2>2, <3>1
  <2>3. CASE j = n + 2
    <3>1. IndexOf(j)' = w' /\ w' \in Nat /\ w <= w' /\ w' <= w + 1 /\ (ordered => w' = w + 1)
      BY <1>1, <1>2, <1>3, <1>7, <2>3
    <3>2. CASE i = n + 1
      BY <1>1, <1>7, <2>3, <3>1, <3>2
    <3>3. CASE i \in 1..n
      <4>1. n + 1 \in 1..(n + 1) /\ i < n + 1
        BY <1>1, <3>3
      <4>2. IndexOf(i) <= w /\ w - IndexOf(i) <= (n + 1) - i /\ (IsOrdered(i) => IndexOf(i) < w)
        BY <1>7, <1>8, <2>1, <4>1
      <4>3. QED
        BY <1>1, <1>6, <2>3, <3>1, <3>3, <4>2
    <3>4. QED
      BY <1>1, <2>1, <3>2, <3>3
  <2>4. QED
    BY <2>1, <2>2, <2>3
<1>11. IndexOf(1)' = OldMessages
  BY <1>1, <1>9 DEF Numbered
<1>12. ASSUME NEW o \in OldMessages..(w' - 1)
       PROVE  \E i \in Messages' : IsOrdered(i)' /\ IndexOf(i)' = o
  <2>1. o \in OldMessages..(w - 1) \/ (ordered /\ o = w)
    BY <1>1, <1>2, <1>3
  <2>2. CASE o \in OldMessages..(w - 1)
    BY <1>5, <1>6, <2>2 DEF Numbered
  <2>3. CASE ordered /\ o = w
    BY <1>5, <1>7, <2>3
  <2>4. QED
    BY <2>1, <2>2, <2>3
<1>13. Numbered'
  <2>1. Len(pushed') + 1 = n + 2 /\ Len(pushed') <= MaxMessages
    BY <1>1, <1>4
  <2>2. QED
    BY <1>10, <1>11, <1>12, <2>1 DEF Numbered
<1>14. \A i \in 1..n : Entry(i)' = Entry(i)
  BY <1>4 DEF Entry, OrderingIndex, Messages
<1>15. UNCHANGED <<orderVars, sent, taken, dead>>
  BY DEF Send, receiveVars
<1>16. QED
  BY <1>0, <1>2, <1>4, <1>5, <1>6, <1>7, <1>13, <1>14, <1>15

LEMMA SendKeepsOrder ==
  ASSUME LinkInv, OrderInv, Send
  PROVE  OrderInv'
<1>1. ReliabilityTypeOK /\ Numbered /\ TurnsTaken
  BY DEF LinkInv, OrderInv
<1>2. /\ Numbered' /\ UNCHANGED <<orderVars, sent>>
      /\ Messages' = Messages \cup {Len(pushed) + 1}
      /\ \A i \in Messages : /\ pushed'[i] = pushed[i]
                             /\ IsOrdered(i)' = IsOrdered(i) /\ IndexOf(i)' = IndexOf(i)
                             /\ Entry(i)' = Entry(i)
      /\ \A i : i = Len(pushed) + 1 => IndexOf(i)' = orderedWriteIndex
  BY <1>1, SendNumbers
<1>3. UNCHANGED <<received, orderedReadIndex, heap, heapOffset, output>>
  BY <1>2 DEF orderVars, channelEnd
<1>4. received \subseteq Messages
  BY <1>1, MessageFacts
<1>5. TurnsTaken'
  <2>1. orderedReadIndex <= orderedWriteIndex' /\ OldMessages <= orderedReadIndex
    <3>1. orderedWriteIndex \in Nat /\ orderedWriteIndex' \in {orderedWriteIndex, orderedWriteIndex + 1}
      BY <1>1, MessageFacts DEF Send
    <3>2. QED
      BY <1>1, <3>1, MessageFacts DEF TurnsTaken
  <2>2. ~(orderedWriteIndex < orderedReadIndex)
    BY <1>1, MessageFacts DEF TurnsTaken
  <2>3. QED
    BY <1>1, <1>2, <1>3, <2>1, <2>2 DEF TurnsTaken
<1>6. NextMissing'
  BY <1>2, <1>3, <1>4 DEF OrderInv, NextMissing
<1>7. HeapHolds'
  <2>1. Kept' = Kept
    BY <1>2, <1>3, <1>4 DEF Kept, TooEarly
  <2>2. \A i \in Kept : Entry(i)' = Entry(i)
    BY <1>2, <1>4 DEF Kept
  <2>3. {Entry(i)' : i \in Kept'} = {Entry(i) : i \in Kept}
    BY <2>1, <2>2
  <2>4. QED
    BY <1>3, <2>3 DEF OrderInv, HeapHolds
<1>8. OutputHolds'
  <2>1. {i \in received' : InTurn(i)'} = {i \in received : InTurn(i)}
    BY <1>2, <1>3, <1>4 DEF InTurn
  <2>2. QED
    BY <1>3, <2>1 DEF OrderInv, OutputHolds
<1>9. OffsetKnown'
  BY <1>3 DEF OrderInv, OffsetKnown
<1>10. OnceInOrder'
  <2>1. \A k \in DOMAIN output : output[k] \in Messages
    BY <1>4 DEF OrderInv, OutputHolds
  <2>2. ASSUME NEW k \in DOMAIN output, NEW j \in 1..(output[k] - 1) PROVE j \in Messages
    BY <1>1, <2>1, MessageFacts DEF Messages
  <2>3. QED
    BY <1>2, <1>3, <2>1, <2>2 DEF OrderInv, OnceInOrder
<1>11. QED
  BY <1>2, <1>5, <1>6, <1>7, <1>8, <1>9, <1>10 DEF OrderInv

\* A step that leaves the receiver's order and the numbers as they are.
LEMMA AsideKeepsOrder ==
  ASSUME OrderInv, UNCHANGED <<pushed, orderedWriteIndex, orderVars>>
  PROVE  OrderInv'
<1>1. UNCHANGED <<received, orderedReadIndex, heap, heapOffset, output>>
  BY DEF orderVars, channelEnd
<1>2. /\ \A i : IndexOf(i)' = IndexOf(i) /\ Entry(i)' = Entry(i) /\ IsOrdered(i)' = IsOrdered(i)
      /\ Messages' = Messages /\ Numbered'
  BY NumberedKept DEF OrderInv, Messages
<1>3. TurnsTaken' /\ NextMissing' /\ OffsetKnown'
  BY <1>1, <1>2 DEF OrderInv, TurnsTaken, NextMissing, OffsetKnown
<1>4. Kept' = Kept /\ {i \in received' : InTurn(i)'} = {i \in received : InTurn(i)}
  BY <1>1, <1>2 DEF Kept, TooEarly, InTurn
<1>5. HeapHolds' /\ OutputHolds'
  BY <1>1, <1>2, <1>4 DEF OrderInv, HeapHolds, OutputHolds
<1>6. OnceInOrder'
  BY <1>1 DEF OrderInv, OnceInOrder
<1>7. QED
  BY <1>2, <1>3, <1>5, <1>6 DEF OrderInv

LEMMA InitOrder ==
  ASSUME ReliabilityInit
  PROVE  OrderInv
<1>1. /\ pushed = << >> /\ Len(pushed) = 0 /\ Messages = {} /\ received = {} /\ heap = {}
      /\ output = << >> /\ DOMAIN output = {} /\ orderedWriteIndex = OldMessages
      /\ orderedReadIndex = OldMessages
  BY DEF ReliabilityInit, Messages
<1>2. OldMessages \in Nat /\ MaxMessages \in Nat
  BY ReliabilityAssumption
<1>3. Numbered
  BY <1>1, <1>2 DEF Numbered, IndexOf
<1>4. TurnsTaken /\ NextMissing /\ OffsetKnown /\ OnceInOrder
  BY <1>1, <1>2 DEF TurnsTaken, NextMissing, OffsetKnown, OnceInOrder
<1>5. HeapHolds /\ OutputHolds
  BY <1>1 DEF HeapHolds, Kept, OutputHolds
<1>6. QED
  BY <1>3, <1>4, <1>5 DEF OrderInv

LEMMA StepKeepsOrder ==
  ASSUME LinkInv, OrderInv, FewMessages, [ReliabilityNext]_reliabilityVars
  PROVE  OrderInv'
<1>1. CASE Send
  BY <1>1, SendKeepsOrder
<1>2. CASE UNCHANGED reliabilityVars
  BY <1>2, AsideKeepsOrder DEF reliabilityVars, sendVars, receiveVars
<1>3. CASE Transmit \/ AckTimeout \/ SendACKs \/ Receive
  BY <1>3, AsideKeepsOrder
     DEF Transmit, Emit, AckTimeout, SendACKs, Receive, sendVars, receiveVars
<1>4. CASE \E S \in SUBSET resendBuffer : Resend(S)
  BY <1>4, AsideKeepsOrder DEF Resend, Emit, receiveVars
<1>5. CASE \E ranges \in ackWire : HandleAck(ranges)
  BY <1>5, AsideKeepsOrder DEF HandleAck, receiveVars
<1>6. CASE \E d \in wire : HandleDatagram(d)
  BY <1>6, AsideKeepsOrder DEF HandleDatagram, sendVars
<1>7. ASSUME NEW i \in parsing, ParseMessage(i) PROVE OrderInv'
  <2>1. CASE Ignore(i)
    BY <1>7, <2>1, AsideKeepsOrder DEF ParseMessage, Ignore, sendVars
  <2>2. CASE Unordered(i)
    BY <1>7, <2>2, UnorderedKeeps
  <2>3. CASE Ordered(i)
    BY <1>7, <2>3, EarlyKeeps, InOrderKeeps DEF Ordered
  <2>4. QED
    BY <1>7, <2>1, <2>2, <2>3 DEF ParseMessage
<1>8. QED
  BY <1>1, <1>2, <1>3, <1>4, <1>5, <1>6, <1>7 DEF ReliabilityNext, BetweenDatagrams

-----------------------------------------------------------------------------
(* What the program that receives gets.                                    *)

\* Every message is received, comes out or waits where it should, for any
\* loss, delay and repetition of datagrams.
THEOREM OrderCorrect ==
  ASSUME FewMessages
  PROVE  ReliabilitySpec => []OrderInv
<1>1. ReliabilityInit => OrderInv
  BY InitOrder
<1>2. LinkInv /\ OrderInv /\ [ReliabilityNext]_reliabilityVars => OrderInv'
  BY StepKeepsOrder
<1>3. QED
  BY <1>1, <1>2, LinkCorrect, PTL DEF ReliabilitySpec

\* No message comes out twice, and an ordered one only behind all ordered
\* ones sent before it.  (HandleSocketReceiveFromConnectedPlayer.)
THEOREM OutInOrder ==
  ASSUME FewMessages
  PROVE  ReliabilitySpec => []OnceInOrder
<1>1. OrderInv => OnceInOrder
  BY DEF OrderInv
<1>2. QED
  BY <1>1, OrderCorrect, PTL

\* The message whose turn it is never stays in the heap: the loop, which looks
\* at the top alone, misses none.  (HandleSocketReceiveFromConnectedPlayer.)
THEOREM HeapHoldsNoneUp ==
  ASSUME FewMessages
  PROVE  ReliabilitySpec => []NoneStuck
<1>1. ASSUME LinkInv, OrderInv PROVE NoneStuck
  <2> SUFFICES ASSUME NEW e \in Waiting(orderedReadIndex) PROVE FALSE
    BY DEF NoneStuck
  <2>1. PICK i \in Kept : e = Entry(i)
    BY <1>1 DEF Waiting, OrderInv, HeapHolds
  <2>2. /\ IndexOf(i) \in Nat /\ orderedReadIndex \in Nat /\ orderedReadIndex < IndexOf(i)
        /\ IndexOf(i) - orderedReadIndex < HalfRange
        /\ Wrap(IndexOf(i)) = Wrap(orderedReadIndex)
    BY <1>1, <2>1, KeptFacts DEF Waiting
  <2>3. HalfRange \in Nat /\ HalfRange < Modulus /\ Modulus \in Nat
    BY ModulusFacts
  <2>4. IndexOf(i) = orderedReadIndex
    BY <2>2, <2>3, WrapEqual
  <2>5. QED
    BY <2>2, <2>4
<1>2. QED
  BY <1>1, LinkCorrect, OrderCorrect, PTL

-----------------------------------------------------------------------------
(* The refinement of Channel.                                              *)

Mail == [i \in Messages |-> pushed[i].ordered]
Arrived == {output[k] : k \in 1..taken}

\* What was put into the output queue stays where it is.
LEMMA OutputGrows ==
  ASSUME ReliabilityTypeOK, NEW i \in parsing, ParseMessage(i)
  PROVE  \A k \in 1..Len(output) : output'[k] = output[k]
<1>1. Len(output) \in Nat /\ output \in Seq(1..sent) /\ i \in 1..sent
  BY TypeFacts DEF ReliabilityTypeOK
<1>2. CASE output' = output
  BY <1>2
<1>3. CASE output' = Append(output, i)
  <2> DEFINE T == 1..sent
  <2>1. output \in Seq(T) /\ i \in T
    BY <1>1
  <2> HIDE DEF T
  <2>2. QED
    BY <1>1, <1>3, <2>1, AppendProperties
<1>4. ASSUME NEW n \in Nat, NEW f, f = [k \in 1..(n + 1) |-> f[k]], output' = output \o f
      PROVE  \A k \in 1..Len(output) : output'[k] = output[k]
  <2> DEFINE T == (1..sent) \cup {f[k] : k \in 1..(n + 1)}
  <2>1. output \in Seq(T)
    <3>1. 1..sent \subseteq T
      OBVIOUS
    <3> HIDE DEF T
    <3>2. QED
      BY <1>1, <3>1, SeqMonotonic
  <2>2. f \in Seq(T)
    <3>1. \A k \in 1..(n + 1) : f[k] \in T
      OBVIOUS
    <3> HIDE DEF T
    <3>2. [k \in 1..(n + 1) |-> f[k]] \in Seq(T)
      BY <3>1, IsASeq
    <3>3. QED
      BY <1>4, <3>2
  <2> HIDE DEF T
  <2>3. /\ Len(f) \in Nat
        /\ \A k \in 1..(Len(output) + Len(f)) :
             (output \o f)[k] = IF k <= Len(output) THEN output[k] ELSE f[k - Len(output)]
    BY <2>1, <2>2, ConcatProperties, LenProperties
  <2>4. QED
    BY <1>1, <1>4, <2>3
<1>5. CASE InOrder(i, OrderingIndex(i))
  <2>1. PICK n \in 0..Cardinality(heap) :
          output' = output \o [k \in 1..(n + 1) |->
               IF k = 1 THEN i ELSE Pick(orderedReadIndex + k - 1).message]
    BY <1>5 DEF InOrder
  <2> DEFINE f == [k \in 1..(n + 1) |->
                    IF k = 1 THEN i ELSE Pick(orderedReadIndex + k - 1).message]
  <2>2. f = [k \in 1..(n + 1) |-> f[k]] /\ output' = output \o f
    BY <2>1
  <2> HIDE DEF f
  <2>3. n \in Nat
    OBVIOUS
  <2>4. QED
    BY <1>4, <2>2, <2>3
<1>6. QED
  BY <1>2, <1>3, <1>5
     DEF ParseMessage, Ignore, orderVars, channelEnd, Unordered, Ordered, Early

LEMMA SequenceGrows ==
  ASSUME NEW n \in Nat, NEW g, NEW h, NEW e,
         g = [i \in 1..n |-> g[i]], h = [i \in 1..(n + 1) |-> h[i]],
         \A i \in 1..n : h[i] = g[i], h[n + 1] = e
  PROVE  h = Append(g, e)
<1> DEFINE S == {g[i] : i \in 1..n} \cup {e}
<1>1. g \in [1..n -> S] /\ e \in S
  OBVIOUS
<1>2. g \in Seq(S) /\ Len(g) = n
  BY <1>1
<1>3. \A i \in 1..(n + 1) : i \in 1..n \/ i = n + 1
  OBVIOUS
<1>4. h \in [1..(n + 1) -> S]
  BY <1>3
<1>5. h \in Seq(S) /\ Len(h) = n + 1
  BY <1>4
<1> HIDE DEF S
<1>6. /\ Append(g, e) \in Seq(S) /\ Len(Append(g, e)) = n + 1
      /\ \A i \in 1..n : Append(g, e)[i] = g[i]
      /\ Append(g, e)[n + 1] = e
  BY <1>1, <1>2, AppendProperties
<1>7. \A i \in 1..(n + 1) : h[i] = Append(g, e)[i]
  BY <1>3, <1>6
<1>8. QED
  BY <1>5, <1>6, <1>7, SeqEqual

LEMMA SendPosts ==
  ASSUME LinkInv, OrderInv, Send
  PROVE  Promise!Post
<1>1. ReliabilityTypeOK /\ Numbered /\ TurnsTaken /\ ~dead
  BY DEF LinkInv, OrderInv, Send
<1>2. PICK n \in Nat : n = Len(pushed)
  BY <1>1, MessageFacts
<1>3. PICK ordered \in Kinds : pushed' = Append(pushed, [ordered |-> ordered,
                                                         index |-> orderedWriteIndex])
  BY <1>1, SendNumbers
<1>4. /\ UNCHANGED <<orderVars, taken, dead>>
      /\ Messages = 1..n /\ Messages' = 1..(n + 1)
      /\ \A i \in 1..n : pushed'[i] = pushed[i]
  <2>1. Messages = 1..n /\ Messages' = Messages \cup {n + 1}
    BY <1>1, <1>2, SendNumbers DEF Messages
  <2>2. QED
    BY <1>1, <2>1, SendNumbers
<1>5. pushed'[n + 1].ordered = ordered /\ ordered \in BOOLEAN
  <2> DEFINE e == [ordered |-> ordered, index |-> orderedWriteIndex]
             R == [ordered: BOOLEAN, index: Nat]
  <2>1. pushed \in Seq(R) /\ e \in R /\ pushed' = Append(pushed, e) /\ ordered \in BOOLEAN
    BY <1>1, <1>3, ReliabilityAssumption DEF ReliabilityTypeOK
  <2>2. e.ordered = ordered
    OBVIOUS
  <2> HIDE DEF e, R
  <2>3. pushed'[n + 1] = e
    BY <1>2, <2>1, AppendProperties
  <2>4. QED
    BY <2>1, <2>2, <2>3
<1>6. Mail' = Append(Mail, ordered)
  <2>1. Mail = [i \in 1..n |-> pushed[i].ordered]
    BY <1>4 DEF Mail
  <2>2. Mail' = [i \in 1..(n + 1) |-> pushed'[i].ordered]
    BY <1>4 DEF Mail
  <2>3. Mail = [i \in 1..n |-> Mail[i]] /\ Mail' = [i \in 1..(n + 1) |-> Mail'[i]]
    BY <2>1, <2>2
  <2>4. /\ \A i \in 1..n : Mail[i] = pushed[i].ordered
        /\ \A i \in 1..(n + 1) : Mail'[i] = pushed'[i].ordered
        /\ \A i \in 1..n : i \in 1..(n + 1)
        /\ n + 1 \in 1..(n + 1)
    BY <1>2, <2>1, <2>2
  <2>5. (\A i \in 1..n : Mail'[i] = Mail[i]) /\ Mail'[n + 1] = ordered
    BY <1>4, <1>5, <2>4
  <2>6. QED
    BY <1>2, <2>3, <2>5, SequenceGrows
<1>7. Arrived' = Arrived /\ dead' = dead
  BY <1>4 DEF Arrived, orderVars, channelEnd
<1>8. QED
  BY <1>1, <1>5, <1>6, <1>7 DEF Promise!Post, Mail, Arrived

LEMMA ReceiveArrives ==
  ASSUME LinkInv, OrderInv, Receive
  PROVE  \E i \in DOMAIN Mail : Promise!Arrive(i)
<1>1. ReliabilityTypeOK /\ OnceInOrder
  BY DEF LinkInv, OrderInv
<1>2. PICK k \in 1..Len(output) : k = taken + 1
  BY <1>1, TypeFacts DEF Receive, ReliabilityTypeOK
<1>0. PICK i : i = output[k]
  OBVIOUS
<1>3. /\ taken \in Nat /\ taken' = k /\ output' = output /\ pushed' = pushed /\ dead' = dead
      /\ DOMAIN output = 1..Len(output) /\ taken = k - 1 /\ Len(output) \in Nat
  BY <1>1, <1>2, TypeFacts
     DEF Receive, ReliabilityTypeOK, sendVars, orderVars, channelEnd
<1>4. i \in Messages
  BY <1>0, <1>1, <1>2, ElementOfSeq, MessageFacts DEF ReliabilityTypeOK
<1>5. i \notin Arrived
  <2>1. ASSUME NEW l \in 1..taken PROVE output[l] # i
    BY <1>0, <1>1, <1>2, <1>3 DEF OnceInOrder
  <2>2. QED
    BY <2>1 DEF Arrived
<1>6. ASSUME pushed[i].ordered, NEW j \in 1..(i - 1), pushed[j].ordered
      PROVE  j \in Arrived
  BY <1>0, <1>1, <1>2, <1>3, <1>6 DEF OnceInOrder, Arrived
<1>7. Arrived' = Arrived \cup {i}
  <2>1. \A l \in 1..k : l \in 1..taken \/ l = k
    BY <1>3
  <2>2. k \in 1..k /\ \A l \in 1..taken : l \in 1..k
    BY <1>2, <1>3
  <2>3. Arrived' = {output[l] : l \in 1..k}
    BY <1>3 DEF Arrived
  <2>4. QED
    BY <1>0, <2>1, <2>2, <2>3 DEF Arrived
<1>8. \A j \in Messages : Mail[j] = pushed[j].ordered
  BY DEF Mail
<1>9. \A j \in 1..(i - 1) : j \in Messages
  BY <1>1, <1>4, MessageFacts DEF Messages
<1>10. Mail' = Mail
  BY <1>3 DEF Mail, Messages
<1>11. Mail[i] => \A j \in 1..(i - 1) : Mail[j] => j \in Arrived
  BY <1>4, <1>6, <1>8, <1>9
<1>12. Promise!Arrive(i)
  BY <1>3, <1>5, <1>7, <1>10, <1>11 DEF Promise!Arrive, Mail, Arrived
<1>13. DOMAIN Mail = Messages
  BY DEF Mail
<1>14. QED
  BY <1>4, <1>12, <1>13

\* A step the program sees nothing of.
LEMMA UnseenStep ==
  ASSUME ReliabilityTypeOK, UNCHANGED <<pushed, dead, taken>>,
         \A k \in 1..Len(output) : output'[k] = output[k]
  PROVE  UNCHANGED Promise!channelVars
<1>1. \A k \in 1..taken : k \in 1..Len(output)
  BY TypeFacts DEF ReliabilityTypeOK
<1>2. Arrived' = Arrived
  BY <1>1 DEF Arrived
<1>3. Mail' = Mail
  BY DEF Mail, Messages
<1>4. QED
  BY <1>2, <1>3 DEF Promise!channelVars, Mail, Arrived

LEMMA StepPromised ==
  ASSUME LinkInv, OrderInv, [ReliabilityNext]_reliabilityVars
  PROVE  [Promise!ChannelNext]_(Promise!channelVars)
<1>1. CASE Send
  BY <1>1, SendPosts DEF Promise!ChannelNext
<1>2. CASE Receive
  BY <1>2, ReceiveArrives DEF Promise!ChannelNext, Mail
<1>3. CASE AckTimeout
  <2>1. Promise!Break
    BY <1>3 DEF Promise!Break, AckTimeout, receiveVars, orderVars, channelEnd, Messages
  <2>2. QED
    BY <2>1 DEF Promise!ChannelNext
<1>4. ASSUME NEW i \in parsing, ParseMessage(i) PROVE UNCHANGED Promise!channelVars
  BY <1>4, OutputGrows, UnseenStep DEF ParseMessage, sendVars, LinkInv
<1>5. CASE UNCHANGED <<pushed, dead, taken, orderVars>>
  BY <1>5, UnseenStep DEF orderVars, channelEnd, LinkInv
<1>6. CASE UNCHANGED reliabilityVars
  BY <1>5, <1>6 DEF reliabilityVars, sendVars, receiveVars
<1>7. CASE Transmit \/ SendACKs
  BY <1>5, <1>7 DEF Transmit, Emit, SendACKs, sendVars, receiveVars
<1>8. CASE \E S \in SUBSET resendBuffer : Resend(S)
  BY <1>5, <1>8 DEF Resend, Emit, receiveVars
<1>9. CASE \E ranges \in ackWire : HandleAck(ranges)
  BY <1>5, <1>9 DEF HandleAck, receiveVars
<1>10. CASE \E d \in wire : HandleDatagram(d)
  BY <1>5, <1>10 DEF HandleDatagram, sendVars
<1>11. QED
  BY <1>1, <1>2, <1>3, <1>4, <1>6, <1>7, <1>8, <1>9, <1>10
     DEF ReliabilityNext, BetweenDatagrams

\* What the receiving program takes out is what Channel promises: while the
\* connection is open each message once, the ordered ones in their order.
\* (ReliabilityLayer::Send, Receive, Update.)
THEOREM ChannelKept ==
  ASSUME FewMessages
  PROVE  ReliabilitySpec => ImplementsChannel
<1>1. ReliabilityInit => Promise!ChannelInit
  <2> SUFFICES ASSUME ReliabilityInit PROVE Promise!ChannelInit
    OBVIOUS
  <2>1. Messages = {} /\ taken = 0 /\ dead = FALSE
    BY DEF ReliabilityInit, Messages
  <2>2. Arrived = {}
    BY <2>1 DEF Arrived
  <2>3. Mail = << >>
    BY <2>1 DEF Mail
  <2>4. QED
    BY <2>1, <2>2, <2>3 DEF Promise!ChannelInit, Mail, Arrived
<1>2. LinkInv /\ OrderInv /\ [ReliabilityNext]_reliabilityVars
        => [Promise!ChannelNext]_(Promise!channelVars)
  BY StepPromised
<1>3. QED
  BY <1>1, <1>2, LinkCorrect, OrderCorrect, PTL
     DEF ReliabilitySpec, ImplementsChannel, Promise!ChannelSpec
=============================================================================
