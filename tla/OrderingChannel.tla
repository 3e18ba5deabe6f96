-------------------------- MODULE OrderingChannel ---------------------------
(***************************************************************************)
(* The receiving end of an ordering channel: the part of                   *)
(* HandleSocketReceiveFromConnectedPlayer that hands an ordered message    *)
(* out at once when its turn has come, and keeps one that came early in a  *)
(* heap.  A heap entry is [index, message]; index is the orderingIndex the *)
(* message carries, a uint24_t.  orderedReadIndex counts on in the model   *)
(* and wraps where the code compares it.                                   *)
(***************************************************************************)
EXTENDS RangeList, FiniteSets

VARIABLES
  orderedReadIndex,
  heap,        \* orderingHeaps: ordered messages that came early
  heapOffset,  \* heapIndexOffsets: orderedReadIndex when the heap was empty
  output       \* every message ever put into outputQueue

channelEnd == <<orderedReadIndex, heap, heapOffset, output>>

HalfRange == (Modulus - 1) \div 2

IsOlderOrderedPacket(new, waiting) ==
  IF waiting > HalfRange
  THEN Wrap(waiting - HalfRange + 1) <= new /\ new < waiting
  ELSE Wrap(waiting - (HalfRange + 1)) <= new \/ new < waiting

\* orderedHoleCount, by which the heap is ordered: the first one is on top.
Weight(e) == Wrap(e.index - heapOffset)
Top(entries) == {e \in entries : \A f \in entries : Weight(e) <= Weight(f)}

Waiting(o) == {e \in heap : e.index = Wrap(o)}
Pick(o)    == CHOOSE e \in Waiting(o) : TRUE

\* What is left when the loop has taken k messages off the heap, and whether
\* it takes another one: it looks at the top alone.
Left(k)    == heap \ {Pick(orderedReadIndex + j) : j \in 1..k}
NoneDue(k) == {} \* mutant: the loop is left out
Due(k)     == {e \in Top(Left(k)) : e.index = Wrap(orderedReadIndex + k + 1)}

\* The message whose turn it is, and off the heap those that follow it.
InOrder(i, index) ==
  /\ index = Wrap(orderedReadIndex)
  /\ \E n \in 0..Cardinality(heap) :
       /\ \A k \in 0..(n - 1) : Due(k) # {}
       /\ Due(n) = {}
       /\ output' = output \o [k \in 1..(n + 1) |->
                       IF k = 1 THEN i ELSE Pick(orderedReadIndex + k - 1).message]
       /\ heap' = Left(n)
       /\ orderedReadIndex' = orderedReadIndex + n + 1
  /\ UNCHANGED heapOffset

\* mutant: an ordered message is not kept waiting
AtOnce(i, index) ==
  /\ index # Wrap(orderedReadIndex)
  /\ output' = Append(output, i)
  /\ UNCHANGED <<orderedReadIndex, heap, heapOffset>>

Early(i, index) ==
  /\ index # Wrap(orderedReadIndex)
  /\ IF IsOlderOrderedPacket(index, Wrap(orderedReadIndex))
     THEN UNCHANGED <<heap, heapOffset>>
     ELSE /\ heapOffset' = IF heap = {} THEN Wrap(orderedReadIndex) ELSE heapOffset
          /\ heap' = heap \cup {[index |-> index, message |-> i]}
  /\ UNCHANGED <<orderedReadIndex, output>>

-----------------------------------------------------------------------------
\* "will arrive in the order you sent it" (PacketPriority.h:58): a message
\* does not stay in the heap when all before it have come out.  The loop over
\* the heap looks for it at the top only.
NoneStuck == Waiting(orderedReadIndex) = {}
=============================================================================
