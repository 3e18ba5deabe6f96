---------------------------- MODULE Reliability -----------------------------
(***************************************************************************)
(* RakNet's ReliabilityLayer: one direction of a connection, from the      *)
(* program that sends to the one that receives, over a network that loses, *)
(* delays, reorders and duplicates datagrams and their acknowledgements.   *)
(*                                                                         *)
(* Messages are named by their place in the order of sending; what goes    *)
(* over the network, and what the code computes with, are their numbers,   *)
(* which wrap.  Time is abstracted: a message that is not acknowledged may *)
(* be sent again at any moment.  A NAK does no more than bring that moment *)
(* forward, so NAKs are left out; so are the size of datagrams beyond the  *)
(* number of messages they hold, split packets (nothing here is as long as *)
(* an MTU), sequenced and unreliable messages and receipts, which the game *)
(* does not use.                                                           *)
(***************************************************************************)
EXTENDS OrderingChannel

CONSTANTS
  RESEND_BUFFER_ARRAY_LENGTH,
  DATAGRAM_MESSAGE_ID_ARRAY_LENGTH,
  HoleLimit,     \* 1000000: a message further ahead than this is dropped
  SkipLimit,     \* 50000: a datagram further ahead than this is ignored
  PerDatagram,   \* messages that fit into a datagram
  Kinds,         \* whether a message may be ordered, may be not
  OldMessages,   \* messages exchanged and acknowledged before
  OldDatagrams,  \* datagrams it took
  MaxMessages,   \* bound: messages the program sends
  MaxDatagrams,  \* bound: datagrams sent; no bound from Modulus on
  MaxRanges,     \* bound: ranges in the list to be acknowledged
  MaxAcks        \* bound: acknowledgement lists in the network at a time

ASSUME ReliabilityAssumption ==
  /\ RESEND_BUFFER_ARRAY_LENGTH \in 1..HalfRange
  /\ Modulus % RESEND_BUFFER_ARRAY_LENGTH = 0
  /\ DATAGRAM_MESSAGE_ID_ARRAY_LENGTH \in Nat
  /\ PerDatagram \in 1..RESEND_BUFFER_ARRAY_LENGTH
  /\ RESEND_BUFFER_ARRAY_LENGTH + PerDatagram * (DATAGRAM_MESSAGE_ID_ARRAY_LENGTH + 1) < Modulus
  /\ HoleLimit \in Nat /\ HoleLimit >= RESEND_BUFFER_ARRAY_LENGTH
  /\ SkipLimit \in Nat
  /\ Kinds \subseteq BOOLEAN
  /\ OldMessages \in Nat /\ OldDatagrams \in Nat
  /\ {MaxMessages, MaxDatagrams, MaxRanges, MaxAcks} \subseteq Nat

VARIABLES
  \* the sending side
  pushed,            \* messages handed to Send; those after sent are in
                     \* outgoingPacketBuffer
  orderedWriteIndex,
  sent,              \* messages that have been given a number
  resendBuffer,      \* messages not acknowledged yet
  nextDatagram,      \* nextDatagramSequenceNumber
  history,           \* datagramHistory: the messages of each datagram
  popCount,          \* datagramHistoryPopCount
  dead,              \* deadConnection
  \* the receiving side
  expected,          \* expectedNextSequenceNumber
  acks,              \* acknowlegements
  parsing,           \* messages of the datagram in hand, not parsed yet
  base,              \* receivedPacketsBaseIndex, as a message
  received,          \* every message accepted; those after base are what
                     \* hasReceivedPacketQueue says
  taken,             \* how many of the messages in output the program has
                     \* taken out
  \* the network
  wire,              \* datagrams the network may deliver: never, once, or
                     \* more often
  ackWire            \* acknowledgement lists on their way back, the same

sendVars == <<pushed, orderedWriteIndex, sent, resendBuffer, nextDatagram,
              history, popCount, dead>>
orderVars == <<base, received, channelEnd>>
receiveVars == <<expected, acks, parsing, orderVars, taken>>
reliabilityVars == <<sendVars, receiveVars, wire, ackWire>>

\* reliableMessageNumber and orderingIndex of a message, as they are sent.
Number(i)        == Wrap(OldMessages + i - 1)
OrderingIndex(i) == Wrap(pushed[i].index)
Slot(i)          == Number(i) % RESEND_BUFFER_ARRAY_LENGTH

IdleNodes == IF OldDatagrams > DATAGRAM_MESSAGE_ID_ARRAY_LENGTH
             THEN DATAGRAM_MESSAGE_ID_ARRAY_LENGTH + 1 ELSE OldDatagrams

\* A connection over which messages may have gone before, all acknowledged;
\* with no old datagrams a new one.
ReliabilityInit ==
  /\ pushed = << >> /\ orderedWriteIndex = OldMessages /\ sent = 0
  /\ resendBuffer = {}
  /\ nextDatagram = Wrap(OldDatagrams)
  /\ history = [k \in 1..IdleNodes |-> {}]
  /\ popCount = Wrap(OldDatagrams - IdleNodes)
  /\ dead = FALSE
  /\ expected = Wrap(OldDatagrams) /\ acks = << >> /\ parsing = {}
  /\ base = 1 /\ received = {}
  /\ orderedReadIndex = OldMessages /\ heap = {} /\ heapOffset = 0
  /\ output = << >> /\ taken = 0
  /\ wire = {} /\ ackWire = {}

-----------------------------------------------------------------------------
(* The sending side                                                        *)

\* ReliabilityLayer::Send.  Messages of one priority leave the outgoing buffer
\* in the order in which they entered it, and the game uses one priority.
Send ==
  /\ ~dead
  /\ Len(pushed) < MaxMessages
  /\ \E ordered \in Kinds :
       /\ pushed' = Append(pushed, [ordered |-> ordered, index |-> orderedWriteIndex])
       /\ orderedWriteIndex' = orderedWriteIndex + IF ordered THEN 1 ELSE 0
  /\ UNCHANGED <<sent, resendBuffer, nextDatagram, history, popCount, dead,
                 receiveVars, wire, ackWire>>

\* AddFirstToDatagramHistory: the oldest entry goes when there are too many.
HistoryFull == Len(history) > DATAGRAM_MESSAGE_ID_ARRAY_LENGTH
Recorded(S) == Append(IF HistoryFull THEN Tail(history) ELSE history, S)
SamePopCount == popCount \* mutant: not counted
NextPopCount == IF HistoryFull THEN Wrap(popCount + 1) ELSE popCount

\* A datagram with the messages S leaves.  What the network still holds does
\* not outlive its number: no datagram or acknowledgement is delivered once
\* its number is used again, or half of the message numbers have been used
\* since; the receiver acknowledges sooner than that.
Fresh(i, newest) == i > newest - HalfRange

Emit(S, newest) ==
  /\ Wrap(nextDatagram - OldDatagrams) < MaxDatagrams
  /\ nextDatagram \notin Members(acks)
  /\ nextDatagram' = Wrap(nextDatagram + 1)
  /\ history' = Recorded(S)
  /\ popCount' = NextPopCount
  /\ wire' = {d \in wire : /\ d.number # nextDatagram
                          /\ \A i \in d.messages : Fresh(i, newest)}
               \cup {[number |-> nextDatagram, messages |-> S]}
  /\ ackWire' = {ranges \in ackWire : nextDatagram \notin Members(ranges)}
  /\ UNCHANGED <<pushed, orderedWriteIndex, dead, receiveVars>>

\* ResendBufferOverflow, asked before each message that gets a number.
AnySlot(i, others) == TRUE \* mutant: no check
SlotFree(i, others) == \A j \in others \ {i} : Slot(j) # Slot(i)

\* Update: messages get their numbers and leave.
Transmit ==
  /\ ~dead
  /\ \E k \in 1..PerDatagram :
       LET S == (sent + 1)..(sent + k)
       IN  /\ sent + k <= Len(pushed)
           /\ \A i \in S : SlotFree(i, resendBuffer \cup S)
           /\ sent' = sent + k
           /\ resendBuffer' = resendBuffer \cup S
           /\ Emit(S, sent + k)

\* Update: messages whose time has come are sent again, in a datagram of
\* their own.
Resend(S) ==
  /\ ~dead
  /\ S # {} /\ Cardinality(S) <= PerDatagram
  /\ Emit(S, sent)
  /\ UNCHANGED <<sent, resendBuffer>>

\* CCRakNetSlidingWindow::LessThan and GreaterThan.
LessThan(x, y)    == x # y /\ Wrap(y - x) < HalfRange
GreaterThan(x, y) == x # y /\ Wrap(y - x) > HalfRange

\* GetMessageNumberNodeByDatagramIndex.
Offset(number) == Wrap(number - popCount)
Known(number)  == ~LessThan(number, popCount) /\ Offset(number) < Len(history)
Carried(number) == IF Known(number) THEN history[Offset(number) + 1] ELSE {}

\* The numbers an acknowledgement list stands for, as far as it is read: a
\* range that ends with the last number ends the reading.
AckedBy(ranges) ==
  {x \in DatagramNumber :
     \E k \in DOMAIN ranges :
       /\ ranges[k].min <= x /\ x <= ranges[k].max
       /\ \A j \in 1..k : ranges[j].max # Modulus - 1}

\* RemovePacketFromResendList: what the slot of i holds is removed if it has
\* the number of i.
InSlotOf(i) == {j \in resendBuffer : Slot(j) = Slot(i)} \* mutant: any number
RemovedBy(i) == {j \in resendBuffer : Slot(j) = Slot(i) /\ Number(j) = Number(i)}

HandleAck(ranges) ==
  /\ ~dead
  /\ LET acked == AckedBy(ranges)
     IN  /\ resendBuffer' = {j \in resendBuffer :
              \A x \in acked : \A i \in Carried(x) : j \notin RemovedBy(i)}
         /\ history' = [k \in DOMAIN history |->
              IF \E x \in acked : Known(x) /\ k = Offset(x) + 1
              THEN {} ELSE history[k]]
  /\ UNCHANGED <<pushed, orderedWriteIndex, sent, nextDatagram, popCount, dead,
                 receiveVars, wire, ackWire>>

\* Update: nothing has come for too long although something was sent.
AckTimeout ==
  /\ ~dead
  /\ resendBuffer # {}
  /\ dead' = TRUE
  /\ UNCHANGED <<pushed, orderedWriteIndex, sent, resendBuffer, nextDatagram,
                 history, popCount, receiveVars, wire, ackWire>>

-----------------------------------------------------------------------------
(* The receiving side                                                      *)

\* OnGotPacket.
Skipped(number) == IF GreaterThan(number, expected) THEN Wrap(number - expected) ELSE 0

\* HandleSocketReceiveFromConnectedPlayer, up to its loop over the messages
\* of the datagram; the network may deliver the same datagram again.  The
\* loop touches nothing that the sending side or the network reads: until it
\* is over no other step is taken.
HandleDatagram(d) ==
  /\ Len(acks) < MaxRanges
  /\ IF Skipped(d.number) > SkipLimit
     THEN UNCHANGED <<expected, acks, parsing>>
     ELSE /\ expected' = IF d.number = expected \/ GreaterThan(d.number, expected)
                         THEN Wrap(d.number + 1) ELSE expected
          /\ acks' = InsertRange(acks, d.number)
          /\ parsing' = d.messages
  /\ UNCHANGED <<sendVars, orderVars, taken, wire, ackWire>>

\* Update, SendACKs.  What was lost of the lists before shows now.
SendACKs ==
  /\ acks # << >>
  /\ \E kept \in SUBSET ackWire :
       /\ Cardinality(kept) < MaxAcks
       /\ ackWire' = kept \cup {acks}
  /\ acks' = << >>
  /\ UNCHANGED <<sendVars, expected, parsing, orderVars, taken, wire>>

\* The holes between the message expected first and this one, by the
\* numbers.
WideHoleCount(i) == Number(i) - Number(base) \* mutant: 32 bits
HoleCount(i) == Wrap(Number(i) - Number(base))
TooOld(i)    == HoleCount(i) > HalfRange
NotTooOld(i) == ~TooOld(i) \* mutant: hasReceivedPacketQueue is not asked
Accepts(i)   == /\ ~TooOld(i)
                /\ base + HoleCount(i) \notin received
                /\ HoleCount(i) <= HoleLimit

\* One round of the loop over the messages of a datagram: message i.
Ignore(i) ==
  /\ ~Accepts(i)
  /\ UNCHANGED orderVars

MarkReceived(i) ==
  /\ received' = received \cup {base + HoleCount(i)}
  /\ \E b \in base..(Len(pushed) + 1) :
       /\ base' = b
       /\ b \notin received'
       /\ \A x \in base..(b - 1) : x \in received'

Unordered(i) ==
  /\ Accepts(i)
  /\ MarkReceived(i)
  /\ ~pushed[i].ordered
  /\ output' = Append(output, i)
  /\ UNCHANGED <<orderedReadIndex, heap, heapOffset>>

Ordered(i) ==
  /\ Accepts(i)
  /\ MarkReceived(i)
  /\ pushed[i].ordered
  /\ InOrder(i, OrderingIndex(i)) \/ Early(i, OrderingIndex(i))

ParseMessage(i) ==
  /\ parsing' = parsing \ {i}
  /\ Ignore(i) \/ Unordered(i) \/ Ordered(i)
  /\ UNCHANGED <<sendVars, expected, acks, taken, wire, ackWire>>

\* ReliabilityLayer::Receive.
Receive ==
  /\ taken < Len(output)
  /\ taken' = taken + 1
  /\ UNCHANGED <<sendVars, expected, acks, parsing, orderVars, wire, ackWire>>

BetweenDatagrams ==
  /\ parsing = {}
  /\ \/ Send \/ Transmit \/ AckTimeout \/ SendACKs \/ Receive
     \/ \E S \in SUBSET resendBuffer : Resend(S)
     \/ \E ranges \in ackWire : HandleAck(ranges)
     \/ \E d \in wire : HandleDatagram(d)

ReliabilityNext == BetweenDatagrams \/ \E i \in parsing : ParseMessage(i)

ReliabilitySpec == ReliabilityInit /\ [][ReliabilityNext]_reliabilityVars

\* What is tried again and again succeeds now and then: the sender sends what
\* is not acknowledged, the network delivers, the receiver acknowledges while
\* the sender still knows the datagram, and the acknowledgement gets back.
Useful(x, i) == i \in Carried(x) /\ x # Modulus - 1

Resent(i) == \E S \in SUBSET resendBuffer : i \in S /\ Resend(S)
Delivered(i) ==
  \E d \in wire : i \in d.messages /\ Useful(d.number, i) /\ HandleDatagram(d)
Acknowledged(i) == SendACKs /\ \E x \in AckedBy(acks) : Useful(x, i)
AckArrives(i) ==
  \E ranges \in ackWire : /\ \E x \in AckedBy(ranges) : Useful(x, i)
                          /\ HandleAck(ranges)

Idle == parsing = {}

DeliveryFairness ==
  /\ WF_reliabilityVars(\E i \in parsing : ParseMessage(i))
  /\ SF_reliabilityVars(Idle /\ resendBuffer = {} /\ Transmit)
  /\ SF_reliabilityVars(Idle /\ Receive)
  /\ SF_reliabilityVars(Idle /\ SendACKs)
  /\ \A i \in 1..MaxMessages : /\ SF_reliabilityVars(Idle /\ Resent(i))
                               /\ SF_reliabilityVars(Idle /\ Delivered(i))
                               /\ SF_reliabilityVars(Idle /\ Acknowledged(i))
                               /\ SF_reliabilityVars(Idle /\ AckArrives(i))

FairReliability == ReliabilitySpec /\ DeliveryFairness

-----------------------------------------------------------------------------
(* Properties                                                              *)

Messages == 1..Len(pushed)

\* Type correctness.
ReliabilityTypeOK ==
  /\ pushed \in Seq([ordered: BOOLEAN, index: Nat])
  /\ orderedWriteIndex \in Nat
  /\ sent \in 0..Len(pushed)
  /\ resendBuffer \subseteq 1..sent
  /\ nextDatagram \in DatagramNumber /\ popCount \in DatagramNumber
  /\ history \in Seq(SUBSET (1..sent))
  /\ dead \in BOOLEAN
  /\ expected \in DatagramNumber
  /\ acks \in Seq(RangeNode)
  /\ parsing \subseteq 1..sent
  /\ base \in 1..(sent + 1)
  /\ received \subseteq 1..sent
  /\ heap \subseteq [index: DatagramNumber, message: received]
  /\ heapOffset \in DatagramNumber
  /\ orderedReadIndex \in Nat
  /\ output \in Seq(1..sent) /\ taken \in 0..Len(output)
  /\ wire \subseteq [number: DatagramNumber, messages: SUBSET (1..sent)]
  /\ ackWire \subseteq Seq(RangeNode)

\* A message leaves the resend buffer only when the receiver has it: an
\* acknowledgement that came late, for a datagram whose number, history entry
\* or slot now belongs to others, removes nothing else.
\* (HandleSocketReceiveFromConnectedPlayer, RemovePacketFromResendList.)
NoLoss == (1..sent) \ resendBuffer \subseteq received

\* The assertion where a message gets its slot (ReliabilityLayer.cpp:2078):
\* no two messages of the resend buffer share one.
OneToASlot == \A i, j \in resendBuffer : Slot(i) = Slot(j) => i = j

\* The assertion that is commented out in AddFirstToDatagramHistory
\* (ReliabilityLayer.cpp:3814): the queue of datagrams ends just before the
\* next number, so that an offset into it finds the right one.
HistoryAligned == Wrap(popCount + Len(history)) = nextDatagram

\* From the wrapped numbers the receiver tells new from old without fail: it
\* takes a message for received exactly when it has it, and files it where it
\* belongs.  (The hole count of HandleSocketReceiveFromConnectedPlayer.)
HoleCountExact ==
  \A i \in parsing : /\ Accepts(i) <=> i \notin received
                     /\ Accepts(i) => base + HoleCount(i) = i

\* No message comes out twice, and an ordered one never before those sent
\* ahead of it.
OnceInOrder ==
  /\ \A k, l \in DOMAIN output : output[k] = output[l] => k = l
  /\ \A k \in DOMAIN output : pushed[output[k]].ordered =>
       \A j \in 1..(output[k] - 1) : pushed[j].ordered =>
         \E l \in 1..(k - 1) : output[l] = j

\* What the receiving program takes is what Channel promises.
Promise == INSTANCE Channel WITH
             mail    <- [i \in Messages |-> pushed[i].ordered],
             arrived <- {output[k] : k \in 1..taken},
             open    <- ~dead

ImplementsChannel == Promise!ChannelSpec

\* Every message sent is taken by the receiving program in the end, unless
\* the connection is given up.
EventuallyTaken ==
  \A i \in 1..MaxMessages :
    (i \in Messages) ~> (dead \/ \E k \in 1..taken : output[k] = i)
=============================================================================
