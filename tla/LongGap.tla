------------------------------ MODULE LongGap -------------------------------
(***************************************************************************)
(* An ordering channel alone, under a stream of messages of which some are *)
(* always missing: any message may come that is less than Window after the *)
(* first one missing, which is what the sender's resend buffer allows.     *)
(***************************************************************************)
EXTENDS OrderingChannel

CONSTANTS
  Window,      \* RESEND_BUFFER_ARRAY_LENGTH
  MaxMessages  \* bound: messages of the stream

VARIABLE arrived  \* the messages that have come, counted from 0

LongGapInit ==
  /\ orderedReadIndex = 0 /\ heap = {} /\ heapOffset = 0 /\ output = << >>
  /\ arrived = {}

Come(i) ==
  /\ i \notin arrived
  /\ \A j \in 0..(i - Window) : j \in arrived
  /\ arrived' = arrived \cup {i}
  /\ InOrder(i, Wrap(i)) \/ Early(i, Wrap(i))

LongGapNext == \E i \in 0..(MaxMessages - 1) : Come(i)

LongGapSpec == LongGapInit /\ [][LongGapNext]_<<channelEnd, arrived>>
=============================================================================
