\* Three messages in numbers that wrap, over a network that loses, reorders
\* and duplicates.
SPECIFICATION ReliabilitySpec
CONSTANTS
  Modulus = 8
  RESEND_BUFFER_ARRAY_LENGTH = 2
  DATAGRAM_MESSAGE_ID_ARRAY_LENGTH = 1
  HoleLimit = 7
  SkipLimit = 2
  PerDatagram = 2
  Kinds = {TRUE, FALSE}
  OldMessages = 6
  OldDatagrams = 8
  MaxMessages = 3
  MaxDatagrams = 3
  MaxRanges = 2
  MaxAcks = 1
INVARIANTS
  ReliabilityTypeOK
  NoLoss
  OneToASlot
  HistoryAligned
  HoleCountExact
  OnceInOrder
  NoneStuck
PROPERTIES
  ImplementsChannel
CHECK_DEADLOCK FALSE
