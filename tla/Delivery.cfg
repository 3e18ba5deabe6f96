\* Two messages and the fairness of a network that does not lose everything;
\* datagrams without bound, in numbers that wrap again and again.
SPECIFICATION FairReliability
CONSTANTS
  Modulus = 4
  RESEND_BUFFER_ARRAY_LENGTH = 1
  DATAGRAM_MESSAGE_ID_ARRAY_LENGTH = 1
  HoleLimit = 1
  SkipLimit = 4
  PerDatagram = 1
  Kinds = {TRUE}
  OldMessages = 3
  OldDatagrams = 3
  MaxMessages = 2
  MaxDatagrams = 4
  MaxRanges = 1
  MaxAcks = 1
PROPERTIES
  EventuallyTaken
CHECK_DEADLOCK FALSE
