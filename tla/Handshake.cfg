\* Two clients and one slot; each client asks up to twice.
SPECIFICATION HandshakeSpec
CONSTANTS
  Clients = {a, b}
  MAX_PLAYERS = 1
  Attempts = 1
INVARIANTS
  HandshakeTypeOK
  NobodyBanned
PROPERTIES
  ImplementsSessions
  EveryAttemptEnds
  SlotsComeFree
CHECK_DEADLOCK FALSE
