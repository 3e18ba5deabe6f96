\* Two clients, two games, hands of three cards with and without aces.
SPECIFICATION Spec
CONSTANTS
  a = a
  b = b
  c = c
  NoName = NoName
  Clients = {a, b}
  NameOf <- OwnName
  MAX_PLAYERS = 8
  Ranks = {10, 11}
  startingScore = 200
  betScore = 10
  UserKeys = {"h", "s"}
  Leavers = {}
  MaxCards = 3
  MaxRestarts = 1
  MaxConsole = 1
SYMMETRY Interchangeable
INVARIANTS
  TypeOK
  Ledger
  RestartReadsAnswer
PROPERTIES
  AllReadyAtStart
  ImplementsTable
CHECK_DEADLOCK FALSE
