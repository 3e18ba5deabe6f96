\* Clients that leave at any moment; two slots for three clients.
SPECIFICATION FairSpec
CONSTANTS
  a = a
  b = b
  c = c
  NoName = NoName
  Clients = {a, b, c}
  NameOf <- OwnName
  MAX_PLAYERS = 2
  Ranks = {10}
  startingScore = 200
  betScore = 10
  UserKeys = {"h", "s"}
  Leavers = {a, b}
  MaxCards = 3
  MaxRestarts = 0
  MaxConsole = 1
PROPERTIES
  GameEndsOrIsLeft
  ImplementsTable
CHECK_DEADLOCK FALSE
