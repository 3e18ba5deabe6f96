\* A game starts that a player has not agreed to.
SPECIFICATION Spec
CONSTANTS
  a = a
  b = b
  c = c
  NoName = NoName
  Clients = {a, b, c}
  NameOf <- OwnName
  MAX_PLAYERS = 8
  Ranks = {10}
  startingScore = 200
  betScore = 10
  UserKeys = {"h", "s"}
  Leavers = {}
  MaxCards = 2
  MaxRestarts = 1
  MaxConsole = 1
SYMMETRY Interchangeable
PROPERTIES
  AllReadyAtStart
CHECK_DEADLOCK FALSE
