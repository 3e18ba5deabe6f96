\* Liveness of two players who play up to three games.
SPECIFICATION FairSpec
CONSTANTS
  a = a
  b = b
  c = c
  NoName = NoName
  Clients = {a, b}
  NameOf <- OwnName
  MAX_PLAYERS = 8
  Ranks = {10}
  startingScore = 200
  betScore = 10
  UserKeys = {"h", "s"}
  Leavers = {}
  MaxCards = 3
  MaxRestarts = 2
  MaxConsole = 1
PROPERTIES
  GameEnds
  ReadyStarts
  NewestGetsReady
CHECK_DEADLOCK FALSE
