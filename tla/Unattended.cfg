\* The server waits for its operator while all players wait for the game.
SPECIFICATION UnattendedSpec
CONSTANTS
  a = a
  b = b
  c = c
  NoName = NoName
  Clients = {a, b}
  NameOf <- OwnName
  MAX_PLAYERS = 8
  Ranks = {10}
  startingScore = 200
  betScore = 10
  UserKeys = {"h", "s"}
  Leavers = {}
  MaxCards = 2
  MaxRestarts = 2
  MaxConsole = 1
PROPERTIES
  ReadyStarts
CHECK_DEADLOCK FALSE
