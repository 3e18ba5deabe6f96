\* Three clients, any of which may join while a game runs; two games.
SPECIFICATION TurnSpec
CONSTANTS
  a = a
  b = b
  c = c
  NoName = NoName
  Clients = {a, b, c}
  NameOf <- OwnName
  MAX_PLAYERS = 8
  Ranks = {10}
  startingScore = 200
  betScore = 10
  UserKeys = {"h", "s"}
  Leavers = {}
  MaxCards = 3
  MaxRestarts = 1
  MaxConsole = 1
SYMMETRY Interchangeable
INVARIANTS
  OnlyCurrentMoves
  OneMovePending
  TurnHeld
  EveryoneBetsOnce
  FinalHandsComplete
  TurnsGoRound
PROPERTIES
  ImplementsTable
CHECK_DEADLOCK FALSE
