\* A showdown after which nobody is asked to play again.
SPECIFICATION Spec
CONSTANTS
  a = a
  b = b
  c = c
  NoName = NoName
  Clients = {a, b}
  NameOf <- OwnName
  MAX_PLAYERS = 8
  Ranks = {6, 10}
  startingScore = 200
  betScore = 10
  UserKeys = {"h", "s"}
  Leavers = {}
  MaxCards = 3
  MaxRestarts = 0
  MaxConsole = 1
SYMMETRY Interchangeable
PROPERTIES
  EveryoneAskedAgain
CHECK_DEADLOCK FALSE
