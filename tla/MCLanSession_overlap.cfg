CONSTANTS
  Clients = {a, b}
  MaxPlayers = 2
  Peers = 2
  MaxJoins = 4
  MaxPower = 0
  a = a
  b = b
SPECIFICATION Spec
INVARIANTS ClientsFit
