CONSTANTS
  Clients = {a, b}
  MaxPlayers = 3
  Peers = 3
  MaxJoins = 3
  MaxPower = 1
  a = a
  b = b
SPECIFICATION Spec
INVARIANTS TableSound ListsAgree PowerAgrees
PROPERTIES JoinSettles
