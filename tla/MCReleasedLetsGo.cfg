SPECIFICATION Spec
CONSTANTS
  Conn = {a, b}
  NoConn = noConn
  Player = {p1, p2}
  NoPlayer = noPlayer
  MaxQueue = 1
  MaxChains = 2
  MaxLogouts = 1
SYMMETRY Symmetry
PROPERTY ReleasedLetsGo
CHECK_DEADLOCK FALSE
