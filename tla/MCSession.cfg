SPECIFICATION Spec
CONSTANTS
  Conn = {a, b}
  NoConn = noConn
  Player = {p1, p2}
  NoPlayer = noPlayer
  MaxQueue = 1
  MaxChains = 2
  MaxLogouts = 1
SYMMETRY Symmetry
INVARIANTS TypeOK PlayerAliveWhileParsed ClientPaired ReferencesCounted OutputIsSent
CHECK_DEADLOCK FALSE
