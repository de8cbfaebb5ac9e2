SPECIFICATION Spec
CONSTANTS
  Client = {a, b, c, gm}
  Privileged = {gm}
  MaxPlayers = 2
  MaxList = 3
  Garbage = garbage
SYMMETRY Symmetry
INVARIANTS TypeOK OneEntryPerClient
PROPERTIES LimitKept NoBarging
