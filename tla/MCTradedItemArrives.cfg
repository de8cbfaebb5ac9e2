SPECIFICATION Spec
CONSTANTS
  Player = {a, b, c}
  Item = {backpack, bag, sword}
  Container = {backpack, bag}
  Capacity = 1
  Spot = {0, 2, 3}
  NoPlayer = noPlayer
  NoItem = noItem
SYMMETRY Symmetry
PROPERTIES TradedItemArrives
