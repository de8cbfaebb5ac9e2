SPECIFICATION Spec
CONSTANTS
  a1 = a1
  a2 = a2
  b1 = b1
  b2 = b2
  hero = hero
  nobody = nobody
  none = none
  Parts = {"names", "advance", "spectators", "monster", "decay", "spawn", "casting", "registry", "stacks", "transaction", "wounds", "belongings", "tilestack", "conditions", "npc", "character"}
SYMMETRY WorldSymmetry
INVARIANTS TypeOK SearchesAgree NothingLost ReferencesHeld NothingFallsAsleep RulesKept ClientsAgree
CHECK_DEADLOCK FALSE
