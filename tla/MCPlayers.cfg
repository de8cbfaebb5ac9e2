SPECIFICATION Spec
CONSTANTS
  Parts = {"party", "chat", "houses", "speed", "fight", "damage", "playeractions", "containers", "buddies", "scripts", "raids", "globalevents"}
  Many = {a1, a2, a3}
  Few = {b1, b2}
  nobody = nobody
  none = none
  ChatAbout = {"channels", "guilds"}
  ChatSlots = 2
  GuildIds = {"g", "h"}
  Recruits = {"g"}
  Homes = {home}
  Steeds = {1, 2}
  Hurries = {16}
  Delays = {32}
  BootSpeed = 4
  RingSpeed = 8
  SpeedTasks = 1
  SpeedAstray = 0
  FightHealth = 2
  FightKills = 1
  FightHits = 1
  FightDeaths = 1
  DamageAbout = {{"player"}, {"monster"}, {"player", "monster"}}
  DamageInDetail = {{"player"}}
  DamageHits <- TwoHits
  DamageReplies <- TwoReplies
  DamageHealth = 2
  DamageCaster = 3
  DamageMana = 1
  DamageDefense = 2
  DamageArmor = 1
  DamageCharges = 1
  DamageBlocks = 1
  DamageCredit = 3
  DamageScripts = 2
  DamageDeaths = 2
  LastTile = 2
  CommandIds = {1}
  MaxCommands = 1
  Ground = 3
  Windows = {1, 2}
  Friends = {1, 2, 3}
  Gods = {3}
  Secluded = {3}
  Patrons = {3}
  FreeFriends = 1
  PremiumFriends = 2
  ScriptLimit = 2
  ScriptOverflows = 1
  ScriptTimers = 2
  ScriptRefs = {b1, b2}
  ScriptResults = {1, 2}
  RaidNames = {"a", "b"}
  RaidRepeats = {"a"}
  RaidLength = 2
  RaidReloads = 1
  RaidTimers = 3
  Thinks = {"test", "batch"}
  Clocks = {"save"}
  Scripted = {"batch"}
  ThinkTimers = 2
SYMMETRY PlayersSymmetry
INVARIANTS TypeOK TiesAgree DamageCredited NothingHangs
PROPERTY NoStepTooFar
CHECK_DEADLOCK FALSE
