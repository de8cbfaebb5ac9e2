-------------------------------- MODULE MCWorld --------------------------------
(* Small instances of the components that keep the world going and show it to *)
(* players, in one module: part is the component a behaviour is about, and never changes; s  *)
(* is the variable of that component.  A property that several components    *)
(* promise, each in its own way, is one property here.                       *)
EXTENDS Naturals, Sequences, FiniteSets, TLC

CONSTANTS Parts,            \* the components that are checked
          a1, a2, b1, b2,
          hero, nobody, none

VARIABLES part, s

vars == <<part, s>>

-----------------------------------------------------------------------------
(* Two places, players or npcs. *)
Two == {b1, b2}

(* Names that begin alike and branch at every place where a tree can branch.  *)
Names == INSTANCE Names WITH
  Name <- {<<1>>, <<1, 2>>, <<1, 2, 1>>, <<1, 2, 2, 2>>, <<1, 2, 2, 1, 1>>,
           <<2>>, <<2, 1, 1>>, <<2, 1, 2>>},
  Query <- {<<>>, <<1>>, <<2>>, <<1, 2>>, <<1, 1>>, <<1, 2, 2>>, <<2, 1>>, <<1, 2, 2, 2, 2>>}
(* Four levels, of which the last cannot be left upwards.                     *)
Advance == INSTANCE Advance WITH
  ExpFor <- <<0, 1, 3, 6, 6>>, MaxExp <- 8,
  Tries <- [l \in 2 .. 5 |-> <<0, 0, 2, 3, 3>>[l]], MinLevel <- 2,
  HPGain <- <<2, 3>>, Vocation <- {1, 2}, None <- 1, SafeLevel <- 2,
  Amount <- {1, 2, 4, 9}
(* A player and two monsters, at two places; the player is told first.        *)
Orders == {<<hero, a1, a2>>, <<hero, a2, a1>>}
Monster == INSTANCE Monster WITH
  Player <- {hero}, Mob <- {a1, a2}, Nobody <- nobody, Place <- Two,
  Despawn <- {"remove", "teleport"}, Orders <- Orders
(* Leaves of two by two tiles; two neighbours across a border, and two floors. *)
Spectators == INSTANCE Spectators WITH
  Creature <- {hero, nobody}, Player <- {hero}, Nowhere <- none, NoLeaf <- none,
  Unknown <- none, Where <- {<<0, 1, 7>>, <<1, 1, 7>>, <<2, 2, 7>>, <<2, 1, 8>>},
  FloorSize <- 2, Side <- 3, View <- 1
Decay == INSTANCE Decay WITH Slots <- 4, MaxCreated <- 2, Time <- 6
Spawn == INSTANCE Spawn WITH
  Place <- {1, 2}, Monsters <- 4, RateSpawn <- 1, Abroad <- 0
(* A row of the four zones; spells at a target, ahead, around and by name,   *)
(* with words that begin alike, and runes; tables of up to three rows.      *)
SpellBook ==
  [strike |-> [kind |-> "instant", words |-> <<"a">>, id |-> 1, needTarget |-> TRUE, mana |-> 2,
               cooldown |-> 2, group |-> 1, groupCooldown |-> 1],
   lance  |-> [kind |-> "instant", words |-> <<"a", "b">>, id |-> 2, needWeapon |-> TRUE,
               casterTargetOrDirection |-> TRUE, mana |-> 1, group |-> 1],
   friend |-> [kind |-> "instant", words |-> <<"a", " ", "b">>, id |-> 3, needTarget |-> TRUE,
               hasParam |-> TRUE, aggressive |-> FALSE, cooldown |-> 2, group |-> 2, groupCooldown |-> 1],
   wave   |-> [kind |-> "instant", words |-> <<"b">>, id |-> 4, area |-> TRUE, needDirection |-> TRUE,
               group |-> 1, groupCooldown |-> 1, second |-> 2, secondCooldown |-> 2],
   bolt   |-> [kind |-> "rune", charges |-> 1, id |-> 5, needTarget |-> TRUE, group |-> 1, groupCooldown |-> 2],
   bomb   |-> [kind |-> "rune", charges |-> 1, id |-> 6, area |-> TRUE, field |-> TRUE, group |-> 1]]
Tables ==
  {[rows |-> r, vec |-> v] : r \in {1, 2, 3},
      v \in UNION {[1 .. 6 -> {0, 1}],
                   {[w EXCEPT ![c] = k] : c \in 1 .. 6, k \in {2, 3}, w \in [1 .. 6 -> {0, 1}]}}}
Casting == INSTANCE Casting WITH
  About <- {"zones", "cooldowns", "runes", "weapons", "areas", "words"},
  Zone <- <<"protection", "normal", "nopvp", "pvp">>,
  Registered <- SpellBook, Shapes <- Tables,
  Letters <- {"b"}, MaxMana <- 2, MaxUnits <- 2, MaxTime <- 2, MaxLogins <- 1
(* One file at a time changes between reloads, of the spells two: one that    *)
(* does not parse ends the server, and is put right before it starts again. *)
RegistryKinds == {"actions", "talk", "spells", "weapons", "moves", "creature", "handlers"}
Edits == [about \in RegistryKinds |-> IF about = "spells" THEN 2 ELSE 1]
Registry == INSTANCE Registry WITH About <- RegistryKinds, MaxEdits <- Edits
(* Gold and platinum; small stacks and a bag that two coins fill.             *)
Stacks == INSTANCE Stacks WITH
  Types <- 2, MaxStack <- 3, Capacity <- 2, MaxWeight <- 3, MaxWealth <- 8
Transaction == INSTANCE Transaction WITH
  NoTx <- none, MaxChanges <- 2, MaxQueries <- 1, MaxErrors <- 2, MaxLosses <- 1
(* A condition of one interval, weak and strong, drawn and listed; thinks      *)
(* come late by one think in all.                                             *)
Wounds == INSTANCE Wounds WITH
  Interval <- 4, Lists <- {<<1>>, <<2, 1>>}, Ranges <- {<<3, 5, 2>>, <<1, 2, 0>>}, MaxRounds <- 6,
  MaxLate <- 2
(* Two depots; two changes between saves, of a house three; the map has        *)
(* nothing on the board and in the shelf, or something in both.               *)
BelongingsKinds == {"player", "held", "house", "laid"}
Saves == [about \in BelongingsKinds |-> IF about = "house" THEN 3 ELSE 2]
Belongings == INSTANCE Belongings WITH
  About <- BelongingsKinds, Depots <- {1, 2}, Base <- 3,
  Maps <- {[text |-> 0, shelf |-> <<>>], [text |-> 1, shelf |-> <<"book">>]},
  MaxChanges <- Saves, MaxCopies <- 3
(* Three viewers that see one, two and three creatures; a tile that is full    *)
(* when its number of things reaches 4.                                       *)
Sight == [v1 |-> {"a"}, v2 |-> {"a", "b"}, v3 |-> {"a", "b", "c"}]
Order == [t1 |-> 1, t2 |-> 2, sp1 |-> 2, sp2 |-> 2, d1 |-> 0, f1 |-> 0, f2 |-> 0]
TileStack == INSTANCE TileStack WITH
  Creature <- {"a", "b", "c"}, Viewer <- DOMAIN Sight, Sight <- Sight,
  Item <- DOMAIN Order, Order <- Order, Splash <- {"sp1", "sp2"},
  Field <- {"f1", "f2"}, Replaceable <- {"f1"},
  NoGround <- "none", Ground <- {"g"}, Shown <- 4
(* Each type by itself; only what is invisible hides what an outfit shows.   *)
Effects == {{"attributes"}, {"drunk"}, {"outfit", "invisible"}, {"light"}, {"manashield"}, {"infight"}}
Conditions == INSTANCE Conditions WITH
  About <- Effects,
  Strength <- {1, 2}, MaxTicks <- 2, MaxConditions <- 2
(* Two customers and two npcs; a row of six, where an npc that stands at its  *)
(* place sees its neighbours and hears of the next.                           *)
ShopsOfNpcs == {<<<<"gem", 0>>, <<"wand", 2>>>>, <<<<"gem", 0>>>>, <<<<"wand", 2>>>>}
Npc == INSTANCE Npc WITH
  About <- {"shops", "sale", "presence"}, Npcs <- Two, Bodies <- {1, 2}, NoOne <- nobody,
  Refs <- {1, 2, 3, 4}, Reopens <- FALSE, Small <- 1, MaxOwned <- 1,
  Shops <- ShopsOfNpcs,
  Near <- 1, Far <- 2, Edge <- 5, Radius <- 1
(* A word of 31 mounts is one of two here: three mounts need two words.      *)
CharacterKinds == {"outfits", "mounts", "looks", "row", "skull"}
Changes == [about \in CharacterKinds |-> CASE about = "outfits" -> 4 [] about = "mounts" -> 5 [] OTHER -> 3]
Character == INSTANCE Character WITH About <- CharacterKinds, MaxTime <- 6, MaxChanges <- Changes

ASSUME Monster!MonsterAssumption /\ Decay!DecayAssumption
ASSUME Spawn!SpawnAssumption /\ Casting!CastingAssumption
ASSUME Registry!RegistryAssumption /\ Stacks!StacksAssumption /\ Transaction!TransactionAssumption
ASSUME Wounds!WoundsAssumption /\ Belongings!BelongingsAssumption
ASSUME TileStack!TileStackAssumption /\ Conditions!ConditionsAssumption /\ Npc!NpcAssumption
ASSUME Character!CharacterAssumption

WorldSymmetry == Permutations({a1, a2}) \cup Permutations(Two)

-----------------------------------------------------------------------------
Init ==
  /\ part \in Parts
  /\ \/ part = "names" /\ Names!Init
     \/ part = "advance" /\ Advance!Init
     \/ part = "spectators" /\ Spectators!Init
     \/ part = "monster" /\ Monster!Init
     \/ part = "decay" /\ Decay!Init
     \/ part = "spawn" /\ Spawn!Init
     \/ part = "casting" /\ Casting!Init
     \/ part = "registry" /\ Registry!Init
     \/ part = "belongings" /\ Belongings!Init
     \/ part = "wounds" /\ Wounds!Init
     \/ part = "transaction" /\ Transaction!Init
     \/ part = "stacks" /\ Stacks!Init
     \/ part = "character" /\ Character!Init
     \/ part = "npc" /\ Npc!Init
     \/ part = "conditions" /\ Conditions!Init
     \/ part = "tilestack" /\ TileStack!Init

Next ==
  /\ UNCHANGED part
  /\ \/ part = "names" /\ Names!Next
     \/ part = "advance" /\ Advance!Next
     \/ part = "spectators" /\ Spectators!Next
     \/ part = "monster" /\ Monster!Next
     \/ part = "decay" /\ Decay!Next
     \/ part = "spawn" /\ Spawn!Next
     \/ part = "casting" /\ Casting!Next
     \/ part = "registry" /\ Registry!Next
     \/ part = "belongings" /\ Belongings!Next
     \/ part = "wounds" /\ Wounds!Next
     \/ part = "transaction" /\ Transaction!Next
     \/ part = "stacks" /\ Stacks!Next
     \/ part = "character" /\ Character!Next
     \/ part = "npc" /\ Npc!Next
     \/ part = "conditions" /\ Conditions!Next
     \/ part = "tilestack" /\ TileStack!Next

Spec == Init /\ [][Next]_vars

-----------------------------------------------------------------------------
(* Every component's own type invariant. *)
TypeOK ==
  /\ part = "names" => Names!TypeOK
  /\ part = "advance" => Advance!TypeOK
  /\ part = "monster" => Monster!TypeOK
  /\ part = "spectators" => Spectators!TypeOK
  /\ part = "decay" => Decay!TypeOK
  /\ part = "spawn" => Spawn!TypeOK
  /\ part = "registry" => Registry!TypeOK
  /\ part = "belongings" => Belongings!TypeOK
  /\ part = "wounds" => Wounds!TypeOK
  /\ part = "transaction" => Transaction!TypeOK
  /\ part = "stacks" => Stacks!TypeOK
  /\ part = "casting" => Casting!TypeOK
  /\ part = "character" => Character!TypeOK
  /\ part = "npc" => Npc!TypeOK
  /\ part = "conditions" => Conditions!TypeOK
  /\ part = "tilestack" => TileStack!TypeOK

(* What is kept to find or count something agrees with what it stands for,    *)
(* whatever came and went before: the tree of names, the leaves and caches of *)
(* the map, levels and tries, the words of spells and the areas they reach,   *)
(* what scripts registered after whatever was loaded again                    *)
(* (Names.tla, Spectators.tla, Advance.tla, Casting.tla, Registry.tla).       *)
SearchesAgree ==
  /\ part = "names" => Names!FindsTheOne
  /\ part = "spectators" => Spectators!AllAroundFound
  /\ part = "advance" => Advance!LevelsAddUp
  /\ part = "casting" => Casting!SaidIsCast /\ Casting!AreasTurn
  /\ part = "registry" => /\ Registry!ReloadedIsFresh
                          /\ Registry!NewestOfItsSource
                          /\ Registry!SpecialFirst
                          /\ Registry!BitsAgree

(* What is kept elsewhere than where it is used comes back whole.  Money       *)
(* changes its form and its place and is neither made nor lost but where the  *)
(* code drops it.  What is saved of a player is the player of one moment,     *)
(* unless the connection is lost between BEGIN and COMMIT, and the database   *)
(* is not left locked.  What a player or a house has is, when it is loaded,   *)
(* what it was when it was saved, everything once but for what the map has    *)
(* in a shelf, which is there besides; a character comes back with what it    *)
(* had.  Rounds of damage amount to what was drawn, and none is lost by more  *)
(* than the thinks were late.  Each shot takes one arrow, each stroke and     *)
(* each rune one charge; what a condition changed is undone when it ends      *)
(* (Stacks.tla, Transaction.tla, Belongings.tla, Character.tla, Wounds.tla,   *)
(* Casting.tla, Conditions.tla).                                              *)
NothingLost ==
  /\ part = "stacks" => Stacks!MoneyConserved
  /\ part = "transaction" => Transaction!OneSnapshot /\ Transaction!LockGivenBack
  /\ part = "belongings" => Belongings!OneOfEach /\ Belongings!LoadedAsSaved
  /\ part = "wounds" => Wounds!RoundsFit /\ Wounds!DealtAsMeant
  /\ part = "casting" => Casting!ShotsAccounted
  /\ part = "character" => /\ Character!OutfitsKept /\ Character!LooksKept
                           /\ Character!RowKept /\ Character!SkullServed
  /\ part = "conditions" => Conditions!NothingLingers

(* What a client shows agrees with the game: the numbers of the things on a   *)
(* tile are those it has counted, and the icons, the look and the light are   *)
(* those of the conditions that are on, a shop is open with the npc that has  *)
(* it open, for which the functions of its script are there, what can be sold *)
(* is what is owned, and what can be put on is what may be worn (TileStack.tla, *)
(* Conditions.tla, Npc.tla, Character.tla).                                   *)
ClientsAgree ==
  /\ part = "character" => Character!WindowIsTrue
  /\ part = "npc" => Npc!ShopsPaired /\ Npc!CallbacksHeld /\ Npc!SaleListTrue
  /\ part = "tilestack" => TileStack!NumbersAgree
  /\ part = "conditions" => Conditions!ClientSees

(* What was checked when it was begun still holds when it is done: nobody is  *)
(* hurt where none may be, no spell is cast before its time (Casting.tla).    *)
RulesKept ==
  /\ part = "casting" => Casting!NobodyHurtWhereSafe /\ Casting!CooldownsHold

(* Every reference that is counted is held, none is given back twice, and     *)
(* nothing points to what may be gone: monsters and decaying items; spells     *)
(* that monsters cast and events of creatures outlive being loaded again, but *)
(* for those of scripts or that are no longer on disk (Monster.tla, Decay.tla, *)
(* Registry.tla).                                                             *)
ReferencesHeld ==
  /\ part = "monster" => Monster!ReferencesCounted /\ Monster!NoneAfterTheGone
  /\ part = "decay" => Decay!DecayCounted
  /\ part = "registry" => Registry!CastsAlive /\ Registry!HeldWhileOnDisk

(* What has something left to do has a timer, or is on the list, that will     *)
(* wake it: spawns, monsters that see a player, npcs that somebody came to    *)
(* (Spawn.tla, Monster.tla, Npc.tla).                                          *)
NothingFallsAsleep ==
  /\ part = "spawn" => Spawn!SpawnGoesOn
  /\ part = "monster" => Monster!AwakeThinks
  /\ part = "npc" => Npc!AwakeWhenMet
=============================================================================
