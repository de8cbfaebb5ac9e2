-------------------------------- MODULE MCPlayers --------------------------------
(* Small instances of what players form, do and see, and of the scripts,     *)
(* raids and events around them, in one module: part is the component a      *)
(* behaviour is about, and never changes; s is the variable of that           *)
(* component.  A property that several components promise, each in its own   *)
(* way, is one property here.  PlayersProofs proves all of them.              *)
EXTENDS Naturals, Sequences, FiniteSets, TLC

CONSTANTS Parts,                      \* the components that are checked
          Many, Few,                  \* sets of players, of addresses
          nobody, none,               \* are in neither
          ChatAbout, ChatSlots, GuildIds, Recruits,
          Homes,
          Steeds, Hurries, Delays, BootSpeed, RingSpeed, SpeedTasks, SpeedAstray,
          FightHealth, FightKills, FightHits, FightDeaths,
          DamageAbout, DamageInDetail, DamageHits, DamageReplies, DamageHealth, DamageCaster,
          DamageMana, DamageDefense, DamageArmor, DamageCharges, DamageBlocks, DamageCredit,
          DamageScripts, DamageDeaths,
          LastTile, CommandIds, MaxCommands,
          Ground, Windows,
          Friends, Gods, Secluded, Patrons, FreeFriends, PremiumFriends,
          ScriptLimit, ScriptOverflows, ScriptTimers, ScriptRefs, ScriptResults,
          RaidNames, RaidRepeats, RaidLength, RaidReloads, RaidTimers,
          Thinks, Clocks, Scripted, ThinkTimers

VARIABLES part, s

vars == <<part, s>>

-----------------------------------------------------------------------------
(* Many are three players, so that one can interfere with what the others     *)
(* do; Few are two, where players meet in pairs, or the addresses of a party  *)
(* and of its successor.                                                      *)
Party == INSTANCE Party WITH
  Player <- Many, NoPlayer <- nobody, Address <- Few, NoParty <- none
(* One guild with, and one without, a rank for recruits.                      *)
Chat == INSTANCE Chat WITH
  About <- ChatAbout, Player <- Many, NoPlayer <- nobody, Slots <- ChatSlots,
  Guild <- GuildIds, NoGuild <- none, Recruiting <- Recruits
Houses == INSTANCE Houses WITH
  Player <- Few, House <- Homes, NoPlayer <- nobody, Street <- none
(* Speeds that are no sum of each other, so that what is missing shows.       *)
Speed == INSTANCE Speed WITH
  Mount <- Steeds, Haste <- Hurries, Slow <- Delays, Boots <- BootSpeed, Ring <- RingSpeed,
  MaxTasks <- SpeedTasks, MaxAstray <- SpeedAstray
Fight == INSTANCE Fight WITH
  Player <- Few, Nobody <- nobody, Monster <- none,
  MaxHealth <- FightHealth, KillsToRed <- FightKills, MaxHits <- FightHits,
  MaxDeaths <- FightDeaths
(* Three tiles in a row, of which the outer two are out of reach of each     *)
(* other; one command that waits beside the swings of a fight.               *)
PlayerActions == INSTANCE PlayerActions WITH
  Last <- LastTile, Id <- CommandIds, MaxQueue <- MaxCommands, None <- none
(* Hits of which one half reaches through what stops the other.               *)
TwoHits == {<<2, 1>>, <<4, 0>>}
TwoReplies == {<<0, 1>>, <<2, 0>>}
Damage == INSTANCE Damage WITH
  About <- DamageAbout, InDetail <- DamageInDetail, Hits <- DamageHits, Replies <- DamageReplies,
  MaxHealth <- DamageHealth, CasterHealth <- DamageCaster, MaxMana <- DamageMana,
  Defense <- DamageDefense, Armor <- DamageArmor, MaxCharges <- DamageCharges,
  MaxBlocks <- DamageBlocks, MaxCredit <- DamageCredit, MaxScripts <- DamageScripts,
  MaxDeaths <- DamageDeaths
(* Windows in windows: three containers, and tiles of which the outer two are *)
(* out of reach of each other.                                                *)
Containers == INSTANCE Containers WITH
  Player <- Few, Bag <- Many, NoBag <- none, Gone <- nobody, Width <- Ground, Cid <- Windows
(* One who sees ghosts and may list more than when its premium time ends.     *)
Buddies == INSTANCE Buddies WITH
  Player <- Friends, Access <- Gods, Special <- Secluded, Lapsing <- Patrons,
  FreeLimit <- FreeFriends, PremiumLimit <- PremiumFriends
Scripts == INSTANCE Scripts WITH
  Limit <- ScriptLimit, MaxOverflows <- ScriptOverflows, MaxTimers <- ScriptTimers,
  Refs <- ScriptRefs, NoRef <- none, Result <- ScriptResults
Raids == INSTANCE Raids WITH
  Name <- RaidNames, Repeats <- RaidRepeats, NoRaid <- none, Length <- RaidLength,
  MaxReloads <- RaidReloads, MaxTimers <- RaidTimers
(* A timer and a think event of the files, and a think event of a script.     *)
KindOf(e) == IF e \in Thinks THEN "think" ELSE "timer"
IsLua(e) == e \in Scripted
GlobalEvents == INSTANCE GlobalEvents WITH
  Events <- Thinks \cup Clocks, OfKind <- KindOf, FromLua <- IsLua, MaxTimers <- ThinkTimers

ASSUME PlayersAssumption ==
  /\ Party!PartyAssumption /\ Chat!ChatAssumption /\ Houses!HousesAssumption
  /\ Speed!SpeedAssumption /\ Fight!FightAssumption /\ Damage!DamageAssumption
  /\ PlayerActions!PlayerActionsAssumption /\ Containers!ContainersAssumption
  /\ Buddies!BuddiesAssumption /\ Scripts!ScriptsAssumption /\ Raids!RaidsAssumption
  /\ GlobalEvents!GlobalEventsAssumption

PlayersSymmetry == Permutations(Many) \cup Permutations(Few)

-----------------------------------------------------------------------------
Init ==
  /\ part \in Parts
  /\ \/ part = "party" /\ Party!Init
     \/ part = "chat" /\ Chat!Init
     \/ part = "houses" /\ Houses!Init
     \/ part = "speed" /\ Speed!Init
     \/ part = "fight" /\ Fight!Init
     \/ part = "damage" /\ Damage!Init
     \/ part = "playeractions" /\ PlayerActions!Init
     \/ part = "containers" /\ Containers!Init
     \/ part = "buddies" /\ Buddies!Init
     \/ part = "scripts" /\ Scripts!Init
     \/ part = "raids" /\ Raids!Init
     \/ part = "globalevents" /\ GlobalEvents!Init

Next ==
  /\ UNCHANGED part
  /\ \/ part = "party" /\ Party!Next
     \/ part = "chat" /\ Chat!Next
     \/ part = "houses" /\ Houses!Next
     \/ part = "speed" /\ Speed!Next
     \/ part = "fight" /\ Fight!Next
     \/ part = "damage" /\ Damage!Next
     \/ part = "playeractions" /\ PlayerActions!Next
     \/ part = "containers" /\ Containers!Next
     \/ part = "buddies" /\ Buddies!Next
     \/ part = "scripts" /\ Scripts!Next
     \/ part = "raids" /\ Raids!Next
     \/ part = "globalevents" /\ GlobalEvents!Next

Spec == Init /\ [][Next]_vars

-----------------------------------------------------------------------------
(* Every component's own type invariant. *)
TypeOK ==
  /\ part = "party" => Party!TypeOK
  /\ part = "chat" => Chat!TypeOK
  /\ part = "houses" => Houses!TypeOK
  /\ part = "speed" => Speed!TypeOK
  /\ part = "fight" => Fight!TypeOK
  /\ part = "damage" => Damage!TypeOK
  /\ part = "playeractions" => PlayerActions!TypeOK
  /\ part = "containers" => Containers!TypeOK
  /\ part = "buddies" => Buddies!TypeOK
  /\ part = "scripts" => Scripts!TypeOK
  /\ part = "raids" => Raids!TypeOK
  /\ part = "globalevents" => GlobalEvents!TypeOK

(* What is written down on two sides agrees after every way in and out: a    *)
(* party, its members, its invitations and its channel; private channels and  *)
(* who is invited; guilds and their members online; houses and who owns them, *)
(* edits their lists, trades them, sleeps and stands in them; a window and    *)
(* the container in reach it is of; buddies and how they are shown; the        *)
(* functions of scripts and the timers that hold them, none given back twice  *)
(* (Party.tla, Chat.tla, Houses.tla, Containers.tla, Buddies.tla, Scripts.tla). *)
TiesAgree ==
  /\ part = "party" => Party!PartyPaired /\ Party!ChannelUsersOnline
  /\ part = "chat" => Chat!PrivateChannelsHeld /\ Chat!GuildAlive
  /\ part = "houses" => Houses!HousesKept
  /\ part = "containers" => Containers!WindowsInReach
  /\ part = "buddies" => Buddies!BuddiesShown
  /\ part = "scripts" => Scripts!FunctionsReleasedOnce

(* Whoever deals damage is credited with it (Damage.tla). *)
DamageCredited == part = "damage" => Damage!CreditedAsTaken

(* Nothing stays begun: who is in a fight gets out of it, dead or alive; a   *)
(* command that waits has something to wait for, and is given once; who has   *)
(* no health left is about to die; raids and think events that have something *)
(* left to do have a timer that will wake them (Fight.tla, PlayerActions.tla, *)
(* Damage.tla, Raids.tla, GlobalEvents.tla).                                  *)
NothingHangs ==
  /\ part = "fight" => Fight!FightsEnd
  /\ part = "damage" => Damage!TheDeadDie
  /\ part = "playeractions" => PlayerActions!CommandsWaitOnce /\ PlayerActions!CommandsHaveAWalk
  /\ part = "raids" => Raids!RaidsGoOn
  /\ part = "globalevents" => GlobalEvents!ThinksOn

(* What a step may never do: only disguises take speed away, or leave some;   *)
(* a hit of an element does not reach the health of one whose mana shield has *)
(* mana left, and a hit on health that no script turned into healing gives    *)
(* its caster no more than it takes (Speed.tla, Damage.tla).                  *)
NoStepTooFar ==
  [][(part = "speed" => Speed!OutfitStep) /\ (part = "damage" => Damage!HitStep)]_vars
=============================================================================
