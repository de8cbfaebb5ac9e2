-------------------------------- MODULE Fight --------------------------------
(***************************************************************************)
(* Fights between players (player.cpp, creature.cpp): the INFIGHT          *)
(* condition, protection-zone lock, skulls and murders, the damage map and *)
(* death, which changeHealth leaves to a task of the dispatcher            *)
(* (executeDeath), so that other tasks run between the last hit and death. *)
(*                                                                         *)
(* The world is of type "pvp"; the players are neither partners nor guild  *)
(* mates nor at war, and have no flags.  An arena is a tile of ZONE_PVP.   *)
(*                                                                         *)
(* Abstracted: a hit takes one health or is blocked; the time the INFIGHT  *)
(* condition has left is "on", or "over" until executeConditions; hits are *)
(* recent; skull ticks are counted in murders.                             *)
(***************************************************************************)
EXTENDS Naturals, Sequences

CONSTANTS Player, Nobody,
          Monster,            \* whatever else hits; not modelled itself
          MaxHealth,
          KillsToRed,
          MaxHits,            \* bound on the damage counted for one attacker
          MaxDeaths           \* and on the executeDeath tasks of a player

(* Assumed where this module is instantiated. *)
FightAssumption ==
  /\ Monster \notin Player /\ Nobody \notin Player \cup {Monster}
  /\ MaxHealth \in Nat \ {0} /\ KillsToRed \in Nat \ {0} /\ MaxHits \in Nat \ {0}
  /\ MaxDeaths \in Nat \ {0}

VARIABLE s

Attacker == Player \cup {Monster}

PlayerRec == [online : BOOLEAN,
              health : 0..MaxHealth,
              deaths : 0..MaxDeaths,                      \* executeDeath tasks
              arena : BOOLEAN,
              infight : {"no", "on", "over"},
              pzLocked : BOOLEAN,
              skull : {"none", "white", "red"},
              murders : 0..KillsToRed,            \* skullTicks
              attacked : SUBSET Player,           \* attackedSet
              skillLoss : BOOLEAN,
              damage : [Attacker -> 0..MaxHits],  \* damageMap
              lastHit : Attacker \cup {Nobody}]   \* lastHitCreatureId

TypeOK == s \in [Player -> PlayerRec]

Unhurt == [a \in Attacker |-> 0]
Fresh == [online |-> FALSE, health |-> MaxHealth, deaths |-> 0, arena |-> FALSE,
          infight |-> "no", pzLocked |-> FALSE, skull |-> "none", murders |-> 0,
          attacked |-> {}, skillLoss |-> TRUE, damage |-> Unhurt, lastHit |-> Nobody]

Init == s = [p \in Player |-> Fresh]

-----------------------------------------------------------------------------
(* addInFightTicks *)
InFight(t, p) == [t EXCEPT ![p].infight = "on"]

(* Creature::onIdleStatus *)
Forget(r) == IF r.health = 0 THEN r ELSE [r EXCEPT !.damage = Unhurt, !.lastHit = Nobody]

(* Player::onEndCondition(CONDITION_INFIGHT).  A mutant: the lock stays.     *)
Calm(skull) == IF skull = "red" THEN "red" ELSE "none"
EndFightLocked(r) ==
  [Forget(r) EXCEPT !.infight = "no", !.attacked = {}, !.skull = Calm(r.skull)]
EndFight(r) ==
  IF r.infight = "no" THEN r
  ELSE [Forget(r) EXCEPT !.infight = "no", !.pzLocked = FALSE, !.attacked = {},
                         !.skull = Calm(r.skull)]

(* getSkullClient(q) of p is SKULL_YELLOW *)
Yellow(t, p, q) == t[q].skull = "none" /\ p \in t[q].attacked

(* Player::onAttackedCreature, of another player                             *)
Strikes(r, q) == [r EXCEPT !.infight = "on", !.attacked = r.attacked \cup {q}]
Assaults(r, q, skull) ==
  [Strikes(r, q) EXCEPT !.pzLocked = TRUE,
                        !.skull = IF skull = "none" /\ r.skull = "none" THEN "white" ELSE r.skull]
OnAttackedCreature(t, p, q) ==
  IF t[q].arena THEN t
  ELSE [InFight(t, q) EXCEPT ![p] =
          IF t[p].skull = "none" /\ Yellow(t, p, q) THEN Strikes(t[p], q)
          ELSE IF p \notin t[q].attacked THEN Assaults(t[p], q, t[q].skull)
          ELSE [t[p] EXCEPT !.infight = "on"]]

(* addUnjustifiedDead *)
Murder(r) ==
  LET n == IF r.murders < KillsToRed THEN r.murders + 1 ELSE KillsToRed
  IN  [r EXCEPT !.murders = n, !.skull = IF n >= KillsToRed THEN "red" ELSE r.skull]

(* Player::onKilledCreature; both in an arena cannot be when q is not.       *)
Kills(r, skull, lastHit) ==
  LET counted == IF skull = "none" THEN Murder(r) ELSE r
  IN  IF lastHit /\ r.infight = "on" THEN [counted EXCEPT !.pzLocked = TRUE] ELSE counted
OnKilledCreature(t, p, q, lastHit) ==
  IF p = q \/ t[q].arena THEN [t EXCEPT ![q].skillLoss = t[q].skillLoss /\ ~t[q].arena]
  ELSE IF q \notin t[p].attacked \/ p \in t[q].attacked THEN t
  ELSE [t EXCEPT ![p] = Kills(t[p], t[q].skull, lastHit)]

(* The object is deleted, and with it its id in the maps of others; what    *)
(* savePlayer keeps is there at the next login.                             *)
Saved(r) == [Fresh EXCEPT !.health = IF r.health = 0 THEN 1 ELSE r.health,
                          !.infight = IF r.infight = "no" THEN "no" ELSE "on",
                          !.skull = Calm(r.skull),
                          !.murders = r.murders]
Without(r, p) ==
  [r EXCEPT !.damage = [r.damage EXCEPT ![p] = 0],
            !.lastHit = IF r.lastHit = p THEN Nobody ELSE r.lastHit]
Remove(t, p) == [q \in Player |-> IF q = p THEN Saved(t[p]) ELSE Without(t[q], p)]

(* Player::death, of the skills or of an arena                              *)
Death(r) ==
  IF r.skillLoss THEN EndFight([r EXCEPT !.health = MaxHealth])
  ELSE Forget([EndFight(r) EXCEPT !.skillLoss = TRUE, !.health = MaxHealth, !.arena = FALSE])

MostDamage(t, q) ==
  {a \in Attacker : t[q].damage[a] > 0 /\ \A b \in Attacker : t[q].damage[b] <= t[q].damage[a]}

(* Creature::onDeath, with the one of most damage; players of the damage    *)
(* map are told, before that one is, to forget that they attacked.          *)
OnDeath(t, q, most) ==
  LET last == t[q].lastHit
      won  == IF last \in Player THEN OnKilledCreature(t, last, q, TRUE) ELSE t
      told == [p \in Player |-> IF t[q].damage[p] > 0 /\ p # q
                                THEN [won[p] EXCEPT !.attacked = won[p].attacked \ {q}] ELSE won[p]]
      both == IF most \in Player /\ most # last THEN OnKilledCreature(told, most, q, FALSE) ELSE told
      drop == ~t[q].arena \/ last \notin Player
      dead == [both EXCEPT ![q] = Death(both[q])]
  IN  IF drop THEN Remove(dead, q) ELSE dead

-----------------------------------------------------------------------------
(* blockHit, then combatChangeHealth, which leaves those of no health alone *)
Hurt(r, a) ==
  [r EXCEPT !.health = r.health - 1,
            !.deaths = IF r.health = 1 THEN r.deaths + 1 ELSE r.deaths,
            !.damage = [r.damage EXCEPT ![a] = IF @ < MaxHits THEN @ + 1 ELSE @],
            !.lastHit = a]
Suffer(t, a, q, hit) ==
  IF ~hit \/ t[q].health = 0 THEN t ELSE [t EXCEPT ![q] = Hurt(t[q], a)]

Attack(p, q, hit) ==
  /\ p # q /\ s[p].online /\ s[q].online /\ s[q].deaths < MaxDeaths
  /\ s' = Suffer(InFight(OnAttackedCreature(s, p, q), q), p, q, hit)

MonsterAttack(q, hit) ==
  /\ s[q].online /\ s[q].deaths < MaxDeaths
  /\ s' = Suffer(InFight(s, q), Monster, q, hit)

(* ConditionRegeneration changes the health of the dying too, in the think   *)
(* in which a wound has killed them, and a level that is gained does so      *)
(* later as well.                                                           *)
Regenerate(p) ==
  /\ s[p].online /\ s[p].health < MaxHealth
  /\ s' = [s EXCEPT ![p].health = @ + 1]

(* Game::executeDeath *)
ExecuteDeath(q) ==
  /\ s[q].online /\ s[q].deaths > 0
  /\ LET t == [s EXCEPT ![q].deaths = @ - 1]
     IN  \E most \in IF MostDamage(s, q) = {} THEN {Nobody} ELSE MostDamage(s, q) :
           s' = OnDeath(t, q, most)

FightTicksEnd(p) == s[p].online /\ s[p].infight = "on" /\ s' = [s EXCEPT ![p].infight = "over"]

ExecuteConditions(p) == s[p].online /\ s[p].infight = "over" /\ s' = [s EXCEPT ![p] = EndFight(@)]

(* checkSkullTicks *)
Served(r) ==
  [r EXCEPT !.murders = r.murders - 1,
            !.skull = IF r.skull = "red" /\ r.murders = 1 /\ r.infight # "on" THEN "none"
                      ELSE r.skull]
CheckSkullTicks(p) ==
  /\ s[p].online /\ s[p].murders > 0
  /\ s' = [s EXCEPT ![p] = Served(@)]

Walk(p) == s[p].online /\ s' = [s EXCEPT ![p].arena = ~@]

Login(p) == ~s[p].online /\ s' = [s EXCEPT ![p].online = TRUE]

(* Players are removed whatever they are doing: a kick is forced. *)
Logout(p) == s[p].online /\ s' = Remove(s, p)

Next ==
  \E p \in Player :
    \/ \E hit \in BOOLEAN : \/ \E q \in Player : Attack(p, q, hit)
                            \/ MonsterAttack(p, hit)
    \/ Regenerate(p) \/ ExecuteDeath(p) \/ FightTicksEnd(p) \/ ExecuteConditions(p)
    \/ CheckSkullTicks(p) \/ Walk(p) \/ Login(p) \/ Logout(p)

Spec == Init /\ [][Next]_s

-----------------------------------------------------------------------------
(* Every fight ends, whatever is hit, blocked, killed, revived, left and    *)
(* entered meanwhile: who has a white skull, is locked out of protection    *)
(* zones, or is to be struck back by those it attacked, has the condition   *)
(* whose end takes that away; and nobody is credited later for damage done  *)
(* in a fight that is over.  Who has no health left is about to die.        *)
FightsEnd ==
  \A p \in Player :
    /\ s[p].online /\ (s[p].skull = "white" \/ s[p].pzLocked \/ s[p].attacked # {})
         => s[p].infight # "no"
    /\ s[p].damage # Unhurt => s[p].infight # "no" \/ s[p].deaths > 0
    /\ s[p].online /\ s[p].health = 0 => s[p].deaths > 0

(* A murder counts for the one who did most damage as it does for the one   *)
(* who hit last (the parameter mostDamageUnjustified of onDeath).           *)
MostDamageIsMurder ==
  [][\A p, q \in Player :
       /\ s[q].online /\ s[q].deaths > 0 /\ s'[q].deaths = 0 /\ ~s'[q].online
       /\ MostDamage(s, q) = {p} /\ s[q].lastHit = Monster
       /\ q \in s[p].attacked /\ p \notin s[q].attacked /\ s[q].skull = "none" /\ ~s[q].arena
       => s'[p].murders > s[p].murders \/ s[p].murders = KillsToRed]_s

(* executeDeath is for one that has no health left. *)
OnlyTheDyingDie == \A p \in Player : s[p].deaths > 0 => s[p].health = 0
=============================================================================
