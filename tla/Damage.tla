-------------------------------- MODULE Damage --------------------------------
(***************************************************************************)
(* What a hit does on its way from a spell to its victims: shield, armor   *)
(* and the items that absorb (blockHit of creature.cpp, player.cpp and     *)
(* monster.cpp), the mana shield and the scripts that may change it        *)
(* (combatChangeHealth and combatChangeMana of game.cpp), to whom it is    *)
(* credited, and what the caster leeches of it (combat.cpp).               *)
(*                                                                         *)
(* A hit is one task and one step; scripts answer in the middle of it.     *)
(*                                                                         *)
(* Abstracted: one caster, a player, that hits others; no skull is black,  *)
(* nobody is immune and everybody may be attacked (Casting has who may     *)
(* be); both halves of a hit are of one element; each victim has           *)
(* one shield, one armor and, a player, one item that absorbs half; mana   *)
(* goes to the caster the way health does; no script turns a drain of mana *)
(* into a gain; conditions that a hit adds or takes, and what clients are  *)
(* told.  Amounts are positive; heal says which way they go.               *)
(***************************************************************************)
EXTENDS Integers, FiniteSets, FiniteSetsExt

CONSTANTS About,           \* which victims a behaviour has
          InDetail,        \* those with blocks, items and scripts: a bound
          Hits,            \* <<primary, secondary>> of spells
          Replies,         \* <<primary, secondary>> of scripts
          MaxHealth, MaxMana,
          CasterHealth,
          Defense, Armor,  \* of every victim
          MaxCharges,      \* of the item that absorbs
          MaxBlocks,       \* 2 in the code
          MaxCredit,       \* bound on what is counted for the caster
          MaxScripts,      \* bound on the scripts that are registered at once
          MaxDeaths        \* bound on the tasks executeDeath of one victim not in detail, of
                           \* which one in detail has one at most

Player == "player"
Monster == "monster"
AllVictims == {Player, Monster}

(* Assumed where this module is instantiated. *)
DamageAssumption ==
  /\ About \subseteq SUBSET AllVictims /\ InDetail \subseteq About
  /\ Hits \subseteq Nat \X Nat /\ Replies \subseteq Nat \X Nat
  /\ MaxHealth \in Nat \ {0} /\ CasterHealth \in Nat \ {0} /\ MaxMana \in Nat \ {0} /\ Defense \in Nat /\ Armor \in Nat
  /\ MaxCharges \in Nat /\ MaxBlocks \in Nat /\ MaxCredit \in Nat /\ MaxScripts \in Nat
  /\ MaxDeaths \in Nat \ {0}

VARIABLE s

LeechPercent == 100        \* SPECIALSKILL_LIFELEECHAMOUNT and its siblings
CriticalPercent == 50
Percent(n, percent) == (n * percent + 50) \div 100

VictimRec == [health : 0 .. MaxHealth, mana : 0 .. MaxMana, shield : BOOLEAN,
              blocks : 0 .. MaxBlocks, charges : 0 .. MaxCharges,
              deaths : 0 .. MaxDeaths,             \* tasks executeDeath
              credit : 0 .. MaxCredit,             \* damageMap of the caster
              taken : 0 .. MaxCredit]              \* history: what it has lost to it

TypeOK ==
  /\ s.victims \in About
  /\ s.of \in [s.victims -> VictimRec]
  /\ s.health \in 1 .. CasterHealth                 \* of the caster
  /\ s.events \subseteq {"health", "mana", "prepare"}
  /\ s.last \in {"element", "undefined", "other"}   \* history: of what the last hit is

Fresh(v) == [health |-> MaxHealth, mana |-> IF v = Player THEN MaxMana ELSE 0, shield |-> FALSE,
             blocks |-> 0, charges |-> 0, deaths |-> 0, credit |-> 0, taken |-> 0]

Init == \E victims \in About :
  s = [victims |-> victims, of |-> [v \in victims |-> Fresh(v)], health |-> CasterHealth,
       events |-> {}, last |-> "other"]

-----------------------------------------------------------------------------
(* blockHit.  The victim's record r carries what it becomes, with the       *)
(* damage that is left and what has blocked it.                             *)

(* uniform_random of the shield and of the armor *)
ShieldRolls == Defense \div 2 .. Defense
ArmorRolls == IF Armor > 3 THEN Armor \div 2 .. Armor - ((Armor % 2) + 1)
              ELSE {Min({Armor, 1})}
Roll == [shield : ShieldRolls, armor : ArmorRolls]

(* Creature::blockHit: blocks are used up by what the armor alone stops too. *)
CreatureBlockHit(r, amount, checkDefense, checkArmor, roll) ==
  LET able    == (checkDefense \/ checkArmor) /\ r.blocks > 0
      parried == Max({0, amount - roll.shield})
      stopped == checkDefense /\ able /\ parried = 0
      left    == IF checkDefense /\ able THEN parried ELSE amount
      worn    == IF checkArmor /\ ~stopped THEN Max({0, left - roll.armor}) ELSE left
  IN  [r |-> [r EXCEPT !.blocks = IF able THEN @ - 1 ELSE @], left |-> worn,
       by |-> IF stopped THEN "defense" ELSE IF checkArmor /\ worn = 0 THEN "armor" ELSE "none"]

(* Player::blockHit: the item takes its half, and a charge for it.          *)
PlayerBlockHit(b) ==
  IF b.by # "none" THEN b
  ELSE IF b.left = 0 THEN [b EXCEPT !.by = "armor"]
  ELSE IF b.r.charges = 0 THEN b
  ELSE LET left == b.left - Percent(b.left, 50)
       IN  [r |-> [b.r EXCEPT !.charges = @ - 1], left |-> left,
            by |-> IF left = 0 THEN "armor" ELSE "none"]

(* Monster::blockHit: one that is weak to the element takes half as much again. *)
MonsterBlockHit(b, type) ==
  IF type = "element" THEN [b EXCEPT !.left = Percent(@, 150)] ELSE b

BlockHit(v, r, amount, type, checkDefense, checkArmor, roll) ==
  LET b == CreatureBlockHit(r, amount, checkDefense, checkArmor, roll)
  IN  IF v = Player THEN PlayerBlockHit(b) ELSE MonsterBlockHit(b, type)

(* Game::combatBlockHit: only the first half meets shield and armor; a hit  *)
(* without a second half is never all blocked, it goes on with nothing.     *)
CombatBlockHit(v, r, d, roll) ==
  IF d.heal THEN [r |-> r, d |-> d, all |-> FALSE]
  ELSE LET first  == BlockHit(v, r, d.first, d.type, TRUE, TRUE, roll)
           second == IF d.second = 0 THEN [r |-> first.r, left |-> d.second, by |-> "none"]
                     ELSE BlockHit(v, first.r, d.second, d.type, FALSE, FALSE, roll)
       IN  [r |-> second.r,
            d |-> [d EXCEPT !.first = first.left, !.second = second.left, !.by = first.by],
            all |-> first.by # "none" /\ second.by # "none"]

-----------------------------------------------------------------------------
(* Health and mana.  w is what the scripts answer that know of it, where it  *)
(* makes a difference.                                                      *)

Shielded == Player \in s.victims /\ s.of[Player].shield
Asked(events, type) ==
  {e \in events : IF e = "mana" THEN type = "manadrain" \/ Shielded ELSE type # "manadrain"}
Answers(e, asked, some, silence) == IF e \in asked THEN some ELSE {silence}
Words(asked) ==
  [health : Answers("health", asked, Replies, <<0, 0>>),
   heals : Answers("health", asked, BOOLEAN, FALSE),
   mana : Answers("mana", asked, Replies, <<0, 0>>),
   dies : Answers("prepare", asked, BOOLEAN, TRUE)]

Credit(r, amount) == [r EXCEPT !.credit = @ + amount]     \* addDamagePoints

(* Creature::changeHealth adds a task whenever nothing is left.             *)
ChangeHealth(r, health) ==
  [r EXCEPT !.health = health, !.deaths = IF health = 0 THEN @ + 1 ELSE @]

DrainHealth(r, amount) == Credit(ChangeHealth(r, r.health - amount), amount)

(* A mutant: who empties a shield is not known.                             *)
DrainManaUnknown(r, amount) == [r EXCEPT !.mana = @ - amount]
DrainMana(r, amount) == Credit([r EXCEPT !.mana = @ - amount], amount)

Done(r, d, ok) == [r |-> r, d |-> d, ok |-> ok]

(* executeHealthChange, executeManaChange.  A healing of nothing but a       *)
(* second half hurts.                                                       *)
HealthAnswer(d, w) ==
  [d EXCEPT !.first = w.health[1], !.second = w.health[2], !.asked = TRUE,
            !.heal = w.heals /\ w.health[1] > 0,
            !.type = IF w.heals THEN "healing" ELSE IF @ = "healing" THEN "element" ELSE @]
ManaAnswer(d, w) == [d EXCEPT !.first = w.mana[1], !.second = w.mana[2]]

GainHealth(r, d) ==
  IF r.health = 0 THEN Done(r, d, FALSE)
  ELSE Done(ChangeHealth(r, Min({MaxHealth, r.health + d.first})), d, TRUE)

(* The mana shield.  A mutant: it stops the first half alone.                *)
BehindShield(d, amount) ==
  [d EXCEPT !.first = Max({0, @ - amount}), !.second = Max({0, @ - Max({0, amount - d.first})})]

ManaShieldHalf(v, r, d, events, w) ==
  LET due   == Min({r.mana, d.first + d.second})
      told  == IF "mana" \in events /\ ~d.asked THEN ManaAnswer(d, w) ELSE d
      drain == Min({r.mana, told.first})
  IN  IF v # Player \/ ~r.shield \/ d.type = "undefined" \/ due = 0 THEN [r |-> r, d |-> d]
      ELSE [r |-> DrainMana(r, drain), d |-> BehindShield(told, drain)]
ManaShield(v, r, d, events, w) ==
  LET due   == Min({r.mana, d.first + d.second})
      told  == IF "mana" \in events /\ ~d.asked THEN ManaAnswer(d, w) ELSE d
      drain == Min({r.mana, told.first + told.second})
  IN  IF v # Player \/ ~r.shield \/ d.type = "undefined" \/ due = 0 THEN [r |-> r, d |-> d]
      ELSE [r |-> DrainMana(r, drain), d |-> BehindShield(told, drain)]

(* A mutant: more is taken than there is.                                    *)
MortalPartAll(r, d) == d
MortalPart(r, d) ==
  LET first == Min({d.first, r.health})
  IN  [d EXCEPT !.first = first, !.second = Min({d.second, r.health - first})]

(* What the shield leaves reaches the health.                               *)
Wound(r, d, events, w) ==
  LET real == MortalPart(r, d)
      loss == real.first + real.second
  IN  IF loss = 0 THEN Done(r, real, TRUE)
      ELSE IF loss = r.health /\ "prepare" \in events /\ ~w.dies THEN Done(r, real, FALSE)
      ELSE Done(DrainHealth(r, loss), real, TRUE)

(* combatChangeHealth: after a script that knows of it, it begins anew with  *)
(* the answer, the shield included, and nobody is asked again.              *)
CombatChangeHealth(v, r, d, events, w) ==
  LET m == IF d.heal THEN [r |-> r, d |-> d] ELSE ManaShield(v, r, d, events, w)
      h == HealthAnswer(m.d, w)
      n == ManaShield(v, m.r, h, events, w)
  IN  IF d.heal /\ r.health = 0 THEN Done(r, d, FALSE)
      ELSE IF m.d.first + m.d.second = 0 THEN Done(m.r, m.d, TRUE)
      ELSE IF d.asked \/ "health" \notin events
           THEN IF d.heal THEN GainHealth(r, d) ELSE Wound(m.r, m.d, events, w)
      ELSE IF h.heal THEN GainHealth(m.r, h) ELSE Wound(n.r, n.d, events, w)

(* combatChangeMana of a drain, which meets the item twice when a script     *)
(* knows of it.                                                             *)
ManaLoss(r, d, roll) ==
  BlockHit(Player, r, Min({r.mana, d.first + d.second}), "manadrain", FALSE, FALSE, roll)
CombatChangeMana(v, r, d, events, w, roll) ==
  LET b     == ManaLoss(r, d, roll)
      told  == ManaAnswer(d, w)
      again == ManaLoss(b.r, told, roll)
  IN  IF v # Player THEN Done(r, d, TRUE)
      ELSE IF b.by # "none" THEN Done(b.r, d, FALSE)
      ELSE IF "mana" \notin events THEN Done(DrainMana(b.r, b.left), d, TRUE)
      ELSE IF again.by # "none" THEN Done(again.r, told, FALSE)
      ELSE Done(DrainMana(again.r, again.left), told, TRUE)

-----------------------------------------------------------------------------
(* combat.cpp *)

Hit(hit, type) == [first |-> hit[1], second |-> hit[2], type |-> type, heal |-> type = "healing",
                   by |-> "none", asked |-> FALSE]

(* Between players a hit is halved; a critical one is half as strong again. *)
Halved(v, d) ==
  IF v # Player \/ d.heal THEN d ELSE [d EXCEPT !.first = @ \div 2, !.second = @ \div 2]
CriticalPart(d) == [d EXCEPT !.first = Percent(@, CriticalPercent),
                             !.second = Percent(@, CriticalPercent)]
Plus(d, e) == [d EXCEPT !.first = @ + e.first, !.second = @ + e.second]

(* The part of a damage that is leeched when n are hit, rounded up.  A        *)
(* mutant: as much from each as from one alone, and more for each.          *)
LeechShareEach(damage, n) == (damage * LeechPercent * (9 + n) + 999) \div 1000
LeechShare(damage, n) == (damage * LeechPercent * (9 + n) + 1000 * n - 1) \div (1000 * n)

Leech(t, damage, n) == [t EXCEPT !.health = Min({CasterHealth, @ + LeechShare(damage, n)})]

(* History: drains of mana, and what heals, itself or by a script, are other. *)
Mark(type) == IF type \in {"element", "undefined"} THEN type ELSE "other"
Marked(t, type) == [t EXCEPT !.last = Mark(type)]

(* History: what a victim has lost since the state r.                        *)
Count(r, new) ==
  [new EXCEPT !.taken = @ + Max({0, r.health - new.health}) + Max({0, r.mana - new.mana})]

(* doTargetCombat: blocked, then halved, then critical.                     *)
Counts(t, v, c) ==
  [t EXCEPT !.of[v] = Count(@, c.r), !.last = IF c.d.type = "healing" THEN "other" ELSE @]
Settled(t, v, c, leech, n) ==
  IF c.ok /\ leech THEN Leech(Counts(t, v, c), c.d.first + c.d.second, n)
  ELSE Counts(t, v, c)

WithCritical(d, e, critical) == IF critical /\ ~d.heal THEN Plus(d, e) ELSE d

TargetChange(t, v, b, critical, w) ==
  IF b.all THEN Done(b.r, b.d, FALSE)
  ELSE CombatChangeHealth(v, b.r,
         WithCritical(Halved(v, b.d), CriticalPart(Halved(v, b.d)), critical), t.events, w)
TargetSettled(t, v, c, leech) == Settled(t, v, c, leech /\ c.d.type # "healing", 1)
DoTargetCombat(t, v, d, roll, critical, leech, w) ==
  IF d.type = "manadrain"
  THEN TargetSettled(t, v, CombatChangeMana(v, t.of[v], d, t.events, w, roll), leech)
  ELSE TargetSettled(t, v, TargetChange(t, v, CombatBlockHit(v, t.of[v], d, roll), critical, w), leech)

(* doAreaCombat: both the hit and what makes it critical are halved, then   *)
(* blocked; a drain of mana may be critical, too; what a script makes of it *)
(* is leeched even when it heals.                                           *)
AreaChange(u, v, h, b, w) ==
  IF b.all THEN Done(b.r, b.d, FALSE) ELSE CombatChangeHealth(v, b.r, b.d, u.events, w)
(* What was dealt is leeched in parts, one for each that was in the area. *)
Targets(u) == IF AllVictims \subseteq u.victims THEN 2 ELSE 1
AreaHit(u, v, d, h, roll, leech, w) ==
  IF d.type = "manadrain"
  THEN Settled(u, v, CombatChangeMana(v, u.of[v], h, u.events, w, roll), leech, Targets(u))
  ELSE Settled(u, v, AreaChange(u, v, h, CombatBlockHit(v, u.of[v], h, roll), w),
               leech /\ ~d.heal, Targets(u))
AreaOne(u, v, d, roll, critical, leech, w) ==
  AreaHit(u, v, d, WithCritical(Halved(v, d), Halved(v, CriticalPart(d)), critical), roll[v], leech, w)
DoAreaCombat(t, d, roll, critical, leech, w) ==
  LET After(u, v) == IF v \in t.victims THEN AreaOne(u, v, d, roll, critical, leech, w) ELSE u
  IN  After(After(t, Player), Monster)

-----------------------------------------------------------------------------
Types == {"element", "undefined", "manadrain", "healing"}
Counted(t) ==
  \A v \in t.victims : /\ t.of[v].credit <= MaxCredit /\ t.of[v].taken <= MaxCredit
                       /\ t.of[v].deaths <= IF t.victims \in InDetail THEN 1 ELSE MaxDeaths

TargetCombat(v, hit, type, roll, critical, leech, w) ==
  \E t \in {DoTargetCombat(Marked(s, type), v, Hit(hit, type), roll, critical, leech, w)} :
    Counted(t) /\ s' = t

AreaCombat(hit, type, roll, critical, leech, w) ==
  \E t \in {DoAreaCombat(Marked(s, type), Hit(hit, type), roll, critical, leech, w)} :
    Counted(t) /\ s' = t

(* Creature::onThink, once a second. *)
Think(v) ==
  /\ s.of[v].blocks < MaxBlocks /\ s.victims \in InDetail
  /\ s' = [s EXCEPT !.of[v].blocks = @ + 1]

(* The mana shield begins and ends; mana and charges are there again.        *)
CastManaShield == Player \in s.victims /\ s' = [s EXCEPT !.of[Player].shield = ~@]
Recover ==
  /\ Player \in s.victims
  /\ s' = [s EXCEPT !.of[Player].mana = MaxMana,
                    !.of[Player].charges = IF s.victims \in InDetail THEN MaxCharges ELSE @]

(* ConditionRegeneration, which heals whoever is about to die, too, in the    *)
(* think in which a wound has killed it; a level that is gained does so      *)
(* later as well (Player::addExperience).                                   *)
Regenerate(v) ==
  /\ s.of[v].health < MaxHealth
  /\ s' = [s EXCEPT !.of[v].health = @ + 1]

(* executeDeath, of whoever was healed meanwhile, too.  The victim is        *)
(* removed and another one comes; or a player, killed in a zone for that,    *)
(* stays, thinks and idles, with the deaths that are still to come.          *)
ExecuteDeath(v) == s.of[v].deaths > 0 /\ s' = [s EXCEPT !.of[v] = Fresh(v)]
Revived(r) ==
  [r EXCEPT !.health = MaxHealth, !.shield = FALSE, !.deaths = @ - 1, !.credit = 0, !.taken = 0,
            !.blocks = IF s.victims \in InDetail THEN Min({MaxBlocks, @ + 1}) ELSE @]
Revive ==
  /\ Player \in s.victims /\ s.of[Player].deaths > 0
  /\ s' = [s EXCEPT !.of[Player] = Revived(@)]

(* onIdleStatus *)
Idle(v) ==
  /\ s.of[v].health > 0 /\ s.of[v].taken > 0
  /\ s' = [s EXCEPT !.of[v].credit = 0, !.of[v].taken = 0]

(* What others do to the caster.                                            *)
Suffer == s' = [s EXCEPT !.health = 1]

RegisterEvent(e) ==
  /\ s.victims \in InDetail /\ Cardinality(s.events \cup {e}) <= MaxScripts
  /\ s' = [s EXCEPT !.events = @ \cup {e}]
UnregisterEvent(e) == e \in s.events /\ s' = [s EXCEPT !.events = @ \ {e}]

(* What is drawn, where it makes a difference.                              *)
Criticals(type) == IF type # "healing" THEN BOOLEAN ELSE {FALSE}
Leeches(type) ==
  IF s.health < CasterHealth /\ (type # "healing" \/ "health" \in s.events)
  THEN BOOLEAN ELSE {FALSE}
Kinds == IF Shielded \/ Monster \in s.victims THEN Types ELSE Types \ {"undefined"}
Rolls(type) ==
  {roll \in [s.victims -> Roll] :
     \A v \in s.victims : s.of[v].blocks = 0 \/ type \in {"manadrain", "healing"}
                            => roll[v].shield = Defense}

Next ==
  \/ \E hit \in Hits, type \in Kinds :
       \E w \in Words(Asked(s.events, type)), roll \in Rolls(type),
         critical \in Criticals(type), leech \in Leeches(type) :
         \/ \E v \in s.victims : TargetCombat(v, hit, type, roll[v], critical, leech, w)
         \/ AreaCombat(hit, type, roll, critical, leech, w)
  \/ \E v \in s.victims : Think(v) \/ Regenerate(v) \/ ExecuteDeath(v) \/ Idle(v)
  \/ \E e \in {"health", "mana", "prepare"} : RegisterEvent(e) \/ UnregisterEvent(e)
  \/ CastManaShield \/ Recover \/ Revive \/ Suffer

Spec == Init /\ [][Next]_s

-----------------------------------------------------------------------------
(* The caster is credited with what it has taken, health and mana, no more   *)
(* and no less, whichever of shield, armor, item and scripts was in between *)
(* and although a hit may begin anew in the middle; experience, loot and    *)
(* murders go by it (damageMap).                                            *)
CreditedAsTaken == \A v \in s.victims : s.of[v].credit = s.of[v].taken

(* Who has no health left is about to die, though it was healed, killed      *)
(* again and died in between.  (Who is about to die may have health: it is    *)
(* healed by a regeneration while executeDeath waits, and dies all the same.) *)
TheDeadDie == \A v \in s.victims : s.of[v].health = 0 => s.of[v].deaths > 0

(* What one hit may do, whatever scripts answer in the middle of it.  It     *)
(* hurts one with a mana shield only when nothing of the mana is left; and   *)
(* what is leeched is no more than the health that the victims lose, however *)
(* many there are and whatever was rounded.  The second is not so for mana   *)
(* drains, of which the whole demand is leeched, nor for an area's hit that a *)
(* script turned into healing, of which all that it heals is leeched.        *)
LossOf(v) == IF v \in s.victims THEN Max({0, s.of[v].health - s'.of[v].health}) ELSE 0
HitStep ==
  /\ \A v \in s.victims :
       s.of[v].shield /\ s'.of[v].health < s.of[v].health /\ s'.last = "element"
         => s'.of[v].mana = 0
  /\ s'.last # "other" /\ s'.health > s.health =>
       s'.health - s.health <= LossOf(Player) + LossOf(Monster)
HitsMeasured == [][HitStep]_s
=============================================================================
