------------------------------ MODULE Advance ------------------------------
(***************************************************************************)
(* Levels, skills and magic levels (player.cpp): what a player earns and   *)
(* loses moves it up and down, several levels at a time.                   *)
(*                                                                         *)
(* A skill and the magic level count up from what the last advance left,   *)
(* experience is a total.  The tables are parameters: ExpFor[l] is         *)
(* getExpForLevel(l), Tries[l] is getReqSkillTries or getReqMana of level  *)
(* l; where a table does not grow, advancing ends.  The gain per level in  *)
(* health stands for mana and capacity as well.  Scripts that change the   *)
(* amounts, changes of vocation, and what is shown, are left out.  Taking  *)
(* more mana than was ever spent wraps manaSpent below 0: not modelled.     *)
(***************************************************************************)
EXTENDS Integers, FiniteSets

CONSTANTS ExpFor, MaxExp,     \* experience of levels, from 1; what is earned at most
          Tries, MinLevel,    \* of skill levels; the lowest
          HPGain, Vocation,   \* HPGain[v] per level
          None, SafeLevel,    \* VOCATION_NONE; others keep the experience up to this level
          Amount              \* what is earned or lost at once

VARIABLE s

Levels == DOMAIN ExpFor
SkillLevels == DOMAIN Tries

(* total: what this skill has earned and not lost; there is no such field.  *)
TypeOK ==
  s \in [level : Levels, experience : Nat, healthMax : Int, vocation : Vocation,
         skill : SkillLevels, tries : Nat, total : Nat]

Init ==
  \E v \in Vocation :
    s = [level |-> 1, experience |-> 0, healthMax |-> HPGain[v], vocation |-> v,
         skill |-> MinLevel, tries |-> 0, total |-> 0]

-----------------------------------------------------------------------------
Grows(table, l) == l + 1 \in DOMAIN table /\ table[l] < table[l + 1]

(* addExperience: up while the experience is enough and the table grows *)
RECURSIVE LevelUp(_)
LevelUp(t) ==
  IF Grows(ExpFor, t.level) /\ t.experience >= ExpFor[t.level + 1]
  THEN LevelUp([t EXCEPT !.level = @ + 1, !.healthMax = @ + HPGain[t.vocation]]) ELSE t

(* removeExperience, and death: down while it is not.  Mutant: once. *)
LevelDownOnce(t) ==
  IF t.level > 1 /\ t.experience < ExpFor[t.level]
  THEN [t EXCEPT !.level = @ - 1, !.healthMax = @ - HPGain[t.vocation]] ELSE t
RECURSIVE LevelDown(_)
LevelDown(t) ==
  IF t.level > 1 /\ t.experience < ExpFor[t.level]
  THEN LevelDown([t EXCEPT !.level = @ - 1,
                           !.healthMax = IF @ < HPGain[t.vocation] THEN 0
                                         ELSE @ - HPGain[t.vocation]])
  ELSE t

(* addSkillAdvance, addManaSpent: what is left over at the top is lost *)
RECURSIVE SkillUp(_, _)
SkillUp(t, count) ==
  IF ~ Grows(Tries, t.skill) THEN t
  ELSE IF t.tries + count >= Tries[t.skill + 1]
  THEN SkillUp([t EXCEPT !.skill = @ + 1, !.tries = 0], count - (Tries[t.skill + 1] - t.tries))
  ELSE [t EXCEPT !.tries = @ + count]

(* removeSkillTries, removeManaSpent.  Mutant: the level below starts with   *)
(* what the level above needs more.                                          *)
RECURSIVE SkillDownNext(_, _)
SkillDownNext(t, count) ==
  IF count <= t.tries THEN [t EXCEPT !.tries = @ - count]
  ELSE IF t.skill = MinLevel THEN [t EXCEPT !.tries = 0]
  ELSE SkillDownNext([t EXCEPT !.skill = @ - 1,
                               !.tries = Tries[IF Grows(Tries, t.skill) THEN t.skill + 1 ELSE t.skill]],
                     count - t.tries)
RECURSIVE SkillDown(_, _)
SkillDown(t, count) ==
  IF count <= t.tries THEN [t EXCEPT !.tries = @ - count]
  ELSE IF t.skill = MinLevel THEN [t EXCEPT !.tries = 0]
  ELSE SkillDown([t EXCEPT !.skill = @ - 1, !.tries = Tries[t.skill]], count - t.tries)

-----------------------------------------------------------------------------
(* What the tries of a skill add up to. *)
RECURSIVE Sum(_)
Sum(l) == IF l = MinLevel THEN 0 ELSE Tries[l] + Sum(l - 1)
Earned(t) == Sum(t.skill) + t.tries
Top == Sum(CHOOSE l \in SkillLevels : ~ Grows(Tries, l))

AddExperience(n) ==
  /\ Grows(ExpFor, s.level) /\ s.experience + n <= MaxExp
  /\ s' = LevelUp([s EXCEPT !.experience = @ + n])

RemoveExperience(n) ==
  /\ s.experience > 0
  /\ s' = LevelDown([s EXCEPT !.experience = IF @ < n THEN 0 ELSE @ - n])

AddSkillAdvance(n) ==
  s' = [SkillUp(s, n) EXCEPT !.total = IF @ + n > Top THEN Top ELSE @ + n]

(* What was trained while away, by a script: a skill at its top learns nothing *)
AddOfflineTrainingTries(n) == Grows(Tries, s.skill) /\ AddSkillAdvance(n)

RemoveSkillTries(n) ==
  s' = [SkillDown(s, n) EXCEPT !.total = IF @ < n THEN 0 ELSE @ - n]

(* Player::death loses a part of all of them, rounded down *)
Death(part) ==
  LET lost == IF s.vocation = None \/ s.level > SafeLevel
              THEN [s EXCEPT !.experience = @ - @ \div part] ELSE s
  IN  s' = [SkillDown(LevelDown(lost), Earned(s) \div part)
              EXCEPT !.total = @ - @ \div part]

Next ==
  \/ \E n \in Amount : \/ AddExperience(n) \/ RemoveExperience(n)
                       \/ AddSkillAdvance(n) \/ RemoveSkillTries(n)
                       \/ AddOfflineTrainingTries(n)
  \/ Death(2) \/ Death(10)

Spec == Init /\ [][Next]_s

-----------------------------------------------------------------------------
(* However much is earned and lost at once and in whatever order: the level *)
(* is the one of the experience, with the health of that level, and no try  *)
(* of a skill is lost or won on the way up and down.                        *)
LevelsAddUp ==
  /\ s.experience >= ExpFor[s.level]
  /\ Grows(ExpFor, s.level) => s.experience < ExpFor[s.level + 1]
  /\ s.healthMax = s.level * HPGain[s.vocation]
  /\ Earned(s) = s.total
  /\ Grows(Tries, s.skill) => s.tries < Tries[s.skill + 1]
=============================================================================
