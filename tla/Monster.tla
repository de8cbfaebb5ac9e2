------------------------------- MODULE Monster -------------------------------
(***************************************************************************)
(* Monsters among players (monster.cpp, creature.cpp, game.cpp): whom they *)
(* see, hunt and follow, when they are idle, whose summons they are, and   *)
(* the references that keep a creature's object alive while lists point to *)
(* it.                                                                     *)
(*                                                                         *)
(* Abstracted: who is at the same place sees each other, who is not does   *)
(* not; a monster picks any target its search may pick; paths are found or *)
(* not; players stand (no chase mode), have no flags and no party; there   *)
(* are no conditions.                                                      *)
(* The friend lists, which nothing but scripts reads, are left out; the    *)
(* target lists are sets: their order only biases the pick.  getSpectators *)
(* returns the creatures in some order (ord), the same in one handler.     *)
(***************************************************************************)
EXTENDS Naturals, Sequences, FiniteSets, SequencesExt

CONSTANTS Player, Mob, Nobody, Place,
          Despawn,            \* what the configuration does to strays
          Orders              \* the orders of spectators that are tried

(* Assumed where this module is instantiated. *)
MonsterAssumption ==
  /\ Nobody \notin Player \cup Mob /\ Despawn \subseteq {"remove", "teleport"}
  /\ Orders \subseteq SetToSeqs(Player \cup Mob)

VARIABLE s

Creature == Player \cup Mob

TypeOK ==
  s \in [status : [Creature -> {"new", "in", "removed", "freed"}],
         place : [Creature -> Place],
         dying : SUBSET Mob,                  \* health 0
         idle : SUBSET Mob,
         check : SUBSET Creature,             \* creatureCheck
         inVector : SUBSET Creature,          \* inCheckCreaturesVector
         targets : [Mob -> SUBSET Creature],
         attacked : [Creature -> Creature \cup {Nobody}],
         follow : [Mob -> Creature \cup {Nobody}],
         master : [Mob -> Creature \cup {Nobody}],
         refs : [Creature -> Nat],
         release : [Creature -> Nat]]         \* ToReleaseCreatures

Init ==
  \E home \in Place :
    s = [status |-> [c \in Creature |-> "new"], place |-> [c \in Creature |-> home],
         dying |-> {}, idle |-> Mob, check |-> {}, inVector |-> {},
         targets |-> [m \in Mob |-> {}],
         attacked |-> [c \in Creature |-> Nobody], follow |-> [m \in Mob |-> Nobody],
         master |-> [m \in Mob |-> Nobody],
         refs |-> [c \in Creature |-> 0], release |-> [c \in Creature |-> 0]]

-----------------------------------------------------------------------------
In(t, c) == t.status[c] = "in"
Sees(t, a, b) == t.place[a] = t.place[b]
Spectators(t, ord, places) == SelectSeq(ord, LAMBDA c : In(t, c) /\ t.place[c] \in places)
Summons(t, c) == {m \in Mob : t.master[m] = c}
IsSummon(t, m) == t.master[m] # Nobody
OfPlayer(t, c) == c \in Mob /\ t.master[c] \in Player

Increment(t, cs) == [t EXCEPT !.refs = [c \in Creature |-> IF c \in cs THEN @[c] + 1 ELSE @[c]]]
Decrement(t, cs) == [t EXCEPT !.refs = [c \in Creature |-> IF c \in cs THEN @[c] - 1 ELSE @[c]]]

(* addTarget, removeTarget, clearTargetList *)
AddTarget(t, m, c) ==
  [Increment(t, {c} \ t.targets[m]) EXCEPT !.targets[m] = @ \cup {c}]
RemoveTargets(t, m, cs) ==
  [Decrement(t, t.targets[m] \cap cs) EXCEPT !.targets[m] = @ \ cs]
ClearTargetList(t, m) == RemoveTargets(t, m, Creature)

IsOpponent(t, m, c) ==
  IF OfPlayer(t, m) THEN c # t.master[m] ELSE c \in Player \/ OfPlayer(t, c)

(* Game::addCreatureCheck, Game::removeCreatureCheck *)
AddCreatureCheck(t, c) ==
  [Increment(t, {c} \ t.inVector) EXCEPT !.check = @ \cup {c}, !.inVector = @ \cup {c}]
RemoveCreatureCheck(t, c) == [t EXCEPT !.check = @ \ (t.inVector \cap {c})]

(* setIdle.  Mutant: the monster that wakes up is not checked again. *)
SetIdleUnchecked(t, m, idle) ==
  IF t.status[m] = "removed" \/ m \in t.dying THEN t
  ELSE IF idle THEN RemoveCreatureCheck(ClearTargetList([t EXCEPT !.idle = @ \cup {m}], m), m)
  ELSE IF m \in t.inVector THEN [t EXCEPT !.idle = @ \ {m}]
  ELSE AddCreatureCheck([t EXCEPT !.idle = @ \ {m}], m)
SetIdle(t, m, idle) ==
  IF t.status[m] = "removed" \/ m \in t.dying THEN t
  ELSE IF idle THEN RemoveCreatureCheck(ClearTargetList([t EXCEPT !.idle = @ \cup {m}], m), m)
  ELSE AddCreatureCheck([t EXCEPT !.idle = @ \ {m}], m)

UpdateIdleStatus(t, m) ==
  SetIdle(t, m, ~ IsSummon(t, m) /\ t.targets[m] = {})

(* onCreatureFound, onCreatureEnter *)
OnCreatureFound(t, m, c) ==
  LET hunted == IF IsOpponent(t, m, c) THEN AddTarget(t, m, c) ELSE t
  IN  IF Sees(t, m, c) THEN UpdateIdleStatus(hunted, m) ELSE t

(* onCreatureLeave *)
OnCreatureLeave(t, m, c) ==
  IF IsOpponent(t, m, c) THEN UpdateIdleStatus(RemoveTargets(t, m, {c}), m) ELSE t

(* updateTargetList *)
UpdateTargetList(t, ord, m) ==
  LET lost == {c \in Creature : c \in t.dying \/ ~ Sees(t, m, c)}
      swept == RemoveTargets(t, m, lost)
  IN  FoldLeft(LAMBDA u, c : IF c = m THEN u ELSE OnCreatureFound(u, m, c),
               swept, Spectators(t, ord, {t.place[m]}))

(* Creature::setAttackedCreature: summons are sent at what their master attacks *)
RECURSIVE SetAttacked(_, _, _)
SetAttacked(t, c, target) ==
  IF target # Nobody /\ ~ Sees(t, c, target) THEN [t EXCEPT !.attacked[c] = Nobody]
  ELSE FoldLeft(LAMBDA u, m : SetAttacked(u, m, target),
                [t EXCEPT !.attacked[c] = target], SetToSeq(Summons(t, c)))

(* Creature::setFollowCreature *)
SetFollow(t, m, c) ==
  [t EXCEPT !.follow[m] = IF c # Nobody /\ c # @ /\ ~ Sees(t, m, c) THEN Nobody ELSE c]

(* isTarget, selectTarget *)
SelectTarget(t, m, c) ==
  IF In(t, c) /\ Sees(t, m, c) /\ c \in t.targets[m]
  THEN SetFollow(SetAttacked(t, m, c), m, c) ELSE t

(* Creature::onCreatureDisappear.  Mutant: only the pursuit ends. *)
OnDisappearStillAttacks(t, x, c) ==
  IF x \in Mob /\ t.follow[x] = c THEN SetFollow(t, x, Nobody) ELSE t
OnDisappear(t, x, c) ==
  LET calm == IF t.attacked[x] = c THEN SetAttacked(t, x, Nobody) ELSE t
  IN  IF x \in Mob /\ t.follow[x] = c THEN SetFollow(calm, x, Nobody) ELSE calm

(* Creature::setMaster *)
SetMaster(t, m, c) ==
  LET taken == IF c = Nobody THEN t ELSE Increment(t, {m})
  IN  [Decrement(taken, IF IsSummon(t, m) THEN {m} ELSE {}) EXCEPT !.master[m] = c]

-----------------------------------------------------------------------------
(* Game::placeCreature *)
OnAppear(t, ord, x, c) ==
  IF x \in Player THEN t
  ELSE IF x = c THEN UpdateIdleStatus(UpdateTargetList(t, ord, x), x)
  ELSE OnCreatureFound(t, x, c)

PlaceCreature(t, ord, c, p) ==
  LET there == Increment([t EXCEPT !.status[c] = "in", !.place[c] = p], {c})
      seen == FoldLeft(LAMBDA u, x : OnAppear(u, ord, x, c), there, Spectators(there, ord, {p}))
  IN  AddCreatureCheck(seen, c)

(* onCreatureMove: what follows or attacks loses who is out of sight; a      *)
(* monster may turn on who stands in its way (top), and hunts if it did not. *)
OnMove(t, ord, x, c, from, top) ==
  LET gone == {y \in Creature : c \in {x, y} /\ ~ Sees(t, x, y)}
      Drop(u, y) == OnDisappear(u, x, y)
      lost == FoldLeft(Drop, t, SetToSeq(gone))
      looked == IF Sees(t, x, c) /\ from # t.place[x] THEN OnCreatureFound(lost, x, c)
                ELSE IF ~ Sees(t, x, c) /\ from = t.place[x] THEN OnCreatureLeave(lost, x, c)
                ELSE lost
      up == UpdateIdleStatus(looked, x)
  IN  IF x \in Player THEN lost
      ELSE IF x = c THEN UpdateIdleStatus(UpdateTargetList(lost, ord, x), x)
      ELSE IF IsSummon(up, x) THEN up
      ELSE IF up.follow[x] # Nobody
           THEN IF top # x /\ top # up.follow[x] /\ IsOpponent(up, x, top)
                THEN SelectTarget(up, x, top) ELSE up
      ELSE IF IsOpponent(up, x, c) THEN SelectTarget(up, x, c) ELSE up

MoveCreature(t, ord, c, p, top) ==
  LET there == [t EXCEPT !.place[c] = p]
  IN  FoldLeft(LAMBDA u, x : OnMove(u, ord, x, c, t.place[c], top), there,
               Spectators(there, ord, {p, t.place[c]}))

(* onRemoveCreature of Creature and Monster *)
OnRemove(t, x, c) ==
  LET calm == OnDisappear(t, x, c)
      free == IF calm.status[calm.master[x]] # "removed" THEN SetMaster(calm, x, Nobody) ELSE calm
  IN  IF x \in Player THEN calm
      ELSE IF x = c THEN SetIdle(IF IsSummon(calm, x) THEN free ELSE calm, x, TRUE)
      ELSE OnCreatureLeave(calm, x, c)

(* Game::removeCreature: the summons go with their master *)
RECURSIVE RemoveCreature(_, _, _)
RemoveCreature(t, ord, c) ==
  LET told == FoldLeft(LAMBDA u, x : OnRemove(u, x, c), t, Spectators(t, ord, {t.place[c]}))
      away == RemoveCreatureCheck([told EXCEPT !.status[c] = "removed", !.release[c] = @ + 1], c)
  IN  IF ~ In(t, c) THEN t
      ELSE FoldLeft(LAMBDA u, m : RemoveCreature(u, ord, m), away, SetToSeq(Summons(away, c)))

(* changeHealth of a monster *)
Hurt(t, m) == SetIdle(t, m, FALSE)
Kill(t, m) == [Hurt(t, m) EXCEPT !.dying = @ \cup {m}]

(* onDeath, Monster::death; removeMaster gives back the master's reference *)
Death(t, ord, m) ==
  LET calm == SetAttacked(t, m, Nobody)
      Orphan(u, x) == [Decrement(Kill(u, x), {x}) EXCEPT !.master[x] = Nobody]
      orphaned == FoldLeft(Orphan, calm, SetToSeq(Summons(calm, m)))
      cleared == ClearTargetList(orphaned, m)
      free == IF IsSummon(cleared, m) THEN SetMaster(cleared, m, Nobody) ELSE cleared
  IN  RemoveCreature(free, ord, m)

-----------------------------------------------------------------------------
Alive(m) == In(s, m) /\ m \notin s.dying

(* A player enters the game, or a spawn, raid or script places a monster *)
Enter(c) ==
  /\ s.status[c] = "new"
  /\ \E ord \in Orders, p \in Place : s' = PlaceCreature(s, ord, c, p)

(* A step or a teleport *)
Step(c) ==
  /\ In(s, c)
  /\ \E ord \in Orders, p \in Place \ {s.place[c]}, top \in Creature :
       s' = MoveCreature(s, ord, c, p, top)

(* A logout, or removal by a script *)
Leave(c) == In(s, c) /\ \E ord \in Orders : s' = RemoveCreature(s, ord, c)

(* playerSetAttackedCreature *)
Attack(p, c) ==
  /\ In(s, p) /\ p # c
  /\ \/ s' = SetAttacked(s, p, Nobody)
     \/ In(s, c) /\ s' = SetAttacked(s, p, c)

(* A monster is hit, and lives or waits for executeDeath *)
Hit(m) == Alive(m) /\ s' \in {Hurt(s, m), Kill(s, m)}
ExecuteDeath(m) == In(s, m) /\ m \in s.dying /\ \E ord \in Orders : s' = Death(s, ord, m)

(* creature:addSummon(monster) and Position:notifySummonAppear *)
AddSummon(p, m) ==
  LET still == [SetAttacked(s, m, Nobody) EXCEPT !.follow[m] = Nobody]
      mine == SetMaster(still, m, p)
      near == {x \in Mob \ {m} : In(s, x) /\ Sees(s, x, m)}
  IN  /\ In(s, p) /\ Alive(m) /\ Sees(s, p, m)
      /\ s' = FoldLeft(LAMBDA u, x : AddTarget(u, x, m), mine, SetToSeq(near))

(* creature:removeSummon(monster) *)
RemoveSummon(m) ==
  /\ In(s, m) /\ s.master[m] \in Player
  /\ s' = SetMaster([SetAttacked(s, m, Nobody) EXCEPT !.follow[m] = Nobody], m, Nobody)

(* Monster::onThink, of a monster that strayed from its spawn and of one    *)
(* that did not.                                                            *)
Stray(m) ==
  /\ m \in s.check /\ In(s, m) /\ m \notin s.dying
  /\ \/ "remove" \in Despawn /\ \E ord \in Orders : s' = RemoveCreature(s, ord, m)
     \/ /\ "teleport" \in Despawn
        /\ \E ord \in Orders, home \in Place \ {s.place[m]} :
             s' = SetIdle(MoveCreature(s, ord, m, home, m), m, TRUE)

ThinkSummon(t, m) ==
  LET boss == t.master[m]
  IN  IF t.attacked[m] = Nobody
      THEN IF t.attacked[boss] # Nobody THEN SelectTarget(t, m, t.attacked[boss])
           ELSE SetFollow(t, m, boss)
      ELSE IF t.attacked[m] = m THEN SetFollow(t, m, Nobody)
      ELSE SetFollow(t, m, t.attacked[m])

Think(m) ==
  LET t == UpdateIdleStatus(s, m)
  IN  /\ m \in s.check /\ In(s, m) /\ m \notin s.dying
      /\ \/ IsSummon(t, m) /\ s' = ThinkSummon(t, m)
         \/ ~ IsSummon(t, m) /\ s' \in {t} \cup {SelectTarget(t, m, c) : c \in t.targets[m]}

(* goToFollowCreature and onFollowCreatureComplete: a summon gives up a      *)
(* target it finds no way to.  Mutant: with its place in the list only.      *)
GiveUpUncounted(t, m, c) == [t EXCEPT !.targets[m] = @ \ {c}]
GiveUp(t, m, c) == RemoveTargets(t, m, {c})
NoWay(m) ==
  /\ m \in s.check /\ Alive(m) /\ IsSummon(s, m) /\ s.follow[m] \in s.targets[m]
  /\ s' = GiveUp(s, m, s.follow[m])

(* onThinkDefense: the monster calls another, which sees whom it is for only *)
(* after it has been placed.                                                 *)
Summon(m, x) ==
  /\ m \in s.check \ s.idle /\ Alive(m) /\ ~ IsSummon(s, m) /\ Summons(s, m) = {}
  /\ s.status[x] = "new"
  /\ \E ord \in Orders : s' = SetMaster(PlaceCreature(s, ord, x, s.place[m]), x, m)

(* cleanup: an object without references is deleted (~Monster, ~Creature) *)
Destroy(t, c) ==
  LET orphaned == FoldLeft(LAMBDA u, m : [Decrement(SetAttacked(u, m, Nobody), {m})
                                            EXCEPT !.master[m] = Nobody],
                           t, SetToSeq(Summons(t, c)))
      gone == [orphaned EXCEPT !.status[c] = "freed"]
  IN  IF t.refs[c] # 0 \/ t.status[c] = "freed" THEN t
      ELSE IF c \in Mob THEN ClearTargetList(gone, c) ELSE gone
RECURSIVE DestroyAll(_)
DestroyAll(t) ==
  LET dead == {c \in Creature : t.refs[c] = 0 /\ t.status[c] \notin {"new", "freed"}}
  IN  IF dead = {} THEN t ELSE DestroyAll(FoldLeft(Destroy, t, SetToSeq(dead)))

Cleanup(t) ==
  DestroyAll([t EXCEPT !.refs = [c \in Creature |-> @[c] - t.release[c]],
                       !.release = [c \in Creature |-> 0]])

(* checkCreatures takes those that need no check off a list, and cleans up *)
CheckCreatures ==
  \E cs \in SUBSET (s.inVector \ s.check) :
    /\ cs # {} \/ \E c \in Creature : s.release[c] > 0
    /\ s' = Cleanup([s EXCEPT !.inVector = @ \ cs,
                              !.release = [c \in Creature |-> @[c] + IF c \in cs THEN 1 ELSE 0]])

Next ==
  \/ \E c \in Creature : Enter(c) \/ Step(c) \/ Leave(c)
  \/ \E p \in Player, c \in Creature : Attack(p, c)
  \/ \E m \in Mob : \/ Hit(m) \/ ExecuteDeath(m) \/ RemoveSummon(m)
                    \/ Stray(m) \/ Think(m) \/ NoWay(m)
  \/ \E m \in Mob : \E x \in Mob \ {m} : Summon(m, x)
  \/ \E p \in Player, m \in Mob : AddSummon(p, m)
  \/ CheckCreatures

Spec == Init /\ [][Next]_s

-----------------------------------------------------------------------------
(* Every reference counted is held by something: the map, the list of       *)
(* creatures to check, a list to release, a target list, or by its master.  *)
ReferencesCounted ==
  \A c \in Creature :
    s.refs[c] = (IF In(s, c) THEN 1 ELSE 0) + (IF c \in s.inVector THEN 1 ELSE 0)
                + s.release[c] + (IF c \in Mob /\ IsSummon(s, c) THEN 1 ELSE 0)
                + Cardinality({m \in Mob : c \in s.targets[m]})

(* The pointers without a reference: nobody in the game attacks, follows or  *)
(* obeys a creature whose object may be gone.                                *)
NoneAfterTheGone ==
  \A c \in Creature : In(s, c) =>
    /\ s.attacked[c] # Nobody => In(s, s.attacked[c])
    /\ c \in Mob => \A x \in {s.follow[c], s.master[c]} : x = Nobody \/ In(s, x)

(* A monster that is awake is checked. *)
AwakeThinks == \A m \in Mob : Alive(m) /\ m \notin s.idle => m \in s.check \cap s.inVector

(* Not so: the monster hunts everyone it sees and may hunt.  Monsters teleported *)
(* home forget those in sight; an idle one is not told of a new summon's arrival.*)
OpponentsKnown ==
  \A m \in Mob : \A c \in Creature \ {m} :
    Alive(m) /\ In(s, c) /\ Sees(s, m, c) /\ IsOpponent(s, m, c) => c \in s.targets[m]

(* Nor this: a killed summon has no master any more when the others are told *)
(* that it leaves, is taken for a friend, and stays in their target lists.   *)
TargetsAlive == \A m \in Mob : Alive(m) => \A c \in s.targets[m] : In(s, c)

=============================================================================
