-------------------------------- MODULE Speed --------------------------------
(***************************************************************************)
(* What changes the speed of a player: haste and paralysis (creature.cpp,  *)
(* condition.cpp), boots and a ring (movement.cpp) and mounts (player.cpp, *)
(* game.cpp).  varSpeed is one number; each of them adds to it when it     *)
(* begins and must give back the same when it ends.                        *)
(*                                                                         *)
(* Abstracted: the time a condition has left is "some", "none" (the next   *)
(* executeConditions ends it) or "forever"; a walk delay may or may not be *)
(* running when it is asked for; a mount is named by its speed, as the     *)
(* boots and the ring are; random speeds are members of Haste and Slow.    *)
(* The ring is of the kind that is another type while it is worn.          *)
(***************************************************************************)
EXTENDS Integers, Sequences, SequencesExt, FiniteSetsExt

CONSTANTS Mount, Haste, Slow,     \* sets of speeds; paralysis takes one away
          Boots, Ring,            \* their speeds
          MaxTasks,               \* of forceAddCondition, forceRemoveCondition
          MaxAstray               \* bound on what goes astray

(* Assumed where this module is instantiated. *)
SpeedAssumption ==
  /\ Mount \subseteq Nat \ {0} /\ Haste \subseteq Nat /\ Slow \subseteq Nat
  /\ Boots \in Nat /\ Ring \in Nat
  /\ MaxTasks \in Nat /\ MaxAstray \in Nat

VARIABLE s

Types == {"haste", "slow"}
Delta(type) == IF type = "haste" THEN Haste ELSE {-d : d \in Slow}
Other(type) == IF type = "haste" THEN "slow" ELSE "haste"

Condition == [delta : Delta("haste") \cup Delta("slow"), left : {"some", "none", "forever"}]
None == [delta |-> 0, left |-> "gone"]
Cure == [type |-> "slow", cond |-> None]

Slots == {"feet", "ring"}

TypeOK == s \in [online : BOOLEAN, speed : Int,
                 cond : [Types -> Condition \cup {None}],
                 tasks : Seq([type : Types, cond : Condition \cup {None}]),
                 outfit : BOOLEAN,                    \* CONDITION_OUTFIT
                 owned : SUBSET Mount,
                 current : Mount \cup {0},            \* getCurrentMount()
                 look : Mount \cup {0},               \* defaultOutfit.lookMount
                 worn : [Slots -> BOOLEAN],
                 active : BOOLEAN,                    \* the ring has its worn type
                 fit : BOOLEAN,                       \* for what the items demand
                 enabled : [Slots -> BOOLEAN]]        \* inventoryAbilities

Init == s = [online |-> FALSE, speed |-> 0, cond |-> [c \in Types |-> None], tasks |-> <<>>,
             outfit |-> FALSE, owned |-> {}, current |-> 0, look |-> 0,
             worn |-> [l \in Slots |-> FALSE], active |-> FALSE, fit |-> TRUE,
             enabled |-> [l \in Slots |-> FALSE]]

-----------------------------------------------------------------------------
(* Conditions *)

ChangeSpeed(t, d) == [t EXCEPT !.speed = @ + d]

(* hasCondition: one whose time ran out does not count. *)
Has(t, type) == t.cond[type].left \in {"some", "forever"}

EndCondition(t, type) == [ChangeSpeed(t, -t.cond[type].delta) EXCEPT !.cond[type] = None]

(* removeCondition, with a walk delay or not: paralysis is removed later.   *)
RemoveCondition(t, type, delay, force) ==
  IF t.cond[type] = None THEN t
  ELSE IF type = "slow" /\ delay /\ ~force THEN [t EXCEPT !.tasks = Append(@, Cure)]
  ELSE EndCondition(t, type)

(* onAddCondition *)
OnAdd(t, type, delay) ==
  IF Has(t, Other(type)) THEN RemoveCondition(t, Other(type), delay, FALSE) ELSE t

(* ConditionSpeed::addCondition.  A mutant: the new speed on top of the old. *)
RenewOnTop(t, type, cond) ==
  LET old == t.cond[type]
  IN  IF old.left = "forever" /\ cond.left # "forever" THEN t
      ELSE [ChangeSpeed(t, cond.delta) EXCEPT !.cond[type] = cond]
Renew(t, type, cond) ==
  LET old == t.cond[type]
  IN  IF old.left = "forever" /\ cond.left # "forever" THEN t
      ELSE [ChangeSpeed(t, cond.delta - old.delta) EXCEPT !.cond[type] = cond]

AddCondition(t, type, cond, delay, force) ==
  IF ~force /\ type = "haste" /\ Has(t, "slow") /\ delay
  THEN [t EXCEPT !.tasks = Append(@, [type |-> type, cond |-> cond])]
  ELSE IF t.cond[type] # None THEN Renew(t, type, cond)
  ELSE OnAdd([ChangeSpeed(t, cond.delta) EXCEPT !.cond[type] = cond], type, delay)

-----------------------------------------------------------------------------
(* Mounts *)

IsMounted(t) == t.look # 0

Dismount(t) == [ChangeSpeed(t, -t.current) EXCEPT !.look = 0]

(* Player::onAddCondition(CONDITION_OUTFIT), of a condition that is new *)
AddOutfit(t) == IF t.outfit THEN t ELSE [Dismount(t) EXCEPT !.outfit = TRUE]

-----------------------------------------------------------------------------
(* Equipment: MoveEvent::EquipItem and DeEquipItem, called when a thing was *)
(* added to a slot or removed from it.                                      *)

Bonus(slot) == IF slot = "feet" THEN Boots ELSE Ring

EquipItem(t, slot) ==
  IF ~t.fit \/ t.enabled[slot] THEN t
  ELSE [ChangeSpeed(t, Bonus(slot)) EXCEPT !.enabled[slot] = TRUE,
                                           !.active = @ \/ slot = "ring"]

(* A mutant: the ability is taken back, but the slot still counts as used.  *)
DeEquipItemStillEnabled(t, slot) ==
  IF ~t.enabled[slot] THEN t ELSE [ChangeSpeed(t, -Bonus(slot)) EXCEPT !.active = @ /\ slot # "ring"]
DeEquipItem(t, slot) ==
  IF ~t.enabled[slot] THEN t
  ELSE [ChangeSpeed(t, -Bonus(slot)) EXCEPT !.enabled[slot] = FALSE,
                                            !.active = @ /\ slot # "ring"]

-----------------------------------------------------------------------------
(* What the conditions, the items and the mount of a player add up to *)
Owed(t) ==
  t.cond["haste"].delta + t.cond["slow"].delta
  + (IF t.enabled["feet"] THEN Boots ELSE 0) + (IF t.enabled["ring"] THEN Ring ELSE 0)
  + (IF IsMounted(t) THEN t.current ELSE 0)

Astray(t) == IF t.online THEN t.speed - Owed(t) ELSE 0

-----------------------------------------------------------------------------
Cast(type, delta, left, delay, force) ==
  /\ s.online /\ Len(s.tasks) < MaxTasks
  /\ s' = AddCondition(s, type, [delta |-> delta, left |-> left], delay, force)

Dispel(type, delay) ==
  /\ s.online /\ Len(s.tasks) < MaxTasks /\ s.cond[type] # None
  /\ s' = RemoveCondition(s, type, delay, FALSE)

RunOut(type) ==
  /\ s.cond[type].left = "some"
  /\ s' = [s EXCEPT !.cond[type].left = "none"]

(* executeConditions *)
ExecuteConditions(type) ==
  /\ s.online /\ s.cond[type].left = "none"
  /\ s' = EndCondition(s, type)

(* forceAddCondition or forceRemoveCondition, of the player it was for *)
RunTask(k, delay) ==
  LET task == s.tasks[k]
      rest == [s EXCEPT !.tasks = RemoveAt(@, k)]
  IN  s' = IF task = Cure THEN RemoveCondition(rest, "slow", delay, TRUE)
           ELSE AddCondition(rest, task.type, task.cond, delay, TRUE)

Disguise == s.online /\ -Astray(s) <= MaxAstray /\ s' = AddOutfit(s)

EndDisguise == s.online /\ s.outfit /\ s' = [s EXCEPT !.outfit = FALSE]

(* tameMount, untameMount *)
Tame(m) == s.online /\ m \notin s.owned /\ s' = [s EXCEPT !.owned = @ \cup {m}]

Untame(m) ==
  /\ s.online /\ m \in s.owned
  /\ LET lost == [s EXCEPT !.owned = @ \ {m}]
         off  == IF IsMounted(lost) THEN Dismount(lost) ELSE lost
     IN  s' = IF s.current = m THEN [off EXCEPT !.current = 0] ELSE lost

(* toggleMount *)
MountUp ==
  /\ s.online /\ ~IsMounted(s) /\ s.current # 0
  /\ IF s.current \notin s.owned THEN s' = [s EXCEPT !.current = 0]
     ELSE ~s.outfit /\ s' = [ChangeSpeed(s, s.current) EXCEPT !.look = s.current]

ToggleOff == s.online /\ IsMounted(s) /\ s' = Dismount(s)

(* playerChangeOutfit: a refused outfit was half put on.                    *)
ChangeOutfit(m, refused) ==
  /\ s.online
  /\ m \in s.owned \cup {0}
  /\ LET chosen == IF m # 0 /\ IsMounted(s) THEN ChangeSpeed(s, m - s.current)
                   ELSE IF IsMounted(s) THEN Dismount(s) ELSE s
         kept   == [chosen EXCEPT !.current = IF m # 0 THEN m ELSE @]
     IN  s' = IF refused THEN kept
              ELSE [kept EXCEPT !.look = IF IsMounted(s) THEN m ELSE 0]

(* An item is moved into its slot, or out of it. *)
PutOn(slot) ==
  /\ s.online /\ ~s.worn[slot] /\ s.fit
  /\ s' = EquipItem([s EXCEPT !.worn[slot] = TRUE], slot)

TakeOff(slot) ==
  /\ s.online /\ s.worn[slot]
  /\ s' = DeEquipItem([s EXCEPT !.worn[slot] = FALSE], slot)

(* internalDecayItem removes a ring; there is always another one. *)
RingDecays ==
  /\ s.online /\ s.active
  /\ s' = [DeEquipItem([s EXCEPT !.worn["ring"] = FALSE], "ring") EXCEPT !.active = FALSE]

ChangeLevel == s.online /\ s' = [s EXCEPT !.fit = ~@]

(* Player::onCreatureAppear; conditions are put in the order in which they  *)
(* were stored, and nobody walked yet.                                      *)
Login ==
  /\ ~s.online
  /\ LET stored == s.cond
         bare == [s EXCEPT !.online = TRUE, !.cond = [c \in Types |-> None], !.outfit = FALSE]
         Wear(t, slot) == IF t.worn[slot] THEN EquipItem(t, slot) ELSE t
         Suffer(t, type) == IF stored[type] = None THEN t
                            ELSE AddCondition(t, type, stored[type], FALSE, FALSE)
         clad == Wear(Wear(bare, "feet"), "ring")
         felt == Suffer(Suffer(clad, "haste"), "slow")
     IN  s' = IF s.outfit THEN AddOutfit(felt) ELSE felt

(* savePlayer keeps what isPersistent, with the time left, and no mount.    *)
Logout(disguised) ==
  /\ s.online
  /\ s' = [s EXCEPT !.online = FALSE, !.speed = 0, !.tasks = <<>>, !.look = 0,
                    !.outfit = @ /\ disguised,
                    !.cond = [c \in Types |-> IF @[c].left = "forever" THEN None ELSE @[c]],
                    !.enabled = [l \in Slots |-> FALSE]]

Next ==
  \/ \E type \in Types, delay \in BOOLEAN :
       \/ \E delta \in Delta(type), left \in {"some", "forever"}, force \in BOOLEAN :
            Cast(type, delta, left, delay, force)
       \/ Dispel(type, delay)
  \/ \E type \in Types : RunOut(type) \/ ExecuteConditions(type)
  \/ \E k \in DOMAIN s.tasks, delay \in BOOLEAN : RunTask(k, delay)
  \/ \E m \in Mount : Tame(m) \/ Untame(m)
  \/ \E m \in Mount \cup {0}, refused \in BOOLEAN : ChangeOutfit(m, refused)
  \/ \E slot \in Slots : PutOn(slot) \/ TakeOff(slot)
  \/ Disguise \/ EndDisguise \/ MountUp \/ ToggleOff \/ RingDecays \/ ChangeLevel
  \/ Login
  \/ \E disguised \in BOOLEAN : Logout(disguised)

Spec == Init /\ [][Next]_s

-----------------------------------------------------------------------------
(* dismount() takes back the "mount speed bonus" (player.cpp:1099), and no  *)
(* more: whatever began and ended, a player's speed is what is still going  *)
(* on.                                                                      *)
SpeedBalanced == Astray(s) = 0

(* Items and conditions take back exactly what they gave, through delayed   *)
(* removals, renewals, refused outfits, decaying rings and relogins; and    *)
(* only what is worn counts.  What is left to go wrong is an outfit         *)
(* condition that begins while the player sits on no mount.                 *)
OutfitStep ==
  /\ Astray(s') # Astray(s) /\ s'.online =>
       /\ s'.outfit /\ s.current # 0
       /\ s'.online = s.online => ~s.outfit /\ s.look = 0 /\ Astray(s') = Astray(s) - s.current
  /\ \A slot \in Slots : s'.enabled[slot] => s'.worn[slot]
OnlyOutfitsGoAstray == [][OutfitStep]_s
=============================================================================
