------------------------------ MODULE Conditions ------------------------------
(***************************************************************************)
(* Conditions that show on a player (condition.cpp, creature.cpp,          *)
(* player.cpp): attributes, drunkenness, outfits, invisibility, light, the *)
(* mana shield and the fight.  Several of one type may be on at a time,    *)
(* with different ids; what they do to the player is one number, one       *)
(* outfit, one flag.  Conditions end by themselves, by dispel, by script,  *)
(* by death and with the item that gave them, are renewed by stronger ones *)
(* and are stored with the player.  The client is told of each change.     *)
(*                                                                         *)
(* Abstracted: one skill stands for skills, special skills and stats; n is *)
(* how much a condition gives (skill, drunkenness, outfit, light level);   *)
(* time passes in steps; a ring stands for every item that is worn, and    *)
(* gives what the behaviour is about.  Speed is in Speed, wounds that      *)
(* bleed on in Wounds.                                                     *)
(***************************************************************************)
EXTENDS Naturals, Sequences, SequencesExt, FiniteSetsExt

CONSTANTS About,         \* sets of types: a behaviour is about one of them
          Strength,      \* what a script or a spell may give
          MaxTicks,      \* the longest time a condition is on, unless for ever
          MaxConditions  \* bound on the conditions that are on, the ring's apart

Types == {"attributes", "drunk", "outfit", "invisible", "light", "manashield", "infight"}

(* Assumed where this module is instantiated. *)
ConditionsAssumption ==
  About \subseteq SUBSET Types /\ Strength \subseteq Nat \ {0} /\ MaxTicks \in Nat \ {0} /\ MaxConditions \in Nat

VARIABLE s

Forever == MaxTicks + 1                      \* ticks == -1
Id == {"combat", "default", "ring"}
Condition == [type : Types, id : Id, n : Strength \cup {0}, disable : BOOLEAN,
              left : 0 .. Forever]

(* A condition in the database has what it writes there.                    *)
Stored == Condition
          \cup [type : Types, id : Id, n : Strength, left : 0 .. Forever]
          \cup [type : Types, id : Id, left : 0 .. Forever]

(* isPersistent: not for ever, and not of an item.                          *)
IsPersistent(c) == c.left # Forever /\ c.id # "ring"

(* Outfits are numbers: those of conditions, and two to choose from.         *)
DefaultOutfit == {0, Max(Strength) + 1}
Hidden == Max(Strength) + 2                 \* nobody is seen
Icons == {"drunk", "manashield", "infight", "redswords"}
Bare == [icons |-> {}, look |-> Hidden, light |-> 0]      \* what a client sees

TypeOK ==
  s \in [about : About, online : BOOLEAN, conditions : Seq(Condition), stored : Seq(Stored),
         skill : Nat, canUseDefense : BOOLEAN, drunkenness : Nat,
         default : DefaultOutfit, current : DefaultOutfit \cup Strength,
         internalLight : Nat, itemsLight : Nat, pzLocked : BOOLEAN, ring : BOOLEAN,
         client : [icons : SUBSET Icons, look : DefaultOutfit \cup Strength \cup {Hidden},
                   light : Nat]]

Init ==
  \E about \in About :
    s = [about |-> about, online |-> FALSE, conditions |-> <<>>, stored |-> <<>>, skill |-> 0,
         canUseDefense |-> TRUE, drunkenness |-> 0, default |-> 0, current |-> 0,
         internalLight |-> 0, itemsLight |-> 0, pzLocked |-> FALSE, ring |-> FALSE, client |-> Bare]

-----------------------------------------------------------------------------
(* What a player is, seen from outside *)

(* createCondition; what the setters of each type set is n and disable.     *)
CreateCondition(type, id, n, disable, left) ==
  [type |-> type, id |-> id, n |-> n, disable |-> disable, left |-> left]

AttributesParams == Strength \X BOOLEAN
LightParams == Strength \X {FALSE}
DrunkParams == Strength \X {FALSE}
OutfitParams == Strength \X {FALSE}
Params(type) == CASE type = "attributes" -> AttributesParams
                  [] type = "light" -> LightParams
                  [] type = "drunk" -> DrunkParams
                  [] type = "outfit" -> OutfitParams
                  [] OTHER -> {<<0, FALSE>>}

OnesOf(t, type) == SelectSeq(t.conditions, LAMBDA c : c.type = type)
GetCondition(t, type, id) ==
  {k \in DOMAIN t.conditions : t.conditions[k].type = type /\ t.conditions[k].id = id}

IsSuppress(t, type) == t.ring /\ type = "drunk"

(* hasCondition: one whose time ran out does not count, suppressed ones neither. *)
HasCondition(t, type) ==
  ~IsSuppress(t, type) /\ \E c \in ToSet(OnesOf(t, type)) : c.left > 0

IsInvisible(t) == OnesOf(t, "invisible") # <<>>

GetClientIcons(t) ==
  {type \in {"drunk", "manashield", "infight"} : ~IsSuppress(t, type) /\ OnesOf(t, type) # <<>>}
  \cup {i \in {"redswords"} : t.pzLocked}

GetCreatureLight(t) == IF t.internalLight > t.itemsLight THEN t.internalLight ELSE t.itemsLight

SendIcons(t) == [t EXCEPT !.client.icons = GetClientIcons(t)]
ChangeLight(t) == [t EXCEPT !.client.light = GetCreatureLight(t)]
ChangeVisible(t, visible) ==
  [t EXCEPT !.client.look = IF visible THEN t.current ELSE Hidden]

(* internalCreatureChangeOutfit: the outfit of who is invisible is not told. *)
ChangeOutfit(t, outfit) ==
  LET dressed == [t EXCEPT !.current = outfit]
  IN  IF IsInvisible(t) THEN dressed ELSE [dressed EXCEPT !.client.look = outfit]

-----------------------------------------------------------------------------
(* What each type does when it begins, ends, and is given again *)

(* updateSkills, updateStats, updatePercentSkills and updatePercentStats *)
UpdateSkills(t, c) == [t EXCEPT !.skill = @ + c.n]

StartAttributes(t, c) == UpdateSkills([t EXCEPT !.canUseDefense = ~c.disable], c)
StartDrunk(t, c) == [t EXCEPT !.drunkenness = c.n]
StartOutfit(t, c) == ChangeOutfit(t, c.n)
StartInvisible(t, c) == ChangeVisible(t, FALSE)
StartLight(t, c) == ChangeLight([t EXCEPT !.internalLight = c.n])

StartCondition(t, c) ==
  CASE c.type = "attributes" -> StartAttributes(t, c)
    [] c.type = "drunk" -> StartDrunk(t, c)
    [] c.type = "outfit" -> StartOutfit(t, c)
    [] c.type = "invisible" -> StartInvisible(t, c)
    [] c.type = "light" -> StartLight(t, c)
    [] OTHER -> t

EndAttributes(t, c) ==
  [t EXCEPT !.skill = @ - c.n, !.canUseDefense = @ \/ c.disable]
EndDrunk(t, c) == [t EXCEPT !.drunkenness = 0]
EndOutfit(t, c) == ChangeOutfit(t, t.default)
(* A mutant: visible again with another invisibility still on.              *)
EndInvisibleAtOnce(t, c) == ChangeVisible(t, TRUE)
EndInvisible(t, c) == IF IsInvisible(t) THEN t ELSE ChangeVisible(t, TRUE)
EndLight(t, c) == ChangeLight([t EXCEPT !.internalLight = 0])

(* endCondition, when c is in the list no more *)
EndCondition(t, c) ==
  CASE c.type = "attributes" -> EndAttributes(t, c)
    [] c.type = "drunk" -> EndDrunk(t, c)
    [] c.type = "outfit" -> EndOutfit(t, c)
    [] c.type = "invisible" -> EndInvisible(t, c)
    [] c.type = "light" -> EndLight(t, c)
    [] OTHER -> t

OnAddCondition(t, type) == SendIcons(t)

OnEndCondition(t, type) == SendIcons([t EXCEPT !.pzLocked = @ /\ type # "infight"])

(* updateCondition: what lasts longer is not cut short.                     *)
UpdateCondition(c, new) ==
  /\ c.left = Forever => new.left = Forever
  /\ new.left # Forever => c.left <= new.left

(* addCondition of the k-th condition, with another one of its type and id. *)
RenewGeneric(t, k, new) ==
  IF ~UpdateCondition(t.conditions[k], new) THEN t
  ELSE [t EXCEPT !.conditions[k].left = new.left]

(* A mutant: the new skills without taking back the old ones.               *)
RenewAttributesOnTop(t, k, new) ==
  IF ~UpdateCondition(t.conditions[k], new) THEN t
  ELSE UpdateSkills([t EXCEPT !.conditions[k] = new], new)
(* The defence that the new one disables is not disabled.                   *)
RenewAttributes(t, k, new) ==
  IF ~UpdateCondition(t.conditions[k], new) THEN t
  ELSE UpdateSkills([EndAttributes(t, t.conditions[k]) EXCEPT !.conditions[k] = new], new)

(* The new drunkenness is the player's, and not the condition's.            *)
RenewDrunk(t, k, new) ==
  IF new.n <= t.conditions[k].n THEN t
  ELSE [t EXCEPT !.conditions[k].left = new.left, !.drunkenness = new.n]

RenewOutfit(t, k, new) ==
  IF ~UpdateCondition(t.conditions[k], new) THEN t
  ELSE ChangeOutfit([t EXCEPT !.conditions[k] = new], new.n)

RenewLight(t, k, new) ==
  IF ~UpdateCondition(t.conditions[k], new) THEN t
  ELSE ChangeLight([t EXCEPT !.conditions[k] = new, !.internalLight = new.n])

Renew(t, k, new) ==
  CASE new.type = "attributes" -> RenewAttributes(t, k, new)
    [] new.type = "drunk" -> RenewDrunk(t, k, new)
    [] new.type = "outfit" -> RenewOutfit(t, k, new)
    [] new.type = "light" -> RenewLight(t, k, new)
    [] OTHER -> RenewGeneric(t, k, new)

-----------------------------------------------------------------------------
(* The list *)

AddCondition(t, c) ==
  IF GetCondition(t, c.type, c.id) # {} THEN Renew(t, Min(GetCondition(t, c.type, c.id)), c)
  ELSE OnAddCondition([StartCondition(t, c) EXCEPT !.conditions = Append(@, c)], c.type)

(* removeCondition(condition): out of the list first.                       *)
RemoveCondition(t, k) ==
  LET c == t.conditions[k]
  IN  OnEndCondition(EndCondition([t EXCEPT !.conditions = RemoveAt(@, k)], c), c.type)

(* Those of a set of positions, in the order of the list.                   *)
RemoveAll(t, K) == FoldSeq(LAMBDA c, u : RemoveCondition(u, Min(GetCondition(u, c.type, c.id))),
                           t, Reverse([i \in 1 .. Cardinality(K) |->
                                         t.conditions[SetToSortSeq(K, <)[i]]]))

(* removeCondition(type, id) *)
RemoveOfId(t, type, id) == RemoveAll(t, GetCondition(t, type, id))

(* The light that a condition dims is the brighter one of the player's, and *)
(* what is left of it becomes the light of the condition.                   *)
Dim(t) ==
  IF GetCreatureLight(t) = 0 THEN t
  ELSE ChangeLight([t EXCEPT !.internalLight = GetCreatureLight(t) - 1])

-----------------------------------------------------------------------------
(* What happens to a player *)

(* addCondition of a spell, a script, a field.                              *)
Afflict(type, id, n, disable, left) ==
  /\ s.online
  /\ Len(s.conditions) < MaxConditions \/ GetCondition(s, type, id) # {}
  /\ s' = AddCondition(s, CreateCondition(type, id, n, disable, left))

(* condition:setTicks, of one that is on.                                   *)
SetTicks(k, left) == s.online /\ s' = [s EXCEPT !.conditions[k].left = left]

(* creature:removeCondition *)
RemoveOne(k) == s.online /\ s' = RemoveCondition(s, k)

Pass ==
  /\ s.online
  /\ \E c \in ToSet(s.conditions) : c.left \in 1 .. MaxTicks
  /\ s' = [s EXCEPT !.conditions =
             [k \in DOMAIN @ |-> IF @[k].left \in 1 .. MaxTicks THEN [@[k] EXCEPT !.left = @ - 1]
                                 ELSE @[k]]]

(* executeConditions: what has no time left ends.                           *)
ExecuteConditions(dims) ==
  /\ s.online
  /\ dims => "light" \in s.about /\ s.conditions # <<>>
  /\ LET lit  == IF dims THEN Dim(s) ELSE s
         over == {k \in DOMAIN s.conditions : s.conditions[k].left = 0}
     IN  /\ dims \/ over # {}
         /\ s' = RemoveAll(lit, over)

-----------------------------------------------------------------------------
(* The ring *)

RingSkill == Min(Strength)
TakesRing(t) == t.about \cap {"invisible", "manashield"}

EquipItem(t) ==
  LET worn == [t EXCEPT !.ring = TRUE,
                        !.skill = IF "attributes" \in t.about THEN @ + RingSkill ELSE @]
      lit  == IF "light" \in t.about THEN ChangeLight([worn EXCEPT !.itemsLight = RingSkill])
              ELSE SendIcons(worn)
  IN  FoldSet(LAMBDA type, u : AddCondition(u, CreateCondition(type, "ring", 0, FALSE, Forever)),
              lit, TakesRing(t))

DeEquipItem(t) ==
  LET bare == [t EXCEPT !.ring = FALSE,
                        !.skill = IF "attributes" \in t.about THEN @ - RingSkill ELSE @]
      dark == IF "light" \in t.about THEN ChangeLight([bare EXCEPT !.itemsLight = 0])
              ELSE SendIcons(bare)
  IN  FoldSet(LAMBDA type, u : RemoveOfId(u, type, "ring"), dark, TakesRing(t))

PutOn == s.online /\ ~s.ring /\ s' = EquipItem(s)
TakeOff == s.online /\ s.ring /\ s' = DeEquipItem(s)

(* onCombatRemoveCondition.  One of an item stays, or the item is           *)
(* destroyed; the others end now, or, while the player may not act, later.  *)
DispelOne(t, c, busy, destroys) ==
  LET K == GetCondition(t, c.type, c.id)
  IN  IF c.id = "ring" THEN (IF destroys /\ t.ring THEN DeEquipItem(t) ELSE t)
      ELSE IF K = {} THEN t
      ELSE IF busy THEN [t EXCEPT !.conditions[Min(K)].left = 1]
      ELSE RemoveCondition(t, Min(K))

(* removeCombatCondition *)
Dispel(type, busy, destroys) ==
  /\ s.online /\ OnesOf(s, type) # <<>>
  /\ s' = FoldLeft(LAMBDA t, c : DispelOne(t, c, busy, destroys), s, OnesOf(s, type))

-----------------------------------------------------------------------------
(* playerChangeOutfit: who is disguised is dressed later.                   *)
ChangeDefault(outfit) ==
  /\ s.online /\ "outfit" \in s.about /\ outfit # s.default
  /\ LET chosen == [s EXCEPT !.default = outfit]
     IN  s' = IF HasCondition(s, "outfit") THEN chosen ELSE ChangeOutfit(chosen, outfit)

(* addInFightTicks *)
AddInFightTicks(t) == AddCondition(t, CreateCondition("infight", "default", 0, FALSE, MaxTicks))

(* onAttackedCreature, of somebody who did nothing.                         *)
Attack ==
  /\ s.online /\ "infight" \in s.about
  /\ s' = AddInFightTicks(IF s.pzLocked THEN s ELSE SendIcons([s EXCEPT !.pzLocked = TRUE]))

(* onKilledCreature: the client is not told that the player is locked.      *)
Kill ==
  /\ s.online /\ HasCondition(s, "infight")
  /\ s' = AddInFightTicks([s EXCEPT !.pzLocked = TRUE])

(* death: what is persistent ends.                                          *)
Die ==
  /\ s.online
  /\ s' = RemoveAll(s, {k \in DOMAIN s.conditions : IsPersistent(s.conditions[k])})

-----------------------------------------------------------------------------
(* What each type writes to the database, and reads from it; the            *)
(* drunkenness is not written, and comes back as the usual one.             *)
Base == {"type", "id", "left"}
WrittenByAttributes == Base \cup {"n", "disable"}
ReadByAttributes == Base \cup {"n", "disable"}
WrittenByOutfit == Base \cup {"n"}
ReadByOutfit == Base \cup {"n"}
WrittenByLight == Base \cup {"n"}
ReadByLight == Base \cup {"n"}

Serialize(c) ==
  LET written == CASE c.type = "attributes" -> WrittenByAttributes
                   [] c.type = "outfit" -> WrittenByOutfit
                   [] c.type = "light" -> WrittenByLight
                   [] OTHER -> Base
  IN  [f \in written |-> c[f]]

(* createCondition makes one of the type, unserialize reads the rest of it. *)
Unserialize(w) ==
  LET read  == CASE w.type = "attributes" -> ReadByAttributes
                 [] w.type = "outfit" -> ReadByOutfit
                 [] w.type = "light" -> ReadByLight
                 [] OTHER -> Base
      fresh == CreateCondition(w.type, w.id, IF w.type = "drunk" THEN Min(Strength) ELSE 0,
                               FALSE, 0)
  IN  [f \in DOMAIN fresh |-> IF f \in read THEN w[f] ELSE fresh[f]]

(* savePlayer and loadPlayer: the list comes back in the opposite order.    *)
Save(t) == LET kept == SelectSeq(t.conditions, IsPersistent)
           IN  Reverse([k \in 1 .. Len(kept) |-> Serialize(kept[k])])

Logout ==
  /\ s.online
  /\ s' = [s EXCEPT !.online = FALSE, !.conditions = <<>>, !.stored = Save(s),
                    !.skill = 0, !.canUseDefense = TRUE, !.drunkenness = 0,
                    !.current = s.default, !.internalLight = 0, !.itemsLight = 0,
                    !.pzLocked = FALSE, !.client = Bare]

(* placeCreature tells the client of a player without conditions, then      *)
(* onCreatureAppear puts on what the player wears and suffers.              *)
Login ==
  /\ ~s.online
  /\ LET seen == ChangeVisible(SendIcons([s EXCEPT !.online = TRUE, !.ring = FALSE, !.stored = <<>>]),
                               TRUE)
         clad == IF s.ring THEN EquipItem(seen) ELSE seen
     IN  s' = FoldLeft(LAMBDA t, c : AddCondition(t, Unserialize(c)), clad, s.stored)

Next ==
  \/ \E type \in s.about, id \in Id \ {"ring"}, left \in 1 .. Forever :
       \E param \in Params(type) : Afflict(type, id, param[1], param[2], left)
  \/ \E k \in DOMAIN s.conditions : RemoveOne(k) \/ \E left \in {0, MaxTicks, Forever} : SetTicks(k, left)
  \/ Pass \/ Attack \/ Kill \/ Die \/ PutOn \/ TakeOff \/ Login \/ Logout
  \/ \E dims \in BOOLEAN : ExecuteConditions(dims)
  \/ \E type \in s.about, busy, destroys \in BOOLEAN : Dispel(type, busy, destroys)
  \/ \E outfit \in DefaultOutfit : ChangeDefault(outfit)

Spec == Init /\ [][Next]_s

-----------------------------------------------------------------------------
(* Skills are what the ring and the conditions give, however often these    *)
(* were renewed, dispelled, stored and loaded; and what shows shows of      *)
(* something: no defence is disabled, no drunkenness is left and no outfit  *)
(* is worn of a condition that has ended.  (The converse fails: a condition *)
(* that ends takes the effect of another one with it.)                      *)
Given(t) == FoldSeq(LAMBDA c, sum : c.n + sum, IF t.ring THEN RingSkill ELSE 0, t.conditions)
NothingLingers ==
  s.online =>
    /\ "attributes" \in s.about => s.skill = Given(s)
    /\ ~s.canUseDefense => \E c \in ToSet(s.conditions) : c.disable
    /\ s.drunkenness > 0 => OnesOf(s, "drunk") # <<>>
    /\ s.current # s.default => OnesOf(s, "outfit") # <<>>
    /\ s.pzLocked => OnesOf(s, "infight") # <<>>

(* The client sees what is: icons of the conditions that are on and not     *)
(* suppressed, the outfit or nobody, the brighter light.  Only of a lock    *)
(* that a kill has brought it may not know.                                 *)
ClientSees ==
  s.online =>
    /\ s.client.icons \cup {"redswords"} = GetClientIcons(s) \cup {"redswords"}
    /\ "redswords" \in s.client.icons => s.pzLocked
    /\ s.client.look = IF IsInvisible(s) THEN Hidden ELSE s.current
    /\ s.client.light = GetCreatureLight(s)

(* What a condition gives is there while it is on.  It is not: the end of   *)
(* one that has another id takes it away, a renewal leaves the defence on.  *)
WhatIsOnShows ==
  s.online => /\ \A c \in ToSet(s.conditions) : c.disable => ~s.canUseDefense
              /\ OnesOf(s, "drunk") # <<>> => s.drunkenness > 0
              /\ OnesOf(s, "outfit") # <<>> => s.current # s.default
=============================================================================
