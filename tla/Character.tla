------------------------------ MODULE Character ------------------------------
(***************************************************************************)
(* What a character keeps between sessions besides its items (player.cpp,  *)
(* iologindata.cpp, and the scripts' functions of luascript.cpp): outfits, *)
(* mounts, wings, auras and shaders, which are kept in the storage values  *)
(* of the player under reserved keys; the row of the player; its skull,    *)
(* whose time runs on while the player is away.                            *)
(*                                                                         *)
(* A behaviour is about one of "About":                                    *)
(*   outfits  what may be worn, and scripts that give and take it          *)
(*   mounts   what may be ridden and is ridden                             *)
(*   looks    wings, auras and shaders, which nothing takes away           *)
(*   row      the fields of the row, saved and loaded in and out of game   *)
(*   skull    murders, thinks and logins                                   *)
(*                                                                         *)
(* Abstracted: one player, of one sex; the keys are small numbers in the   *)
(* order of the code's, and a storage value has Width bits.  The player is *)
(* always let in; saving is atomic (module Transaction).  Not modelled:    *)
(* death, levels (module Advance), items (Belongings), the speed of a      *)
(* mount (Speed), groups, vocations and towns that are gone at the next    *)
(* login, which then fails.                                                *)
(***************************************************************************)
EXTENDS Integers, Sequences, SequencesExt, FiniteSets, FiniteSetsExt, TLC

CONSTANTS About,
          MaxChanges,      \* bound on what happens, for each kind of behaviour
          MaxTime          \* bound on the clock

Kinds == {"outfits", "mounts", "looks", "row", "skull"}

(* Assumed where this module is instantiated. *)
CharacterAssumption ==
  /\ About \subseteq Kinds
  /\ MaxChanges \in [Kinds -> Nat] /\ MaxTime \in Nat

VARIABLE s

Without(f, k) == [x \in DOMAIN f \ {k} |-> f[x]]

-----------------------------------------------------------------------------
(* Numbers of a storage value                                               *)

Width == 3                                      \* int32_t
Bits(n) == {b \in 0 .. Width - 1 : (n \div (2 ^ b)) % 2 = 1}
Number(bits) == SumSet({2 ^ b : b \in bits \ {Width - 1}})
                  - (IF Width - 1 \in bits THEN 2 ^ (Width - 1) ELSE 0)

(* The keys that are reserved, of which scripts may not write any.  The last *)
(* of mounts is the one that is ridden.                                     *)
Start == [reserved |-> 10, outfits |-> 10, mounts |-> 20, wings |-> 30, auras |-> 40, shaders |-> 50]
Size == [reserved |-> 50, outfits |-> 5, mounts |-> 2, wings |-> 2, auras |-> 2, shaders |-> 2]
IsIn(key, range) == key >= Start[range] /\ key - Start[range] <= Size[range]
CurrentMount == Start["mounts"] + Size["mounts"]
QuestKey == 1

(* An outfit in a storage value *)
Encode(o) == o.look * 4 + o.addons
Decode(v) == [look |-> v \div 4, addons |-> v % 4]

(* A player in memory, as far as storage values go *)
NewPlayer(prem) == [outfits |-> <<>>, map |-> [k \in {} |-> 0], premium |-> prem,
                    access |-> FALSE, riding |-> 0]

(* addStorageValue: outfits are not put into the map.  Mutant: wings are     *)
(* unknown keys.                                                             *)
AddStorageValueNoWings(t, key, value) ==
  CASE IsIn(key, "outfits") -> [t EXCEPT !.outfits = Append(@, Decode(value))]
    [] IsIn(key, "wings") -> t
    [] OTHER -> IF value = -1 THEN [t EXCEPT !.map = Without(@, key)]
                ELSE [t EXCEPT !.map = (key :> value) @@ @]
AddStorageValue(t, key, value) ==
  CASE IsIn(key, "outfits") -> [t EXCEPT !.outfits = Append(@, Decode(value))]
    [] IsIn(key, "reserved")
         /\ \A r \in {"mounts", "wings", "auras", "shaders"} : ~ IsIn(key, r) -> t
    [] OTHER -> IF value = -1 THEN [t EXCEPT !.map = Without(@, key)]
                ELSE [t EXCEPT !.map = (key :> value) @@ @]

(* getStorageValue *)
GetStorageValue(t, key) == IF key \in DOMAIN t.map THEN t.map[key] ELSE -1

(* genReservedStorageRange: the outfits in their order; keys of outfits that *)
(* there were more of stay.                                                  *)
GenReserved(t) ==
  [t EXCEPT !.map = [k \in {Start["outfits"] + i : i \in DOMAIN t.outfits}
                       |-> Encode(t.outfits[k - Start["outfits"]])] @@ @]

(* loadPlayer, the storage map *)
LoadStorage(t, rows) ==
  FoldLeft(LAMBDA u, k : AddStorageValue(u, k, rows[k]), t, SetToSortSeq(DOMAIN rows, <))

-----------------------------------------------------------------------------
(* Outfits                                                                  *)

Looks == 1 .. 3
Unlocked == {1}                                 \* that everybody may wear
PremiumLooks == {3}
Addons == 0 .. 3
Or(a, b) == Number(Bits(a) \cup Bits(b))

IndexOf(t, look) == SelectInSeq(t.outfits, LAMBDA o : o.look = look)

(* addOutfit, removeOutfit, removeOutfitAddon *)
AddOutfit(t, look, addons) ==
  LET i == IndexOf(t, look)
  IN  IF i # 0 THEN [t EXCEPT !.outfits[i].addons = Or(@, addons)]
      ELSE [t EXCEPT !.outfits = Append(@, [look |-> look, addons |-> addons])]
RemoveOutfit(t, look) ==
  LET i == IndexOf(t, look)
  IN  IF i = 0 THEN t ELSE [t EXCEPT !.outfits = RemoveAt(@, i)]
RemoveOutfitAddon(t, look, addons) ==
  LET i == IndexOf(t, look)
  IN  IF i = 0 THEN t
      ELSE [t EXCEPT !.outfits[i].addons = Number(Bits(@) \ Bits(addons))]

Allows(t, look, addons) ==
  \/ look \in Unlocked /\ addons = 0
  \/ /\ IndexOf(t, look) # 0
     /\ \/ t.outfits[IndexOf(t, look)].addons \in {addons, 3}
        \/ addons = 0

(* hasOutfit, canWear *)
HasOutfit(t, look, addons) == look \in Looks /\ Allows(t, look, addons)
CanWear(t, look, addons) ==
  \/ t.access
  \/ /\ look \in Looks /\ (look \in PremiumLooks => t.premium)
     /\ Allows(t, look, addons)

(* getOutfitAddons, -1 for an outfit that the window does not show.  Mutant: *)
(* also what only a premium player may wear.                                 *)
GetOutfitAddonsFree(t, look) ==
  CASE t.access -> 3
    [] IndexOf(t, look) # 0 -> t.outfits[IndexOf(t, look)].addons
    [] OTHER -> IF look \in Unlocked THEN 0 ELSE -1
GetOutfitAddons(t, look) ==
  CASE t.access -> 3
    [] ~ t.access /\ look \in PremiumLooks /\ ~ t.premium -> -1
    [] ~ t.access /\ (look \in PremiumLooks => t.premium) /\ IndexOf(t, look) # 0
         -> t.outfits[IndexOf(t, look)].addons
    [] OTHER -> IF look \in Unlocked THEN 0 ELSE -1

(* sendOutfitWindow: what the player can choose from *)
SendOutfitWindow(t) ==
  {w \in Looks \X Addons :
     /\ GetOutfitAddons(t, w[1]) # -1
     /\ Bits(w[2]) \subseteq Bits(GetOutfitAddons(t, w[1]))}

-----------------------------------------------------------------------------
(* Mounts, wings, auras and shaders: a bit for each, so many bits to a key   *)
(* that its number is never -1.  Mutant: all bits of the number are used.    *)

Things == 1 .. 3
PremiumThings == {3}
PerKeyAll == Width
PerKey == Width - 1                             \* 31
KeyOf(range, id) == Start[range] + ((id - 1) \div PerKey)
BitOf(id) == (id - 1) % PerKey

(* tameMount, addWings, addAura, addShader *)
Give(t, range, id) ==
  LET key == KeyOf(range, id)
      old == IF key \in DOMAIN t.map THEN Bits(t.map[key]) ELSE {}
  IN  AddStorageValue(t, key, Number(old \cup {BitOf(id)}))
TameMount(t, id) == Give(t, "mounts", id)
AddWings(t, id) == Give(t, "wings", id)
AddAura(t, id) == Give(t, "auras", id)
AddShader(t, id) == Give(t, "shaders", id)

(* hasMount, hasWings, hasAura, hasShader *)
Has(t, range, id) ==
  \/ t.access
  \/ /\ id \in PremiumThings => t.premium
     /\ KeyOf(range, id) \in DOMAIN t.map
     /\ BitOf(id) \in Bits(t.map[KeyOf(range, id)])
HasMount(t, id) == Has(t, "mounts", id)
HasWings(t, id) == Has(t, "wings", id)
HasAura(t, id) == Has(t, "auras", id)
HasShader(t, id) == Has(t, "shaders", id)

GetCurrentMount(t) == LET v == GetStorageValue(t, CurrentMount) IN IF v = -1 THEN 0 ELSE v
SetCurrentMount(t, id) == AddStorageValue(t, CurrentMount, id)

(* untameMount: a mount that is ridden now is left *)
UntameMount(t, id) ==
  LET key == KeyOf("mounts", id)
      rid == AddStorageValue(t, key, Number(Bits(t.map[key]) \ {BitOf(id)}))
  IN  IF key \notin DOMAIN t.map THEN t
      ELSE IF GetCurrentMount(rid) # id THEN rid
      ELSE SetCurrentMount([rid EXCEPT !.riding = 0], 0)

(* playerChangeOutfit with a mount, or with none: the mount is changed before *)
(* the outfit is refused.                                                    *)
ChangeOutfit(t, id, worn) ==
  IF id = 0 THEN [t EXCEPT !.riding = 0]
  ELSE IF ~ HasMount(t, id) THEN t
  ELSE [SetCurrentMount(t, id) EXCEPT !.riding = IF @ # 0 /\ worn THEN id ELSE @]

(* toggleMount *)
Toggle(t, mount) ==
  CASE ~ mount -> [t EXCEPT !.riding = 0]
    [] mount /\ (t.riding # 0 \/ GetCurrentMount(t) = 0) -> t
    [] OTHER -> IF HasMount(t, GetCurrentMount(t))
                THEN [t EXCEPT !.riding = GetCurrentMount(t)]
                ELSE SetCurrentMount(t, 0)

-----------------------------------------------------------------------------
(* The row of a player.  What is left out is kept as it is: names, looks,    *)
(* skills (as manaSpent), experience (module Advance has it within the       *)
(* level; here the row may come from elsewhere).                             *)

Hundred == 2                                    \* capacity is saved in whole oz
Thousand == 2                                   \* training time in whole seconds
ExpForLevel == <<0, 1, 3>>
ReqMana == <<3, 1>>                             \* of the next magic level, by vocation
MaxSoul == <<1, 2>>                             \* by vocation
MaxOfflineTraining == 5
MaxStamina == 2
Spells == {"light", "heal"}
Blessings == 1 .. 2
Temple == <<1, 2>>                              \* of towns

Least(m, n) == IF m < n THEN m ELSE n
Most(m, n) == IF m < n THEN n ELSE m

(* loadPlayer: numbers that do not fit are put right; conditions wait to be  *)
(* added when the player appears, which it does not when it is loaded only   *)
(* to be given something.                                                    *)
LoadPlayer(row) ==
  LET level == Most(1, row.level)
      fits == /\ row.experience >= ExpForLevel[level]
              /\ row.experience <= ExpForLevel[level + 1]
  IN  [row EXCEPT !.level = level,
                  !.experience = IF fits THEN @ ELSE ExpForLevel[level],
                  !.capacity = @ * Hundred,
                  !.manaSpent = IF @ > ReqMana[row.vocation] THEN 0 ELSE @,
                  !.training = @ * Thousand,
                  !.pos = IF @ = 0 THEN Temple[row.town] ELSE @]
        @@ [stored |-> row.conditions, active |-> {}]

(* savePlayer: the dying are saved alive; conditions that wait are not saved. *)
(* Mutant: the training time is taken for seconds.                           *)
SavePlayerSeconds(t, row) ==
  IF ~ row.save THEN row
  ELSE [f \in DOMAIN row |->
          CASE f = "health" -> IF t.health <= 0 THEN 1 ELSE t.health
            [] f = "capacity" -> t.capacity \div Hundred
            [] f = "conditions" -> t.active
            [] OTHER -> t[f]]
SavePlayer(t, row) ==
  IF ~ row.save THEN row
  ELSE [f \in DOMAIN row |->
          CASE f = "health" -> IF t.health <= 0 THEN 1 ELSE t.health
            [] f = "capacity" -> t.capacity \div Hundred
            [] f = "training" -> t.training \div Thousand
            [] f = "conditions" -> t.active
            [] OTHER -> t[f]]

(* Player::onCreatureAppear *)
Appear(t) == [t EXCEPT !.active = t.stored, !.stored = {}]

(* The scripts' functions.  A script may say more than there is.             *)
LuaSetCapacity(t, n) == [t EXCEPT !.capacity = n]
ChangeMana(t, n) ==
  [t EXCEPT !.mana = IF n > 0 THEN @ + Least(n, t.manaMax - @) ELSE Most(0, @ + n)]
LuaSetMaxMana(t, n) == [t EXCEPT !.manaMax = n, !.mana = Least(@, n)]
ChangeSoul(t, n) ==
  [t EXCEPT !.soul = IF n > 0 THEN @ + Least(n, MaxSoul[t.vocation] - @) ELSE Most(0, @ + n)]
AddOfflineTrainingTime(t, n) == [t EXCEPT !.training = Least(MaxOfflineTraining, @ + n)]
RemoveOfflineTrainingTime(t, n) == [t EXCEPT !.training = Most(0, @ - n)]
LuaSetVocation(t, v) == [t EXCEPT !.vocation = v]
LuaSetTown(t, town) == [t EXCEPT !.town = town]
LuaSetStamina(t, n) == [t EXCEPT !.stamina = Least(MaxStamina, n)]
LuaSetBankBalance(t, n) == IF n < 0 THEN t ELSE [t EXCEPT !.balance = n]
LuaAddBlessing(t, b) == IF b \in t.blessings THEN t ELSE [t EXCEPT !.blessings = @ \cup {b}]
LuaRemoveBlessing(t, b) == IF b \notin t.blessings THEN t ELSE [t EXCEPT !.blessings = @ \ {b}]
LearnInstantSpell(t, spell) == [t EXCEPT !.spells = @ \cup {spell}]
ForgetInstantSpell(t, spell) == [t EXCEPT !.spells = @ \ {spell}]

(* luaPlayerCanLearnSpell: a spell of the first vocation from level 2, and a *)
(* spell of both.                                                           *)
LuaCanLearnSpell(t, spell) ==
  spell = "heal" => t.vocation = 1 /\ t.level >= 2

-----------------------------------------------------------------------------
(* The skull: its ticks are seconds, and the row has the time when it ends.  *)

FragTime == 2
KillsToRed == 2

(* addUnjustifiedDead, checkSkullTicks: a skull is kept while fighting       *)
AddUnjustifiedDead(t) ==
  LET ticks == t.ticks + FragTime
  IN  [t EXCEPT !.ticks = ticks, !.fight = TRUE,
                !.skull = IF ticks > (KillsToRed - 1) * FragTime THEN "red" ELSE @]
CheckSkullTicks(t, ticks) ==
  LET left == Most(0, t.ticks - ticks)
  IN  [t EXCEPT !.ticks = left,
                !.skull = IF @ = "red" /\ left < 1 /\ ~ t.fight THEN "none" ELSE @]

(* savePlayer, loadPlayer, the part about the skull and about the time online *)
SaveSkull(t, row, now) ==
  [skulltime |-> IF t.ticks > 0 THEN now + t.ticks ELSE 0, skull |-> t.skull,
   onlinetime |-> row.onlinetime + (IF t.since = -1 THEN 0 ELSE now - t.since)]
LoadSkull(row, now) ==
  LET left == row.skulltime - now
  IN  [ticks |-> IF left > 0 THEN left + 2 ELSE 0,
       skull |-> IF left > 0 THEN row.skull ELSE "none",
       fight |-> FALSE, since |-> -1]

-----------------------------------------------------------------------------
(* Behaviours.  p is the player in memory, db what the database has of it;   *)
(* meant is what a property compares with and the code does not have.        *)

Storage == {"outfits", "mounts", "looks"}
Ranges == {"mounts", "wings", "auras", "shaders"}

TypeOK ==
  /\ DOMAIN s = {"about", "on", "changes", "p", "db", "meant"}
  /\ s.about \in About /\ s.on \in BOOLEAN /\ s.changes \in 0 .. MaxChanges[s.about]
  /\ s.about \in Storage =>
       /\ s.p.outfits \in Seq([look : Looks, addons : Addons])
       /\ \A k \in DOMAIN s.p.map : s.p.map[k] \in Int
       /\ s.p.premium \in BOOLEAN /\ s.p.access \in BOOLEAN
       /\ s.p.riding \in {0} \cup Things
  /\ s.about = "row" => s.p.blessings \subseteq Blessings /\ s.p.spells \subseteq Spells
  /\ s.about = "skull" => s.p.ticks \in Nat /\ s.p.skull \in {"none", "red"}

(* Rows as they may be when the server first sees them: of a new character,  *)
(* of one that was changed by hand, and of one that is never saved.          *)
NewRow == [save |-> TRUE, level |-> 1, experience |-> 0, capacity |-> 1, manaSpent |-> 1,
           mana |-> 1, manaMax |-> 1, soul |-> 0, vocation |-> 1, town |-> 1, pos |-> 0,
           training |-> 0, stamina |-> 1, balance |-> 0, blessings |-> {}, spells |-> {},
           health |-> 1, conditions |-> {"haste"}]
Rows == {NewRow, [NewRow EXCEPT !.level = 2, !.experience = 0, !.manaSpent = 9],
         [NewRow EXCEPT !.level = 0, !.experience = 5], [NewRow EXCEPT !.save = FALSE]}

Start1(about, p, db, meant) ==
  s = [about |-> about, on |-> TRUE, changes |-> 0, p |-> p, db |-> db, meant |-> meant]

Init ==
  \E about \in About :
    \/ /\ about \in Storage
       /\ Start1(about, NewPlayer(TRUE), [k \in {} |-> 0],
                 [owned |-> [look \in Looks |-> -1], given |-> [r \in Ranges |-> {}],
                  quest |-> -1, stale |-> FALSE])
    \/ /\ about = "row"
       /\ \E row \in Rows :
            LET t == Appear(LoadPlayer(row))
            IN  Start1(about, t, row, [kept |-> t, fresh |-> TRUE, visited |-> FALSE])
    \/ /\ about = "skull"
       /\ LET row == [skulltime |-> 0, skull |-> "none", onlinetime |-> 0]
          IN  Start1(about, [LoadSkull(row, 0) EXCEPT !.since = 0], row,
                     [now |-> 0, deadline |-> 0, red |-> FALSE, loads |-> 0])

(* The player becomes q, by something that is counted *)
Becomes(q, meant) ==
  /\ s.on /\ s.changes < MaxChanges[s.about]
  /\ s' = [s EXCEPT !.p = q, !.meant = meant, !.changes = @ + 1]

-----------------------------------------------------------------------------
(* Storage values: scripts give and take                                     *)

Owning(look, addons) ==
  [s.meant EXCEPT !.owned[look] = IF @ = -1 THEN addons ELSE Or(@, addons)]

LuaPlayerAddOutfit(look) == Becomes(AddOutfit(s.p, look, 0), Owning(look, 0))
LuaPlayerAddOutfitAddon(look, addons) ==
  Becomes(AddOutfit(s.p, look, addons), Owning(look, addons))
LuaPlayerRemoveOutfit(look) ==
  /\ IndexOf(s.p, look) # 0
  /\ Becomes(RemoveOutfit(s.p, look), [s.meant EXCEPT !.owned[look] = -1])
LuaPlayerRemoveOutfitAddon(look, addons) ==
  /\ IndexOf(s.p, look) # 0
  /\ Becomes(RemoveOutfitAddon(s.p, look, addons),
             [s.meant EXCEPT !.owned[look] = IF @ = -1 THEN -1 ELSE Number(Bits(@) \ Bits(addons))])

Giving(range, id) == [s.meant EXCEPT !.given[range] = @ \cup {id}]
LuaPlayerAddMount(id) == Becomes(TameMount(s.p, id), Giving("mounts", id))
LuaPlayerRemoveMount(id) ==
  Becomes(UntameMount(s.p, id), [s.meant EXCEPT !.given["mounts"] = @ \ {id}])
LuaPlayerAddWings(id) == Becomes(AddWings(s.p, id), Giving("wings", id))
LuaPlayerAddAura(id) == Becomes(AddAura(s.p, id), Giving("auras", id))
LuaPlayerAddShader(id) == Becomes(AddShader(s.p, id), Giving("shaders", id))

(* Scripts may write no key of the range *)
LuaPlayerSetStorageValue(key, value) ==
  IF IsIn(key, "reserved") THEN Becomes(s.p, s.meant)
  ELSE Becomes(AddStorageValue(s.p, key, value), [s.meant EXCEPT !.quest = value])

PlayerChangeOutfit(id, worn) == Becomes(ChangeOutfit(s.p, id, worn), s.meant)
ToggleMount(mount) == Becomes(Toggle(s.p, mount), s.meant)
PremiumChanges == Becomes([s.p EXCEPT !.premium = ~ @], s.meant)
LuaPlayerSetGroup == Becomes([s.p EXCEPT !.access = ~ @], s.meant)

(* luaPlayerSave, or the end of the session *)
SaveStorage(on) ==
  LET q == GenReserved(s.p)
      left == {k \in DOMAIN q.map : IsIn(k, "outfits") /\ k > Start["outfits"] + Len(q.outfits)}
  IN  /\ s.on
      /\ s' = [s EXCEPT !.on = on, !.db = q.map,
                        !.p = IF on THEN q ELSE [NewPlayer(@.premium) EXCEPT !.access = q.access],
                        !.meant.stale = @ \/ left # {}]
LoginStorage == ~ s.on /\ s' = [s EXCEPT !.on = TRUE, !.p = LoadStorage(@, s.db)]

OutfitsNext ==
  \/ \E look \in Looks :
       \/ LuaPlayerAddOutfit(look) \/ LuaPlayerRemoveOutfit(look)
       \/ \E addons \in 1 .. 2 :
            \/ LuaPlayerAddOutfitAddon(look, addons)
            \/ LuaPlayerRemoveOutfitAddon(look, addons)
  \/ PremiumChanges \/ LuaPlayerSetGroup

MountsNext ==
  \/ \E id \in Things :
       \/ LuaPlayerAddMount(id) \/ LuaPlayerRemoveMount(id)
       \/ \E worn \in BOOLEAN : PlayerChangeOutfit(id, worn)
  \/ PlayerChangeOutfit(0, TRUE)
  \/ \E mount \in BOOLEAN : ToggleMount(mount)
  \/ PremiumChanges

LooksNext ==
  \/ \E id \in Things : LuaPlayerAddWings(id) \/ LuaPlayerAddAura(id) \/ LuaPlayerAddShader(id)
  \/ \E key \in {QuestKey, Start["outfits"] + 1, Start["wings"]}, value \in {-1, 1} :
       LuaPlayerSetStorageValue(key, value)
  \/ LuaPlayerSetGroup

StorageNext ==
  /\ s.about \in Storage
  /\ \/ s.about = "outfits" /\ OutfitsNext
     \/ s.about = "mounts" /\ MountsNext
     \/ s.about = "looks" /\ LooksNext
     \/ \E on \in BOOLEAN : SaveStorage(on)
     \/ LoginStorage

-----------------------------------------------------------------------------
(* The row                                                                   *)

RowBecomes(q) == q # s.p /\ Becomes(q, [s.meant EXCEPT !.fresh = FALSE])

LearnSpell(spell) == LuaCanLearnSpell(s.p, spell) /\ RowBecomes(LearnInstantSpell(s.p, spell))

(* luaPlayerSave, or the end of the session; what is saved is what is meant  *)
(* to be there afterwards.                                                   *)
SaveRow(on) ==
  /\ s.on
  /\ s' = [s EXCEPT !.on = on, !.db = SavePlayer(s.p, @),
                    !.meant.kept = IF s.db.save THEN s.p ELSE @,
                    !.meant.visited = IF s.db.save THEN FALSE ELSE @]
LoginRow ==
  /\ ~ s.on
  /\ s' = [s EXCEPT !.on = TRUE, !.p = Appear(LoadPlayer(s.db)), !.meant.fresh = TRUE]
(* A letter, or the rent of a house, for somebody who is away *)
Visit ==
  /\ ~ s.on /\ s.changes < MaxChanges[s.about]
  /\ s' = [s EXCEPT !.changes = @ + 1, !.db = SavePlayer(LoadPlayer(@), @),
                    !.meant.visited = @ \/ s.db.save]

RowNext ==
  /\ s.about = "row"
  /\ \/ \E n \in 0 .. 3 : RowBecomes(LuaSetCapacity(s.p, n))
     \/ \E n \in {-1, 2} : \/ RowBecomes(ChangeMana(s.p, n)) \/ RowBecomes(ChangeSoul(s.p, n))
                           \/ RowBecomes(LuaSetBankBalance(s.p, n))
     \/ \E n \in {0, 2} : RowBecomes(LuaSetMaxMana(s.p, n))
     \/ \E n \in {3, 4} : \/ RowBecomes(AddOfflineTrainingTime(s.p, n))
                          \/ RowBecomes(RemoveOfflineTrainingTime(s.p, n))
     \/ \E v \in 1 .. 2 : RowBecomes(LuaSetVocation(s.p, v)) \/ RowBecomes(LuaSetTown(s.p, v))
     \/ \E n \in {0, 5} : RowBecomes(LuaSetStamina(s.p, n))
     \/ \E b \in Blessings : RowBecomes(LuaAddBlessing(s.p, b)) \/ RowBecomes(LuaRemoveBlessing(s.p, b))
     \/ \E spell \in Spells : LearnSpell(spell) \/ RowBecomes(ForgetInstantSpell(s.p, spell))
     \/ RowBecomes([s.p EXCEPT !.health = 0])                  \* a wound
     \/ RowBecomes([s.p EXCEPT !.active = {}])                 \* that has ended
     \/ \E on \in BOOLEAN : SaveRow(on)
     \/ LoginRow \/ Visit

-----------------------------------------------------------------------------
(* The skull.  It is owed until the deadline.                                *)

Murder ==
  LET q == AddUnjustifiedDead(s.p)
  IN  Becomes(q, [s.meant EXCEPT !.deadline = Most(s.meant.now, @) + FragTime,
                                 !.red = q.skull = "red"])
LuaPlayerSetSkullTime(n) ==
  Becomes([s.p EXCEPT !.ticks = n],
          [s.meant EXCEPT !.deadline = s.meant.now + n, !.red = n > 0 /\ s.p.skull = "red"])
FightEnds == s.on /\ s.p.fight /\ s' = [s EXCEPT !.p.fight = FALSE]
Second ==
  /\ s.meant.now < MaxTime
  /\ s' = [s EXCEPT !.meant.now = @ + 1, !.p = IF s.on THEN CheckSkullTicks(@, 1) ELSE @]
SaveTime(on) ==
  /\ s.on /\ s.changes < MaxChanges[s.about]
  /\ s' = [s EXCEPT !.on = on, !.changes = @ + 1, !.db = SaveSkull(s.p, @, s.meant.now)]
LoginTime ==
  /\ ~ s.on
  /\ s' = [s EXCEPT !.on = TRUE, !.p = [LoadSkull(s.db, s.meant.now) EXCEPT !.since = s.meant.now],
                    !.meant.loads = @ + 1]
VisitTime ==
  /\ ~ s.on /\ s.changes < MaxChanges[s.about]
  /\ s' = [s EXCEPT !.db = SaveSkull(LoadSkull(@, s.meant.now), @, s.meant.now),
                    !.changes = @ + 1, !.meant.loads = @ + 1]

SkullNext ==
  /\ s.about = "skull"
  /\ \/ Murder \/ FightEnds \/ Second
     \/ \E n \in {0, 3} : LuaPlayerSetSkullTime(n)
     \/ \E on \in BOOLEAN : SaveTime(on)
     \/ LoginTime \/ VisitTime

Next == StorageNext \/ RowNext \/ SkullNext
Spec == Init /\ [][Next]_s

-----------------------------------------------------------------------------
(* Outfits and addons that were given are there until they are taken, in     *)
(* whatever order they were given and across sessions; and nothing else is,  *)
(* unless an outfit was taken between two saves of one session.  What the    *)
(* outfit window offers is what may be worn.                                 *)
AddonsOf(look) == LET i == IndexOf(s.p, look) IN IF i = 0 THEN -1 ELSE s.p.outfits[i].addons
OutfitsKept ==
  s.about = "outfits" /\ s.on =>
    /\ \A look \in Looks : s.meant.owned[look] # -1 =>
         AddonsOf(look) # -1 /\ Bits(s.meant.owned[look]) \subseteq Bits(AddonsOf(look))
    /\ ~ s.meant.stale => \A look \in Looks : AddonsOf(look) = s.meant.owned[look]
WindowIsTrue ==
  s.about = "outfits" =>
    \A look \in Looks, addons \in Addons :
      /\ <<look, addons>> \in SendOutfitWindow(s.p) <=> CanWear(s.p, look, addons)
      /\ ~ s.p.access => (CanWear(s.p, look, addons) <=>
           HasOutfit(s.p, look, addons) /\ (look \in PremiumLooks => s.p.premium))

(* Of mounts, wings, auras and shaders a player has the very ones that it    *)
(* was given, though many share a number; and its values are what was set.   *)
LooksKept ==
  s.about \in {"mounts", "looks"} /\ s.on =>
    /\ \A id \in Things :
         LET May(r) == s.p.access \/ (id \in s.meant.given[r] /\ (id \in PremiumThings => s.p.premium))
         IN  /\ HasMount(s.p, id) <=> May("mounts")
             /\ HasWings(s.p, id) <=> May("wings")
             /\ HasAura(s.p, id) <=> May("auras")
             /\ HasShader(s.p, id) <=> May("shaders")
    /\ GetStorageValue(s.p, QuestKey) = s.meant.quest
    /\ GetCurrentMount(s.p) \in {0} \cup s.meant.given["mounts"]

(* Who comes back is who was saved, but for the rest of a division, tries    *)
(* that are too many for another vocation, and conditions if it was saved    *)
(* while away; and it is fit to play.                                        *)
RowKept ==
  s.about = "row" /\ s.on /\ s.meant.fresh =>
    LET k == s.meant.kept IN
    /\ \A f \in {"level", "experience", "mana", "manaMax", "soul", "vocation", "town", "pos",
                "stamina", "balance", "blessings", "spells"} : s.p[f] = k[f]
    /\ s.p.capacity <= k.capacity /\ k.capacity < s.p.capacity + Hundred
    /\ s.p.training <= k.training /\ k.training < s.p.training + Thousand
    /\ s.p.manaSpent = k.manaSpent \/ (s.p.manaSpent = 0 /\ k.manaSpent > ReqMana[k.vocation])
    /\ s.p.active = k.active \/ s.meant.visited
    /\ s.p.health > 0 /\ s.p.pos # 0
    /\ ExpForLevel[s.p.level] <= s.p.experience /\ s.p.experience <= ExpForLevel[s.p.level + 1]

(* A skull lasts as long as it was given for, in game and away, and at most  *)
(* two seconds longer for each time it was loaded.                           *)
SkullServed ==
  s.about = "skull" =>
    LET owed == Most(0, s.meant.deadline - s.meant.now)
    IN  s.on => /\ s.p.ticks >= owed /\ s.p.ticks <= owed + 2 * s.meant.loads
                /\ s.meant.red /\ owed > 0 => s.p.skull = "red"

-----------------------------------------------------------------------------
(* Not so: what was taken comes back when it was saved before, or is there   *)
(* twice (genReservedStorageRange erases no key).                            *)
TakenStaysTaken ==
  s.about = "outfits" /\ s.on => \A look \in Looks : AddonsOf(look) = s.meant.owned[look]
(* Not so: an outfit that is refused has changed the mount already, and the  *)
(* mount that is ridden can be taken while another is the current one.       *)
RidesTamed == s.about = "mounts" /\ s.on => s.p.riding \in {0} \cup s.meant.given["mounts"]
(* Not so: saved while away, it comes back without its conditions.           *)
ConditionsKept == s.about = "row" /\ s.on /\ s.meant.fresh => s.p.active = s.meant.kept.active
(* Not so: each save of a session counts the time since its login again.     *)
OnlineTimeTrue == s.about = "skull" => s.db.onlinetime <= s.meant.now
=============================================================================
