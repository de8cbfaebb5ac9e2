------------------------------- MODULE Casting -------------------------------
(***************************************************************************)
(* A player fights: spells that are said, runes, weapons, and the areas    *)
(* they reach (spells.cpp, weapons.cpp, combat.cpp; the scripts of spells  *)
(* only as what they may do).  Who may be hurt where is decided in many    *)
(* places: when a target is chosen, when someone changes zones, when a     *)
(* spell is checked, at each tile of an area.                              *)
(*                                                                         *)
(* A behaviour is about one thing of "About": "zones" (a caster who is never *)
(* exhausted walks among zones with a target), "cooldowns", "runes" and     *)
(* "weapons" (nobody walks), "areas", "words".                              *)
(*                                                                         *)
(* Abstracted: one caster, one target; a row of places, one for each kind  *)
(* of zone; nothing blocks the way of a missile; levels, vocations,        *)
(* premium time and the strength of damage; what scripts veto.             *)
(***************************************************************************)
EXTENDS Integers, Sequences, SequencesExt, FiniteSetsExt, TLC

CONSTANTS About,
          Zone,          \* a sequence: the zone of each place of the row
          Registered,    \* the spells: what each has that is not the default
          Shapes,        \* [rows, vec]: tables that scripts make areas of
          Letters,       \* that parameters are made of
          MaxMana, MaxUnits,
          MaxTime,       \* no cooldown is longer
          MaxLogins

Think == 2               \* EVENT_CREATURE_THINK_INTERVAL, in steps of the clock
Place == DOMAIN Zone
Space == " "
Quote == "q"

VARIABLE s

-----------------------------------------------------------------------------
(* What spells are *)

(* Spell, InstantSpell, RuneSpell                                          *)
Default ==
  [kind |-> "instant", words |-> <<>>, enabled |-> TRUE, mana |-> 0, id |-> 0,
   cooldown |-> 0, group |-> 0, groupCooldown |-> 0, second |-> 0, secondCooldown |-> 0,
   aggressive |-> TRUE, pzLock |-> FALSE, needTarget |-> FALSE, selfTarget |-> FALSE,
   needWeapon |-> FALSE, needDirection |-> FALSE, casterTargetOrDirection |-> FALSE,
   hasParam |-> FALSE, hasCharges |-> FALSE, blockingCreature |-> FALSE,
   area |-> FALSE, field |-> FALSE]

(* What the functions of scripts set; those for the other kind of spell do   *)
(* nothing.  area and field are the combat's.                               *)
CostFields == {"id", "group", "groupCooldown", "second", "secondCooldown", "cooldown", "mana"}
RuleFields == {"enabled", "needTarget", "needWeapon", "selfTarget", "blockingCreature",
               "aggressive", "pzLock"}
InstantFields == {"words", "needDirection", "hasParam", "casterTargetOrDirection"}
LuaSpellCharges(given) == IF "charges" \in DOMAIN given THEN given.charges ELSE 0
CombatFields == {"area", "field"}
Given(given, fields) == [f \in DOMAIN given \cap (CostFields \cup RuleFields \cup CombatFields \cup fields) |-> given[f]]

ConfigureSpell(given, fields) == Given(given, fields) @@ [kind |-> given.kind] @@ Default
ConfigureInstant(given) == ConfigureSpell(given, InstantFields)
ConfigureRune(given) == [ConfigureSpell(given, {}) EXCEPT !.hasCharges = LuaSpellCharges(given) > 0]
LuaSpellRegister(given) == IF given.kind = "rune" THEN ConfigureRune(given) ELSE ConfigureInstant(given)
Spell(n) == LuaSpellRegister(Registered[n])
Name == DOMAIN Registered
Instants == {n \in Name : Spell(n).kind = "instant"}
Runes == Name \ Instants

-----------------------------------------------------------------------------
(* Weapons: an arrow is shot with a bow, a spear is thrown and lies there.   *)

(* What the functions of scripts give the item, and the weapon itself.       *)
ItemOf == [sword |-> [range |-> 1, distance |-> FALSE], arrow |-> [range |-> 3, distance |-> TRUE],
           spear |-> [range |-> 3, distance |-> TRUE], wand  |-> [range |-> 3, distance |-> FALSE]]
ActionOf == [sword |-> "charge", arrow |-> "count", spear |-> "move", wand |-> "none"]
CostOf == [sword |-> 0, arrow |-> 0, spear |-> 0, wand |-> 1]
Breaks(w) == ItemOf[w].distance
LuaWeaponRegister(w) == ItemOf[w] @@ [action |-> ActionOf[w], mana |-> CostOf[w], breaks |-> Breaks(w)]
Weapons == [w \in DOMAIN ItemOf |-> LuaWeaponRegister(w)]
Weapon == DOMAIN Weapons
Hand == {"none", "sword", "bow", "spear", "wand"}

Keys == {<<"spell", Spell(n).id>> : n \in Name} \cup {<<"group", Spell(n).group>> : n \in Name}
        \cup {<<"group", Spell(n).second>> : n \in Name}
Span == 0 .. MaxTime

CastingAssumption ==
  /\ Range(Zone) \subseteq {"protection", "nopvp", "pvp", "normal"}
  /\ \A n \in Name : {Spell(n).cooldown, Spell(n).groupCooldown, Spell(n).secondCooldown} \subseteq Span
  /\ \A n, m \in Instants : n # m => Spell(n).words # Spell(m).words

(* units: what is left of each weapon; used: how often it was; lying: spears *)
(* on the ground; broken.  since: how long ago each spell was last cast.    *)
(* hurt: the zones of who was hurt last, and where it came from.            *)
TypeOK ==
  s \in [about : About, kind : {"player", "summon", "monster"}, noPvp : BOOLEAN,
         isProtected : BOOLEAN, secure : BOOLEAN, flags : SUBSET {"NoExhaustion", "InfiniteMana"},
         caster : Place, target : Place, attacked : BOOLEAN,
         field : [Place -> {"none", "pvp", "nopvp"}],
         hurt : SUBSET (Range(Zone) \X Range(Zone)),
         mana : 0 .. MaxMana, charges : 0 .. MaxUnits, runes : Nat,
         cool : [Keys -> [ticks : Span, left : Span]], since : [Name -> Span], nextThink : 0 .. Think,
         logins : 0 .. MaxLogins,
         hand : Hand, units : [Weapon -> 0 .. MaxUnits], used : [Weapon -> Nat],
         lying : Nat, broken : [Weapon -> Nat],
         areas : {<<>>} \cup [{"north", "east", "south", "west"} ->
                   [rows : Nat, cols : Nat, center : Int \X Int, cells : SUBSET (Nat \X Nat)]],
         said : Seq(STRING)]

Start == [about |-> "none", kind |-> "monster", noPvp |-> FALSE, isProtected |-> FALSE, secure |-> FALSE,
          flags |-> {}, caster |-> 1, target |-> 1, attacked |-> FALSE,
          field |-> [p \in Place |-> "none"], hurt |-> {},
          mana |-> MaxMana, charges |-> MaxUnits, runes |-> 0,
          cool |-> [k \in Keys |-> [ticks |-> 0, left |-> 0]], since |-> [n \in Name |-> MaxTime],
          nextThink |-> Think, logins |-> 0,
          hand |-> "none", units |-> [w \in Weapon |-> MaxUnits], used |-> [w \in Weapon |-> 0],
          lying |-> 0, broken |-> [w \in Weapon |-> 0], areas |-> <<>>, said |-> <<>>]

Normal == CHOOSE p \in Place : Zone[p] = "normal"

(* In "zones" the caster has the flags of a group that is never exhausted,   *)
(* but no flag that lets it ignore zones.                                   *)
Init ==
  \/ /\ "zones" \in About
     /\ \E kind \in {"player", "summon", "monster"}, noPvp, isProtected, secure \in BOOLEAN,
           caster, target \in Place :
          s = [Start EXCEPT !.about = "zones", !.kind = kind, !.noPvp = noPvp,
                            !.isProtected = isProtected, !.secure = secure,
                            !.flags = {"NoExhaustion", "InfiniteMana"}, !.caster = caster,
                            !.target = target, !.hand = "sword"]
  \/ \E about \in {"cooldowns", "runes", "weapons", "areas"} \cap About :
       s = [Start EXCEPT !.about = about, !.caster = Normal, !.target = Normal,
                         !.attacked = about = "cooldowns",
                         !.flags = IF about = "cooldowns" THEN {"InfiniteMana"} ELSE {"NoExhaustion"}]
  \/ /\ "words" \in About
     /\ \E n \in Instants, rest \in SeqOf(Letters \cup {Space, Quote}, 5) :
          s = [Start EXCEPT !.about = "words", !.said = Spell(n).words \o rest]

-----------------------------------------------------------------------------
(* Who may be fought where *)

ZoneOfCaster == Zone[s.caster]
ZoneOfTarget == Zone[s.target]

IsInPvpZone == ZoneOfCaster = "pvp" /\ ZoneOfTarget = "pvp"
IsPlayerCombat == s.kind \in {"player", "summon"}
(* Of low level, of a vocation without fights, or by one with a black skull. *)
IsProtected == s.isProtected

(* canDoCombat of a caster and a tile; walls, stairs and teleports apart.   *)
CanDoCombatAt(place, aggressive) == ~(aggressive /\ Zone[place] = "protection")

(* canDoCombat of two creatures *)
CanDoCombat ==
  /\ s.kind = "player" => ~IsProtected /\ ZoneOfTarget # "nopvp"
                          /\ (ZoneOfCaster = "nopvp" => ZoneOfTarget = "protection")
  /\ s.kind = "summon" => ZoneOfTarget # "nopvp"
  /\ s.noPvp /\ IsPlayerCombat => IsInPvpZone

(* canTargetCreature.  A mutant looks only at where the attacker is.        *)
CanTargetCreatureFrom ==
  /\ ZoneOfCaster # "protection"
  /\ IsPlayerCombat => ZoneOfCaster # "nopvp"
  /\ s.kind = "player" => ~IsProtected /\ (s.secure => IsInPvpZone)
  /\ CanDoCombat
CanTargetCreature ==
  /\ "protection" \notin {ZoneOfCaster, ZoneOfTarget}
  /\ IsPlayerCombat => "nopvp" \notin {ZoneOfCaster, ZoneOfTarget}
  /\ s.kind = "player" => ~IsProtected /\ (s.secure => IsInPvpZone)
  /\ CanDoCombat

PlayerSetAttackedCreature == [s EXCEPT !.attacked = CanTargetCreature]

(* onChangeZone of the attacker, onAttackedCreatureChangeZone               *)
OnChangeZone(state) == [state EXCEPT !.attacked = @ /\ Zone[state.caster] # "protection"]
OnAttackedCreatureChangeZone(state) ==
  LET zone == Zone[state.target]
  IN  [state EXCEPT !.attacked =
         @ /\ zone # "protection" /\ ~(zone = "nopvp" /\ s.kind = "player")
           /\ ~(zone = "normal" /\ s.noPvp /\ s.kind = "player")]

(* onCreatureMove: of the attacker, and of whom it attacks.                 *)
OnCasterMove(to) ==
  LET moved == [s EXCEPT !.caster = to, !.hurt = {}]
  IN  IF Zone[to] = ZoneOfCaster THEN moved
      ELSE LET changed == OnChangeZone(moved)
           IN  IF changed.attacked THEN OnAttackedCreatureChangeZone(changed) ELSE changed
OnTargetMove(to) ==
  LET moved == [s EXCEPT !.target = to, !.hurt = {}]
  IN  IF Zone[to] # ZoneOfTarget /\ s.attacked THEN OnAttackedCreatureChangeZone(moved) ELSE moved

-----------------------------------------------------------------------------
(* What a combat does *)

(* combatTileEffects: a field, tame where there is no player fighting.      *)
FieldKind(place) == IF s.noPvp \/ Zone[place] = "nopvp" THEN "nopvp" ELSE "pvp"
CombatTileEffects(state, spell, place) ==
  IF spell.field THEN [state EXCEPT !.field[place] = FieldKind(place)] ELSE state

(* doTargetCombat: it is hit, without further questions.                    *)
DoTargetCombat(state) == [state EXCEPT !.hurt = @ \cup {<<ZoneOfCaster, ZoneOfTarget>>}]

(* doCombat of a caster and a target                                        *)
DoCombat(state, spell) ==
  IF spell.aggressive => CanDoCombat
  THEN LET done == CombatTileEffects(state, spell, s.target)
       IN  IF spell.aggressive THEN DoTargetCombat(done) ELSE done
  ELSE state

(* doAreaCombat: of the tiles where one may fight, those in them that may be *)
(* fought.                                                                  *)
DoAreaCombat(state, spell, places) ==
  LET open    == {p \in places : CanDoCombatAt(p, spell.aggressive)}
      effects == FoldSet(LAMBDA p, st : CombatTileEffects(st, spell, p), state, open)
  IN  IF spell.aggressive /\ s.target \in open /\ CanDoCombat THEN DoTargetCombat(effects) ELSE effects

(* getCasterPosition and getCombatArea, on the row: a wave reaches the two   *)
(* next places of the way the caster looks, a ball those around its centre. *)
Ahead(dir) == {p \in Place : p - s.caster \in {dir, 2 * dir}}
Around(place) == {p \in Place : p - place \in {-1, 0, 1}}

(* luaCombatExecute: what the script of the spell does with its variant.    *)
Execute(state, spell, variant) ==
  IF variant[1] = "target"
  THEN IF spell.area THEN DoAreaCombat(state, spell, Around(s.target)) ELSE DoCombat(state, spell)
  ELSE DoAreaCombat(state, spell, IF spell.area THEN variant[2] ELSE variant[2] \cap {variant[3]})

-----------------------------------------------------------------------------
(* Spells *)

Exhausted(key) == s.cool[key].left > 0
GetManaCost(spell) == spell.mana
GetWeapon == IF s.hand = "bow" THEN IF s.units["arrow"] > 0 THEN "arrow" ELSE "none" ELSE s.hand

(* playerSpellCheck *)
PlayerSpellCheck(spell) ==
  /\ spell.enabled
  /\ (spell.aggressive \/ spell.pzLock) => ZoneOfCaster # "protection"
  /\ ~Exhausted(<<"group", spell.group>>) /\ ~Exhausted(<<"spell", spell.id>>)
  /\ spell.second # 0 => ~Exhausted(<<"group", spell.second>>)
  /\ s.mana >= GetManaCost(spell) \/ "InfiniteMana" \in s.flags
  /\ spell.needWeapon => GetWeapon = "sword"

(* playerInstantSpellCheck *)
PlayerInstantSpellCheck(spell, place) == spell.blockingCreature => s.target # place
(* playerRuneSpellCheck *)
PlayerRuneSpellCheck(spell, place) ==
  /\ PlayerSpellCheck(spell)
  /\ CanDoCombatAt(place, spell.aggressive)
  /\ spell.blockingCreature => s.target # place
  /\ spell.needTarget => s.target = place
  /\ ~(spell.aggressive /\ spell.needTarget /\ s.secure /\ s.kind = "player" /\ ~IsInPvpZone)

(* addCondition of a cooldown: a longer one that is on stays.               *)
Cool(cool, key, time) ==
  IF time = 0 \/ cool[key].left > time THEN cool
  ELSE [cool EXCEPT ![key] = [ticks |-> time, left |-> time]]
(* postCastSpell.  A mutant forgets the second group.                       *)
CooldownsOneGroup(cool, spell) ==
  Cool(Cool(cool, <<"spell", spell.id>>, spell.cooldown), <<"group", spell.group>>, spell.groupCooldown)
Cooldowns(cool, spell) ==
  Cool(CooldownsOneGroup(cool, spell), <<"group", spell.second>>, spell.secondCooldown)

Spend(state, mana) ==
  IF "InfiniteMana" \in s.flags THEN state ELSE [state EXCEPT !.mana = Max({0, @ - mana})]

Cools(n) == Spell(n).cooldown + Spell(n).groupCooldown + Spell(n).secondCooldown > 0
(* postCastSpell *)
PostCastSpell(state, n) ==
  LET cooled == IF "NoExhaustion" \in s.flags THEN state
                ELSE [state EXCEPT !.cool = Cooldowns(@, Spell(n)), !.since[n] = IF Cools(n) THEN 0 ELSE @]
  IN  Spend(cooled, GetManaCost(Spell(n)))

(* What playerCastInstant gives the script: the one who is attacked, the     *)
(* player that is named, or a place.                                        *)
Direct(spell, dir) == <<"place", Ahead(dir), s.caster + dir>>
Here == <<"place", {s.caster}, s.caster>>
Variants(spell, named, dir) ==
  IF spell.selfTarget THEN {<<"self">>}
  ELSE IF spell.needTarget \/ spell.casterTargetOrDirection
  THEN IF (spell.hasParam /\ named) \/ (~spell.hasParam /\ s.attacked) THEN {<<"target">>}
       ELSE IF spell.casterTargetOrDirection /\ PlayerInstantSpellCheck(spell, s.caster + dir)
            THEN {Direct(spell, dir)} ELSE {}
  ELSE LET variant == IF spell.needDirection THEN Direct(spell, dir) ELSE Here
       IN  IF PlayerInstantSpellCheck(spell, variant[3]) THEN {variant} ELSE {}

(* A name that nobody has, or one who is dead, exhausts too.                *)
Wasted(spell, named) ==
  spell.hasParam /\ spell.needTarget /\ ~spell.casterTargetOrDirection /\ ~named

(* playerCastInstant.  The script does its combat and works, or it does not. *)
PlayerCastInstant(n, named, dir, works) ==
  LET spell    == Spell(n)
      begun    == [s EXCEPT !.hurt = {}]
      variants == Variants(spell, named, dir)
  IN  IF ~PlayerSpellCheck(spell) THEN begun
      ELSE IF variants = {}
      THEN IF Wasted(spell, named) THEN [begun EXCEPT !.cool = Cooldowns(@, spell)] ELSE begun
      ELSE LET variant == CHOOSE v \in variants : TRUE
               done    == IF variant[1] = "self" THEN begun ELSE Execute(begun, spell, variant)
           IN  IF works THEN PostCastSpell(done, n) ELSE begun

(* executeUse of a rune; one charge of the stack is used up.                *)
ExecuteUse(n, place, works) ==
  LET spell == Spell(n)
      begun == [s EXCEPT !.hurt = {}]
      done  == IF spell.needTarget THEN Execute(begun, spell, <<"target">>)
               ELSE Execute(begun, spell, <<"place", Around(place), place>>)
  IN  IF s.charges = 0 \/ ~PlayerRuneSpellCheck(spell, place) \/ ~works THEN begun
      ELSE [PostCastSpell(done, n) EXCEPT !.charges = IF spell.hasCharges THEN @ - 1 ELSE @, !.runes = @ + 1]

-----------------------------------------------------------------------------
(* Weapons *)

Distance == Max({s.caster - s.target, s.target - s.caster})

(* playerWeaponCheck.  An arrow flies as far as the bow shoots.             *)
PlayerWeaponCheck(w) == Distance <= Weapons[w].range /\ s.mana >= Weapons[w].mana

(* decrementItemCount, and transformItem of charges: the last one is removed. *)
DecrementItemCount(state, w) ==
  [state EXCEPT !.units[w] = @ - 1,
                !.hand = IF state.units[w] = 1 /\ @ = w THEN "none" ELSE @]

(* onUsedWeapon.  A mutant: what broke is used up besides.                  *)
OnUsedWeaponTwice(state, w, breaks) ==
  LET paid == Spend(state, Weapons[w].mana)
      kept == IF breaks THEN [DecrementItemCount(paid, w) EXCEPT !.broken[w] = @ + 1] ELSE paid
  IN  IF kept.units[w] > 0 /\ Weapons[w].action \in {"count", "charge"}
      THEN DecrementItemCount(kept, w) ELSE kept
OnUsedWeapon(state, w, breaks) ==
  LET paid == Spend(state, Weapons[w].mana)
  IN  IF breaks THEN [DecrementItemCount(paid, w) EXCEPT !.broken[w] = @ + 1]
      ELSE CASE Weapons[w].action \in {"count", "charge"} -> DecrementItemCount(paid, w)
             [] Weapons[w].action = "move" -> [DecrementItemCount(paid, w) EXCEPT !.lying = @ + 1]
             [] OTHER -> paid

(* internalUseWeapon: at the target, or at a place beside it.               *)
InternalUseWeapon(state, w, hits, breaks) ==
  OnUsedWeapon([(IF hits THEN DoTargetCombat(state) ELSE state) EXCEPT !.used[w] = @ + 1], w, breaks)

(* useWeapon: what is thrown or shot may miss.                              *)
UseWeapon(w, hits, breaks) ==
  LET begun == [s EXCEPT !.hurt = {}]
  IN  IF ~PlayerWeaponCheck(w) THEN begun
      ELSE InternalUseWeapon(begun, w, hits \/ ~Weapons[w].distance, breaks /\ Weapons[w].breaks)

(* useFist *)
UseFist ==
  LET begun == [s EXCEPT !.hurt = {}]
  IN  IF Distance > 1 THEN begun ELSE DoTargetCombat(begun)

(* doAttacking: with a bow and no arrow, with the fist.                     *)
DoAttacking(hits, breaks) ==
  IF GetWeapon = "none" THEN UseFist ELSE UseWeapon(GetWeapon, hits, breaks)

-----------------------------------------------------------------------------
(* Areas: tables of a script, turned four ways (MatrixArea, AreaCombat)      *)

Grid(rows, cols) == (0 .. rows - 1) \X (0 .. cols - 1)
Cells(rows, cols, true(_, _)) == {c \in Grid(rows, cols) : true(c[1], c[2])}

(* createArea: 1 and 3 are reached, 2 and 3 the centre, kept as <<x, y>>.    *)
CreateArea(vec, rows) ==
  LET cols      == Len(vec) \div rows
      At(y, x)  == vec[y * cols + x + 1]
      centers   == {c \in Grid(rows, cols) : At(c[1], c[2]) \in {2, 3}}
      center    == CHOOSE c \in centers : TRUE
  IN  [rows |-> rows, cols |-> cols,
       center |-> IF centers = {} THEN <<0, 0>> ELSE <<center[2], center[1]>>,
       cells |-> Cells(rows, cols, LAMBDA y, x : At(y, x) \in {1, 3})]

(* rotate90.  A mutant: the centre stays where it was.                      *)
Rotate90Cells(a) == Cells(a.cols, a.rows, LAMBDA y, x : <<a.rows - x - 1, y>> \in a.cells)
Rotate90KeepsCenter(a) ==
  [rows |-> a.cols, cols |-> a.rows, center |-> a.center, cells |-> Rotate90Cells(a)]
Rotate90(a) ==
  [rows |-> a.cols, cols |-> a.rows, center |-> <<a.rows - a.center[2] - 1, a.center[1]>>,
   cells |-> Rotate90Cells(a)]
Rotate180(a) ==
  [rows |-> a.rows, cols |-> a.cols, center |-> <<a.cols - a.center[1] - 1, a.rows - a.center[2] - 1>>,
   cells |-> Cells(a.rows, a.cols, LAMBDA y, x : <<a.rows - y - 1, a.cols - x - 1>> \in a.cells)]
Rotate270(a) ==
  [rows |-> a.cols, cols |-> a.rows, center |-> <<a.center[2], a.cols - a.center[1] - 1>>,
   cells |-> Cells(a.cols, a.rows, LAMBDA y, x : <<x, a.cols - y - 1>> \in a.cells)]

(* Of square tables only: flip, mirror and transpose.                       *)
Flip(a) == [a EXCEPT !.center = <<a.cols - @[1] - 1, @[2]>>,
                     !.cells = Cells(a.rows, a.cols, LAMBDA y, x : <<a.rows - y - 1, x>> \in a.cells)]
Mirror(a) == [a EXCEPT !.center = <<@[1], a.rows - @[2] - 1>>,
                       !.cells = Cells(a.rows, a.cols, LAMBDA y, x : <<y, a.cols - x - 1>> \in a.cells)]
Transpose(a) == [a EXCEPT !.center = <<@[2], @[1]>>,
                          !.cells = Cells(a.rows, a.cols, LAMBDA y, x : <<x, y>> \in a.cells)]

(* setupArea, setupExtArea *)
SetupArea(a) == [north |-> a, east |-> Rotate90(a), south |-> Rotate180(a), west |-> Rotate270(a)]
SetupExtArea(a) == [northwest |-> a, northeast |-> Mirror(a), southwest |-> Flip(a), southeast |-> Transpose(a)]

(* setupArea of a length and a spread, for the spells of monsters.          *)
WaveVec(length, spread) ==
  LET cols    == IF spread = 0 THEN 1 ELSE (length \div spread) * 2 + 1
      Narrower(y) == IF spread = 0 THEN 0 ELSE (y - 1) \div spread
      Value(y, x) == IF y = length /\ x = (cols \div 2) + 1 THEN 3
                     ELSE IF x \in Narrower(y) + 1 .. cols - Narrower(y) THEN 1 ELSE 0
  IN  [j \in 1 .. length * cols |-> Value(((j - 1) \div cols) + 1, ((j - 1) % cols) + 1)]

(* getArea: the way from the caster to the target, first along the row.     *)
GetArea(areas, dx, dy) ==
  areas[IF dx < 0 THEN "west" ELSE IF dx > 0 THEN "east" ELSE IF dy < 0 THEN "north" ELSE "south"]

(* getList: the cells, seen from the centre.                                *)
GetList(a) == {<<c[2] - a.center[1], c[1] - a.center[2]>> : c \in a.cells}

-----------------------------------------------------------------------------
(* Words *)

(* getInstantSpell: the longest whose words begin what is said.  A mutant    *)
(* takes the shortest.                                                      *)
Begin(words) == {n \in Instants : IsPrefix(Spell(n).words, words)}
LongestShort(words) ==
  {n \in Begin(words) : \A m \in Begin(words) : Len(Spell(n).words) <= Len(Spell(m).words)}
Longest(words) ==
  {n \in Begin(words) : \A m \in Begin(words) : Len(Spell(n).words) >= Len(Spell(m).words)}
GetInstantSpell(words) ==
  {n \in Longest(words) : LET length == Len(Spell(n).words)
                          IN  Len(words) > length =>
                                /\ Spell(n).hasParam
                                /\ Len(words) - length >= 2 /\ words[length + 1] = Space}

Drop(seq, n) == SubSeq(seq, n + 1, Len(seq))
Trim(seq) ==
  LET full == {j \in DOMAIN seq : seq[j] # Space}
  IN  IF full = {} THEN <<>> ELSE SubSeq(seq, Min(full), Max(full))

(* playerSaySpell: the parameter behind the words, in quotes or one word.    *)
(* {} if it is not one: then the words are only said.                       *)
Param(spell, words) ==
  LET text   == Drop(words, Len(spell.words))
      quotes == {j \in DOMAIN text : text[j] = Quote}
      first  == Min(quotes)
      second == IF Cardinality(quotes) > 1 THEN Min(quotes \ {first}) ELSE Len(text) + 1
      last   == Max({j \in DOMAIN text : text[j] # Space})
  IN  IF text = <<>> THEN {<<>>}
      ELSE IF quotes # {}
      THEN IF Cardinality(quotes) > 1 /\ last # second THEN {} ELSE {SubSeq(text, first + 1, second - 1)}
      ELSE IF Contains(Trim(text), Space) THEN {} ELSE {Trim(text)}

PlayerSaySpell(words) ==
  {<<n, param>> : n \in GetInstantSpell(words),
                  param \in UNION {IF Spell(m).hasParam THEN Param(Spell(m), words) ELSE {<<>>}
                                   : m \in GetInstantSpell(words)}}

-----------------------------------------------------------------------------
(* Steps *)

Neighbours(place) == {place - 1, place + 1} \cap Place
WalkCaster(to) == s.about = "zones" /\ to \in Neighbours(s.caster) /\ s' = OnCasterMove(to)
WalkTarget(to) == s.about = "zones" /\ to \in Neighbours(s.target) /\ s' = OnTargetMove(to)
ChooseTarget == s.about = "zones" /\ ~s.attacked /\ s' = PlayerSetAttackedCreature

(* checkCreatureAttack, while someone is attacked; in "weapons" it is.       *)
Swing(hits, breaks) ==
  /\ \/ s.about = "zones" /\ s.attacked
     \/ s.about = "weapons" /\ \A w \in Weapon : s.used[w] <= MaxUnits
  /\ LET done == DoAttacking(hits, breaks)
     IN  s' = IF s.about = "zones" THEN [done EXCEPT !.units = s.units, !.used = s.used] ELSE done

Say(n, named, dir, works) ==
  /\ s.about \in {"zones", "cooldowns"} /\ (named => Spell(n).hasParam)
  /\ IF s.about = "zones" THEN works ELSE dir = 1
  /\ s' = PlayerCastInstant(n, named, dir, works)

UseRune(n, place, works) ==
  /\ s.about \in {"zones", "cooldowns", "runes"}
  /\ IF s.about = "zones" THEN works ELSE place = s.target
  /\ LET done == ExecuteUse(n, place, works)
     IN  s' = IF s.about = "runes" THEN done ELSE [done EXCEPT !.charges = s.charges, !.runes = s.runes]

(* A field burns out.                                                       *)
FieldGone(place) ==
  /\ s.field[place] # "none"
  /\ s' = [s EXCEPT !.field[place] = "none", !.hurt = {}]

(* Equipment changes between swings; a spear that lies near is picked up.    *)
Equip(hand) ==
  /\ s.about = "weapons" /\ hand # s.hand
  /\ hand \in {"sword", "spear", "wand"} => s.units[hand] > 0
  /\ s' = [s EXCEPT !.hand = hand, !.hurt = {}]
PickUp == s.about = "weapons" /\ s.lying > 0 /\ s' = [s EXCEPT !.lying = @ - 1, !.units["spear"] = @ + 1]

Pass ==
  /\ s.about = "cooldowns" /\ s.nextThink > 0
  /\ s' = [s EXCEPT !.nextThink = @ - 1, !.since = [n \in Name |-> Min({MaxTime, @[n] + 1})],
                    !.cool = [k \in DOMAIN @ |-> [ticks |-> @[k].ticks, left |-> Max({0, @[k].left - 1})]]]

(* executeConditions; mana comes back.                                      *)
OnThink ==
  /\ s.about = "cooldowns" /\ s.nextThink = 0
  /\ s' = [s EXCEPT !.nextThink = Think, !.mana = Min({MaxMana, @ + 1}),
                    !.cool = [k \in DOMAIN @ |-> IF @[k].left = 0 THEN [ticks |-> 0, left |-> 0]
                                             ELSE [ticks |-> Max({0, @[k].ticks - Think}), left |-> @[k].left]]]

(* Logout stores the ticks that are left, login counts them anew; its first  *)
(* think may come at any time.                                              *)
Relogin(phase) ==
  /\ s.about = "cooldowns" /\ s.logins < MaxLogins
  /\ s' = [s EXCEPT !.logins = @ + 1, !.nextThink = phase,
                    !.cool = [k \in DOMAIN @ |-> [ticks |-> @[k].ticks, left |-> @[k].ticks]]]

(* luaCreateCombatArea of a table, and the area of a monster's wave.        *)
CreateCombatArea(shape) ==
  /\ s.about = "areas" /\ s.areas = <<>>
  /\ s' = [s EXCEPT !.areas = SetupArea(CreateArea(shape.vec, shape.rows))]
CreateWave(length, spread) ==
  /\ s.about = "areas" /\ s.areas = <<>>
  /\ s' = [s EXCEPT !.areas = SetupArea(CreateArea(WaveVec(length, spread), length))]

Next ==
  \/ \E to \in Place : WalkCaster(to) \/ WalkTarget(to) \/ FieldGone(to)
  \/ \E n \in Instants, named, works \in BOOLEAN, dir \in {-1, 1} :
       Say(n, named, dir, works)
  \/ \E n \in Runes, place \in Place, works \in BOOLEAN : UseRune(n, place, works)
  \/ \E hits, breaks \in BOOLEAN : Swing(hits, breaks)
  \/ \E hand \in Hand : Equip(hand)
  \/ \E phase \in 0 .. Think : Relogin(phase)
  \/ \E shape \in Shapes : CreateCombatArea(shape)
  \/ \E length \in 1 .. 4, spread \in 0 .. 3 : CreateWave(length, spread)
  \/ ChooseTarget \/ PickUp \/ Pass \/ OnThink

Spec == Init /\ [][Next]_s

-----------------------------------------------------------------------------
(* Nobody is hurt in a protection zone or out of one, whatever the ways and  *)
(* the order in which spells, runes and swings are begun and both walk; and *)
(* a field that is harmful lies where players may fight.                    *)
NobodyHurtWhereSafe ==
  /\ \A zones \in s.hurt : zones[1] # "protection" /\ zones[2] # "protection"
  /\ \A place \in Place : s.field[place] # "none" => Zone[place] # "protection"
  /\ \A place \in Place : s.field[place] = "pvp" => Zone[place] # "nopvp" /\ ~s.noPvp

(* What canDoCombat and canTargetCreature say of a zone without fights of    *)
(* players does not hold: who walks into one goes on to hit its target.     *)
NoPvpKept == s.kind = "player" => \A zones \in s.hurt : "nopvp" \notin {zones[1], zones[2]}

(* A spell that was cast, and its groups, stay exhausted for their time: a   *)
(* shorter cooldown does not end a longer one, a login takes less than a     *)
(* think of it.                                                             *)
Cooling(key, time, n) == s.since[n] + Think * s.logins < time => Exhausted(key)
CooldownsHold ==
  s.about = "cooldowns" =>
    \A n \in Name : LET spell == Spell(n)
                    IN  /\ Cooling(<<"spell", spell.id>>, spell.cooldown, n)
                        /\ Cooling(<<"group", spell.group>>, spell.groupCooldown, n)
                        /\ Cooling(<<"group", spell.second>>, spell.secondCooldown, n)

(* Each shot takes one arrow, each stroke one charge, and a spear that was   *)
(* thrown lies or is broken.                                                *)
ShotsAccounted ==
  s.about \in {"weapons", "runes"} =>
    /\ \A w \in {"sword", "arrow"} : s.units[w] + s.used[w] = MaxUnits
    /\ s.units["spear"] + s.lying + s.broken["spear"] = MaxUnits
    /\ s.charges + s.runes = MaxUnits

(* An area turns about its centre: it reaches to the east what it reaches to *)
(* the north a quarter of a turn on, and so forth.                          *)
Turned(cells) == {<<-c[2], c[1]>> : c \in cells}
AreasTurn ==
  s.areas # <<>> =>
    /\ GetList(GetArea(s.areas, 1, 0)) = Turned(GetList(GetArea(s.areas, 0, -1)))
    /\ GetList(GetArea(s.areas, 0, 1)) = Turned(GetList(GetArea(s.areas, 1, -1)))
    /\ GetList(GetArea(s.areas, -1, 1)) = Turned(GetList(GetArea(s.areas, 0, 1)))

(* The same of the corners does not hold: flip and mirror exchange their     *)
(* centres, and transpose leaves the corner where it is.                    *)
ExtAreasTurn ==
  s.areas # <<>> /\ s.areas.north.rows = s.areas.north.cols =>
    LET ext == SetupExtArea(s.areas.north)
    IN  /\ GetList(ext.northeast) = {<<-c[1], c[2]>> : c \in GetList(ext.northwest)}
        /\ GetList(ext.southwest) = {<<c[1], -c[2]>> : c \in GetList(ext.northwest)}
        /\ GetList(ext.southeast) = {<<-c[1], -c[2]>> : c \in GetList(ext.northwest)}

(* Who says the words of a spell casts it, with what is in the quotes behind *)
(* them if it takes a parameter.                                            *)
SaidIsCast ==
  s.about = "words" =>
    /\ \A n \in Instants : s.said = Spell(n).words => PlayerSaySpell(s.said) = {<<n, <<>>>>}
    /\ \A n \in Instants, name \in SeqOf(Letters \cup {Space}, 3) :
         /\ Spell(n).hasParam
         /\ s.said = Spell(n).words \o <<Space, Quote>> \o name \o <<Quote>>
         => PlayerSaySpell(s.said) = {<<n, name>>}
=============================================================================
