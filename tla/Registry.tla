------------------------------ MODULE Registry ------------------------------
(***************************************************************************)
(* The tables in which the server finds what a script has registered:      *)
(* actions, talk actions, spells, weapons, move events, creature events    *)
(* (baseevents.cpp, actions.cpp, talkaction.cpp, spells.cpp, weapons.cpp,  *)
(* movement.cpp, creatureevent.cpp, script.cpp) and how they are loaded    *)
(* again while the game runs (Game::reload).  Every table is filled from   *)
(* two sources, an XML file and the Lua scripts of data/scripts, and each  *)
(* may be reloaded alone.                                                  *)
(*                                                                         *)
(* A behaviour is about one table of "About".  What is on disk changes       *)
(* between reloads; all of a reload is one task of the dispatcher.         *)
(*                                                                         *)
(* Abstracted: what scripts do; an entry is known by the edit that wrote   *)
(* it and its place in the file.                                           *)
(***************************************************************************)
EXTENDS Integers, Sequences, SequencesExt, FiniteSetsExt, TLC

CONSTANTS About,        \* the tables
          MaxEdits      \* of the files, for each table

Kinds == {"actions", "talk", "spells", "weapons", "moves", "creature", "handlers"}

(* Assumed where this module is instantiated. *)
RegistryAssumption == About \subseteq Kinds /\ MaxEdits \in [About -> Nat]

VARIABLE s

Kind == s.disk.about

-----------------------------------------------------------------------------
(* What is registered under: a map and an identifier in it.                *)
Keys(about) == CASE about = "actions" -> {<<"unique", 1>>, <<"item", 1>>, <<"item", 2>>}
          [] about = "talk"    -> {<<"a">>, <<"a", "b">>, <<"a", " ", "b">>}
          [] about = "spells"  -> {<<"instant", 1>>, <<"rune", 1>>}
          [] about = "weapons" -> {1, 2, 3}
          [] about = "moves"   -> {<<"unique", 1>>, <<"item", 1>>, <<"pos", 1>>}
          [] about = "handlers" -> {"onLeave", "onTargetCombat", "onLook"}
          [] OTHER             -> {"x", "y", "z"}

(* A weapon of an item type that is one without being registered            *)
WithDefault == {1, 2}

(* How a node of a file registers: for a list of identifiers, for a range,  *)
(* or for one.  type is that of move events and creature events.            *)
Node(keys, form, type) == [keys |-> keys, form |-> form, type |-> type]
Single(k, type) == Node(<<k>>, "one", type)
Types(about) == IF about \in {"moves", "creature"} THEN {"in", "out"} ELSE {"any"}

ListFiles(about) == IF about = "actions"
             THEN {<<Node(<<<<"item", 1>>, <<"item", 2>>>>, form, "any")>> : form \in {"list", "range"}}
             ELSE {}

(* Files with at most two nodes.  The names of creature events are few:      *)
(* x is in XML, z in scripts, y where it likes.                             *)
XmlFiles(about) ==
  CASE about = "creature" ->
         {<<>>} \cup {<<Single("x", t)>> : t \in Types(about)} \cup {<<Single("y", "in")>>}
                \cup {<<Single("x", t), Single("y", "in")>> : t \in Types(about)}
    [] about = "moves" -> {<<>>} \cup {<<Single(k, t)>> : k \in Keys(about), t \in Types(about)}
                \cup {<<Single(<<"item", 1>>, "in"), Single(<<"item", 1>>, t)>> : t \in Types(about)}
    [] OTHER -> {<<>>} \cup {<<Single(k, "any")>> : k \in Keys(about)} \cup ListFiles(about)
                \cup {<<Single(p[1], "any"), Single(p[2], "any")>> : p \in Keys(about) \X Keys(about)}
(* What a script may say of an event before it registers it; one without a  *)
(* function is not registered.                                              *)
LuaAction(keys, scripted) == IF scripted THEN <<Node(keys, "range", "any")>> ELSE <<>>
LuaTalkaction(words, scripted) == IF scripted THEN <<Node(words, "range", "any")>> ELSE <<>>
LuaCreatureEvent(name, type, scripted) == IF scripted THEN <<Single(name, type)>> ELSE <<>>

(* Without a function the event is a built-in one, and of several           *)
(* identifiers the first is skipped.                                        *)
RegisterLuaFunction(keys, type) ==
  IF Len(keys) = 1 THEN <<Node(keys, "range", type)>> ELSE <<Node(Tail(keys), "range", type)>>
LuaMoveEvent(keys, type, scripted) ==
  IF scripted THEN <<Node(keys, "range", type)>> ELSE RegisterLuaFunction(keys, type)

LuaFiles(about) ==
  LET Nodes(scripted) ==
        CASE about = "handlers" -> {<<>>}
          [] about = "creature" -> {LuaCreatureEvent(k, "in", scripted) : k \in {"y", "z"}}
          [] about = "actions"  -> {LuaAction(<<k>>, scripted) : k \in Keys(about)}
                                     \cup {LuaAction(<<<<"item", 1>>, <<"item", 2>>>>, scripted)}
          [] about = "talk"     -> {LuaTalkaction(<<k>>, scripted) : k \in Keys(about)}
          [] about = "moves"    -> {LuaMoveEvent(<<k>>, "in", scripted) : k \in Keys(about)}
          [] OTHER              -> {<<Single(k, "any")>> : k \in Keys(about)}
  IN UNION {Nodes(scripted) : scripted \in BOOLEAN} \cup {<<>>}
       \cup IF about = "creature" THEN {LuaCreatureEvent("y", "in", TRUE) \o LuaCreatureEvent("z", "in", TRUE)}
            ELSE {}

(* An entry as it is put into a table: whether scripts registered it, the   *)
(* edit and the place it was read from, and what a list leaves it without.  *)
Entry(lua, from, v, i, type, bare) ==
  [lua |-> lua, from |-> from, v |-> v, i |-> i, type |-> type, bare |-> bare, loaded |-> TRUE]

-----------------------------------------------------------------------------
(* Tables that keep one entry for each key                                  *)

(* std::map::emplace, that leaves what is there                             *)
Emplace(t, k, e) == IF k \in DOMAIN t THEN t ELSE t @@ (k :> e)
Put(t, k, e) == (k :> e) @@ t
Erase(t, lua) == [k \in {k \in DOMAIN t : t[k].lua # lua} |-> t[k]]

ClearMapForgets(t, lua) == IF lua THEN t ELSE Erase(t, lua)
ClearMap(t, lua) == Erase(t, lua)
TalkClear(t, lua) == Erase(t, lua)
SpellsClearMaps(t, lua) == Erase(t, lua)
WeaponsClear(t, lua) == Erase(t, lua)

(* A list of identifiers moves the action into the first and registers for  *)
(* the others what is left of it; a range copies it.                        *)
ActionsRegisterEvent(t, n, e) ==
  FoldLeft(LAMBDA r, j : Emplace(r, n.keys[j], [e EXCEPT !.bare = n.form = "list" /\ j > 1]),
           t, [j \in 1..Len(n.keys) |-> j])
ActionsRegisterLuaEvent(t, n, e) == FoldLeft(LAMBDA r, k : Emplace(r, k, e), t, n.keys)
TalkRegisterEvent(t, n, e) == FoldLeft(LAMBDA r, k : Emplace(r, k, e), t, n.keys)
SpellsRegisterEvent(t, n, e) == Emplace(t, n.keys[1], e)
RegisterInstantLuaEvent(t, n, e) == Emplace(t, n.keys[1], e)
WeaponsRegisterEvent(t, n, e) == Emplace(t, n.keys[1], e)
WeaponsRegisterLuaEvent(t, n, e) == Put(t, n.keys[1], e)

LoadDefaults(t) ==
  FoldSet(LAMBDA k, r : Emplace(r, k, Entry(FALSE, "default", 0, 0, "any", FALSE)), t, WithDefault)

-----------------------------------------------------------------------------
(* Move events: lists for each key and type, that may hold several.         *)

AddEvent(t, k, e) == Put(t, k, (IF k \in DOMAIN t THEN t[k] ELSE <<>>) \o <<e>>)
MoveEventsClearMap(t, lua) == [k \in DOMAIN t |-> SelectSeq(t[k], LAMBDA e : e.lua # lua)]
MovesRegisterEvent(t, n, e) ==
  FoldLeft(LAMBDA r, j : AddEvent(r, n.keys[j], [e EXCEPT !.bare = n.form = "list" /\ j > 1]),
           t, [j \in 1..Len(n.keys) |-> j])
MovesRegisterLuaEvent(t, n, e) == FoldLeft(LAMBDA r, k : AddEvent(r, k, e), t, n.keys)

-----------------------------------------------------------------------------
(* Creature events: creatures point to them, so that they are cleared and   *)
(* filled again in place.                                                   *)

CopyEvent(old, e) == [old EXCEPT !.from = e.from, !.v = e.v, !.i = e.i, !.loaded = TRUE]
CreaturesRegisterEvent(t, n, e) ==
  LET k == n.keys[1] IN
  IF k \notin DOMAIN t THEN t @@ (k :> e)
  ELSE IF ~t[k].loaded /\ t[k].type = e.type THEN [t EXCEPT ![k] = CopyEvent(@, e)]
  ELSE t
CreaturesRegisterLuaEvent(t, n, e) == CreaturesRegisterEvent(t, n, e)
ClearEvent(e) == [e EXCEPT !.loaded = FALSE]
CreaturesClearErases(t, lua) == Erase(t, lua)
CreaturesClear(t, lua) == [k \in DOMAIN t |-> IF t[k].lua = lua THEN ClearEvent(t[k]) ELSE t[k]]
Invalid(t) == {k \in DOMAIN t : ~t[k].loaded}

-----------------------------------------------------------------------------
(* Loading                                                                  *)

Clear(about, t, lua) == CASE about = "actions"  -> ClearMap(t, lua)
                   [] about = "talk"     -> TalkClear(t, lua)
                   [] about = "spells"   -> SpellsClearMaps(t, lua)
                   [] about = "weapons"  -> WeaponsClear(t, lua)
                   [] about = "moves"    -> MoveEventsClearMap(t, lua)
                   [] about = "handlers" -> t
                   [] OTHER              -> CreaturesClear(t, lua)
RegisterEvent(about, t, n, e) == CASE about = "actions"  -> ActionsRegisterEvent(t, n, e)
                            [] about = "talk"     -> TalkRegisterEvent(t, n, e)
                            [] about = "spells"   -> SpellsRegisterEvent(t, n, e)
                            [] about = "weapons"  -> WeaponsRegisterEvent(t, n, e)
                            [] about = "moves"    -> MovesRegisterEvent(t, n, e)
                            [] about = "handlers" -> Emplace(t, n.keys[1], e)
                            [] OTHER              -> CreaturesRegisterEvent(t, n, e)
RegisterLuaEvent(about, t, n, e) == CASE about = "actions"  -> ActionsRegisterLuaEvent(t, n, e)
                               [] about = "talk"     -> TalkRegisterEvent(t, n, e)
                               [] about = "spells"   -> RegisterInstantLuaEvent(t, n, e)
                               [] about = "weapons"  -> WeaponsRegisterLuaEvent(t, n, e)
                               [] about = "moves"    -> MovesRegisterLuaEvent(t, n, e)
                               [] OTHER              -> CreaturesRegisterLuaEvent(t, n, e)

(* The files on disk; one that does not parse leaves the table as it is.     *)
LoadFromXml(t, disk) ==
  IF ~disk.parses THEN t
  ELSE FoldLeft(LAMBDA r, i : RegisterEvent(disk.about, r, disk.xml[i],
                                Entry(FALSE, "xml", disk.xmlEdit, i, disk.xml[i].type, FALSE)),
                t, [i \in 1..Len(disk.xml) |-> i])
LoadScripts(t, disk) ==
  FoldLeft(LAMBDA r, i : RegisterLuaEvent(disk.about, r, disk.lua[i],
                           Entry(TRUE, "lua", disk.luaEdit, i, disk.lua[i].type, FALSE)),
           t, [i \in 1..Len(disk.lua) |-> i])
Defaults(about, t) == IF about = "weapons" THEN LoadDefaults(t) ELSE t

(* Events::load forgets its handlers only once it has read the file.         *)
EventsLoad(t, disk) == IF disk.parses THEN LoadFromXml(<<>>, disk) ELSE t
Reload(t, disk) == IF disk.about = "handlers" THEN EventsLoad(t, disk)
                   ELSE LoadFromXml(Clear(disk.about, t, FALSE), disk)
LoadScriptSystems(disk) == Defaults(disk.about, LoadFromXml(<<>>, disk))
Fresh(disk) == LoadScripts(LoadScriptSystems(disk), disk)

(* Keys(Kind) of nodes of the XML file that the table did not take.               *)
KeysOf(f) == UNION {ToSet(f[i].keys) : i \in DOMAIN f}
Taken(t, k, disk) == k \in DOMAIN t /\ (disk.about = "moves" \/
                     (t[k].loaded /\ t[k].from = "xml" /\ t[k].v = disk.xmlEdit))
Refused(t, disk) == {k \in KeysOf(disk.xml) : ~Taken(t, k, disk)}

-----------------------------------------------------------------------------
(* Who points into the tables                                               *)

(* The types of monsters keep pointers to the spells that they cast; those  *)
(* to what is erased dangle.                                                *)
LoadMonsters(t) == [k \in DOMAIN t |-> [lua |-> t[k].lua, live |-> TRUE]]
Dangle(casts, t) == [k \in DOMAIN casts |->
  [casts[k] EXCEPT !.live = @ /\ k \in DOMAIN t /\ t[k].lua = casts[k].lua]]
MonstersKeep(about, t) == IF about = "spells" THEN LoadMonsters(t) ELSE <<>>

(* A creature keeps pointers to the events that were registered for it.     *)
HasEventRegistered(type) == type \in s.bits
RegisterCreatureEvent(n) ==
  /\ Kind = "creature"
  /\ n \in DOMAIN s.table /\ s.table[n].loaded
  /\ n \notin s.held
  /\ s' = [s EXCEPT !.held = @ \cup {n}, !.bits = @ \cup {s.table[n].type}]

(* Other pointers of the list are followed, those that dangle too.          *)
UnregisterCreatureEvent(n) ==
  /\ Kind = "creature"
  /\ n \in DOMAIN s.table /\ s.table[n].loaded
  /\ HasEventRegistered(s.table[n].type)
  /\ \E read \in SUBSET s.dangling :
       LET type == s.table[n].type
           others == {s.table[m].type : m \in s.held \ {n}}
       IN s' = [s EXCEPT !.held = @ \ {n},
                         !.bits = IF type \in others \/ read # {} THEN @ ELSE @ \ {type}]

(* The loop erases the element that its iterator is at, and goes on from    *)
(* there: it may end early.                                                 *)
RemoveInvalidEvents(t) ==
  IF Invalid(t) = {} THEN {t}
  ELSE {[k \in DOMAIN t \ gone |-> t[k]] : gone \in (SUBSET Invalid(t)) \ {{}}}
Removals(t) == IF Kind = "creature" THEN RemoveInvalidEvents(t) ELSE {t}

GetCreatureEvents(type) ==
  IF ~HasEventRegistered(type) THEN {}
  ELSE {n \in s.held : s.table[n].loaded /\ s.table[n].type = type}

-----------------------------------------------------------------------------
(* Game::reload                                                             *)

Init ==
  \E about \in About : \E xml \in XmlFiles(about), lua \in LuaFiles(about) :
     LET disk == [about |-> about, xml |-> xml, lua |-> lua, parses |-> TRUE, xmlEdit |-> 0, luaEdit |-> 0]
         t == Fresh(disk)
     IN s = [disk |-> disk, edits |-> 0, table |-> t, seen |-> [xml |-> 0, lua |-> 0],
             op |-> "started", refused |-> {}, casts |-> MonstersKeep(about, t),
             held |-> {}, dangling |-> {}, bits |-> {}, gone |-> {}, said |-> "nothing"]

Running == s.op # "terminated"

EditXml ==
  /\ s.edits < MaxEdits[Kind]
  /\ \E xml \in XmlFiles(Kind), parses \in BOOLEAN :
       s' = [s EXCEPT !.disk.xml = xml, !.disk.parses = parses, !.disk.xmlEdit = s.edits + 1,
                      !.edits = @ + 1, !.op = IF Running THEN "edited" ELSE @]
EditScripts ==
  /\ s.edits < MaxEdits[Kind]
  /\ \E lua \in LuaFiles(Kind) \ {s.disk.lua} :
       s' = [s EXCEPT !.disk.lua = lua, !.disk.luaEdit = s.edits + 1, !.edits = @ + 1,
                      !.op = IF Running THEN "edited" ELSE @]

(* The table after a reload, and who pointed into it: only what was kept is   *)
(* where it was.                                                            *)
Settle(op, t, kept, refused, casts, seen) ==
  LET lost == s.held \ (kept \cap DOMAIN t) IN
  s' = [s EXCEPT !.table = t, !.op = op, !.refused = refused, !.seen = seen, !.casts = casts,
                 !.held = @ \ lost, !.dangling = @ \cup lost,
                 !.gone = @ \cup refused \cup {k \in DOMAIN s.table :
                                k \notin KeysOf(s.disk.xml) \cup KeysOf(s.disk.lua)}]
Seen(xml, lua) == [xml |-> IF xml /\ s.disk.parses THEN s.disk.xmlEdit ELSE s.seen.xml,
                   lua |-> IF lua THEN s.disk.luaEdit ELSE s.seen.lua]

(* A file of spells that does not parse ends the server.                    *)
Terminates == Kind = "spells" /\ ~s.disk.parses
Terminate == Running /\ Terminates /\ s' = [s EXCEPT !.op = "terminated"]

(* RELOAD_TYPE_ACTIONS, _TALKACTIONS, _SPELLS (with the monsters), _WEAPONS,  *)
(* _MOVEMENTS, _CREATURESCRIPTS, _EVENTS                                    *)
ReloadSpellsOnly(t) == Dangle(s.casts, Clear("spells", s.table, FALSE))
ReloadSpells(t) == LoadMonsters(t)
ReloadOwn ==
  /\ Running /\ ~Terminates
  /\ LET t == Reload(s.table, s.disk) IN
     \E left \in Removals(Defaults(Kind, t)) :
       Settle("own", left, DOMAIN Clear(Kind, s.table, FALSE), Refused(t, s.disk),
              IF Kind = "spells" THEN ReloadSpells(left) ELSE <<>>, Seen(TRUE, FALSE))

(* RELOAD_TYPE_SCRIPTS: weapons take their defaults before scripts register. *)
ReloadScripts ==
  /\ Running /\ Kind # "handlers"
  /\ LET t == Defaults(Kind, Clear(Kind, s.table, TRUE))
     IN \E left \in Removals(LoadScripts(t, s.disk)) :
          Settle("scripts", left, DOMAIN t, {}, Dangle(s.casts, t), Seen(FALSE, TRUE))

(* RELOAD_TYPE_ALL: the XML files while what scripts registered is there,   *)
(* later the scripts.                                                       *)
ReloadAll ==
  /\ Running /\ ~Terminates
  /\ LET t == Reload(s.table, s.disk)
         casts == MonstersKeep(Kind, t)
         cleared == Defaults(Kind, Clear(Kind, t, TRUE))
     IN \E left \in Removals(LoadScripts(cleared, s.disk)) :
          Settle("all", left, DOMAIN cleared \cap DOMAIN Clear(Kind, s.table, FALSE),
                 Refused(t, s.disk), Dangle(casts, cleared), Seen(TRUE, TRUE))

ReloadMonsters ==
  /\ Running /\ Kind = "spells"
  /\ s' = [s EXCEPT !.casts = LoadMonsters(s.table)]

Restart ==
  /\ ~Running /\ s.disk.parses
  /\ LET t == Fresh(s.disk)
     IN s' = [s EXCEPT !.table = t, !.op = "started", !.refused = {}, !.casts = MonstersKeep(Kind, t),
                       !.seen = [xml |-> s.disk.xmlEdit, lua |-> s.disk.luaEdit]]

-----------------------------------------------------------------------------
(* What is found                                                            *)

Has(k) == k \in DOMAIN s.table

(* The action of an item that has a unique identifier or not: the most      *)
(* special map that knows it.                                               *)
GetAction(unique, id) ==
  LET ks == <<<<"unique", 1>>, <<"item", id>>>>
      known == {i \in 1..2 : Has(ks[i]) /\ (i = 2 \/ unique)}
  IN IF known = {} THEN "nothing" ELSE s.table[ks[Min(known)]].from

Of(k, type) == IF Has(k) THEN SelectSeq(s.table[k], LAMBDA e : e.type = type) ELSE <<>>
First(l) == IF l = <<>> THEN l ELSE <<Head(l)>>
GetEventOfItemFirst(unique, type) ==
  IF Of(<<"item", 1>>, type) # <<>> THEN First(Of(<<"item", 1>>, type))
  ELSE First(Of(<<"unique", 1>>, type))
GetEvent(unique, type) ==
  IF unique /\ Of(<<"unique", 1>>, type) # <<>> THEN First(Of(<<"unique", 1>>, type))
  ELSE First(Of(<<"item", 1>>, type))

(* The first of the words, as std::map orders them, that what is said       *)
(* begins with, alone or followed by a space.                               *)
WordsInOrder == <<<<"a">>, <<"a", " ", "b">>, <<"a", "b">>>>
Begins(words, said) ==
  /\ IsPrefix(words, said)
  /\ Len(said) = Len(words) \/ said[Len(words) + 1] = " "
PlayerSaySpell(said) ==
  LET known == {i \in DOMAIN WordsInOrder : Has(WordsInOrder[i]) /\ Begins(WordsInOrder[i], said)}
  IN IF known = {} THEN <<>> ELSE <<WordsInOrder[Min(known)]>>
Said == {<<"a">>, <<"a", "b">>, <<"a", " ", "b">>, <<"a", "b", "b">>, <<"b">>}

-----------------------------------------------------------------------------
(* Events of scripts: whether one may refuse, is only told, or changes an   *)
(* amount (events.cpp)                                                      *)

MonsterHandlers == [onSpawn |-> "may", onDropLoot |-> "told"]
CreatureHandlers == [onChangeOutfit |-> "may", onAreaCombat |-> "may", onTargetCombat |-> "may",
                     onHear |-> "told"]
PartyHandlers == [onJoin |-> "may", onLeave |-> "may", onDisband |-> "may",
                  onShareExperience |-> "changes"]
LookHandlers == [onBrowseField |-> "may", onLook |-> "told", onLookInBattleList |-> "told",
                 onLookInTrade |-> "told", onLookInShop |-> "may"]
MoveHandlers == [onMoveItem |-> "may", onItemMoved |-> "told", onMoveCreature |-> "may"]
ReportHandlers == [onReportRuleViolation |-> "told", onReportBug |-> "may", onTurn |-> "may"]
TradeHandlers == [onTradeRequest |-> "may", onTradeAccept |-> "may", onTradeCompleted |-> "told"]
GainHandlers == [onGainExperience |-> "changes", onLoseExperience |-> "changes",
                 onGainSkillTries |-> "changes", onWrapItem |-> "told"]
Handlers == MonsterHandlers @@ CreatureHandlers @@ PartyHandlers @@ LookHandlers @@ MoveHandlers
              @@ ReportHandlers @@ TradeHandlers @@ GainHandlers

(* Creature events: to refuse is to stop the login, the death; "changes"    *)
(* are of the amount of damage.                                             *)
CallsOfLife == [onLogin |-> "may", onLogout |-> "may", onThink |-> "may", onPrepareDeath |-> "may",
                onDeath |-> "may"]
CallsOfOthers == [onAdvance |-> "may", onKill |-> "told", onModalWindow |-> "told",
                  onTextEdit |-> "may", onHealthChange |-> "changes", onManaChange |-> "changes",
                  onExtendedOpcode |-> "told"]

(* One that may refuse does when no environment is free, or the script fails. *)
Answer(kind, asked, free, answer) ==
  IF ~asked THEN "allowed"
  ELSE IF kind = "may" THEN IF free /\ answer = "yes" THEN "allowed" ELSE "refused"
  ELSE IF kind = "changes" /\ free /\ answer = "yes" THEN "changed"
  ELSE "allowed"

Calls == CallsOfLife @@ CallsOfOthers
AskEvents ==
  /\ Running /\ Kind = "creature"
  /\ \E call \in DOMAIN Calls, free \in BOOLEAN, answer \in {"yes", "no", "error"} :
       s' = [s EXCEPT !.said = Answer(Calls[call], GetCreatureEvents("in") # {}, free, answer)]

Ask(h) ==
  /\ Running /\ Kind = "handlers"
  /\ \E free \in BOOLEAN, answer \in {"yes", "no", "error"} :
       s' = [s EXCEPT !.said = Answer(Handlers[h], Has(h), free, answer)]

(* Events that all players have, until one refuses                          *)
PlayerLogin(refusing) ==
  LET told == {n \in DOMAIN s.table : s.table[n].type = "in"}
  IN IF told \cap refusing # {} THEN "refused" ELSE "allowed"
AskAtLogin ==
  /\ Running /\ Kind = "creature"
  /\ \E refusing \in SUBSET DOMAIN s.table : s' = [s EXCEPT !.said = PlayerLogin(refusing)]

(* The event of the place and that of the item on it are both told of a     *)
(* step, and either may refuse.                                             *)
OnCreatureMove(type, unique) == First(Of(<<"pos", 1>>, type)) \o GetEvent(unique, type)
StepOn ==
  /\ Running /\ Kind = "moves"
  /\ \E type \in {"in", "out"}, unique \in BOOLEAN :
       LET told == OnCreatureMove(type, unique) IN
       \E free \in BOOLEAN, answer \in {"yes", "no", "error"} :
         s' = [s EXCEPT !.said = Answer("may", told # <<>>, free, answer)]

-----------------------------------------------------------------------------
Next ==
  \/ EditXml \/ EditScripts
  \/ ReloadOwn \/ ReloadScripts \/ ReloadAll \/ ReloadMonsters \/ Terminate \/ Restart
  \/ \E n \in Keys(Kind) : RegisterCreatureEvent(n) \/ UnregisterCreatureEvent(n)
  \/ AskEvents \/ AskAtLogin \/ StepOn
  \/ \E h \in Keys(Kind) : Ask(h)

Spec == Init /\ [][Next]_s

-----------------------------------------------------------------------------
(* An entry has an origin and a version; who points, points to what is or was. *)
TypeOK ==
  /\ s.edits \in 0..MaxEdits[Kind]
  /\ DOMAIN s.table \subseteq Keys(Kind)
  /\ s.held \subseteq DOMAIN s.table
  /\ s.dangling \subseteq Keys(Kind) /\ s.bits \subseteq Types(Kind) /\ s.gone \subseteq Keys(Kind)
  /\ s.said \in {"nothing", "allowed", "refused", "changed"}

(* Names that both sources may use: what is said below of the sources is    *)
(* not so of them, for an entry keeps the mark of the source it came from.  *)
Shared == IF Kind = "creature" THEN {"y"} ELSE {}
EntriesAt(k) == IF Kind = "moves" THEN ToSet(s.table[k]) ELSE {s.table[k]}
What(k, t) == IF k \notin DOMAIN t THEN <<>>
              ELSE IF Kind = "moves"
              THEN [i \in 1..Len(t[k]) |-> <<t[k][i].from, t[k][i].v, t[k][i].i>>]
              ELSE IF ~t[k].loaded THEN <<>> ELSE <<<<t[k].from, t[k].v, t[k].i>>>>

(* A complete reload leaves what a start of the server from the same files  *)
(* would have, but for the nodes that found their key taken.                *)
ReloadedIsFresh ==
  s.op = "all" /\ s.disk.parses =>
    \A k \in Keys(Kind) \ (s.refused \cup Shared) : What(k, s.table) = What(k, Fresh(s.disk))

(* Nothing is left of an older version of a file that was read again: of    *)
(* actions that a reload forgot to clear the old ones would go on.          *)
NewestOfItsSource ==
  \A k \in DOMAIN s.table \ Shared : \A e \in EntriesAt(k) :
    e.loaded /\ e.from # "default" => e.v = s.seen[e.from]

(* What monsters cast is there, if no script registered it.                 *)
CastsAlive == \A k \in DOMAIN s.casts : s.casts[k].live \/ s.casts[k].lua

(* An event that stays in its file stays with the creatures that have it,   *)
(* however often it is read again: it is filled in place.                   *)
HeldWhileOnDisk == s.dangling \ Shared \subseteq s.gone

(* A creature is told of all that it is registered for; and does not ask    *)
(* for what it is not, as long as nothing that it points to has gone.       *)
BitsAgree ==
  /\ \A n \in s.held : s.table[n].loaded => n \in GetCreatureEvents(s.table[n].type)
  /\ s.dangling = {} => s.bits \subseteq {s.table[n].type : n \in s.held}

(* The most special registration answers, and only one whose words were     *)
(* said.                                                                    *)
SpecialFirst ==
  /\ Kind = "actions" /\ Has(<<"unique", 1>>) =>
       \A id \in 1..2 : GetAction(TRUE, id) = s.table[<<"unique", 1>>].from
  /\ Kind = "moves" => \A type \in Types("moves") :
       Of(<<"unique", 1>>, type) # <<>> => GetEvent(TRUE, type) = First(Of(<<"unique", 1>>, type))
  /\ Kind = "talk" => \A said \in Said : \A w \in ToSet(PlayerSaySpell(said)) :
       Begins(w, said) /\ ~\E v \in DOMAIN s.table : IsStrictPrefix(v, w) /\ Begins(v, said)

-----------------------------------------------------------------------------
(* Stated, and not so.                                                      *)

(* Whatever the files, a complete reload is as good as a start: not for a   *)
(* key that moves from the scripts to the XML file.                         *)
ReloadedIsAlwaysFresh ==
  s.op = "all" /\ s.disk.parses => \A k \in Keys(Kind) : What(k, s.table) = What(k, Fresh(s.disk))
(* No monster casts a spell that is gone: those of scripts go when scripts  *)
(* are loaded again.                                                        *)
SpellsOfMonstersAlive == \A k \in DOMAIN s.casts : s.casts[k].live
(* No creature points to an event that is gone.                             *)
RegisteredEventsAlive == s.dangling = {}
(* No event without a function is asked at a login.                         *)
NoEmptyEvent == Kind = "creature" => Invalid(s.table) = {}
(* A list of identifiers gives all the same action.                         *)
ListKeepsRules == \A k \in DOMAIN s.table : \A e \in EntriesAt(k) : ~e.bare
(* What is said in full is what is done.                                    *)
SaidInFullIsDone == Kind = "talk" => \A w \in DOMAIN s.table : PlayerSaySpell(w) = <<w>>
(* A built-in move event is registered for every identifier given.          *)
EveryIdRegistered ==
  \A n \in 1..3 : LET ids == [i \in 1..n |-> i]
                  IN KeysOf(LuaMoveEvent(ids, "in", FALSE)) = ToSet(ids)
=============================================================================
