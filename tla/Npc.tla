--------------------------------- MODULE Npc ---------------------------------
(***************************************************************************)
(* Npcs: the shops they open for players, the list of what a player can    *)
(* sell, and whom an npc stays awake for (npc.cpp, player.cpp, game.cpp,   *)
(* protocolgame.cpp).                                                      *)
(*                                                                         *)
(* A behaviour is about one of "About":                                    *)
(*   shops     players and npcs, the windows between them and the          *)
(*             functions of the script that are called for them            *)
(*   sale      what one player owns, and what its client shows of it       *)
(*   presence  one npc and the players that come near it                   *)
(*                                                                         *)
(* A body is the object of a player: one that is logged out is freed, and  *)
(* one that logs in is a new body.  What scripts say and sell is left out. *)
(***************************************************************************)
EXTENDS Integers, Sequences, SequencesExt, FiniteSetsExt, TLC

CONSTANTS About,
          Npcs, Bodies, NoOne,   \* NoOne is neither
          Refs,                  \* numbers of functions that scripts pass
          Reopens,               \* whether a script that is told that a trade ended may open a shop
          Small,                 \* entries of a shop for which items are counted one by one, 5
          Shops,                 \* lists of goods: sequences of <<type, subtype>>
          MaxOwned,              \* items of each type
          Near, Far, Edge,       \* what a client sees, what the map tells of, positions 0 .. Edge
          Radius                 \* of the npc around the middle

(* Assumed where this module is instantiated. *)
NpcAssumption ==
  /\ About \subseteq {"shops", "sale", "presence"}
  /\ NoOne \notin Npcs \cup Bodies /\ Refs \subseteq Nat \ {0}
  /\ Reopens \in BOOLEAN /\ {Small, MaxOwned, Near, Far, Edge, Radius} \subseteq Nat
  /\ Near <= Far

VARIABLE s

-----------------------------------------------------------------------------
(* Shops.  owner[p] is the npc whose window p has open, calls[p] the        *)
(* functions for it, shopPlayers[n] those that n believes to be its         *)
(* customers, live the functions that scripts gave and that were not given  *)
(* back, shown[p] whether the client of p has a window, handlers the npcs   *)
(* that have a script, twice whether a function was given back that was not *)
(* there.                                                                   *)

ShopsInit ==
  [about |-> "shops", online |-> {}, freed |-> {}, npcs |-> Npcs,
   owner |-> [p \in Bodies |-> NoOne], calls |-> [p \in Bodies |-> {}],
   shopPlayers |-> [n \in Npcs |-> {}], live |-> {}, listed |-> [p \in Bodies |-> FALSE],
   shown |-> [p \in Bodies |-> FALSE], handlers |-> Npcs, twice |-> FALSE, crashed |-> FALSE]

Unref(st, refs) == [st EXCEPT !.live = @ \ refs, !.twice = @ \/ ~(refs \subseteq st.live)]
(* Lua numbers them from the lowest that is free.                            *)
PopCallbacks(st, n) == LET free == Refs \ st.live IN {r \in free : Cardinality({q \in free : q < r}) < n}

SetShopOwner(st, p, n, refs) == [st EXCEPT !.owner[p] = n, !.calls[p] = refs]
AddShopPlayer(st, n, p) == [st EXCEPT !.shopPlayers[n] = @ \cup {p}]
RemoveShopPlayer(st, n, p) == [st EXCEPT !.shopPlayers[n] = @ \ {p}]
OpenShopWindow(st, p) == [st EXCEPT !.listed[p] = TRUE, !.shown[p] = TRUE]
Open(st, p, n, refs) == OpenShopWindow(SetShopOwner(AddShopPlayer(st, n, p), p, n, refs), p)

(* The script closes the window, without being told of the end of the trade. *)
LuaCloseShopWindow(st, p, n) ==
  IF st.owner[p] # n THEN st
  ELSE RemoveShopPlayer(SetShopOwner(Unref([st EXCEPT !.shown[p] = FALSE], st.calls[p]), p, NoOne, {}), n, p)

(* What the script does that is told of the end of a trade                   *)
EndScripts == {"nothing", "close"} \cup IF Reopens THEN {"open"} ELSE {}
EndScript(st, p, n, does) ==
  CASE does = "close" -> LuaCloseShopWindow(st, p, n)
    [] does = "open"  -> LET refs == PopCallbacks(st, 1)
                         IN Open([st EXCEPT !.live = @ \cup refs], p, n, refs)
    [] OTHER -> st
OnPlayerEndTrade(st, p, n, refs, does) ==
  IF n \notin st.npcs THEN [st EXCEPT !.crashed = TRUE]
  ELSE EndScript(RemoveShopPlayer(Unref(st, refs), n, p), p, n, IF n \in st.handlers THEN does ELSE "nothing")

(* The owner forgotten last                                                  *)
CloseShopWindowLate(st, p, send, does) ==
  LET cleared(r) == [r EXCEPT !.listed[p] = FALSE] IN
  IF st.owner[p] = NoOne THEN cleared(st)
  ELSE LET r == SetShopOwner(OnPlayerEndTrade(st, p, st.owner[p], st.calls[p], does), p, NoOne, {})
       IN cleared(IF send THEN [r EXCEPT !.shown[p] = FALSE] ELSE r)
CloseShopWindow(st, p, send, does) ==
  LET cleared(r) == [r EXCEPT !.listed[p] = FALSE] IN
  IF st.owner[p] = NoOne THEN cleared(st)
  ELSE LET r == OnPlayerEndTrade(SetShopOwner(st, p, NoOne, {}), p, st.owner[p], st.calls[p], does)
       IN cleared(IF send THEN [r EXCEPT !.shown[p] = FALSE] ELSE r)

(* Without closing the window of another npc                                 *)
LuaOpenOverOther(st, p, n, count, does) ==
  LET refs == PopCallbacks(st, count) IN Open([st EXCEPT !.live = @ \cup refs], p, n, refs)
LuaOpenShopWindow(st, p, n, count, does) ==
  LET refs == PopCallbacks(st, count)
      r == CloseShopWindow([st EXCEPT !.live = @ \cup refs], p, FALSE, does)
  IN IF r.crashed THEN r ELSE Open(r, p, n, refs)

(* The windows of all players of an npc are closed; one that is not a        *)
(* customer is only forgotten.                                               *)
CloseAllShopWindows(st, n, does) ==
  FoldSet(LAMBDA p, r : IF r.crashed THEN r
                        ELSE IF p \in r.freed THEN [r EXCEPT !.crashed = TRUE]
                        ELSE RemoveShopPlayer(CloseShopWindow(r, p, TRUE, does), n, p),
          st, st.shopPlayers[n])

OpenShop(p, n, count, does) ==
  /\ p \in s.online /\ n \in s.npcs /\ count <= Cardinality(Refs \ s.live)
  /\ s' = LuaOpenShopWindow(s, p, n, count, does)
ScriptClosesShop(p, n) ==
  /\ p \in s.online /\ n \in s.npcs /\ s' = LuaCloseShopWindow(s, p, n)
PlayerCloseShop(p, does) ==
  /\ p \in s.online /\ s' = CloseShopWindow(s, p, TRUE, does)
(* The function for it is called, and may close the window: only for what    *)
(* is on the list when it is bought, always when something is sold.          *)
OnPlayerTrade(st, p, n, closes) ==
  IF n \notin st.npcs THEN [st EXCEPT !.crashed = TRUE]
  ELSE IF closes /\ n \in st.handlers THEN LuaCloseShopWindow(st, p, n) ELSE st
PlayerPurchaseItem(p, closes) ==
  /\ p \in s.online /\ s.owner[p] # NoOne /\ s.listed[p]
  /\ s' = OnPlayerTrade(s, p, s.owner[p], closes)
PlayerSellItem(p, closes) ==
  /\ p \in s.online /\ s.owner[p] # NoOne
  /\ s' = OnPlayerTrade(s, p, s.owner[p], closes)

Login(p) == p \notin s.online \cup s.freed /\ s' = [s EXCEPT !.online = @ \cup {p}]
(* Neither is told that the other goes: the calls are commented out.         *)
Logout(p) == p \in s.online /\ s' = [s EXCEPT !.online = @ \ {p}, !.freed = @ \cup {p}]
RemoveNpc(n) == n \in s.npcs /\ s' = [s EXCEPT !.npcs = @ \ {n}]
(* A new client knows of no window.                                          *)
Reconnect(p) == p \in s.online /\ s.shown[p] /\ s' = [s EXCEPT !.shown[p] = FALSE]
(* All windows are closed, then every npc starts anew, without a script when *)
(* its file does not load.                                                   *)
LoadFromXml(st, ok) == [st EXCEPT !.handlers = IF ok THEN Npcs ELSE {}]
Reload(does, ok) ==
  LET closed == FoldSet(LAMBDA n, r : CloseAllShopWindows(r, n, does), s, s.npcs)
  IN s' = IF closed.crashed THEN closed
          ELSE [LoadFromXml(closed, ok) EXCEPT !.shopPlayers = [n \in Npcs |-> IF n \in closed.npcs THEN {} ELSE @[n]]]

ShopsNext ==
  /\ s.about = "shops" /\ ~s.crashed
  /\ \/ \E p \in Bodies :
          \/ \E n \in Npcs : \/ ScriptClosesShop(p, n)
                             \/ \E count \in 0 .. 2 : \E does \in EndScripts : OpenShop(p, n, count, does)
          \/ \E does \in EndScripts : PlayerCloseShop(p, does)
          \/ \E closes \in BOOLEAN : PlayerPurchaseItem(p, closes) \/ PlayerSellItem(p, closes)
          \/ Login(p) \/ Logout(p) \/ Reconnect(p)
     \/ \E n \in Npcs : RemoveNpc(n)
     \/ \E does \in EndScripts : \E ok \in BOOLEAN : Reload(does, ok)

-----------------------------------------------------------------------------
(* What can be sold.  A gem is sold as it is, a wand with its charges, and   *)
(* stone is what a gem may turn into; coins are what is paid with.           *)

Goods == {"gem", "wand", "stone", "coin"}
WithSubType == {"wand"}
Currency == {"coin"}
(* owned[place][type]: at hand or in the bag; the bag may be laid down.      *)
SaleInit(shop) ==
  [about |-> "sale", shop |-> shop, open |-> FALSE, bag |-> TRUE,
   owned |-> [c \in {"hand", "bag"} |-> [t \in Goods |-> 0]],
   shown |-> [t \in Goods |-> 0], turned |-> FALSE]
SaleInits == {SaleInit(shop) : shop \in Shops}

GetItemTypeCount(st, t) == st.owned["hand"][t] + IF st.bag THEN st.owned["bag"][t] ELSE 0

(* Of a large shop what has charges is not counted.                          *)
SaleCount(st, entry) ==
  LET t == entry[1] IN
  IF Len(st.shop) <= Small \/ t \notin WithSubType \/ entry[2] = 0 THEN GetItemTypeCount(st, t) ELSE entry[2]
SaleMap(st) ==
  FoldLeft(LAMBDA m, entry : IF SaleCount(st, entry) > 0 THEN [m EXCEPT ![entry[1]] = SaleCount(st, entry)] ELSE m,
           [t \in Goods |-> 0], st.shop)
SendSaleItemList(st) ==
  [st EXCEPT !.shown = [t \in Goods |-> IF t = "coin" THEN GetItemTypeCount(st, t) ELSE SaleMap(st)[t]],
             !.turned = FALSE]

ForSale(st, t) == \E j \in DOMAIN st.shop : st.shop[j][1] = t
(* The list is sent when something comes or goes that is on it, or in which  *)
(* something is.                                                             *)
Relevant(st, things) == \E t \in things : t \in Currency \/ ForSale(st, t)
UpdateSaleShopListTop(st, things) == IF st.open /\ Cardinality(things) = 1 /\ Relevant(st, things)
                                     THEN SendSaleItemList(st) ELSE st
UpdateSaleShopList(st, things) ==
  IF st.open /\ Relevant(st, things) THEN SendSaleItemList(st) ELSE st
InBag(st) == {t \in Goods : st.owned["bag"][t] > 0}

OpenSale == ~s.open /\ s' = SendSaleItemList([s EXCEPT !.open = TRUE])
CloseSale == s.open /\ s' = [s EXCEPT !.open = FALSE]
Gain(c, t) == /\ c = "bag" => s.bag
              /\ s.owned[c][t] < MaxOwned
              /\ s' = UpdateSaleShopList([s EXCEPT !.owned[c][t] = @ + 1], {t})
Lose(c, t) == /\ c = "bag" => s.bag
              /\ s.owned[c][t] > 0
              /\ s' = UpdateSaleShopList([s EXCEPT !.owned[c][t] = @ - 1], {t})
MoveBag == s' = UpdateSaleShopList([s EXCEPT !.bag = ~@], InBag(s))
(* The list is sent before the thing is another, and after that only for     *)
(* what it then is.                                                          *)
Turn(c) ==
  /\ s.owned[c]["gem"] > 0 /\ s.owned[c]["stone"] < MaxOwned /\ (c = "bag" => s.bag)
  /\ LET before == UpdateSaleShopList(s, {"gem"})
         after == [before EXCEPT !.owned[c]["gem"] = @ - 1, !.owned[c]["stone"] = @ + 1, !.turned = TRUE]
     IN s' = UpdateSaleShopList(after, {"stone"})
(* Something is bought or sold: the list is sent in the end.                 *)
Trade(t) == s.open /\ s' = SendSaleItemList(IF s.owned["hand"][t] > 0 THEN [s EXCEPT !.owned["hand"][t] = @ - 1]
                                            ELSE [s EXCEPT !.owned["hand"][t] = @ + 1])

SaleNext ==
  /\ s.about = "sale"
  /\ \/ OpenSale \/ CloseSale \/ MoveBag
     \/ \E c \in {"hand", "bag"} : Turn(c) \/ \E t \in Goods : Gain(c, t) \/ Lose(c, t)
     \/ \E t \in Goods : Trade(t)

-----------------------------------------------------------------------------
(* Presence.  at is where the npc is, spectators whom it counts as there,    *)
(* focus whom it talks to; met are those that came while their client was    *)
(* there, since when neither the npc nor the client left.                    *)

Positions == 0 .. Edge
Master == Edge \div 2
Distance(x, y) == IF x < y THEN y - x ELSE x - y
CanSee(st, p) == p \in st.clients /\ Distance(st.pos[p], st.at) <= Near
Told(st, x) == Distance(x, st.at) <= Far

PresenceInit ==
  [about |-> "presence", at |-> Master, pos |-> [p \in Bodies |-> 0], online |-> {}, freed |-> {},
   clients |-> {}, spectators |-> {}, idle |-> TRUE, focus |-> NoOne, met |-> {}]

SetIdle(st) == [st EXCEPT !.idle = st.spectators = {}]
OnCreatureMove(st, p) ==
  SetIdle([st EXCEPT !.spectators = IF CanSee(st, p) THEN @ \cup {p} ELSE @ \ {p}])
(* The npc is told of who comes and goes within the reach of the map.        *)
MovePlayer(st, p, x) ==
  LET r == [st EXCEPT !.pos[p] = x, !.met = IF p \in st.clients THEN @ \cup {p} ELSE @ \ {p}]
  IN IF Told(st, st.pos[p]) \/ Told(st, x) THEN OnCreatureMove(r, p) ELSE r
OnCreatureAppear(st, p, x) ==
  IF ~Told(st, x) THEN st ELSE SetIdle([st EXCEPT !.spectators = @ \cup {p}])
(* The script that is told first may send the player elsewhere.              *)
Appear(p, x, y) ==
  /\ p \notin s.online \cup s.freed
  /\ LET in == [s EXCEPT !.online = @ \cup {p}, !.clients = @ \cup {p}, !.pos[p] = x, !.met = @ \cup {p}]
         sent == IF Told(s, x) /\ y # x THEN MovePlayer(in, p, y) ELSE in
     IN s' = OnCreatureAppear(sent, p, x)
OnRemoveCreature(st, p) ==
  IF Told(st, st.pos[p]) THEN SetIdle([st EXCEPT !.spectators = @ \ {p}]) ELSE st
Disappear(p) ==
  /\ p \in s.online
  /\ s' = OnRemoveCreature([s EXCEPT !.online = @ \ {p}, !.freed = @ \cup {p}, !.clients = @ \ {p},
                                     !.met = @ \ {p}], p)
PlayerMoves(p, x) == p \in s.online /\ x # s.pos[p] /\ s' = MovePlayer(s, p, x)
LoseClient(p) == p \in s.clients /\ s' = [s EXCEPT !.clients = @ \ {p}, !.met = @ \ {p}]
NewClient(p) == p \in s.online \ s.clients /\ s' = [s EXCEPT !.clients = @ \cup {p}]

SetCreatureFocus(p) == p \in s.online \cup {NoOne} /\ s' = [s EXCEPT !.focus = p]
CanWalkTo(x) == Radius # 0 /\ x \in Positions /\ Distance(x, Master) <= Radius
(* The npc moves, and counts nobody anew: by itself only awake, within its   *)
(* radius and while it talks to no one; a script moves it anywhere.            *)
NpcMoves(st, x) == [st EXCEPT !.at = x, !.met = {}]
GetRandomStep(x) ==
  /\ ~s.idle /\ s.focus = NoOne /\ Distance(s.at, x) = 1 /\ CanWalkTo(x) /\ s' = NpcMoves(s, x)
ScriptMoves(x) == x # s.at /\ Distance(s.at, x) = 1 /\ s' = NpcMoves(s, x)
(* Those that the map tells of are counted anew.                             *)
ReloadPresence ==
  s' = SetIdle([s EXCEPT !.spectators = {p \in s.online : Told(s, s.pos[p])}, !.focus = NoOne])

PresenceNext ==
  /\ s.about = "presence"
  /\ \/ \E p \in Bodies :
          \/ \E x, y \in Positions : Appear(p, x, y)
          \/ \E x \in Positions : PlayerMoves(p, x)
          \/ Disappear(p) \/ LoseClient(p) \/ NewClient(p) \/ SetCreatureFocus(p)
     \/ SetCreatureFocus(NoOne)
     \/ \E x \in Positions : GetRandomStep(x) \/ ScriptMoves(x)
     \/ ReloadPresence

-----------------------------------------------------------------------------
Init == \/ "shops" \in About /\ s = ShopsInit
        \/ "sale" \in About /\ s \in SaleInits
        \/ "presence" \in About /\ s = PresenceInit
Next == ShopsNext \/ SaleNext \/ PresenceNext
Spec == Init /\ [][Next]_s

-----------------------------------------------------------------------------
(* Properties                                                                *)

TypeOK ==
  /\ s.about = "shops" =>
       /\ s.owner \in [Bodies -> Npcs \cup {NoOne}] /\ s.calls \in [Bodies -> SUBSET Refs]
       /\ s.shopPlayers \in [Npcs -> SUBSET Bodies] /\ s.live \subseteq Refs
  /\ s.about = "sale" => s.shown \in [Goods -> 0 .. 2 * MaxOwned + 2]
  /\ s.about = "presence" =>
       /\ s.at \in Positions /\ s.pos \in [Bodies -> Positions]
       /\ s.spectators \subseteq Bodies /\ s.clients \subseteq s.online

(* A window is between two that know each other: a player has one shop open, *)
(* the npc of it counts it as a customer, and no other npc does; a client    *)
(* shows no window of which the server does not know.                        *)
ShopsPaired ==
  s.about = "shops" /\ ~s.crashed =>
    \A p \in s.online :
      /\ \A n \in s.npcs : p \in s.shopPlayers[n] <=> s.owner[p] = n
      /\ s.shown[p] => s.owner[p] # NoOne
      /\ s.owner[p] # NoOne => s.listed[p] \/ ~s.shown[p]

(* A function of a script is held by one window, is there as long as the     *)
(* window is, and is given back once.                                        *)
CallbacksHeld ==
  s.about = "shops" =>
    /\ ~s.twice
    /\ \A p \in s.online :
         /\ s.calls[p] \subseteq s.live
         /\ \A q \in s.online : s.calls[p] \cap s.calls[q] # {} => p = q

(* While a shop is open, the client shows what the player can sell: what it  *)
(* has in its hands and in its bags, and the money to pay with; of what      *)
(* turned into something else it learns with the next change.                *)
SaleListTrue ==
  s.about = "sale" /\ s.open /\ ~s.turned =>
    \A t \in Goods \ WithSubType :
      ForSale(s, t) \/ t \in Currency => s.shown[t] = GetItemTypeCount(s, t)

(* An npc is awake for a player that came to it, as long as neither it nor   *)
(* the player's client went away, and it sleeps when it knows of no one.     *)
AwakeWhenMet ==
  s.about = "presence" =>
    /\ \A p \in s.met : CanSee(s, p) => p \in s.spectators /\ ~s.idle
    /\ s.idle <=> s.spectators = {}

-----------------------------------------------------------------------------
(* Stated, and not so                                                        *)

(* What a window holds is of the living: npcs and players leave without a    *)
(* word, and a reload or the next thing bought reaches for what was freed.   *)
NeverCrashes == s.about = "shops" => ~s.crashed
(* Every function is given back: one whose customer logged out is not.       *)
CallbacksGivenBack == s.about = "shops" => s.live = UNION {s.calls[p] : p \in s.online}
(* Windows are paired whatever the script does that is told of the end of a  *)
(* trade: ShopsPaired with Reopens is not so.                                *)
(* The list says how much there is of everything: not of what turned into    *)
(* something else, nor, in a large shop, of what has charges.                *)
SaleListComplete ==
  s.about = "sale" /\ s.open => \A t \in Goods : ForSale(s, t) => s.shown[t] = GetItemTypeCount(s, t)
(* An npc is awake when it is seen, and sleeps when it is alone.             *)
AwakeWhenSeen == s.about = "presence" => \A p \in s.online : CanSee(s, p) => ~s.idle
SleepsWhenAlone == s.about = "presence" => s.spectators \subseteq s.online
=============================================================================
