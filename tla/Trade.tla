-------------------------------- MODULE Trade --------------------------------
(***************************************************************************)
(* Trading between players (game.cpp): an offer, a counter-offer, two      *)
(* acceptances, the swap, and every way in which a trade is closed.  While *)
(* a trade is open the items stay where they are; the game relies on the   *)
(* notifications of player.cpp to close the trade whenever one of the      *)
(* items, its surroundings or the traders move.                            *)
(*                                                                         *)
(* Every handler is a task of the dispatcher, so it is one step; the state *)
(* TRADE_TRANSFER exists only inside playerAcceptTrade, where it keeps the *)
(* notifications of the two traders from closing the trade.                *)
(*                                                                         *)
(* Abstractions: items do not stack; of the equipment slots a player has   *)
(* the backpack slot, for containers, and one hand, for anything.          *)
(***************************************************************************)
EXTENDS Integers, FiniteSets, TLC

CONSTANTS Player, Item,
          Container,      \* the items that are containers
          Capacity,       \* places in a container
          Spot,           \* the tiles, by their coordinate
          NoPlayer, NoItem

ASSUME TradeAssumption ==
  /\ Container \subseteq Item
  /\ Capacity \in Nat
  /\ Spot \subseteq Int
  /\ NoPlayer \notin Player /\ NoItem \notin Item

-----------------------------------------------------------------------------
(* The cylinder protocol (cylinder.h, player.cpp, container.cpp): every     *)
(* item has a parent, a tile, a slot of a player or a container.  These are *)
(* operators over a placement l of the items.                               *)

Tile(x) == <<"tile", x>>
Backpack(p) == <<"backpack", p>>
Hand(p) == <<"hand", p>>
In(c) == <<"in", c>>
Nowhere == <<"nowhere">>    \* a parent of nullptr: the item is lost

Slots(p) == {Backpack(p), Hand(p)}
Place == {Tile(x) : x \in Spot} \cup (UNION {Slots(p) : p \in Player})
           \cup {In(c) : c \in Container} \cup {Nowhere}

-----------------------------------------------------------------------------
(* Containment.  Container::isHoldingItem iterates over everything inside, *)
(* at any depth: the least set closed under "is in c or in one of these".  *)
Holding(l, c) ==
  {i \in Item : \A S \in SUBSET Item :
     (\A j \in Item : (l[j] = In(c) \/ \E d \in S : l[j] = In(d)) => j \in S) => i \in S}

(* The outermost item around i, and where that one is. *)
Root(l, i) == CHOOSE r \in Item : /\ r = i \/ i \in Holding(l, r)
                                  /\ \A c \in Container : l[r] # In(c)
Top(l, i) == l[Root(l, i)]

CarriedBy(l, p) == {i \in Item : Top(l, i) \in Slots(p)}

Full(l, c) == Cardinality({i \in Item : l[i] = In(c)}) >= Capacity

-----------------------------------------------------------------------------
(* Player::queryDestination with INDEX_WHEREEVER: the first empty slot that *)
(* fits, else a container with room.  The containers searched are those in  *)
(* the slots, without the player's own trade item, and all that are inside. *)

FreeSlots(l, p, i) ==
  {s \in Slots(p) : /\ \A j \in Item : l[j] # s
                    /\ i \notin Container => s = Hand(p)}

Searched(l, p, i, tradeItem) ==
  LET top == {c \in Container : l[c] \in Slots(p) /\ c # tradeItem /\ c # i}
  IN  {c \in Container : \E t \in top : c = t \/ c \in Holding(l, t)}
        \ ({i} \cup Holding(l, i))

(* Where the move would put i; Nowhere stands for the player itself with    *)
(* the index -1.                                                            *)
Destinations(l, p, i, tradeItem) ==
  LET free == FreeSlots(l, p, i)
      room == {c \in Searched(l, p, i, tradeItem) : ~Full(l, c)}
  IN  IF Backpack(p) \in free THEN {Backpack(p)}
      ELSE IF free # {} THEN free
      ELSE IF room # {} THEN {In(c) : c \in room}
      ELSE {Nowhere}

(* queryAdd answers RETURNVALUE_NOERROR for the index -1 too, since ret is  *)
(* overwritten by onPlayerEquip; and queryMaxCount counts the free places   *)
(* of every container carried, the trade item's too.                        *)
QueryAdd(l, p, i, tradeItem) ==
  \/ Nowhere \notin Destinations(l, p, i, tradeItem)
  \/ \E c \in CarriedBy(l, p) \cap Container : ~Full(l, c)

(* The places a player can move an item to: Player, Container and Tile      *)
(* ::queryAdd.  Exchanges with the item in a slot are not modelled; near    *)
(* are the containers within reach.                                         *)
FreePlaces(l, p, i, near) ==
  {Tile(x) : x \in Spot} \cup FreeSlots(l, p, i)
    \cup {In(c) : c \in {d \in near \ ({i} \cup Holding(l, i)) : ~Full(l, d)}}

-----------------------------------------------------------------------------
VARIABLES online,
          pos,            \* of each player; an offline one returns where it left
          loc,            \* the place of each item
          trade,          \* tradeState, tradePartner and tradeItem of each player
          tradeItems,     \* the map Game::tradeItems: who offers the item
          refs,           \* references the trades hold on the item
          shown           \* history: what was in the item when it was offered

vars == <<online, pos, loc, trade, tradeItems, refs, shown>>

TradeRec == [state : {"none", "initiated", "accept", "acknowledge"},
             partner : Player \cup {NoPlayer},
             item : Item \cup {NoItem}]

NoTrade == [state |-> "none", partner |-> NoPlayer, item |-> NoItem]

TypeOK ==
  /\ online \subseteq Player
  /\ pos \in [Player -> Spot]
  /\ loc \in [Item -> Place]
  /\ trade \in [Player -> TradeRec]
  /\ tradeItems \in [Item -> Player \cup {NoPlayer}]
  /\ refs \in [Item -> 0 .. 1]
  /\ shown \in [Player -> SUBSET Item]

Init ==
  /\ online = Player
  /\ pos \in [Player -> Spot]
  /\ loc \in [Item -> {Tile(x) : x \in Spot}]
  /\ trade = [p \in Player |-> NoTrade]
  /\ tradeItems = [i \in Item |-> NoPlayer]
  /\ refs = [i \in Item |-> 0]
  /\ shown = [p \in Player |-> {}]

-----------------------------------------------------------------------------
(* Distances: an item is used from the next tile, traders are two apart.   *)

Dist(x, y) == IF x < y THEN y - x ELSE x - y
TradersNear(x, y) == Dist(x, y) <= 2

Position(l, i) == LET t == Top(l, i) IN IF t[1] = "tile" THEN t[2] ELSE pos[t[2]]

Reachable(l, p, i) == \/ i \in CarriedBy(l, p)
                      \/ Top(l, i)[1] = "tile" /\ Dist(Position(l, i), pos[p]) <= 1

-----------------------------------------------------------------------------
(* Game::internalCloseTrade for each player of S *)

(* A mutant: the partner learns nothing. *)
ClosedAlone(S) == S
(* The trade is closed for the partner as well. *)
Closed(S) == S \cup {trade[p].partner : p \in S \ {q \in Player : trade[q].partner = NoPlayer}}

(* A mutant: the reference is never given back. *)
ForgetItem(released) ==
  /\ UNCHANGED refs
  /\ tradeItems' = [i \in Item |-> IF i \in released THEN NoPlayer ELSE tradeItems[i]]

Release(released) ==
  /\ refs' = [i \in Item |-> IF i \in released /\ tradeItems[i] # NoPlayer
                               THEN refs[i] - 1 ELSE refs[i]]
  /\ tradeItems' = [i \in Item |-> IF i \in released THEN NoPlayer ELSE tradeItems[i]]

CloseTrade(S) ==
  /\ trade' = [p \in Player |-> IF p \in Closed(S) THEN NoTrade ELSE trade[p]]
  /\ Release({trade[p].item : p \in Closed(S)})
  /\ shown' = [p \in Player |-> IF p \in Closed(S) THEN {} ELSE shown[p]]

-----------------------------------------------------------------------------
(* The notifications that item i was removed and added, l1 before and l2   *)
(* after.  Each is sent to the players near enough to see it; the result   *)
(* is the set of those who close their trade.                              *)

(* A tile or slot: the trade item itself, or something that holds it. *)
OnRemoveItem(l, i, p) == trade[p].item = i \/ trade[p].item \in Holding(l, i)

(* A container: also something inside the trade item, and anything at all  *)
(* that leaves a container around the container that holds it.             *)
OnRemoveContainerItem(l, c, i, p) ==
  LET offered == trade[p].item
  IN  \/ offered = i \/ i \in Holding(l, offered)
      \/ l[offered] # In(c) /\ offered \in Holding(l, c)

(* A mutant: only the trade item itself is looked for. *)
OnAddTradeItem(l, i, p) == trade[p].item = i
OnAddContainerItem(l, i, p) == trade[p].item = i \/ i \in Holding(l, trade[p].item)

Traders == {p \in online : trade[p].item # NoItem}

SeesInside(l, c, p) == Dist(Position(l, c), pos[p]) <= 1

RemovalCloses(l, i) ==
  LET from == l[i]
  IN  CASE from[1] = "tile" -> {p \in Traders : OnRemoveItem(l, i, p)}
        [] from[1] \in {"backpack", "hand"} -> {p \in Traders \cap {from[2]} : OnRemoveItem(l, i, p)}
        [] from[1] = "in" -> {p \in Traders : SeesInside(l, from[2], p)
                                /\ OnRemoveContainerItem(l, from[2], i, p)}

AdditionCloses(l, i) ==
  IF l[i][1] # "in" THEN {}
  ELSE {p \in Traders : SeesInside(l, l[i][2], p) /\ OnAddContainerItem(l, i, p)}

Moved(l, i, place) == [l EXCEPT ![i] = place]

MoveCloses(l, i, place) == RemovalCloses(l, i) \cup AdditionCloses(Moved(l, i, place), i)

-----------------------------------------------------------------------------
(* playerRequestTrade and internalStartTrade *)

(* A mutant: only the very same item is refused. *)
SameItemTraded(i) == tradeItems[i] # NoPlayer
(* The item, one that it holds, or one that holds it is being traded. *)
AlreadyTraded(i) ==
  \E j \in Item : /\ tradeItems[j] # NoPlayer
                  /\ i = j \/ j \in Holding(loc, i) \/ i \in Holding(loc, j)

CanStart(p, q) ==
  /\ trade[p].state = "none" \/ (trade[p].state = "acknowledge" /\ trade[p].partner = q)
  /\ trade[q].state = "none" \/ trade[q].partner = p

RequestTrade(p, q, i) ==
  /\ p \in online /\ q \in online \ {p}
  /\ TradersNear(pos[p], pos[q])
  /\ Reachable(loc, p, i)
  /\ ~AlreadyTraded(i)
  /\ CanStart(p, q)
  /\ trade' = [trade EXCEPT
       ![p] = [state |-> "initiated", partner |-> q, item |-> i],
       ![q] = IF @.state = "none"
                THEN [state |-> "acknowledge", partner |-> p, item |-> NoItem] ELSE @]
  /\ tradeItems' = [tradeItems EXCEPT ![i] = p]
  /\ refs' = [refs EXCEPT ![i] = @ + 1]
  /\ shown' = [shown EXCEPT ![p] = {i} \cup Holding(loc, i)]
  /\ UNCHANGED <<online, pos, loc>>

-----------------------------------------------------------------------------
(* playerAcceptTrade *)

MayAccept(p) == /\ p \in online
                /\ trade[p].state \in {"acknowledge", "initiated"}
                /\ trade[p].partner # NoPlayer

(* The partner has not accepted yet.  Nothing asks whether it has offered. *)
AcceptFirst(p) ==
  /\ MayAccept(p)
  /\ trade[trade[p].partner].state # "accept"
  /\ trade' = [trade EXCEPT ![p].state = "accept"]
  /\ UNCHANGED <<online, pos, loc, tradeItems, refs, shown>>

BothAccept(p) == MayAccept(p) /\ trade[trade[p].partner].state = "accept"

(* The tiles between them are blocked, or a script forbids the trade. *)
AcceptRefused(p) ==
  /\ BothAccept(p)
  /\ CloseTrade({p})
  /\ UNCHANGED <<online, pos, loc>>

(* The backpack in its slot is the item offered: the other item, which is  *)
(* no container, needs an empty hand.                                      *)
OffersOwnBackpack(p) == trade[p].item # NoItem /\ loc[trade[p].item] = Backpack(p)
HandFree(p) == \A i \in Item : loc[i] # Hand(p)

(* Both sides may add what they get, with nothing moved yet.               *)
TestsPass(p, q) ==
  /\ trade[p].item # NoItem /\ trade[q].item # NoItem
  /\ ~(OffersOwnBackpack(p) /\ OffersOwnBackpack(q))
  /\ OffersOwnBackpack(p) => HandFree(p)
  /\ OffersOwnBackpack(q) => HandFree(q)
  /\ QueryAdd(loc, q, trade[p].item, trade[q].item)
  /\ QueryAdd(loc, p, trade[q].item, trade[p].item)

(* The first internalMoveItem refuses a destination in the item it trades for. *)
InsideTradeItem(l, place, i) == place[1] = "in" /\ (place[2] = i \/ place[2] \in Holding(l, i))

(* Where the items are after the swap; only the first move can be refused  *)
(* and the result of the second is not looked at.                          *)
Deliver(l, p, i, tradeItem) ==
  IF QueryAdd(l, p, i, tradeItem)
    THEN {Moved(l, i, place) : place \in Destinations(l, p, i, tradeItem)}
    ELSE {l}

(* A mutant: the second item is moved even when the first move was refused. *)
SwapsUnchecked(p, q) ==
  LET mine == trade[p].item
      theirs == trade[q].item
      first == {IF InsideTradeItem(loc, l[mine], theirs) THEN loc ELSE l :
                  l \in Deliver(loc, q, mine, theirs)}
  IN  UNION {{<<l, m>> : m \in Deliver(l, p, theirs, mine)} : l \in first}

Swaps(p, q) ==
  LET mine == trade[p].item
      theirs == trade[q].item
      first == {l \in Deliver(loc, q, mine, theirs) : ~InsideTradeItem(loc, l[mine], theirs)}
  IN  UNION {{<<l, m>> : m \in Deliver(l, p, theirs, mine)} : l \in first}

(* With no item on one side and the other's own backpack on the other, the *)
(* code dereferences the missing item: the process ends there.             *)
MissingItemRead(p, q) == \/ trade[p].item = NoItem /\ OffersOwnBackpack(q)
                         \/ trade[q].item = NoItem /\ OffersOwnBackpack(p)

EndTrade(p, q, others) ==
  LET ended == {p, q} \cup Closed(others \ {p, q})
  IN  /\ trade' = [r \in Player |-> IF r \in ended THEN NoTrade ELSE trade[r]]
      /\ Release({trade[r].item : r \in ended})
      /\ shown' = [r \in Player |-> IF r \in ended THEN {} ELSE shown[r]]

(* Not enough room or capacity: nothing is moved. *)
SwapFails(p) ==
  /\ BothAccept(p)
  /\ LET q == trade[p].partner
     IN  ~MissingItemRead(p, q) /\ EndTrade(p, q, {})
  /\ UNCHANGED <<online, pos, loc>>

Swap(p) ==
  /\ BothAccept(p)
  /\ LET q == trade[p].partner
     IN  /\ TestsPass(p, q)
         /\ \E s \in Swaps(p, q) :
              /\ loc' = s[2]
              /\ EndTrade(p, q, MoveCloses(loc, trade[p].item, s[1][trade[p].item])
                                  \cup MoveCloses(s[1], trade[q].item, s[2][trade[q].item]))
  /\ UNCHANGED <<online, pos>>

-----------------------------------------------------------------------------
(* What the players do meanwhile *)

PlayerCloseTrade(p) ==
  /\ p \in online /\ trade[p] # NoTrade
  /\ CloseTrade({p})
  /\ UNCHANGED <<online, pos, loc>>

(* playerMoveItem, for an item and a container within reach of p. *)
MoveItem(p, i) ==
  /\ p \in online /\ Reachable(loc, p, i)
  /\ LET near == {c \in Container : Reachable(loc, p, c)}
     IN  \E place \in FreePlaces(loc, p, i, near) \ {loc[i]} :
           /\ loc' = Moved(loc, i, place)
           /\ CloseTrade(MoveCloses(loc, i, place))
  /\ UNCHANGED <<online, pos>>

ItemLeft(p, x) == Top(loc, trade[p].item) = Tile(Position(loc, trade[p].item))
                    /\ Dist(Position(loc, trade[p].item), x) > 1
(* Player::onCreatureMove: out of reach of the item or of the partner. *)
OnCreatureMove(p, x) ==
  \/ trade[p].item # NoItem /\ ItemLeft(p, x)
  \/ trade[p].partner # NoPlayer /\ ~TradersNear(pos[trade[p].partner], x)

Walk(p, x) ==
  /\ p \in online /\ x # pos[p]
  /\ pos' = [pos EXCEPT ![p] = x]
  /\ CloseTrade({p} \cap {q \in Player : OnCreatureMove(q, x)})
  /\ UNCHANGED <<online, loc>>

(* Player::onRemoveCreature; death ends a trade in the same way. *)
Logout(p) ==
  /\ p \in online
  /\ online' = online \ {p}
  /\ CloseTrade({p} \cap {q \in Player : trade[q].partner # NoPlayer})
  /\ UNCHANGED <<pos, loc>>

Login(p) ==
  /\ p \notin online
  /\ online' = online \cup {p}
  /\ UNCHANGED <<pos, loc, trade, tradeItems, refs, shown>>

-----------------------------------------------------------------------------
Next == \E p \in Player :
          \/ \E i \in Item : MoveItem(p, i) \/ \E q \in Player : RequestTrade(p, q, i)
          \/ AcceptFirst(p) \/ AcceptRefused(p) \/ SwapFails(p) \/ Swap(p)
          \/ PlayerCloseTrade(p) \/ Logout(p) \/ Login(p)
          \/ \E x \in Spot : Walk(p, x)

Spec == Init /\ [][Next]_vars

(* The players have no rank, and the containers are as large. *)
Symmetry == Permutations(Player) \cup Permutations(Container)

-----------------------------------------------------------------------------
(* Traders come in pairs of online players that name each other: one of two *)
(* has offered an item, and a counter-offer can only be an answer to it.    *)
(* No close, logout or third player leaves one of them in half a trade.     *)
PartnersPaired ==
  \A p \in Player :
    LET t == trade[p]
    IN  /\ t.state = "none" <=> t.partner = NoPlayer
        /\ t.state \in {"none", "acknowledge"} => t.item = NoItem
        /\ t.state = "initiated" => t.item # NoItem
        /\ t.partner # NoPlayer =>
             /\ {p, t.partner} \subseteq online /\ p # t.partner
             /\ trade[t.partner].partner = p
             /\ t.item # NoItem \/ trade[t.partner].item # NoItem
             /\ t.state = "accept" => trade[t.partner].state # "accept"

(* tradeItems holds the offered items and no other, with one reference      *)
(* each, and whoever trades with whom, no offered item is or holds another: *)
(* nothing is promised to two players.                                      *)
OffersDisjoint ==
  /\ \A i \in Item : refs[i] = IF tradeItems[i] = NoPlayer THEN 0 ELSE 1
  /\ \A i \in Item, p \in Player : tradeItems[i] = p <=> trade[p].item = i
  /\ \A i, j \in Item :
       (i # j /\ tradeItems[i] # NoPlayer /\ tradeItems[j] # NoPlayer) => i \notin Holding(loc, j)

(* What is offered is what was shown: nothing was put in or taken out since *)
(* and the two players and their items are still within reach, although no  *)
(* check is repeated when they accept.                                      *)
OfferAsShown ==
  \A p \in Player :
    /\ trade[p].item # NoItem =>
         /\ shown[p] = {trade[p].item} \cup Holding(loc, trade[p].item)
         /\ Reachable(loc, p, trade[p].item)
    /\ trade[p].partner # NoPlayer => TradersNear(pos[p], pos[trade[p].partner])

(* Both items of a trade leave the places they are in, or neither does: a   *)
(* trade that takes the first item away always takes the second, although   *)
(* the result of its move is not tested.  Where they arrive is not said.    *)
BothOrNone ==
  [][\A p \in Player :
       Swap(p) => \A r \in {p, trade[p].partner} : loc'[trade[r].item] # loc[trade[r].item]]_vars

(* cylinder.h:55, the index -1 means "add to a empty position", and 108,    *)
(* "Add the object to the cylinder": an item that a trade takes from one    *)
(* player is added to what the other one carries.                           *)
TradedItemArrives ==
  [][\A p \in Player :
       Swap(p) => LET q == trade[p].partner
                  IN  /\ trade[p].item \in CarriedBy(loc', q)
                      /\ trade[q].item \in CarriedBy(loc', p)]_vars
=============================================================================
