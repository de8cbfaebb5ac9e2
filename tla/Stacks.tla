------------------------------- MODULE Stacks -------------------------------
(***************************************************************************)
(* Items that stack (coins) and what is done with them: internalMoveItem,  *)
(* internalAddItem, internalPlayerAddItem, removeMoney and addMoney of     *)
(* game.cpp over the cylinders of player.cpp, container.cpp and tile.cpp:  *)
(* stacks are merged, split, exchanged and changed.                        *)
(*                                                                         *)
(* The cylinders are a player with one hand and a bag in its backpack      *)
(* slot, its other slots taken by what does not stack, and the floor; each *)
(* is the sequence of its stacks, first to last.  What is added to the bag *)
(* or to the floor comes first.                                            *)
(*                                                                         *)
(* Abstracted: a coin of type t is worth MaxStack of type t - 1, as with   *)
(* the three currencies of items.xml, and each weighs one; containers      *)
(* inside containers (Trade); tiles that refuse items.                     *)
(***************************************************************************)
EXTENDS Integers, FiniteSets, Sequences, SequencesExt, FiniteSetsExt

CONSTANTS Types,          \* number of coins
          MaxStack,       \* 100
          Capacity,       \* places in the bag
          MaxWeight,      \* that the player can carry
          MaxWealth       \* in the whole model

(* Assumed where this module is instantiated. *)
StacksAssumption == {Types, MaxStack, Capacity, MaxWeight, MaxWealth} \subseteq Nat \ {0}

VARIABLE s

Stack == [type : 1 .. Types, count : 1 .. MaxStack]
Cylinders == {"hand", "bag", "floor"}
Carried == {"hand", "bag"}
Wherever == -1

(* offered: the bag is what the player offers in a trade.  lost: the worth  *)
(* of what was added to the player at the index -1 or 0, that is, nowhere.  *)
TypeOK == /\ \A c \in Cylinders : Range(s[c]) \subseteq Stack
          /\ Len(s.hand) <= 1
          /\ s.offered \in BOOLEAN
          /\ {s.minted, s.lost} \subseteq 0 .. MaxWealth

Init == s = [hand |-> <<>>, bag |-> <<>>, floor |-> <<>>,
             offered |-> FALSE, minted |-> 0, lost |-> 0]

-----------------------------------------------------------------------------
Coin(t) == MaxStack ^ (t - 1)
Worth(x) == x.count * Coin(x.type)
WorthOf(l) == FoldSeq(LAMBDA x, n : n + Worth(x), 0, l.hand \o l.bag \o l.floor)

FreeWeight(l) == MaxWeight - FoldSeq(LAMBDA x, n : n + x.count, 0, l.hand \o l.bag)

(* Player::hasCapacity, of an item that comes from c *)
HasCapacity(l, c, count) == c \in Carried \/ count <= FreeWeight(l)

(* Places are numbered from 0, as in the code. *)
At(l, c, i) == l[c][i + 1]
Indexes(l, c) == 0 .. Len(l[c]) - 1
Room(x) == MaxStack - x.count

(* What goes into the bag or comes out of it ends the trade.                *)
Touch(l, c) == [l EXCEPT !.offered = @ /\ c # "bag"]

Put(l, c, x) == IF c = "player" THEN [l EXCEPT !.lost = @ + Worth(x)]
                ELSE IF c = "hand" THEN [l EXCEPT !.hand = <<x>>]
                ELSE Touch([l EXCEPT ![c] = <<x>> \o @], c)

Take(l, c, i, n) ==
  Touch([l EXCEPT ![c] = IF n = At(l, c, i).count THEN RemoveAt(@, i + 1)
                         ELSE [@ EXCEPT ![i + 1].count = @ - n]], c)

Grow(l, c, i, n) == Touch([l EXCEPT ![c][i + 1].count = @ + n], c)

-----------------------------------------------------------------------------
(* queryAdd, of x.type and count, from the cylinder f, at the place i.      *)
QueryAdd(l, c, i, type, count, f) ==
  CASE c = "floor" -> "ok"
    [] c = "bag" ->
         IF i = Wherever /\ Len(l[c]) >= Capacity THEN "full"
         ELSE IF HasCapacity(l, f, count) THEN "ok" ELSE "heavy"
    [] c = "hand" ->
         IF ~HasCapacity(l, f, count) THEN "heavy"
         ELSE IF l.hand = <<>> \/ l.hand[1].type = type THEN "ok"
         ELSE IF f \in Carried THEN "exchange" ELSE "full"
    [] c = "player" ->                  \* onPlayerEquip's answer replaces NOTENOUGHROOM
         IF HasCapacity(l, f, count) THEN "ok" ELSE "heavy"

(* Stacks of the type, other than the item moved, that can take some more.  *)
Mergeable(l, c, type, f, k) ==
  {i \in Indexes(l, c) : /\ At(l, c, i).type = type /\ Room(At(l, c, i)) > 0
                         /\ ~(c = f /\ i = k)}

ContainerMax(l, c, i, type, count, f, k) ==
  LET free == IF Len(l[c]) < Capacity THEN Capacity - Len(l[c]) ELSE 0
      into == IF i = Wherever THEN Mergeable(l, c, type, f, k)
              ELSE Mergeable(l, c, type, f, k) \cap {i}
      seen == {j \in into : QueryAdd(l, c, j, type, count, f) = "ok"}
  IN  free * MaxStack + FoldSet(LAMBDA j, n : n + Room(At(l, c, j)), 0, seen)

HandMax(l, type, count, f) ==
  IF l.hand = <<>> THEN IF QueryAdd(l, "hand", 0, type, count, f) = "ok" THEN MaxStack ELSE 0
  ELSE IF l.hand[1].type = type THEN Room(l.hand[1]) ELSE 0

(* queryMaxCount, for the item k of f, of which there are total. *)
QueryMaxCount(l, c, i, type, count, total, f, k) ==
  CASE c = "floor" -> count
    [] c = "bag" -> ContainerMax(l, c, i, type, count, f, k)
    [] c = "hand" -> HandMax(l, type, count, f)
    [] c = "player" /\ i = 0 -> MaxStack       \* nothing is there, and queryAdd allows it
    [] OTHER -> ContainerMax(l, "bag", Wherever, type, total, f, k)
                  + IF l.hand = <<>> THEN HandMax(l, type, total, f)
                    ELSE IF /\ l.hand[1].type = type
                            /\ QueryAdd(l, "hand", 0, type, Room(l.hand[1]), f) = "ok"
                         THEN Room(l.hand[1]) ELSE 0

-----------------------------------------------------------------------------
(* queryDestination: the cylinder, the place, and the place of the stack    *)
(* that is there (destItem), or none.                                       *)
None == -2
To(c, i, j) == [cyl |-> c, index |-> i, dest |-> j]

ContainerDestination(l, c, i, type, f, k) ==
  LET there == IF i \in Indexes(l, c) THEN i ELSE None
      at == IF i >= Capacity THEN Wherever ELSE i
      fit == Mergeable(l, c, type, f, k)
  IN  IF f = c \/ fit = {} THEN To(c, at, IF at = Wherever THEN None ELSE there)
      ELSE IF there \in fit /\ at # Wherever THEN To(c, at, there) ELSE To(c, Min(fit), Min(fit))

(* Player::queryDestination of the index -1 or 0: the hand, then the bag.   *)
(* Places in the bag are counted without the item that is moved.            *)
PlayerDestination(l, i, type, total, f, k) ==
  LET fit == Mergeable(l, "bag", type, f, k)
      passed(j) == IF f = "bag" /\ k < j THEN j - 1 ELSE j
      n == passed(Len(l.bag))
      hand == /\ f # "hand" /\ QueryAdd(l, "hand", 0, type, total, f) = "ok"
              /\ l.hand = <<>> \/ Room(l.hand[1]) > 0
  IN  IF hand THEN To("hand", 0, IF l.hand = <<>> THEN None ELSE 0)
      ELSE IF ~l.offered /\ fit # {} THEN To("bag", passed(Min(fit)), Min(fit))
      ELSE IF ~l.offered /\ n < Capacity /\ QueryAdd(l, "bag", n, type, total, f) = "ok"
           THEN To("bag", n, None)
      ELSE To("player", i, None)

Top(l, c) == IF l[c] = <<>> THEN None ELSE 0

(* internalMoveItem asks until a cylinder names itself. *)
Destination(l, c, i, type, total, f, k) ==
  LET d == PlayerDestination(l, i, type, total, f, k)
  IN  CASE c \in {"floor", "hand"} -> To(c, i, Top(l, c))
        [] c = "player" /\ d.cyl # "bag" -> d
        [] OTHER -> ContainerDestination(l, IF c = "player" THEN "bag" ELSE c,
                                         IF c = "player" THEN d.index ELSE i, type, f, k)

-----------------------------------------------------------------------------
(* internalMoveItem's last part: as much as there is room for is merged     *)
(* with the stack at the destination, or becomes a stack of its own.        *)
Merges(l, d, x, m) ==
  IF d.dest # None /\ At(l, d.cyl, d.dest).type = x.type
  THEN Min({Room(At(l, d.cyl, d.dest)), m}) ELSE 0
Moved(l, d, x, f, k, m, n) ==
  LET taken == Take(IF n > 0 THEN Grow(l, d.cyl, d.dest, n) ELSE l, f, k, m)
  IN  IF m = 0 THEN l
      ELSE IF m = n THEN taken ELSE Put(taken, d.cyl, [x EXCEPT !.count = m - n])
MovedUpTo(l, d, x, f, k, m) == Moved(l, d, x, f, k, m, Merges(l, d, x, m))
Transfer(l, d, count, f, k) ==
  LET x == At(l, f, k)
      most == QueryMaxCount(l, d.cyl, d.index, x.type, count, x.count, f, k)
  IN  MovedUpTo(l, d, x, f, k, Min({count, most}))

(* The stack in the hand changes places with the item, or with the part of  *)
(* it that is moved: the bag may hold one more than its capacity then.      *)
Exchange(l, count, f, k) ==
  LET old == l.hand[1]
  IN  IF QueryMaxCount(l, f, Wherever, old.type, old.count, old.count, "hand", 0) = 0 THEN l
      ELSE Transfer(Put([l EXCEPT !.hand = <<>>], f, old), To("hand", 0, None), count, f, k + 1)

MoveTo(l, d, type, count, f, k) ==
  CASE d.cyl = f /\ d.dest = k -> l
    [] QueryAdd(l, d.cyl, d.index, type, count, f) = "exchange" -> Exchange(l, count, f, k)
    [] QueryAdd(l, d.cyl, d.index, type, count, f) = "ok" -> Transfer(l, d, count, f, k)
    [] OTHER -> l
MoveItem(l, c, i, count, f, k) ==
  MoveTo(l, Destination(l, c, i, At(l, f, k).type, At(l, f, k).count, f, k),
         At(l, f, k).type, count, f, k)

(* internalAddItem of a new stack to the floor, with FLAG_NOLIMIT.          *)
AddToFloor(l, x) ==
  LET same == l.floor # <<>> /\ l.floor[1].type = x.type
      n == IF same THEN Min({Room(l.floor[1]), x.count}) ELSE 0
      grown == IF n > 0 THEN Grow(l, "floor", 0, n) ELSE l
  IN  IF n = x.count THEN grown ELSE Put(grown, "floor", [x EXCEPT !.count = @ - n])

(* internalAddItem of a new stack to the player: whether it was taken, and  *)
(* remainderCount, which is not passed on when the remainder has one.       *)
RECURSIVE AddItem(_, _)
Merged(l, x, n) ==
  LET inner == AddItem(l, [x EXCEPT !.count = @ - n])
  IN  IF n = x.count THEN [l |-> l, ok |-> TRUE, left |-> 0]
      ELSE [l |-> [inner.l EXCEPT !.lost = @ + inner.left * Coin(x.type)],
            ok |-> TRUE, left |-> IF inner.ok THEN 0 ELSE x.count - n]

AddAt(l, x, d) ==
  IF d.dest = None THEN [l |-> Put(l, d.cyl, x), ok |-> TRUE, left |-> 0]
  ELSE LET n == Min({Room(At(l, d.cyl, d.dest)), x.count})
       IN  Merged(Grow(l, d.cyl, d.dest, n), x, n)

AddIf(l, x, d) ==
  IF /\ QueryAdd(l, d.cyl, d.index, x.type, x.count, "none") = "ok"
     /\ QueryMaxCount(l, "player", Wherever, x.type, x.count, x.count, "none", None) >= x.count
  THEN AddAt(l, x, d) ELSE [l |-> l, ok |-> FALSE, left |-> 0]

AddItem(l, x) == AddIf(l, x, PlayerDestination(l, Wherever, x.type, x.count, "none", None))

(* internalPlayerAddItem puts on the floor what the player has no room for. *)
PlayerAddItem(l, x) ==
  LET added == AddItem(l, x)
  IN  CASE ~added.ok -> AddToFloor(l, x)
        [] added.left > 0 -> AddToFloor(added.l, [x EXCEPT !.count = added.left])
        [] OTHER -> added.l

(* addMoney does not hear of a remainder.                                   *)
AddCoins(l, x) ==
  LET added == AddItem(l, x)
  IN  IF added.ok THEN [added.l EXCEPT !.lost = @ + added.left * Coin(x.type)]
      ELSE AddToFloor(l, x)

(* The most valuable coins first, in stacks of at most MaxStack.            *)
AddMoney(l, money) ==
  LET coins == [t \in 1 .. Types |->
                  (IF t = Types THEN money ELSE money % Coin(t + 1)) \div Coin(t)]
      stacks(t) == [j \in 1 .. (coins[t] + MaxStack - 1) \div MaxStack |->
                      [type |-> t, count |-> Min({MaxStack, coins[t] - (j - 1) * MaxStack})]]
  IN  FoldSeq(LAMBDA x, u : AddCoins(u, x), l,
              FlattenSeq([j \in 1 .. Types |-> stacks(Types + 1 - j)]))

(* What the player carries, the stacks of least worth first. *)
Purse(l) ==
  LET all == {<<c, i>> \in Carried \X (0 .. MaxWealth) : i \in Indexes(l, c)}
      key(e) == <<Worth(At(l, e[1], e[2])), IF e[1] = "hand" THEN 0 ELSE 1, e[2]>>
      before(a, b) == LET x == key(a) y == key(b)
                      IN  \/ x[1] < y[1]
                          \/ x[1] = y[1] /\ x[2] < y[2]
                          \/ x[1] = y[1] /\ x[2] = y[2] /\ x[3] < y[3]
  IN  SetToSortSeq(all, before)

Upto(l, purse, n) == FoldSeq(LAMBDA e, w : w + Worth(At(l, e[1], e[2])), 0, SubSeq(purse, 1, n))

(* A mutant: rounds the coins to take down. *)
RemoveCountFloor(owed, type) == owed \div Coin(type)
RemoveCount(owed, type) == (owed + Coin(type) - 1) \div Coin(type)

Spend(l, gone) ==
  LET stay(c) == LET left == SetToSortSeq({i \in Indexes(l, c) : <<c, i>> \notin gone},
                                          LAMBDA i, j : i < j)
                 IN  SubSeq([j \in DOMAIN left |-> At(l, c, left[j])], 1, Len(left))
  IN  [l EXCEPT !.hand = stay("hand"), !.bag = stay("bag"),
                !.offered = @ /\ \A e \in gone : e[1] # "bag"]

(* Places are counted from the end, where nothing is added. *)
TakeFromEnd(l, c, fromEnd, n) == Take(l, c, Len(l[c]) - fromEnd, n)

Change(l, c, fromEnd, type, owed) ==
  LET n == RemoveCount(owed, type)
  IN  TakeFromEnd(AddMoney(l, n * Coin(type) - owed), c, fromEnd, n)

(* Whole stacks, and then some coins of the next one: the change is given   *)
(* before they are taken.                                                   *)
RemoveSorted(l, money, purse, whole) ==
  LET gone == Range(SubSeq(purse, 1, whole))
      owed == money - Upto(l, purse, whole)
      e == purse[whole + 1]
      last == Cardinality({i \in Indexes(l, e[1]) : i >= e[2] /\ <<e[1], i>> \notin gone})
  IN  IF owed = 0 THEN Spend(l, gone)
      ELSE Change(Spend(l, gone), e[1], last, At(l, e[1], e[2]).type, owed)

MostWhole(l, money, purse) == Max({n \in 0 .. Len(purse) : Upto(l, purse, n) <= money})
RemoveFrom(l, money, purse) == RemoveSorted(l, money, purse, MostWhole(l, money, purse))
RemoveMoney(l, money) == RemoveFrom(l, money, Purse(l))

-----------------------------------------------------------------------------
(* playerMoveItem, and the pick up of playerUseItem: the top of the floor,  *)
(* to a place as the client counts them.                                    *)
Targets == {<<"floor", 0>>, <<"hand", 0>>, <<"player", 0>>, <<"player", Wherever>>}
             \cup ({"bag"} \X (0 .. Capacity))

PlayerMoveItem(f, k, to, count) ==
  /\ k \in Indexes(s, f)
  /\ f = "floor" => k = 0
  /\ count <= At(s, f, k).count
  /\ s' = MoveItem(s, to[1], to[2], count, f, k)

(* Scripts that give the player an item, or pay it, or are paid. *)
AddItemToPlayer(x) ==
  /\ s.minted + Worth(x) <= MaxWealth
  /\ s' = PlayerAddItem([s EXCEPT !.minted = @ + Worth(x)], x)

Earn(money) ==
  /\ s.minted + money <= MaxWealth
  /\ s' = AddMoney([s EXCEPT !.minted = @ + money], money)

Pay(money) ==
  /\ Upto(s, Purse(s), Len(Purse(s))) >= money
  /\ s' = RemoveMoney([s EXCEPT !.minted = @ - money], money)

OfferBag == ~s.offered /\ s' = [s EXCEPT !.offered = TRUE]
CloseTrade == s.offered /\ s' = [s EXCEPT !.offered = FALSE]

Next ==
  \/ \E f \in Cylinders, k \in 0 .. Capacity, to \in Targets, count \in 1 .. MaxStack :
       PlayerMoveItem(f, k, to, count)
  \/ \E x \in Stack : AddItemToPlayer(x)
  \/ \E money \in 1 .. MaxWealth : Earn(money) \/ Pay(money)
  \/ OfferBag \/ CloseTrade

Spec == Init /\ [][Next]_s

-----------------------------------------------------------------------------
(* However stacks are merged, split, exchanged, paid with and changed: what *)
(* is in all places together, and what was added nowhere, is what was given *)
(* out less what was paid.                                                  *)
MoneyConserved == WorthOf(s) + s.lost = s.minted

(* Money that is added to a player arrives (addMoney, game.h).              *)
MoneyArrives == s.lost = 0
=============================================================================
