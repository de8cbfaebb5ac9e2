----------------------------- MODULE Containers -----------------------------
(***************************************************************************)
(* The container windows of players (openContainers of player.cpp, the     *)
(* handlers of game.cpp and actions.cpp): pointers to containers, without  *)
(* a reference, that give whoever holds them access to what is inside.     *)
(*                                                                         *)
(* Abstracted: the ground is a row of tiles, all in sight of each other;   *)
(* there is room everywhere; only containers are items.  Left out: depots, *)
(* and the page a window shows.                                            *)
(***************************************************************************)
EXTENDS Naturals, FiniteSets

CONSTANTS Player, Bag, NoBag,
          Gone,            \* the parent of a bag that was removed
          Width,           \* the tiles are 1 .. Width
          Cid              \* the numbers of windows

Tile == 1 .. Width

(* Assumed where this module is instantiated. *)
ContainersAssumption ==
  /\ Width \in Nat /\ NoBag \notin Bag
  /\ Bag \cap (Tile \cup Player \cup {Gone}) = {}
  /\ Player \cap (Tile \cup {Gone}) = {} /\ Gone \notin Tile

VARIABLE s

TypeOK == s \in [parent : [Bag -> Tile \cup Bag \cup Player \cup {Gone}],
                 at : [Player -> Tile],
                 open : [Player -> [Cid -> Bag \cup {NoBag}]]]

Init ==
  \E at \in [Player -> Tile] :
    s = [parent |-> [b \in Bag |-> Gone], at |-> at,
         open |-> [p \in Player |-> [c \in Cid |-> NoBag]]]

-----------------------------------------------------------------------------
Near(x, y) == x <= y + 1 /\ y <= x + 1

(* A container with those it is in, and what holds them all. *)
Around(t, b) ==
  LET upwards == {S \in SUBSET Bag : b \in S /\ \A x \in S : t.parent[x] \in Bag => t.parent[x] \in S}
  IN  {x \in Bag : \A S \in upwards : x \in S}
Holder(t, b) == CHOOSE x \in {t.parent[y] : y \in Around(t, b)} : x \notin Bag
IsRemoved(t, b) == Holder(t, b) = Gone
TileOf(t, holder) == IF holder \in Player THEN t.at[holder] ELSE holder
NearHolder(t, p, holder) == holder # Gone /\ Near(t.at[p], TileOf(t, holder))
InRange(t, p, b) == NearHolder(t, p, Holder(t, b))
(* Worn, or on the ground, and in reach *)
AtHand(t, p, holder) == holder \in Tile \cup {p} /\ Near(t.at[p], TileOf(t, holder))
Opened(t, p) == {t.open[p][c] : c \in Cid} \ {NoBag}

(* autoCloseContainers, of a window on x *)
Closes(t, b, x) == x # NoBag /\ (b \in Around(t, x) \/ IsRemoved(t, x))
AutoClose(t, p, b) == [c \in Cid |-> IF Closes(t, b, t.open[p][c]) THEN NoBag ELSE t.open[p][c]]

(* Player::postRemoveNotification, of a container *)
PostRemove(t, p, b, holder) == IF AtHand(t, p, holder) THEN t.open[p] ELSE AutoClose(t, p, b)

(* Who is told: the player that held it, or all that are around.  The       *)
(* windows of one player do not depend on those of another.                 *)
Told(holder) == IF holder \in Player THEN {holder} ELSE Player

(* internalMoveItem, internalRemoveItem *)
MoveTo(t, b, to) ==
  LET moved == [t EXCEPT !.parent[b] = to]
      told == Told(Holder(t, b))
      holder == Holder(moved, b)
  IN  [moved EXCEPT !.open = [p \in Player |-> IF p \in told THEN PostRemove(moved, p, b, holder)
                                               ELSE t.open[p]]]

-----------------------------------------------------------------------------
(* internalGetThing: an item in the inventory, on a tile, or in a container *)
(* that has a window, wherever that container is.                           *)
Has(p, b) == s.parent[b] = p \/ s.parent[b] \in Opened(s, p)
May(p, b) == Has(p, b) \/ (s.parent[b] \in Tile /\ Near(s.at[p], s.parent[b]))

(* Actions::internalUseItem: what is open is closed *)
UseContainer(p, b, c) ==
  /\ May(p, b)
  /\ IF b \notin Opened(s, p) THEN s' = [s EXCEPT !.open[p][c] = b]
     ELSE \E d \in Cid : s.open[p][d] = b /\ s' = [s EXCEPT !.open[p][d] = NoBag]

CloseContainer(p, c) == s.open[p][c] # NoBag /\ s' = [s EXCEPT !.open[p][c] = NoBag]

MoveUpContainer(p, c) ==
  LET b == s.open[p][c]
  IN  b # NoBag /\ s.parent[b] \in Bag /\ s' = [s EXCEPT !.open[p][c] = s.parent[b]]

(* playerMoveItem, of an item whose place is near, to where the player can  *)
(* throw; a container cannot be put into itself.                            *)
MoveItem(p, b) ==
  /\ May(p, b) /\ InRange(s, p, b)
  /\ \E to \in (Tile \cup {p} \cup Opened(s, p)) \ {s.parent[b]} :
       /\ to \in Bag => b \notin Around(s, to)
       /\ s' = MoveTo(s, b, to)

(* A trade, where the place of the item is not looked at any more *)
Give(p, q, b) == p # q /\ May(p, b) /\ s' = MoveTo(s, b, q)

(* A corpse decays, a script removes an item *)
RemoveItem(b) == ~ IsRemoved(s, b) /\ s' = MoveTo(s, b, Gone)

(* A corpse drops, a script gives an item *)
CreateItem(b) ==
  /\ s.parent[b] = Gone /\ \A x \in Bag : s.parent[x] # b
  /\ \E to \in Tile \cup Player : s' = [s EXCEPT !.parent[b] = to]

(* A step or a teleport: Player::postAddNotification of the player itself *)
Move(p) ==
  \E to \in Tile \ {s.at[p]} :
    LET there == [s EXCEPT !.at[p] = to]
        far == {b \in Opened(there, p) : ~ InRange(there, p, b)}
    IN  s' = [there EXCEPT !.open[p] = [c \in Cid |->
               IF \E b \in far : Closes(there, b, s.open[p][c]) THEN NoBag ELSE s.open[p][c]]]

Next ==
  \/ \E p \in Player : \/ \E b \in Bag : MoveItem(p, b)
                       \/ \E c \in Cid : CloseContainer(p, c) \/ MoveUpContainer(p, c)
                       \/ \E b \in Bag, c \in Cid : UseContainer(p, b, c)
                       \/ \E q \in Player, b \in Bag : Give(p, q, b)
                       \/ Move(p)
  \/ \E b \in Bag : RemoveItem(b) \/ CreateItem(b)

Spec == Init /\ [][Next]_s

-----------------------------------------------------------------------------
(* Whoever moves, carries off or destroys a container or one it is in: a     *)
(* window is only ever on a container that exists and that the player wears  *)
(* or stands next to.  Items in a window are used without any other test     *)
(* (Actions::canUse looks at the position of items on the ground alone).     *)
WindowsInReach ==
  \A p \in Player : \A b \in Opened(s, p) : AtHand(s, p, Holder(s, b))
=============================================================================
