---------------------------- MODULE Spectators ----------------------------
(***************************************************************************)
(* Who is around a position (map.cpp): the map keeps its creatures in the  *)
(* leaves of a quadtree, FloorSize fields wide, each with a pointer to its *)
(* southern and its eastern neighbour; getSpectators walks the leaves the  *)
(* view can reach along these pointers and keeps the answer of a search in *)
(* the default range in one of two caches, by the position asked for.  A   *)
(* leaf comes into being with its first tile, a map is loaded in any order *)
(* and Game.createTile adds tiles later.                                   *)
(*                                                                         *)
(* The tree itself is the set of the leaves there are, addressed by row    *)
(* and column; its addresses wrap around at Side leaves, as the shifted    *)
(* coordinates of getLeaf do.  Answers are sets: their order is nobody's   *)
(* concern here.  Searches in other ranges use no cache and the same walk. *)
(***************************************************************************)
EXTENDS Integers, FiniteSets

CONSTANTS Creature,    \* the creatures,
          Player,      \* those of them that are players
          Nowhere,     \* the place of a creature that is not on the map
          NoLeaf,      \* nullptr for a leaf
          Unknown,     \* no entry in a cache
          Where,       \* the positions creatures stand on
          FloorSize,   \* FLOOR_SIZE (8)
          Side,        \* leaves along an axis (8192)
          View         \* maxViewportX and maxViewportY (11)

VARIABLE s
  (* east, south : leaf -> leafE, leafS, for the leaves there are           *)
  (* at          : creature -> the position of its tile                     *)
  (* leaf        : creature -> the leaf whose creature_list holds it        *)
  (* cache       : position -> spectatorCache                               *)
  (* players     : position -> playersSpectatorCache                        *)

Leaf == (0 .. Side - 1) \X (0 .. Side - 1)
Leaves == DOMAIN s.east

LeafOf(pos) == <<pos[1] \div FloorSize, pos[2] \div FloorSize>>

(* getLeaf, by column and row *)
GetLeaf(x, y) ==
  LET l == <<x % Side, y % Side>> IN IF l \in Leaves THEN l ELSE NoLeaf

(* Is c in the range of a multi-floor search around pos? *)
Highest(z) == IF z > 7 THEN z - 2 ELSE 0
Lowest(z) == CASE z > 7 -> z + 2 [] z = 6 -> 8 [] z = 7 -> 9 [] OTHER -> 7
Floors(z) == Highest(z) .. Lowest(z)

InRange(pos, p) ==
  LET offset == pos[3] - p[3]
  IN  /\ p[3] \in Floors(pos[3])
      /\ \A k \in 1..2 : p[k] - pos[k] - offset \in -View .. View

(***************************************************************************)
(* getSpectatorsInternal: from the leaf of the north-western corner of     *)
(* what can be seen from the lowest floor in range to that of the          *)
(* south-eastern corner seen from the highest; a missing leaf is passed by *)
(* looking its neighbour up in the tree.                                   *)
(***************************************************************************)
First(pos, k) ==
  LET v == pos[k] - View + pos[3] - Lowest(pos[3])
  IN  (IF v < 0 THEN 0 ELSE v) \div FloorSize

Last(pos, k) ==
  LET v == pos[k] + View + pos[3] - Highest(pos[3])
      end == Side * FloorSize - 1
  IN  (IF v > end THEN end ELSE v) \div FloorSize

RowStart(pos) ==
  LET x == First(pos, 1)
      from[y \in First(pos, 2) .. Last(pos, 2)] ==
        IF y = First(pos, 2) THEN GetLeaf(x, y)
        ELSE IF from[y - 1] = NoLeaf THEN GetLeaf(x, y)
             ELSE s.south[from[y - 1]]
  IN  from

Walked(pos, y) ==
  LET start == RowStart(pos)[y]
      leafE[x \in First(pos, 1) .. Last(pos, 1)] ==
        IF x = First(pos, 1) THEN start
        ELSE IF leafE[x - 1] = NoLeaf THEN GetLeaf(x, y)
             ELSE s.east[leafE[x - 1]]
  IN  {leafE[x] : x \in First(pos, 1) .. Last(pos, 1)}

GetSpectatorsInternal(pos) ==
  LET walked == UNION {Walked(pos, y) : y \in First(pos, 2) .. Last(pos, 2)}
  IN  {c \in Creature : /\ s.leaf[c] # NoLeaf
                        /\ s.leaf[c] \in walked
                        /\ InRange(pos, s.at[c])}

(* getSpectators in the default range on all floors: what it answers *)
GetSpectators(pos, onlyPlayers) ==
  IF onlyPlayers /\ s.players[pos] # Unknown THEN s.players[pos]
  ELSE LET all == IF s.cache[pos] # Unknown THEN s.cache[pos]
                  ELSE GetSpectatorsInternal(pos)
       IN  IF onlyPlayers THEN all \cap Player ELSE all

(* ... and what it leaves in the caches *)
Ask(pos, onlyPlayers) ==
  IF s.cache[pos] # Unknown \/ (onlyPlayers /\ s.players[pos] # Unknown) THEN s
  ELSE IF onlyPlayers
       THEN [s EXCEPT !.players[pos] = GetSpectatorsInternal(pos) \cap Player]
       ELSE [s EXCEPT !.cache[pos] = GetSpectatorsInternal(pos)]

Empty == [p \in Where |-> Unknown]

(* A mutant: a creature that moves within a leaf changes nothing. *)
ForgetAcross(st, c) ==
  IF st.at[c] # Nowhere /\ st.leaf[c] = LeafOf(st.at[c])
    THEN [st EXCEPT !.cache = Empty]
    ELSE [st EXCEPT !.cache = Empty, !.players = IF c \in Player THEN Empty ELSE @]

(***************************************************************************)
(* Tile::internalAddThing, addThing and removeThing of a creature forget   *)
(* all answers; those about players only when it is one.                   *)
(***************************************************************************)
Forget(st, c) ==
  [st EXCEPT !.cache = Empty, !.players = IF c \in Player THEN Empty ELSE @]

(* Tile::removeThing of the old tile, the leaf's list, addThing of the new *)
Carry(st, c, pos) ==
  [Forget(st, c) EXCEPT !.at[c] = pos,
                        !.leaf[c] = IF pos = Nowhere THEN NoLeaf ELSE LeafOf(pos)]

HasTile(pos) == LeafOf(pos) \in Leaves

(* A mutant: the western neighbour is not told. *)
LinkNoWest(x, y) ==
  LET new == <<x, y>>
      leaves == Leaves \cup {new}
      At(a, b) == LET l == <<a % Side, b % Side>>
                  IN  IF l \in leaves THEN l ELSE NoLeaf
  IN  [s EXCEPT !.east = [l \in leaves |-> IF l = new THEN At(x + 1, y) ELSE s.east[l]],
                !.south = [l \in leaves |->
                  IF l = new THEN At(x, y + 1)
                  ELSE IF l = At(x, y - 1) THEN new ELSE s.south[l]]]

(***************************************************************************)
(* Map::setTile on a field whose leaf there is not yet: the leaf tells its *)
(* northern and western neighbours and is told of the other two.           *)
(***************************************************************************)
Link(x, y) ==
  LET new == <<x, y>>
      leaves == Leaves \cup {new}
      At(a, b) == LET l == <<a % Side, b % Side>>
                  IN  IF l \in leaves THEN l ELSE NoLeaf
  IN  [s EXCEPT !.east = [l \in leaves |->
                  IF l = new THEN At(x + 1, y)
                  ELSE IF l = At(x - 1, y) THEN new ELSE s.east[l]],
                !.south = [l \in leaves |->
                  IF l = new THEN At(x, y + 1)
                  ELSE IF l = At(x, y - 1) THEN new ELSE s.south[l]]]

SetTile ==
  \E l \in {LeafOf(p) : p \in Where} \ Leaves : s' = Link(l[1], l[2])

Search == \E p \in Where, only \in BOOLEAN : s' = Ask(p, only)

(* Map::placeCreature *)
PlaceCreature ==
  \E c \in Creature, p \in Where :
    /\ s.at[c] = Nowhere
    /\ HasTile(p)
    /\ s' = Carry(s, c, p)

(* Map::moveCreature, which asks at both positions before anything changes;
   what it learnt is forgotten with the move *)
MoveCreature ==
  \E c \in Creature, p \in Where :
    /\ s.at[c] \notin {Nowhere, p}
    /\ HasTile(p)
    /\ s' = Carry(s, c, p)

(* Tile::removeCreature *)
RemoveCreature ==
  \E c \in Creature : s.at[c] # Nowhere /\ s' = Carry(s, c, Nowhere)

Init == s = [east    |-> [l \in {} |-> NoLeaf],
             south   |-> [l \in {} |-> NoLeaf],
             at      |-> [c \in Creature |-> Nowhere],
             leaf    |-> [c \in Creature |-> NoLeaf],
             cache   |-> Empty,
             players |-> Empty]

Next == SetTile \/ Search \/ PlaceCreature \/ MoveCreature \/ RemoveCreature

Spec == Init /\ [][Next]_s

-----------------------------------------------------------------------------
TypeOK ==
  /\ Leaves \subseteq Leaf /\ DOMAIN s.south = Leaves
  /\ \A l \in Leaves : {s.east[l], s.south[l]} \subseteq Leaves \cup {NoLeaf}
  /\ s.at \in [Creature -> Where \cup {Nowhere}]
  /\ s.leaf \in [Creature -> Leaves \cup {NoLeaf}]
  /\ s.cache \in [Where -> SUBSET Creature \cup {Unknown}]
  /\ s.players \in [Where -> SUBSET Player \cup {Unknown}]

(* A question about a position is answered with exactly the creatures (or   *)
(* players) in range of it: no leaf in reach is passed over, whatever order *)
(* the leaves came in, and no cached answer outlives a step that changes    *)
(* who is there (map.cpp:402, 346, 106; tile.cpp:831, 1040, 1411).          *)
AllAroundFound ==
  \A p \in Where, only \in BOOLEAN :
    GetSpectators(p, only) =
      {c \in IF only THEN Player ELSE Creature :
         s.at[c] # Nowhere /\ InRange(p, s.at[c])}
=============================================================================
