------------------------------ MODULE TileStack ------------------------------
(***************************************************************************)
(* What lies and stands on one tile, and the numbers by which server and   *)
(* clients name it (tile.cpp; Game::removeCreature; protocolgame.cpp):     *)
(* ground, then the items that are always on top by their order, then the  *)
(* creatures, the last to come first, then the others, newest first.  A    *)
(* client is shown the creatures its player can see, and things to Shown.  *)
(*                                                                         *)
(* Abstracted: item flags, stack counts (an update changes no place), the  *)
(* scripts and holders told of a change.                                   *)
(***************************************************************************)
EXTENDS Naturals, Sequences, FiniteSets, SequencesExt

CONSTANTS Creature, Viewer,
          Sight,              \* whom each viewer sees
          Item,               \* what is not ground
          Order,              \* alwaysOnTopOrder, 0 for what is not on top
          Splash, Field,
          Replaceable,        \* the fields that give way
          NoGround, Ground,
          Shown               \* 10 in the code

(* Assumed where this module is instantiated. *)
TileStackAssumption ==
  /\ Sight \in [Viewer -> SUBSET Creature] /\ Order \in [Item -> Nat]
  /\ Splash \cup Field \subseteq Item /\ Replaceable \subseteq Field
  /\ Shown \in Nat \ {0} /\ NoGround \notin Ground

VARIABLE s

Types == [ground : Ground \cup {NoGround},
          top : Seq(Item), creatures : Seq(Creature), down : Seq(Item)]
Empty == [ground |-> NoGround, top |-> <<>>, creatures |-> <<>>, down |-> <<>>]

(* the removals a client was told of by index: as sent, and as it was shown *)
NothingSent == [v \in {} |-> <<0, 0>>]

TypeOK ==
  /\ DOMAIN s = {"tile", "sent"}
  /\ s.tile \in Types
  /\ DOMAIN s.sent \subseteq Viewer

Init == s = [tile |-> Empty, sent |-> NothingSent]

-----------------------------------------------------------------------------
IsTop(i) == Order[i] > 0
GroundPart(t) == IF t.ground = NoGround THEN <<>> ELSE <<t.ground>>
Find(q, x) == IF x \in ToSet(q) THEN CHOOSE k \in 1 .. Len(q) : q[k] = x ELSE 0
Visible(t, v) == SelectSeq(t.creatures, LAMBDA c : c \in Sight[v])

(* GetTileDescription: top items stop at Shown, creatures do not *)
Description(t, v) ==
  LET tops == GroundPart(t) \o t.top
      upper == SubSeq(tops, 1, IF Len(tops) > Shown THEN Shown ELSE Len(tops))
      middle == upper \o Reverse(Visible(t, v))
      room == IF Len(middle) >= Shown THEN 0 ELSE Shown - Len(middle)
  IN  middle \o SubSeq(t.down, 1, IF Len(t.down) > room THEN room ELSE Len(t.down))

(* getThingIndex, getThing: the server's own numbers count every creature *)
Things(t) == GroundPart(t) \o t.top \o t.creatures \o t.down
ThingIndex(t, x) ==
  LET g == Len(GroundPart(t))
  IN  IF x = t.ground THEN 0
      ELSE IF x \in Creature THEN g + Len(t.top) + Find(t.creatures, x) - 1
      ELSE IF IsTop(x) THEN g + Find(t.top, x) - 1
      ELSE g + Len(t.top) + Len(t.creatures) + Find(t.down, x) - 1
GetThing(t, n) == Things(t)[n + 1]

(* getClientIndexOfCreature *)
ClientIndexOfCreature(t, v, c) ==
  LET above == SubSeq(t.creatures, Find(t.creatures, c) + 1, Len(t.creatures))
  IN  Len(GroundPart(t)) + Len(t.top) + Len(SelectSeq(above, LAMBDA d : d \in Sight[v]))

(* getStackposOfItem; Shown stands for -1.  Mutant: whoever stands there is  *)
(* counted.                                                                  *)
Limited(n) == IF n >= Shown THEN Shown ELSE n
StackposOfItemAll(t, v, i) ==
  LET g == Len(GroundPart(t))
  IN  IF i = t.ground THEN 0
      ELSE IF IsTop(i) THEN Limited(g + Find(t.top, i) - 1)
      ELSE Limited(g + Len(t.top) + Len(t.creatures) + Find(t.down, i) - 1)
StackposOfItem(t, v, i) ==
  LET g == Len(GroundPart(t))
  IN  IF i = t.ground THEN 0
      ELSE IF IsTop(i) THEN Limited(g + Find(t.top, i) - 1)
      ELSE Limited(g + Len(t.top) + Len(Visible(t, v)) + Find(t.down, i) - 1)

-----------------------------------------------------------------------------
(* removeThing *)
Without(t, x) ==
  [t EXCEPT !.ground = IF x = @ THEN NoGround ELSE @,
            !.top = SelectSeq(@, LAMBDA y : y # x),
            !.creatures = SelectSeq(@, LAMBDA y : y # x),
            !.down = SelectSeq(@, LAMBDA y : y # x)]

(* addThing: a new splash takes the place of the old one, and comes before   *)
(* what has its order.  Mutant: ahead of everything.                         *)
PutTopFirst(q, i) == <<i>> \o q
PutTop(q, i) ==
  LET n == Len(SelectSeq(q, LAMBDA j : Order[j] < Order[i]))
  IN  SubSeq(q, 1, n) \o <<i>> \o SubSeq(q, n + 1, Len(q))

Drop(q, S) == SelectSeq(q, LAMBDA j : j \notin S)
AddItem(t, i) ==
  LET old == IF i \in Splash THEN Splash ELSE {}
      fields == {j \in Field : Find(t.down, j) > 0}
  IN  IF IsTop(i) THEN [t EXCEPT !.top = PutTop(Drop(@, old), i)]
      ELSE IF i \in Field /\ fields # {} /\ fields \cap Replaceable = {} THEN t
      ELSE [t EXCEPT !.down = <<i>> \o Drop(@, IF i \in Field THEN Replaceable ELSE {})]

On(t) == ToSet(Things(t))

(* What a player is told when x goes *)
Tell(Index(_), vs, x) ==
  [v \in {w \in vs : Index(w) < Shown} |-> <<Index(v), Find(Description(s.tile, v), x) - 1>>]

AddThing(i) ==
  /\ i \in Item \ On(s.tile)
  /\ s' = [tile |-> AddItem(s.tile, i), sent |-> NothingSent]
AddGround(g) == s.tile.ground # g /\ s' = [tile |-> [s.tile EXCEPT !.ground = g], sent |-> NothingSent]
Arrive(c) ==
  /\ c \in Creature \ On(s.tile)
  /\ s' = [tile |-> [s.tile EXCEPT !.creatures = Append(@, c)], sent |-> NothingSent]

(* removeThing of an item: every player has the index of its own *)
RemoveItem(i) ==
  /\ i \in On(s.tile) \ Creature
  /\ LET Index(v) == StackposOfItem(s.tile, v, i)
     IN  s' = [tile |-> Without(s.tile, i), sent |-> Tell(Index, Viewer, i)]

(* Map::moveCreature: those who cannot see the creature keep their place in  *)
(* the list of indexes, and are passed over.                                 *)
MoveAway(c) ==
  /\ c \in On(s.tile) \cap Creature
  /\ LET Index(v) == ClientIndexOfCreature(s.tile, v, c)
     IN  s' = [tile |-> Without(s.tile, c),
               sent |-> Tell(Index, {v \in Viewer : c \in Sight[v]}, c)]

(* Game::removeCreature: those who cannot see it have a place in the list,   *)
(* Shown for -1, but are not passed over: the next one is sent it.           *)
RemoveCreature(c) ==
  /\ c \in On(s.tile) \cap Creature
  /\ \E spectators \in SetToSeqs(Viewer) :
       LET seeing == SelectSeq(spectators, LAMBDA v : c \in Sight[v])
           Old(k) == IF c \in Sight[spectators[k]]
                     THEN ClientIndexOfCreature(s.tile, spectators[k], c) ELSE Shown
           Index(v) == Old(Find(seeing, v))
       IN  s' = [tile |-> Without(s.tile, c), sent |-> Tell(Index, ToSet(seeing), c)]

(* replaceThing: in the same place *)
Replace(i, j) ==
  LET Swap(q) == [k \in 1 .. Len(q) |-> IF q[k] = i THEN j ELSE q[k]]
  IN  /\ i \in On(s.tile) \ Creature /\ j \in Item \ On(s.tile) /\ i \in Item
      /\ Order[i] = Order[j] /\ (i \in Splash <=> j \in Splash) /\ (i \in Field <=> j \in Field)
      /\ s' = [tile |-> [s.tile EXCEPT !.top = Swap(@), !.down = Swap(@)], sent |-> NothingSent]

Next ==
  \/ \E i \in Item : AddThing(i) \/ (\E j \in Item : Replace(i, j))
  \/ \E i \in Item \cup Ground : RemoveItem(i)
  \/ \E g \in Ground : AddGround(g)
  \/ \E c \in Creature : Arrive(c) \/ MoveAway(c) \/ RemoveCreature(c)

Spec == Init /\ [][Next]_s

-----------------------------------------------------------------------------
(* The numbers agree: the server finds a thing where it says it is; an item  *)
(* or a creature a client is shown has there the number the server takes for *)
(* it, and what is not shown has none; top items lie by their order, and of  *)
(* splashes and fields there is one.                                         *)
NumbersAgree ==
  LET t == s.tile
      Place(v, x) == Find(Description(t, v), x) - 1
      InView(v, x) == Find(Description(t, v), x) \in 1 .. Shown
  IN  /\ \A x \in On(t) : GetThing(t, ThingIndex(t, x)) = x
      /\ \A v \in Viewer : \A x \in On(t) \cap (Item \cup Ground) :
           IF InView(v, x) THEN StackposOfItem(t, v, x) = Place(v, x)
           ELSE StackposOfItem(t, v, x) = Shown
      /\ \A v \in Viewer : \A c \in On(t) \cap Sight[v] :
           Limited(ClientIndexOfCreature(t, v, c)) = Limited(Place(v, c))
      /\ \A j, k \in 1 .. Len(t.top) : j < k => Order[t.top[j]] <= Order[t.top[k]]
      /\ Cardinality(On(t) \cap Splash) <= 1 /\ Cardinality(On(t) \cap Field) <= 1

(* "Use the correct stackpos" (map.cpp:329): what a client is told to remove *)
(* by its number is what went.  Not so when a creature is removed before     *)
(* three viewers of whom the first cannot see it.                            *)
RemovedByItsNumber == \A v \in DOMAIN s.sent : s.sent[v][1] = s.sent[v][2]

=============================================================================
