----------------------------- MODULE TradeProofs -----------------------------
(***************************************************************************)
(* For any players, items, containers and tiles: traders come in pairs, no *)
(* item is offered twice, and what is offered stays what was shown.        *)
(***************************************************************************)
EXTENDS Trade, FiniteSetTheorems, TLAPS

-----------------------------------------------------------------------------
(* Places.  The first component of a place tells its kind. *)

Placement == [Item -> Place]

LEMMA Kinds ==
  /\ \A c, d : In(c) = In(d) => c = d
  /\ \A c, x : In(c) # Tile(x)
  /\ \A c, p : In(c) \notin Slots(p)
  /\ \A c : In(c) # Nowhere
  /\ \A x, p : Tile(x) \notin Slots(p)
  /\ \A x : Tile(x) # Nowhere
  /\ \A p : Nowhere \notin Slots(p)
<1>1. \A c : In(c)[1] = "in" /\ In(c)[2] = c
  BY DEF In
<1>2. \A x : Tile(x)[1] = "tile" /\ Tile(x)[2] = x
  BY DEF Tile
<1>3. \A p : Backpack(p)[1] = "backpack" /\ Hand(p)[1] = "hand"
  BY DEF Backpack, Hand
<1>4. Nowhere[1] = "nowhere"
  BY DEF Nowhere
<1>5. \A c, d : In(c) = In(d) => c = d
  BY <1>1
<1>6. \A c, x : In(c) # Tile(x)
  BY <1>1, <1>2
<1>7. \A c, p : In(c) \notin Slots(p)
  BY <1>1, <1>3 DEF Slots
<1>8. \A x, p : Tile(x) \notin Slots(p)
  BY <1>2, <1>3 DEF Slots
<1>9. (\A c : In(c) # Nowhere) /\ (\A x : Tile(x) # Nowhere) /\ (\A p : Nowhere \notin Slots(p))
  BY <1>1, <1>2, <1>3, <1>4 DEF Slots
<1>. QED  BY <1>5, <1>6, <1>7, <1>8, <1>9

LEMMA InContainer ==
  ASSUME NEW l \in Placement, NEW j \in Item, NEW c, l[j] = In(c)
  PROVE  c \in Container
<1>1. In(c) \in Place
  BY DEF Placement
<1>. QED  BY <1>1, Kinds DEF Place

-----------------------------------------------------------------------------
(* What a container holds, in a placement l: the least set with what is in *)
(* the container and in what it holds.                                     *)

LEMMA HoldsInside ==
  ASSUME NEW l, NEW c, NEW j \in Item, l[j] = In(c) \/ \E d \in Holding(l, c) : l[j] = In(d)
  PROVE  j \in Holding(l, c)
<1>. SUFFICES ASSUME NEW S \in SUBSET Item,
                     \A k \in Item : (l[k] = In(c) \/ \E d \in S : l[k] = In(d)) => k \in S
              PROVE  j \in S
  BY DEF Holding
<1>1. Holding(l, c) \subseteq S
  BY DEF Holding
<1>. QED  BY <1>1

LEMMA HoldsLeast ==
  ASSUME NEW l, NEW c, NEW S \in SUBSET Item,
         \A k \in Item : (l[k] = In(c) \/ \E d \in S : l[k] = In(d)) => k \in S
  PROVE  Holding(l, c) \subseteq S
BY DEF Holding

LEMMA HoldsItems == \A l, c : Holding(l, c) \subseteq Item
BY DEF Holding

LEMMA HoldsParent ==
  ASSUME NEW l, NEW c, NEW j \in Holding(l, c)
  PROVE  l[j] = In(c) \/ \E d \in Holding(l, c) : l[j] = In(d)
<1>. DEFINE S == {k \in Holding(l, c) : l[k] = In(c) \/ \E d \in Holding(l, c) : l[k] = In(d)}
<1>1. S \in SUBSET Item
  BY HoldsItems
<1>2. ASSUME NEW k \in Item, l[k] = In(c) \/ \E d \in S : l[k] = In(d)
      PROVE  k \in S
  BY <1>2, HoldsInside
<1>. HIDE DEF S
<1>3. Holding(l, c) \subseteq S
  BY <1>1, <1>2, HoldsLeast
<1>. QED  BY <1>3 DEF S

LEMMA HoldsThrough ==
  ASSUME NEW l, NEW c, NEW d \in Holding(l, c)
  PROVE  Holding(l, d) \subseteq Holding(l, c)
<1>1. Holding(l, c) \in SUBSET Item
  BY HoldsItems
<1>2. ASSUME NEW k \in Item, l[k] = In(d) \/ \E e \in Holding(l, c) : l[k] = In(e)
      PROVE  k \in Holding(l, c)
  BY <1>2, HoldsInside
<1>. QED  BY <1>1, <1>2, HoldsLeast

-----------------------------------------------------------------------------
(* Roots.  Every item has one: containers never hold themselves.            *)

IsRoot(l, i, r) == /\ r \in Item
                   /\ r = i \/ i \in Holding(l, r)
                   /\ \A c \in Container : l[r] # In(c)

Rooted(l) == \A i \in Item : \E r \in Item : IsRoot(l, i, r)

(* What is held is inside something, so a root is held by nothing. *)
LEMMA RootNotHeld ==
  ASSUME NEW l \in Placement, NEW i, NEW r, IsRoot(l, i, r)
  PROVE  /\ \A c : r \notin Holding(l, c)
         /\ \A c : l[r] # In(c)
<1>1. \A c : l[r] # In(c)
  BY InContainer DEF IsRoot
<1>2. \A c : r \notin Holding(l, c)
  BY <1>1, HoldsParent
<1>. QED  BY <1>1, <1>2

LEMMA OneRoot ==
  ASSUME NEW l \in Placement, NEW i, NEW r, NEW s, IsRoot(l, i, r), IsRoot(l, i, s)
  PROVE  r = s
<1>. DEFINE S == {j \in Holding(l, r) : j \in Holding(l, s) => r = s}
<1>1. /\ r \in Item /\ s \in Item /\ \A c : r \notin Holding(l, c) /\ s \notin Holding(l, c)
      /\ r = i \/ i \in Holding(l, r)
      /\ s = i \/ i \in Holding(l, s)
  BY RootNotHeld DEF IsRoot
<1>2. S \in SUBSET Item
  BY HoldsItems
<1>3. ASSUME NEW j \in Item, l[j] = In(r) \/ \E d \in S : l[j] = In(d) PROVE j \in S
  <2>1. j \in Holding(l, r)
    BY <1>3, HoldsInside
  <2>2. ASSUME j \in Holding(l, s), l[j] = In(r) PROVE r = s
    BY <2>2, <1>1, HoldsParent, Kinds
  <2>3. ASSUME j \in Holding(l, s), NEW d \in S, l[j] = In(d) PROVE r = s
    <3>1. d = s \/ d \in Holding(l, s)
      BY <2>3, HoldsParent, Kinds
    <3>. QED  BY <3>1, <1>1
  <2>. QED  BY <1>3, <2>1, <2>2, <2>3
<1>. HIDE DEF S
<1>4. Holding(l, r) \subseteq S
  BY <1>2, <1>3, HoldsLeast
<1>. QED  BY <1>1, <1>4 DEF S

LEMMA RootIs ==
  ASSUME NEW l \in Placement, NEW i \in Item, NEW r, IsRoot(l, i, r)
  PROVE  Root(l, i) = r /\ Top(l, i) = l[r]
<1>. DEFINE s == Root(l, i)
<1>1. IsRoot(l, i, s)
  BY DEF IsRoot, Root
<1>2. s = r
  BY <1>1, OneRoot
<1>. QED  BY <1>2 DEF Top

LEMMA HasRoot ==
  ASSUME NEW l \in Placement, Rooted(l), NEW i \in Item
  PROVE  \E r \in Item : IsRoot(l, i, r) /\ Root(l, i) = r /\ Top(l, i) = l[r]
<1>1. PICK r \in Item : IsRoot(l, i, r)
  BY DEF Rooted
<1>. QED  BY <1>1, RootIs

(* What a container holds is where the container is. *)
LEMMA SameTop ==
  ASSUME NEW l \in Placement, Rooted(l), NEW c \in Item, NEW i \in Holding(l, c)
  PROVE  Root(l, i) = Root(l, c) /\ Top(l, i) = Top(l, c)
<1>1. PICK r \in Item : IsRoot(l, c, r)
  BY DEF Rooted
<1>2. i \in Item /\ i \in Holding(l, r)
  BY <1>1, HoldsThrough, HoldsItems DEF IsRoot
<1>3. IsRoot(l, i, r)
  BY <1>1, <1>2 DEF IsRoot
<1>. QED  BY <1>1, <1>2, <1>3, RootIs

LEMMA NotInItself ==
  ASSUME NEW l \in Placement, Rooted(l), NEW i \in Item
  PROVE  i \notin Holding(l, i)
<1>1. PICK r \in Item : IsRoot(l, i, r)
  BY DEF Rooted
<1>. DEFINE S == {j \in Holding(l, r) : j \notin Holding(l, j)}
<1>2. /\ \A c : r \notin Holding(l, c)
      /\ r = i \/ i \in Holding(l, r)
  BY <1>1, RootNotHeld DEF IsRoot
<1>3. S \in SUBSET Item
  BY HoldsItems
<1>4. ASSUME NEW j \in Item, l[j] = In(r) \/ \E d \in S : l[j] = In(d) PROVE j \in S
  <2>1. j \in Holding(l, r)
    BY <1>4, HoldsInside
  <2>2. ASSUME j \in Holding(l, j), l[j] = In(r) PROVE FALSE
    BY <2>2, <1>2, HoldsParent, Kinds
  <2>3. ASSUME j \in Holding(l, j), NEW d \in S, l[j] = In(d) PROVE FALSE
    <3>1. d = j \/ d \in Holding(l, j)
      BY <2>3, HoldsParent, Kinds
    <3>2. j \in Holding(l, d)
      BY <2>3, HoldsInside
    <3>3. d \in Holding(l, d)
      BY <3>1, <3>2, HoldsThrough
    <3>. QED  BY <3>3
  <2>. QED  BY <1>4, <2>1, <2>2, <2>3
<1>. HIDE DEF S
<1>5. Holding(l, r) \subseteq S
  BY <1>3, <1>4, HoldsLeast
<1>. QED  BY <1>2, <1>5 DEF S

-----------------------------------------------------------------------------
(* Moving one item, never into itself or into what it holds. *)

Fits(l, i, place) == /\ place \in Place
                     /\ \A d : place = In(d) => d # i /\ d \notin Holding(l, i)

LEMMA MovedIs ==
  ASSUME NEW l \in Placement, NEW i \in Item, NEW place \in Place
  PROVE  /\ Moved(l, i, place) \in Placement
         /\ Moved(l, i, place)[i] = place
         /\ \A j \in Item \ {i} : Moved(l, i, place)[j] = l[j]
BY DEF Placement, Moved

(* What the item holds moves with it. *)
LEMMA HeldMovesAlong ==
  ASSUME NEW l \in Placement, Rooted(l), NEW i \in Item, NEW place \in Place
  PROVE  Holding(l, i) \subseteq Holding(Moved(l, i, place), i)
<1>. DEFINE m == Moved(l, i, place)
            S == {j \in Holding(l, i) : j \in Holding(m, i)}
<1>1. \A j \in Item \ {i} : m[j] = l[j]
  BY MovedIs
<1>2. i \notin Holding(l, i)
  BY NotInItself
<1>3. S \in SUBSET Item
  BY HoldsItems
<1>. HIDE DEF m
<1>4. ASSUME NEW j \in Item, l[j] = In(i) \/ \E d \in S : l[j] = In(d) PROVE j \in S
  <2>1. j \in Holding(l, i)
    BY <1>4, HoldsInside
  <2>2. m[j] = l[j]
    BY <1>1, <1>2, <2>1
  <2>3. j \in Holding(m, i)
    BY <1>4, <2>2, HoldsInside
  <2>. QED  BY <2>1, <2>3
<1>. HIDE DEF S
<1>5. Holding(l, i) \subseteq S
  BY <1>3, <1>4, HoldsLeast
<1>. QED  BY <1>5 DEF S, m

(* The root of an item that does not move with it stays its root. *)
LEMMA RootStays ==
  ASSUME NEW l \in Placement, Rooted(l), NEW i \in Item, NEW place \in Place,
         NEW j \in Item, j # i, j \notin Holding(l, i), NEW r, IsRoot(l, j, r)
  PROVE  IsRoot(Moved(l, i, place), j, r) /\ Moved(l, i, place)[r] = l[r]
<1>. DEFINE m == Moved(l, i, place)
            S == {k \in Holding(l, r) : k \in {i} \cup Holding(l, i) \cup Holding(m, r)}
<1>1. r \in Item /\ r # i /\ (r = j \/ j \in Holding(l, r))
  BY DEF IsRoot
<1>2. \A k \in Item \ {i} : m[k] = l[k]
  BY MovedIs
<1>3. S \in SUBSET Item
  BY HoldsItems
<1>. HIDE DEF m
<1>4. ASSUME NEW k \in Item, l[k] = In(r) \/ \E d \in S : l[k] = In(d) PROVE k \in S
  <2>1. k \in Holding(l, r)
    BY <1>4, HoldsInside
  <2>2. CASE k = i
    BY <2>1, <2>2
  <2>3. CASE k # i
    <3>1. m[k] = l[k]
      BY <1>2, <2>3
    <3>2. ASSUME l[k] = In(r) PROVE k \in Holding(m, r)
      BY <3>1, <3>2, HoldsInside
    <3>3. ASSUME NEW d \in S, l[k] = In(d), d \in {i} \cup Holding(l, i) PROVE k \in Holding(l, i)
      BY <3>3, HoldsInside
    <3>4. ASSUME NEW d \in S, l[k] = In(d), d \in Holding(m, r) PROVE k \in Holding(m, r)
      BY <3>1, <3>4, HoldsInside
    <3>. QED  BY <1>4, <2>1, <3>2, <3>3, <3>4
  <2>. QED  BY <2>2, <2>3
<1>. HIDE DEF S
<1>5. Holding(l, r) \subseteq S
  BY <1>3, <1>4, HoldsLeast
<1>6. r = j \/ j \in Holding(m, r)
  BY <1>1, <1>5 DEF S
<1>7. m[r] = l[r] /\ \A c \in Container : m[r] # In(c)
  BY <1>1, <1>2 DEF IsRoot
<1>. QED  BY <1>1, <1>6, <1>7 DEF IsRoot, m

LEMMA TopStays ==
  ASSUME NEW l \in Placement, Rooted(l), NEW i \in Item, NEW place \in Place,
         NEW j \in Item, j # i, j \notin Holding(l, i)
  PROVE  Top(Moved(l, i, place), j) = Top(l, j)
<1>1. PICK r \in Item : IsRoot(l, j, r)
  BY DEF Rooted
<1>2. IsRoot(Moved(l, i, place), j, r) /\ Moved(l, i, place)[r] = l[r]
  BY <1>1, RootStays
<1>. QED  BY <1>1, <1>2, RootIs, MovedIs

LEMMA StaysRooted ==
  ASSUME NEW l \in Placement, Rooted(l), NEW i \in Item, NEW place, Fits(l, i, place)
  PROVE  Rooted(Moved(l, i, place))
<1>. DEFINE m == Moved(l, i, place)
<1>1. place \in Place /\ m \in Placement /\ m[i] = place
  BY MovedIs DEF Fits
<1>2. Holding(l, i) \subseteq Holding(m, i)
  BY <1>1, HeldMovesAlong
<1>3. ASSUME NEW j \in Item, j # i, j \notin Holding(l, i) PROVE \E r \in Item : IsRoot(m, j, r)
  BY <1>1, <1>3, RootStays DEF Rooted
<1>4. \E r \in Item : IsRoot(m, i, r)
  <2>1. CASE \A c \in Container : place # In(c)
    BY <1>1, <2>1 DEF IsRoot
  <2>2. CASE \E d \in Container : place = In(d)
    <3>1. PICK d \in Container : place = In(d)
      BY <2>2
    <3>2. d \in Item /\ d # i /\ d \notin Holding(l, i)
      BY <3>1, TradeAssumption DEF Fits
    <3>3. PICK r \in Item : IsRoot(m, d, r)
      BY <1>3, <3>2
    <3>4. i \in Holding(m, r)
      BY <1>1, <3>1, <3>3, HoldsInside DEF IsRoot
    <3>. QED  BY <3>3, <3>4 DEF IsRoot
  <2>. QED  BY <2>1, <2>2
<1>. HIDE DEF m
<1>5. ASSUME NEW j \in Holding(l, i) PROVE \E r \in Item : IsRoot(m, j, r)
  <2>1. PICK r \in Item : IsRoot(m, i, r)
    BY <1>4
  <2>2. j \in Holding(m, r)
    BY <1>2, <2>1, HoldsThrough DEF IsRoot
  <2>. QED  BY <2>1, <2>2 DEF IsRoot
<1>. QED  BY <1>3, <1>4, <1>5 DEF Rooted, m

(* A container that the item neither leaves nor enters holds what it held. *)
LEMMA HoldsTheSame ==
  ASSUME NEW l \in Placement, NEW i \in Item, NEW place \in Place, NEW c \in Item,
         i \notin Holding(l, c), \A d : place = In(d) => d # c /\ d \notin Holding(l, c)
  PROVE  Holding(Moved(l, i, place), c) = Holding(l, c)
<1>. DEFINE m == Moved(l, i, place)
<1>1. m[i] = place /\ \A k \in Item \ {i} : m[k] = l[k]
  BY MovedIs
<1>. HIDE DEF m
<1>2. Holding(m, c) \subseteq Holding(l, c)
  <2>1. ASSUME NEW k \in Item, m[k] = In(c) \/ \E d \in Holding(l, c) : m[k] = In(d)
        PROVE  k \in Holding(l, c)
    <3>1. k # i
      BY <1>1, <2>1
    <3>2. m[k] = l[k]
      BY <1>1, <3>1
    <3>. QED  BY <2>1, <3>2, HoldsInside
  <2>2. Holding(l, c) \in SUBSET Item
    BY HoldsItems
  <2>. QED  BY <2>1, <2>2, HoldsLeast
<1>3. Holding(l, c) \subseteq Holding(m, c)
  <2>1. ASSUME NEW k \in Item, l[k] = In(c) \/ \E d \in Holding(m, c) : l[k] = In(d)
        PROVE  k \in Holding(m, c)
    <3>1. k \in Holding(l, c)
      BY <1>2, <2>1, HoldsInside
    <3>2. m[k] = l[k]
      BY <1>1, <3>1
    <3>. QED  BY <2>1, <3>2, HoldsInside
  <2>2. Holding(m, c) \in SUBSET Item
    BY HoldsItems
  <2>. QED  BY <2>1, <2>2, HoldsLeast
<1>. QED  BY <1>2, <1>3 DEF m

-----------------------------------------------------------------------------
(* What a trader is told.  Who can reach an item sees what happens inside.  *)

LEMMA SlotIs == \A p : /\ Backpack(p)[1] # "tile" /\ Backpack(p)[2] = p
                       /\ Hand(p)[1] # "tile" /\ Hand(p)[2] = p
BY DEF Backpack, Hand

LEMMA SameReach ==
  ASSUME NEW l, NEW m, NEW i \in Item, NEW j \in Item, NEW p, Top(l, i) = Top(m, j),
         Reachable(l, p, i)
  PROVE  Reachable(m, p, j)
BY DEF Reachable, CarriedBy, Position

LEMMA ReachedIsSeen ==
  ASSUME TypeOK, NEW l, NEW i \in Item, NEW p \in Player, Reachable(l, p, i),
         NEW m, NEW c, Top(m, c) = Top(l, i)
  PROVE  SeesInside(m, c, p)
<1>1. pos[p] \in Int /\ Dist(pos[p], pos[p]) <= 1
  <2>1. pos[p] \in Int
    BY TradeAssumption DEF TypeOK
  <2>. QED  BY <2>1 DEF Dist
<1>2. CASE Top(l, i) \in Slots(p)
  <2>1. Position(m, c) = pos[p]
    BY <1>2, SlotIs DEF Position, Slots
  <2>. QED  BY <1>1, <2>1 DEF SeesInside
<1>3. CASE Top(l, i)[1] = "tile" /\ Dist(Position(l, i), pos[p]) <= 1
  BY <1>3 DEF SeesInside, Position
<1>. QED  BY <1>2, <1>3 DEF Reachable, CarriedBy

(* Only the owner of a slot reaches what is in it. *)
LEMMA SlotOwner ==
  ASSUME NEW l, NEW i \in Item, NEW p, NEW q, Top(l, i) \in Slots(q), Reachable(l, p, i)
  PROVE  p = q
BY SlotIs DEF Reachable, CarriedBy, Slots

(* What anybody can reach is somewhere. *)
LEMMA ReachedIsSomewhere ==
  ASSUME NEW l \in Placement, NEW i \in Item, NEW p, Reachable(l, p, i)
  PROVE  l[i] # Nowhere
<1>. SUFFICES ASSUME l[i] = Nowhere PROVE FALSE
  OBVIOUS
<1>1. IsRoot(l, i, i)
  BY Kinds DEF IsRoot
<1>2. Top(l, i) = Nowhere
  BY <1>1, RootIs
<1>3. Nowhere[1] # "tile"
  BY DEF Nowhere
<1>. QED  BY <1>2, <1>3, Kinds DEF Reachable, CarriedBy

(* The trader p is told when the item it offers leaves with item i. *)
LEMMA TakenAwayCloses ==
  ASSUME TypeOK, NEW l \in Placement, Rooted(l), NEW i \in Item, l[i] # Nowhere,
         NEW p \in Traders, NEW o \in Item, o = trade[p].item, Reachable(l, p, o),
         o = i \/ o \in Holding(l, i)
  PROVE  p \in RemovalCloses(l, i)
<1>1. p \in Player
  BY DEF Traders, TypeOK
<1>2. Top(l, o) = Top(l, i)
  BY SameTop
<1>3. CASE \E x : l[i] = Tile(x)
  <2>1. l[i][1] = "tile"
    BY <1>3 DEF Tile
  <2>. QED  BY <2>1 DEF RemovalCloses, OnRemoveItem
<1>4. CASE \E q : l[i] \in Slots(q)
  <2>1. PICK q : l[i] \in Slots(q)
    BY <1>4
  <2>2. l[i][1] \in {"backpack", "hand"} /\ l[i][1] # "tile" /\ l[i][2] = q
    BY <2>1 DEF Slots, Backpack, Hand
  <2>3. IsRoot(l, i, i)
    BY <2>1, Kinds DEF IsRoot
  <2>4. p = q
    BY <1>2, <2>1, <2>3, RootIs, SlotOwner
  <2>. QED  BY <2>2, <2>4 DEF RemovalCloses, OnRemoveItem
<1>5. CASE \E c \in Container : l[i] = In(c)
  <2>1. PICK c \in Container : l[i] = In(c)
    BY <1>5
  <2>2. l[i][1] = "in" /\ l[i][2] = c /\ c \in Item
    BY <2>1, TradeAssumption DEF In
  <2>3. i \in Holding(l, c) /\ i \notin Holding(l, i)
    BY <2>1, HoldsInside, NotInItself
  <2>4. SeesInside(l, c, p)
    BY <1>1, <1>2, <2>2, <2>3, SameTop, ReachedIsSeen
  <2>5. ASSUME o # i PROVE o \in Holding(l, c) /\ l[o] # In(c)
    <3>1. o \in Holding(l, c)
      BY <2>3, <2>5, HoldsThrough
    <3>2. c # i /\ c \notin Holding(l, i)
      <4>1. c \notin Holding(l, c)
        BY <2>2, NotInItself
      <4>. QED  BY <2>3, <4>1, HoldsThrough
    <3>3. l[o] # In(c)
      BY <2>5, <3>2, HoldsParent, Kinds
    <3>. QED  BY <3>1, <3>3
  <2>6. OnRemoveContainerItem(l, c, i, p)
    BY <2>5 DEF OnRemoveContainerItem
  <2>. QED  BY <2>2, <2>4, <2>6 DEF RemovalCloses
<1>6. l[i] \in Place
  BY DEF Placement
<1>. QED  BY <1>3, <1>4, <1>5, <1>6 DEF Place

(* So it is when item i is taken out of what it offers... *)
LEMMA TakenOutCloses ==
  ASSUME TypeOK, NEW l \in Placement, Rooted(l), NEW i \in Item,
         NEW p \in Traders, NEW o \in Item, o = trade[p].item, Reachable(l, p, o),
         i \in Holding(l, o)
  PROVE  p \in RemovalCloses(l, i)
<1>1. p \in Player
  BY DEF Traders, TypeOK
<1>2. PICK c : l[i] = In(c) /\ (c = o \/ c \in Holding(l, o))
  BY HoldsParent
<1>3. l[i][1] = "in" /\ l[i][2] = c
  BY <1>2 DEF In
<1>4. Top(l, c) = Top(l, o)
  BY <1>2, SameTop
<1>5. SeesInside(l, c, p)
  BY <1>1, <1>4, ReachedIsSeen
<1>6. OnRemoveContainerItem(l, c, i, p)
  BY DEF OnRemoveContainerItem
<1>. QED  BY <1>3, <1>5, <1>6 DEF RemovalCloses

(* ... and when it is put in. *)
LEMMA PutInCloses ==
  ASSUME TypeOK, NEW l \in Placement, Rooted(l), NEW i \in Item, NEW d, Fits(l, i, In(d)),
         NEW p \in Traders, NEW o \in Item, o = trade[p].item, Reachable(l, p, o),
         i \notin Holding(l, o), d = o \/ d \in Holding(l, o)
  PROVE  p \in AdditionCloses(Moved(l, i, In(d)), i)
<1>. DEFINE m == Moved(l, i, In(d))
<1>1. In(d) \in Place /\ d # i /\ d \notin Holding(l, i)
  BY DEF Fits
<1>2. m \in Placement /\ m[i] = In(d)
  BY <1>1, MovedIs
<1>3. d \in Container /\ d \in Item
  BY <1>2, InContainer, TradeAssumption
<1>4. m[i][1] = "in" /\ m[i][2] = d
  BY <1>2 DEF In
<1>5. Top(m, d) = Top(l, d) /\ Top(l, d) = Top(l, o)
  BY <1>1, <1>3, TopStays, SameTop
<1>6. i \in Holding(m, o)
  <2>1. CASE d = o
    BY <1>2, <2>1, HoldsInside
  <2>2. CASE d # o /\ d \in Holding(l, o)
    <3>1. o # i /\ o \notin Holding(l, i)
      BY <1>1, <2>2, HoldsThrough
    <3>. DEFINE S == {k \in Holding(l, o) : k \in Holding(m, o)}
    <3>2. S \in SUBSET Item
      BY HoldsItems
    <3>3. \A k \in Item \ {i} : m[k] = l[k]
      BY <1>1, MovedIs
    <3>. HIDE DEF m
    <3>4. ASSUME NEW k \in Item, l[k] = In(o) \/ \E e \in S : l[k] = In(e) PROVE k \in S
      <4>1. k \in Holding(l, o)
        BY <3>4, HoldsInside
      <4>2. m[k] = l[k]
        BY <3>3, <4>1
      <4>3. k \in Holding(m, o)
        BY <3>4, <4>2, HoldsInside
      <4>. QED  BY <4>1, <4>3
    <3>. HIDE DEF S
    <3>5. Holding(l, o) \subseteq S
      BY <3>2, <3>4, HoldsLeast
    <3>6. d \in Holding(m, o)
      BY <2>2, <3>5 DEF S
    <3>. QED  BY <1>2, <3>6, HoldsInside
  <2>. QED  BY <2>1, <2>2
<1>7. p \in Player
  BY DEF Traders, TypeOK
<1>. HIDE DEF m
<1>8. SeesInside(m, d, p)
  BY <1>5, <1>7, ReachedIsSeen
<1>9. OnAddContainerItem(m, i, p)
  BY <1>6 DEF OnAddContainerItem
<1>10. p \in AdditionCloses(m, i)
  BY <1>4, <1>8, <1>9 DEF AdditionCloses
<1>. QED  BY <1>10 DEF m

(* A trader that is not told keeps what it offers, whole and within reach. *)
LEMMA NotToldNotTouched ==
  ASSUME TypeOK, NEW l \in Placement, Rooted(l), NEW i \in Item, l[i] # Nowhere,
         NEW place, Fits(l, i, place),
         NEW p \in Traders, NEW o \in Item, o = trade[p].item, Reachable(l, p, o),
         p \notin MoveCloses(l, i, place)
  PROVE  LET m == Moved(l, i, place)
         IN  Holding(m, o) = Holding(l, o) /\ Reachable(m, p, o)
<1>. DEFINE m == Moved(l, i, place)
<1>1. p \notin RemovalCloses(l, i) /\ p \notin AdditionCloses(m, i) /\ place \in Place
  BY DEF MoveCloses, Fits
<1>2. o # i /\ o \notin Holding(l, i) /\ i \notin Holding(l, o)
  BY <1>1, TakenAwayCloses, TakenOutCloses
<1>3. \A d : place = In(d) => d # o /\ d \notin Holding(l, o)
  BY <1>1, <1>2, PutInCloses
<1>4. Holding(m, o) = Holding(l, o)
  BY <1>1, <1>2, <1>3, HoldsTheSame
<1>5. Top(l, o) = Top(m, o)
  BY <1>1, <1>2, TopStays
<1>6. Reachable(m, p, o)
  BY <1>5, SameReach
<1>. QED  BY <1>4, <1>6

-----------------------------------------------------------------------------
(* The places of a move fit. *)

LEMMA FreePlacesFit ==
  ASSUME NEW l \in Placement, NEW p \in Player, NEW i \in Item,
         NEW near \in SUBSET Container, NEW place \in FreePlaces(l, p, i, near)
  PROVE  Fits(l, i, place)
<1>1. CASE place \in {Tile(x) : x \in Spot}
  BY <1>1, Kinds DEF Fits, Place
<1>2. CASE place \in FreeSlots(l, p, i)
  <2>1. place \in Slots(p)
    BY <1>2 DEF FreeSlots
  <2>. QED  BY <2>1, Kinds DEF Fits, Place
<1>3. CASE \E d \in near \ ({i} \cup Holding(l, i)) : place = In(d)
  BY <1>3, Kinds DEF Fits, Place
<1>. QED  BY <1>1, <1>2, <1>3 DEF FreePlaces

LEMMA DestinationsFit ==
  ASSUME NEW l \in Placement, NEW p \in Player, NEW i \in Item, NEW other,
         NEW place \in Destinations(l, p, i, other)
  PROVE  Fits(l, i, place)
<1>1. CASE place = Backpack(p) \/ place \in FreeSlots(l, p, i)
  <2>1. place \in Slots(p)
    BY <1>1 DEF FreeSlots, Slots
  <2>. QED  BY <2>1, Kinds DEF Fits, Place
<1>2. CASE \E c \in Searched(l, p, i, other) : place = In(c)
  <2>1. PICK c \in Container : place = In(c) /\ c # i /\ c \notin Holding(l, i)
    BY <1>2 DEF Searched
  <2>. QED  BY <2>1, Kinds DEF Fits, Place
<1>3. CASE place = Nowhere
  BY <1>3, Kinds DEF Fits, Place
<1>. QED  BY <1>1, <1>2, <1>3 DEF Destinations

(* An item is delivered by a move that fits, or is left where it is. *)
Delivered(l, i, m) == m = l \/ (Fits(l, i, m[i]) /\ m = Moved(l, i, m[i]))

LEMMA DeliverIs ==
  ASSUME NEW l \in Placement, NEW p \in Player, NEW i \in Item, NEW other,
         NEW m \in Deliver(l, p, i, other)
  PROVE  Delivered(l, i, m)
<1>1. CASE m = l
  BY <1>1 DEF Delivered
<1>2. CASE \E place \in Destinations(l, p, i, other) : m = Moved(l, i, place)
  <2>1. PICK place \in Destinations(l, p, i, other) : m = Moved(l, i, place)
    BY <1>2
  <2>2. Fits(l, i, place)
    BY DestinationsFit
  <2>3. m[i] = place
    BY <2>1, <2>2, MovedIs DEF Fits
  <2>. QED  BY <2>1, <2>2, <2>3 DEF Delivered
<1>. QED  BY <1>1, <1>2 DEF Deliver

LEMMA DeliveredRooted ==
  ASSUME NEW l \in Placement, Rooted(l), NEW i \in Item, NEW m, Delivered(l, i, m)
  PROVE  m \in Placement /\ Rooted(m) /\ \A j \in Item \ {i} : m[j] = l[j]
BY StaysRooted, MovedIs DEF Delivered, Fits

LEMMA DeliveredUntold ==
  ASSUME TypeOK, NEW l \in Placement, Rooted(l), NEW i \in Item, l[i] # Nowhere,
         NEW m, Delivered(l, i, m),
         NEW p \in Traders, NEW o \in Item, o = trade[p].item, Reachable(l, p, o),
         p \notin MoveCloses(l, i, m[i])
  PROVE  Holding(m, o) = Holding(l, o) /\ Reachable(m, p, o)
BY NotToldNotTouched DEF Delivered

-----------------------------------------------------------------------------
(* The inductive invariant. *)

Inv == TypeOK /\ PartnersPaired /\ OffersDisjoint /\ OfferAsShown /\ Rooted(loc)

(* The trades of the players in E end. *)
Ends(E) ==
  /\ trade' = [p \in Player |-> IF p \in E THEN NoTrade ELSE trade[p]]
  /\ Release({trade[p].item : p \in E})
  /\ shown' = [p \in Player |-> IF p \in E THEN {} ELSE shown[p]]

(* No trade ends for one of its two players alone. *)
Together(E) == /\ E \in SUBSET Player
               /\ \A p \in E : trade[p].partner # NoPlayer => trade[p].partner \in E

LEMMA RecordOf ==
  ASSUME TypeOK, NEW p \in Player
  PROVE  /\ trade[p] \in TradeRec
         /\ trade[p].partner \in Player \cup {NoPlayer}
         /\ trade[p].item \in Item \cup {NoItem}
BY DEF TypeOK, TradeRec

LEMMA PairsTogether ==
  ASSUME Inv, NEW E, Together(E), NEW p \in Player \ E, trade[p].partner # NoPlayer
  PROVE  trade[p].partner \in Player \ E
<1>1. trade[p].partner \in Player /\ trade[trade[p].partner].partner = p
  BY RecordOf DEF Inv, PartnersPaired
<1>. QED  BY <1>1, TradeAssumption DEF Together

LEMMA NoTradeIs ==
  /\ NoTrade \in TradeRec
  /\ NoTrade.state = "none" /\ NoTrade.partner = NoPlayer /\ NoTrade.item = NoItem
BY DEF NoTrade, TradeRec

(* Who offers something trades with somebody, and is online. *)
LEMMA OffersOnline ==
  ASSUME TypeOK, PartnersPaired, NEW p \in Player, trade[p].item # NoItem
  PROVE  p \in Traders /\ trade[p].item \in Item /\ trade[p].partner \in Player
BY RecordOf DEF PartnersPaired, Traders

LEMMA EndsTrade ==
  ASSUME TypeOK, NEW E, Together(E), Ends(E)
  PROVE  /\ trade' \in [Player -> TradeRec]
         /\ shown' \in [Player -> SUBSET Item]
         /\ \A p \in E : trade'[p] = NoTrade
         /\ \A p \in Player \ E : trade'[p] = trade[p] /\ shown'[p] = shown[p]
BY NoTradeIs DEF TypeOK, Ends, Together

LEMMA EndsOffers ==
  ASSUME Inv, NEW E, Together(E), Ends(E)
  PROVE  /\ tradeItems' \in [Item -> Player \cup {NoPlayer}]
         /\ refs' \in [Item -> 0 .. 1]
         /\ \A i \in Item : refs'[i] = IF tradeItems'[i] = NoPlayer THEN 0 ELSE 1
         /\ \A i \in Item, p \in Player : tradeItems'[i] = p <=> trade'[p].item = i
         /\ \A i \in Item : tradeItems'[i] # NoPlayer => tradeItems'[i] = tradeItems[i]
<1>. DEFINE released == {trade[p].item : p \in E}
<1>1. /\ refs' = [i \in Item |-> IF i \in released /\ tradeItems[i] # NoPlayer
                                   THEN refs[i] - 1 ELSE refs[i]]
      /\ tradeItems' = [i \in Item |-> IF i \in released THEN NoPlayer ELSE tradeItems[i]]
  BY DEF Ends, Release
<1>2. /\ \A i \in Item : refs[i] = IF tradeItems[i] = NoPlayer THEN 0 ELSE 1
      /\ \A i \in Item, p \in Player : tradeItems[i] = p <=> trade[p].item = i
      /\ tradeItems \in [Item -> Player \cup {NoPlayer}]
      /\ E \subseteq Player
  BY DEF Inv, OffersDisjoint, TypeOK, Together
<1>3. \A i \in Item : i \in released <=> tradeItems[i] \in E
  BY <1>2
<1>4. /\ \A p \in E : trade'[p].item = NoItem
      /\ \A p \in Player \ E : trade'[p] = trade[p]
  BY EndsTrade, NoTradeIs DEF Inv
<1>. HIDE DEF released
<1>5. \A i \in Item : /\ tradeItems'[i] = IF i \in released THEN NoPlayer ELSE tradeItems[i]
                      /\ refs'[i] = IF tradeItems'[i] = NoPlayer THEN 0 ELSE 1
  BY <1>1, <1>2, <1>3, TradeAssumption
<1>6. tradeItems' \in [Item -> Player \cup {NoPlayer}]
  BY <1>1, <1>2
<1>7. refs' \in [Item -> 0 .. 1]
  <2>1. \A i \in Item : refs'[i] \in 0 .. 1
    BY <1>5
  <2>. QED  BY <1>1, <2>1
<1>8. ASSUME NEW i \in Item, NEW p \in Player PROVE tradeItems'[i] = p <=> trade'[p].item = i
  <2>1. CASE p \in E
    BY <1>2, <1>3, <1>4, <1>5, <2>1, TradeAssumption
  <2>2. CASE p \notin E
    BY <1>2, <1>3, <1>4, <1>5, <2>2, TradeAssumption
  <2>. QED  BY <2>1, <2>2
<1>. QED  BY <1>5, <1>6, <1>7, <1>8

LEMMA EndsPaired ==
  ASSUME Inv, NEW E, Together(E), Ends(E),
         \A p \in Player \ E : trade[p].partner # NoPlayer => {p, trade[p].partner} \subseteq online'
  PROVE  PartnersPaired'
<1>. SUFFICES ASSUME NEW p \in Player
              PROVE  LET t == trade'[p]
                     IN  /\ t.state = "none" <=> t.partner = NoPlayer
                         /\ t.state \in {"none", "acknowledge"} => t.item = NoItem
                         /\ t.state = "initiated" => t.item # NoItem
                         /\ t.partner # NoPlayer =>
                              /\ {p, t.partner} \subseteq online' /\ p # t.partner
                              /\ trade'[t.partner].partner = p
                              /\ t.item # NoItem \/ trade'[t.partner].item # NoItem
                              /\ t.state = "accept" => trade'[t.partner].state # "accept"
  BY DEF PartnersPaired
<1>1. /\ \A q \in E : trade'[q] = NoTrade
      /\ \A q \in Player \ E : trade'[q] = trade[q]
  BY EndsTrade DEF Inv
<1>2. CASE p \in E
  BY <1>1, <1>2, NoTradeIs
<1>3. CASE p \in Player \ E
  <2>1. trade[p].partner # NoPlayer => trade[p].partner \in Player \ E
    BY <1>3, PairsTogether
  <2>. QED  BY <1>1, <1>3, <2>1 DEF Inv, PartnersPaired
<1>. QED  BY <1>2, <1>3

LEMMA EndsShown ==
  ASSUME Inv, NEW E, Together(E), Ends(E),
         \A p \in Player \ E, o \in Item : trade[p].item = o
           => Holding(loc', o) = Holding(loc, o) /\ Reachable(loc, p, o)',
         \A p \in Player \ E, q \in Player : trade[p].partner = q
           => TradersNear(pos'[p], pos'[q])
  PROVE  OffersDisjoint' /\ OfferAsShown'
<1>1. \A p \in E : trade'[p].item = NoItem /\ trade'[p].partner = NoPlayer
  BY EndsTrade, NoTradeIs DEF Inv
<1>2. \A p \in Player \ E : trade'[p] = trade[p] /\ shown'[p] = shown[p]
  BY EndsTrade DEF Inv
<1>3. /\ tradeItems' \in [Item -> Player \cup {NoPlayer}]
      /\ \A i \in Item : refs'[i] = IF tradeItems'[i] = NoPlayer THEN 0 ELSE 1
      /\ \A i \in Item, p \in Player : tradeItems'[i] = p <=> trade'[p].item = i
      /\ \A i \in Item : tradeItems'[i] # NoPlayer => tradeItems'[i] = tradeItems[i]
  BY EndsOffers
<1>4. ASSUME NEW i \in Item, NEW j \in Item,
             i # j, tradeItems'[i] # NoPlayer, tradeItems'[j] # NoPlayer
      PROVE  i \notin Holding(loc', j)
  <2>1. tradeItems[i] # NoPlayer /\ tradeItems[j] # NoPlayer
    BY <1>3, <1>4
  <2>2. PICK p \in Player : trade'[p].item = j
    BY <1>3, <1>4
  <2>3. p \in Player \ E /\ trade[p].item = j
    BY <1>1, <1>2, <2>2, TradeAssumption
  <2>4. Holding(loc', j) = Holding(loc, j)
    BY <2>3
  <2>. QED  BY <1>4, <2>1, <2>4 DEF Inv, OffersDisjoint
<1>5. OffersDisjoint'
  BY <1>3, <1>4 DEF OffersDisjoint
<1>6. ASSUME NEW p \in Player, trade'[p].item # NoItem
      PROVE  /\ shown'[p] = {trade'[p].item} \cup Holding(loc', trade'[p].item)
             /\ Reachable(loc, p, trade[p].item)'
  <2>1. p \in Player \ E
    BY <1>1, <1>6
  <2>2. PICK o \in Item : trade[p].item = o /\ trade'[p].item = o
    BY <1>2, <1>6, <2>1, RecordOf DEF Inv
  <2>3. shown[p] = {o} \cup Holding(loc, o)
    BY <1>2, <1>6, <2>1, <2>2 DEF Inv, OfferAsShown
  <2>4. Holding(loc', o) = Holding(loc, o) /\ Reachable(loc, p, o)'
    BY <2>1, <2>2
  <2>. QED  BY <1>2, <2>1, <2>2, <2>3, <2>4
<1>7. ASSUME NEW p \in Player, trade'[p].partner # NoPlayer
      PROVE  TradersNear(pos'[p], pos'[trade'[p].partner])
  BY <1>1, <1>2, <1>7, RecordOf DEF Inv
<1>. QED  BY <1>5, <1>6, <1>7 DEF OfferAsShown

(* A step that ends trades of both partners, of everybody who is touched.    *)
LEMMA EndsStep ==
  ASSUME Inv, NEW E, Together(E), Ends(E),
         online' \in SUBSET Player, pos' \in [Player -> Spot], loc' \in Placement, Rooted(loc)',
         \A p \in Player \ E, o \in Item : trade[p].item = o
           => Holding(loc', o) = Holding(loc, o) /\ Reachable(loc, p, o)',
         \A p \in Player \ E, q \in Player : trade[p].partner = q
           => {p, q} \subseteq online' /\ TradersNear(pos'[p], pos'[q])
  PROVE  Inv'
<1>1. TypeOK'
  BY EndsTrade, EndsOffers DEF Inv, TypeOK, Placement
<1>2. PartnersPaired'
  <2>1. \A p \in Player \ E : trade[p].partner # NoPlayer => {p, trade[p].partner} \subseteq online'
    BY RecordOf DEF Inv
  <2>. QED  BY <2>1, EndsPaired
<1>3. OffersDisjoint' /\ OfferAsShown'
  BY EndsShown
<1>. QED  BY <1>1, <1>2, <1>3 DEF Inv

-----------------------------------------------------------------------------
(* The steps that close trades. *)

LEMMA ClosedIs ==
  ASSUME Inv, NEW S \in SUBSET Player
  PROVE  Together(Closed(S)) /\ S \subseteq Closed(S)
<1>1. ASSUME NEW p \in Closed(S) PROVE p \in Player
  BY <1>1, RecordOf DEF Inv, Closed
<1>2. ASSUME NEW p \in Closed(S), trade[p].partner # NoPlayer PROVE trade[p].partner \in Closed(S)
  <2>1. CASE p \in S
    BY <1>2, <2>1 DEF Closed
  <2>2. CASE \E q \in S : trade[q].partner # NoPlayer /\ p = trade[q].partner
    <3>1. PICK q \in S : trade[q].partner # NoPlayer /\ p = trade[q].partner
      BY <2>2
    <3>2. trade[p].partner = q
      BY <3>1 DEF Inv, PartnersPaired
    <3>. QED  BY <3>1, <3>2 DEF Closed
  <2>. QED  BY <1>2, <2>1, <2>2 DEF Closed
<1>. QED  BY <1>1, <1>2 DEF Together, Closed

LEMMA CloseEnds == ASSUME NEW S, CloseTrade(S) PROVE Ends(Closed(S))
BY DEF CloseTrade, Ends

(* A step that closes trades and moves nothing. *)
LEMMA OnlyCloses ==
  ASSUME Inv, NEW S \in SUBSET Player, CloseTrade(S), online' = online, pos' = pos, loc' = loc
  PROVE  Inv'
<1>. DEFINE E == Closed(S)
<1>1. Together(E) /\ Ends(E)
  BY ClosedIs, CloseEnds
<1>2. ASSUME NEW p \in Player, NEW o \in Item, trade[p].item = o
      PROVE  Holding(loc', o) = Holding(loc, o) /\ Reachable(loc, p, o)'
  <2>1. Reachable(loc, p, o)
    BY <1>2, TradeAssumption DEF Inv, OfferAsShown
  <2>. QED  BY <2>1 DEF Reachable, CarriedBy, Position
<1>3. ASSUME NEW p \in Player, NEW q \in Player, trade[p].partner = q
      PROVE  {p, q} \subseteq online' /\ TradersNear(pos'[p], pos'[q])
  BY <1>3, TradeAssumption DEF Inv, OfferAsShown, PartnersPaired
<1>4. online' \in SUBSET Player /\ pos' \in [Player -> Spot] /\ loc' \in Placement /\ Rooted(loc)'
  BY DEF Inv, TypeOK, Placement, Rooted, IsRoot
<1>. HIDE DEF E
<1>. QED  BY <1>1, <1>2, <1>3, <1>4, EndsStep

LEMMA AcceptRefusedStep == ASSUME Inv, NEW p \in Player, AcceptRefused(p) PROVE Inv'
BY OnlyCloses DEF AcceptRefused

LEMMA PlayerCloseTradeStep == ASSUME Inv, NEW p \in Player, PlayerCloseTrade(p) PROVE Inv'
BY OnlyCloses DEF PlayerCloseTrade

LEMMA LogoutStep == ASSUME Inv, NEW p \in Player, Logout(p) PROVE Inv'
<1>. DEFINE S == {p} \cap {q \in Player : trade[q].partner # NoPlayer}
            E == Closed(S)
<1>1. online' = online \ {p} /\ pos' = pos /\ loc' = loc /\ CloseTrade(S)
  BY DEF Logout
<1>2. Together(E) /\ Ends(E) /\ S \subseteq E
  BY <1>1, ClosedIs, CloseEnds
<1>3. ASSUME NEW q \in Player, NEW o \in Item, trade[q].item = o
      PROVE  Holding(loc', o) = Holding(loc, o) /\ Reachable(loc, q, o)'
  <2>1. Reachable(loc, q, o)
    BY <1>3, TradeAssumption DEF Inv, OfferAsShown
  <2>. QED  BY <1>1, <2>1 DEF Reachable, CarriedBy, Position
<1>4. ASSUME NEW q \in Player \ E, NEW r \in Player, trade[q].partner = r
      PROVE  {q, r} \subseteq online' /\ TradersNear(pos'[q], pos'[r])
  <2>1. {q, r} \subseteq online /\ TradersNear(pos[q], pos[r]) /\ trade[r].partner = q
    BY <1>4, TradeAssumption DEF Inv, OfferAsShown, PartnersPaired
  <2>2. r \notin E
    BY <1>2, <1>4, <2>1, TradeAssumption DEF Together
  <2>3. p \in {q, r} => p \in S
    BY <1>4, <2>1, TradeAssumption
  <2>. QED  BY <1>1, <1>2, <1>4, <2>1, <2>2, <2>3
<1>5. online' \in SUBSET Player /\ pos' \in [Player -> Spot] /\ loc' \in Placement /\ Rooted(loc)'
  BY <1>1 DEF Inv, TypeOK, Placement, Rooted, IsRoot
<1>. HIDE DEF E
<1>. QED  BY <1>2, <1>3, <1>4, <1>5, EndsStep

LEMMA DistIs ==
  \A x, y \in Int : Dist(x, y) = Dist(y, x) /\ Dist(x, y) \in Nat
BY DEF Dist

(* Within reach, by the place of the outermost item. *)
NearBy(top, p, x) == \/ top \in Slots(p)
                     \/ top[1] = "tile" /\ Dist(top[2], x) <= 1

LEMMA KindOfTile ==
  ASSUME NEW place \in Place, place[1] = "tile"
  PROVE  \E z \in Spot : place = Tile(z)
<1>1. \A r : Backpack(r)[1] = "backpack" /\ Hand(r)[1] = "hand"
  BY DEF Backpack, Hand
<1>2. \A c : In(c)[1] = "in"
  BY DEF In
<1>3. Nowhere[1] = "nowhere"
  BY DEF Nowhere
<1>. QED  BY <1>1, <1>2, <1>3 DEF Place, Slots

LEMMA WalkStep == ASSUME Inv, NEW p \in Player, NEW x \in Spot, Walk(p, x) PROVE Inv'
<1>. DEFINE S == {p} \cap {q \in Player : OnCreatureMove(q, x)}
            E == Closed(S)
<1>1. online' = online /\ loc' = loc /\ CloseTrade(S) /\ pos' = [pos EXCEPT ![p] = x]
  BY DEF Walk
<1>2. Together(E) /\ Ends(E) /\ S \subseteq E
  BY <1>1, ClosedIs, CloseEnds
<1>3. pos \in [Player -> Spot] /\ pos' \in [Player -> Spot] /\ pos'[p] = x
        /\ \A q \in Player \ {p} : pos'[q] = pos[q]
  BY <1>1 DEF Inv, TypeOK
<1>4. ASSUME NEW q \in Player \ E, NEW o \in Item, trade[q].item = o
      PROVE  Reachable(loc, q, o)'
  <2>. DEFINE y == Top(loc, o)[2]
  <2>1. /\ Reachable(loc, q, o) <=> NearBy(Top(loc, o), q, pos[q])
        /\ Reachable(loc, q, o)' <=> NearBy(Top(loc, o), q, pos'[q])
    BY <1>1 DEF Reachable, CarriedBy, Position, NearBy, Top
  <2>2. NearBy(Top(loc, o), q, pos[q]) /\ o # NoItem
    BY <1>4, <2>1, TradeAssumption DEF Inv, OfferAsShown
  <2>3. CASE Top(loc, o) \in Slots(q) \/ q # p
    BY <1>3, <2>1, <2>2, <2>3 DEF NearBy
  <2>4. CASE Top(loc, o) \notin Slots(q) /\ q = p
    <3>1. Top(loc, o)[1] = "tile" /\ Position(loc, o) = y
      BY <2>2, <2>4 DEF NearBy, Position
    <3>2. \E r \in Item : Top(loc, o) = loc[r]
      BY HasRoot DEF Inv, TypeOK, Placement
    <3>3. Top(loc, o) \in Place
      BY <3>2 DEF Inv, TypeOK
    <3>. HIDE DEF y
    <3>4. PICK z \in Spot : Top(loc, o) = Tile(z)
      BY <3>1, <3>3, KindOfTile
    <3>5. y = z /\ Top(loc, o) = Tile(y) /\ y \in Int /\ x \in Int
      BY <3>4, TradeAssumption DEF y, Tile
    <3>6. ~ItemLeft(p, x)
      BY <1>2, <1>4, <2>2, <2>4 DEF OnCreatureMove
    <3>7. ~(Dist(y, x) > 1)
      BY <1>4, <2>4, <3>1, <3>5, <3>6 DEF ItemLeft
    <3>8. Dist(y, x) <= 1
      BY <3>5, <3>7, DistIs
    <3>. QED  BY <1>3, <2>1, <2>4, <3>1, <3>8 DEF NearBy, y
  <2>. QED  BY <2>3, <2>4
<1>5. ASSUME NEW q \in Player \ E, NEW r \in Player, trade[q].partner = r
      PROVE  {q, r} \subseteq online' /\ TradersNear(pos'[q], pos'[r])
  <2>1. {q, r} \subseteq online /\ TradersNear(pos[q], pos[r]) /\ trade[r].partner = q /\ q # r
    BY <1>5, TradeAssumption DEF Inv, OfferAsShown, PartnersPaired
  <2>2. r \notin E
    BY <1>2, <1>5, <2>1, TradeAssumption DEF Together
  <2>3. CASE p \notin {q, r}
    BY <1>1, <1>3, <2>1, <2>3
  <2>4. CASE p = q
    <3>1. ~OnCreatureMove(p, x)
      BY <1>2, <1>5, <2>4
    <3>2. TradersNear(pos[r], x)
      BY <1>5, <2>4, <3>1, TradeAssumption DEF OnCreatureMove
    <3>3. pos[r] \in Int /\ x \in Int
      BY <1>3, TradeAssumption
    <3>. QED  BY <1>1, <1>3, <2>1, <2>4, <3>2, <3>3, DistIs DEF TradersNear
  <2>5. CASE p = r
    <3>1. ~OnCreatureMove(p, x)
      BY <1>2, <2>2, <2>5
    <3>2. TradersNear(pos[q], x)
      BY <2>1, <2>5, <3>1, TradeAssumption DEF OnCreatureMove
    <3>. QED  BY <1>1, <1>3, <2>1, <2>5, <3>2
  <2>. QED  BY <2>3, <2>4, <2>5
<1>6. online' \in SUBSET Player /\ pos' \in [Player -> Spot] /\ loc' \in Placement /\ Rooted(loc)'
  BY <1>1, <1>3 DEF Inv, TypeOK, Placement, Rooted, IsRoot
<1>. HIDE DEF E
<1>. QED  BY <1>1, <1>2, <1>4, <1>5, <1>6, EndsStep

(* The steps that move items. *)

LEMMA ToldArePlayers ==
  ASSUME TypeOK, NEW l \in Placement, NEW i \in Item, l[i] # Nowhere, NEW place
  PROVE  MoveCloses(l, i, place) \in SUBSET Player
<1>1. Traders \in SUBSET Player
  BY DEF Traders, TypeOK
<1>2. l[i][1] \in {"tile", "backpack", "hand", "in"}
  <2>1. l[i] \in Place
    BY DEF Placement
  <2>. QED  BY <2>1 DEF Place, Slots, Tile, Backpack, Hand, In
<1>3. RemovalCloses(l, i) \in SUBSET Player
  BY <1>1, <1>2 DEF RemovalCloses
<1>4. AdditionCloses(Moved(l, i, place), i) \in SUBSET Player
  BY <1>1 DEF AdditionCloses
<1>. QED  BY <1>3, <1>4 DEF MoveCloses

(* Trades that end in a step that moves items and nobody. *)
LEMMA EndsAndMoves ==
  ASSUME Inv, NEW E, Together(E), Ends(E), online' = online, pos' = pos,
         loc' \in Placement, Rooted(loc)',
         \A p \in Player \ E, o \in Item : (trade[p].item = o /\ p \in Traders /\ Reachable(loc, p, o))
           => Holding(loc', o) = Holding(loc, o) /\ Reachable(loc', p, o)
  PROVE  Inv'
<1>1. ASSUME NEW p \in Player \ E, NEW o \in Item, trade[p].item = o
      PROVE  Holding(loc', o) = Holding(loc, o) /\ Reachable(loc, p, o)'
  <2>1. trade[p].item # NoItem
    BY <1>1, TradeAssumption
  <2>2. p \in Traders /\ Reachable(loc, p, o)
    BY <1>1, <2>1, OffersOnline DEF Inv, OfferAsShown
  <2>3. Holding(loc', o) = Holding(loc, o) /\ Reachable(loc', p, o)
    BY <1>1, <2>2
  <2>. QED  BY <2>3 DEF Reachable, CarriedBy, Position
<1>2. ASSUME NEW p \in Player \ E, NEW q \in Player, trade[p].partner = q
      PROVE  {p, q} \subseteq online' /\ TradersNear(pos'[p], pos'[q])
  BY <1>2, TradeAssumption DEF Inv, OfferAsShown, PartnersPaired
<1>3. online' \in SUBSET Player /\ pos' \in [Player -> Spot]
  BY DEF Inv, TypeOK
<1>. QED  BY <1>1, <1>2, <1>3, EndsStep

LEMMA MoveItemStep ==
  ASSUME Inv, NEW p \in Player, NEW i \in Item, MoveItem(p, i)
  PROVE  Inv'
<1>. DEFINE near == {c \in Container : Reachable(loc, p, c)}
<1>1. PICK place \in FreePlaces(loc, p, i, near) :
        loc' = Moved(loc, i, place) /\ CloseTrade(MoveCloses(loc, i, place))
  BY DEF MoveItem
<1>. DEFINE S == MoveCloses(loc, i, place)
            E == Closed(S)
<1>2. TypeOK /\ loc \in Placement /\ Rooted(loc) /\ near \in SUBSET Container
  BY DEF Inv, TypeOK, Placement
<1>. HIDE DEF near
<1>3. Fits(loc, i, place)
  BY <1>2, FreePlacesFit
<1>4. Reachable(loc, p, i) /\ online' = online /\ pos' = pos
  BY DEF MoveItem
<1>5. loc[i] # Nowhere
  BY <1>2, <1>4, ReachedIsSomewhere
<1>6. S \in SUBSET Player
  BY <1>2, <1>5, ToldArePlayers
<1>7. Together(E) /\ Ends(E) /\ S \subseteq E
  BY <1>1, <1>6, ClosedIs, CloseEnds
<1>8. loc' \in Placement /\ Rooted(loc)'
  <2>1. Moved(loc, i, place) \in Placement /\ Rooted(Moved(loc, i, place))
    BY <1>2, <1>3, MovedIs, StaysRooted DEF Fits
  <2>. QED  BY <1>1, <2>1 DEF Rooted, IsRoot
<1>9. ASSUME NEW q \in Player \ E, NEW o \in Item,
             trade[q].item = o /\ q \in Traders /\ Reachable(loc, q, o)
      PROVE  Holding(loc', o) = Holding(loc, o) /\ Reachable(loc', q, o)
  <2>1. q \notin MoveCloses(loc, i, place)
    BY <1>7
  <2>. QED  BY <1>1, <1>2, <1>3, <1>5, <1>9, <2>1, NotToldNotTouched
<1>. HIDE DEF E, S
<1>. QED  BY <1>4, <1>7, <1>8, <1>9, EndsAndMoves

(* The two that accepted, and others. *)
LEMMA EndTradeEnds ==
  ASSUME Inv, NEW p \in Player, MayAccept(p), NEW others \in SUBSET Player,
         EndTrade(p, trade[p].partner, others)
  PROVE  LET E == {p, trade[p].partner} \cup Closed(others \ {p, trade[p].partner})
         IN  Together(E) /\ Ends(E) /\ others \subseteq E
<1>. DEFINE q == trade[p].partner
            C == Closed(others \ {p, q})
            E == {p, q} \cup C
<1>1. q \in Player /\ trade[q].partner = p
  BY RecordOf DEF Inv, PartnersPaired, MayAccept
<1>2. Together(C) /\ others \ {p, q} \subseteq C
  BY ClosedIs
<1>3. Ends(E)
  BY DEF EndTrade, Ends
<1>. HIDE DEF C
<1>4. Together(E)
  BY <1>1, <1>2 DEF Together
<1>. QED  BY <1>2, <1>3, <1>4 DEF C

LEMMA SwapFailsStep == ASSUME Inv, NEW p \in Player, SwapFails(p) PROVE Inv'
<1>. DEFINE E == {p, trade[p].partner} \cup Closed({} \ {p, trade[p].partner})
<1>1. MayAccept(p) /\ EndTrade(p, trade[p].partner, {})
  BY DEF SwapFails, BothAccept
<1>2. Together(E) /\ Ends(E)
  BY <1>1, EndTradeEnds
<1>3. online' = online /\ pos' = pos /\ loc' = loc
  BY DEF SwapFails
<1>4. loc' \in Placement /\ Rooted(loc)'
  BY <1>3 DEF Inv, TypeOK, Placement, Rooted, IsRoot
<1>. HIDE DEF E
<1>. QED  BY <1>2, <1>3, <1>4, EndsAndMoves

(* A swap delivers one item to the partner, then the other one back. *)
SwapsBy(p, q, mine, theirs, l, m) ==
  /\ l \in Deliver(loc, q, mine, theirs) /\ l \in Placement /\ Rooted(l)
  /\ m \in Deliver(l, p, theirs, mine) /\ m \in Placement /\ Rooted(m)
  /\ Delivered(loc, mine, l) /\ Delivered(l, theirs, m)
  /\ loc' = m
  /\ EndTrade(p, q, MoveCloses(loc, mine, l[mine]) \cup MoveCloses(l, theirs, m[theirs]))

LEMMA SwapIs ==
  ASSUME Inv, NEW p \in Player, Swap(p),
         NEW q, q = trade[p].partner, NEW mine, mine = trade[p].item,
         NEW theirs, theirs = trade[q].item
  PROVE  /\ q \in Player /\ p # q
         /\ mine \in Item /\ theirs \in Item /\ mine # theirs
         /\ Reachable(loc, p, mine) /\ Reachable(loc, q, theirs)
         /\ \E l, m : SwapsBy(p, q, mine, theirs, l, m)
<1>1. PICK s \in Swaps(p, q) :
        /\ loc' = s[2]
        /\ EndTrade(p, q, MoveCloses(loc, mine, s[1][mine]) \cup MoveCloses(s[1], theirs, s[2][theirs]))
  BY DEF Swap
<1>2. PICK l, m : /\ s = <<l, m>>
                  /\ l \in Deliver(loc, q, mine, theirs)
                  /\ m \in Deliver(l, p, theirs, mine)
  BY DEF Swaps
<1>3. s[1] = l /\ s[2] = m
  BY <1>2
<1>4. MayAccept(p) /\ TestsPass(p, q)
  BY DEF Swap, BothAccept
<1>5. TypeOK /\ loc \in Placement /\ Rooted(loc)
  BY DEF Inv, TypeOK, Placement
<1>6. q \in Player /\ p # q
  BY <1>4, RecordOf DEF Inv, PartnersPaired, MayAccept
<1>7. mine \in Item /\ theirs \in Item /\ mine # theirs
  <2>1. mine \in Item /\ theirs \in Item
    BY <1>4, <1>5, <1>6, RecordOf DEF TestsPass
  <2>. QED  BY <1>6, <2>1 DEF Inv, OffersDisjoint
<1>8. Reachable(loc, p, mine) /\ Reachable(loc, q, theirs)
  BY <1>6, <1>7, TradeAssumption DEF Inv, OfferAsShown
<1>9. Delivered(loc, mine, l)
  BY <1>2, <1>5, <1>6, <1>7, DeliverIs
<1>10. l \in Placement /\ Rooted(l)
  BY <1>5, <1>7, <1>9, DeliveredRooted
<1>11. Delivered(l, theirs, m)
  BY <1>2, <1>7, <1>10, DeliverIs
<1>12. m \in Placement /\ Rooted(m)
  BY <1>7, <1>10, <1>11, DeliveredRooted
<1>13. SwapsBy(p, q, mine, theirs, l, m)
  BY <1>1, <1>2, <1>3, <1>5, <1>9, <1>10, <1>11, <1>12 DEF SwapsBy
<1>. QED  BY <1>6, <1>7, <1>8, <1>13

LEMMA SwapStep == ASSUME Inv, NEW p \in Player, Swap(p) PROVE Inv'
<1>. DEFINE q == trade[p].partner
            mine == trade[p].item
            theirs == trade[q].item
<1>1. /\ q \in Player /\ mine \in Item /\ theirs \in Item /\ mine # theirs
      /\ Reachable(loc, p, mine) /\ Reachable(loc, q, theirs)
  BY SwapIs
<1>2. PICK l, m : SwapsBy(p, q, mine, theirs, l, m)
  BY SwapIs
<1>. DEFINE others == MoveCloses(loc, mine, l[mine]) \cup MoveCloses(l, theirs, m[theirs])
            E == {p, q} \cup Closed(others \ {p, q})
<1>3. MayAccept(p) /\ online' = online /\ pos' = pos
  BY DEF Swap, BothAccept
<1>4. TypeOK /\ loc \in Placement /\ Rooted(loc)
  BY DEF Inv, TypeOK, Placement
<1>5. /\ l \in Placement /\ Rooted(l) /\ m \in Placement /\ Rooted(m)
      /\ Delivered(loc, mine, l) /\ Delivered(l, theirs, m)
      /\ loc' = m /\ EndTrade(p, q, others)
  BY <1>2 DEF SwapsBy
<1>. HIDE DEF mine, theirs, q
<1>6. loc[mine] # Nowhere /\ loc[theirs] # Nowhere
  BY <1>1, <1>4, ReachedIsSomewhere
<1>7. l[theirs] # Nowhere
  BY <1>1, <1>4, <1>5, <1>6, DeliveredRooted
<1>8. others \in SUBSET Player
  BY <1>1, <1>4, <1>5, <1>6, <1>7, ToldArePlayers
<1>. HIDE DEF others
<1>9. Together(E) /\ Ends(E) /\ others \subseteq E
  BY <1>3, <1>5, <1>8, EndTradeEnds DEF q
<1>10. loc' \in Placement /\ Rooted(loc)'
  BY <1>5 DEF Rooted, IsRoot
<1>11. ASSUME NEW r \in Player \ E, NEW o \in Item,
              trade[r].item = o /\ r \in Traders /\ Reachable(loc, r, o)
       PROVE  Holding(loc', o) = Holding(loc, o) /\ Reachable(loc', r, o)
  <2>1. r \notin MoveCloses(loc, mine, l[mine]) /\ r \notin MoveCloses(l, theirs, m[theirs])
    BY <1>9 DEF others
  <2>2. Holding(l, o) = Holding(loc, o) /\ Reachable(l, r, o)
    BY <1>1, <1>4, <1>5, <1>6, <1>11, <2>1, DeliveredUntold
  <2>3. Holding(m, o) = Holding(l, o) /\ Reachable(m, r, o)
    BY <1>1, <1>4, <1>5, <1>7, <1>11, <2>1, <2>2, DeliveredUntold
  <2>. QED  BY <1>5, <2>2, <2>3
<1>. HIDE DEF E
<1>. QED  BY <1>3, <1>9, <1>10, <1>11, EndsAndMoves

-----------------------------------------------------------------------------
(* The steps that begin a trade or change nothing of it. *)

LEMMA SamePlace ==
  ASSUME Inv, pos' = pos, loc' = loc
  PROVE  /\ Rooted(loc)'
         /\ \A p, o : Reachable(loc, p, o)' <=> Reachable(loc, p, o)
BY DEF Inv, Rooted, IsRoot, Reachable, CarriedBy, Position

LEMMA LoginStep == ASSUME Inv, NEW p \in Player, Login(p) PROVE Inv'
<1>1. /\ online' = online \cup {p} /\ pos' = pos /\ loc' = loc /\ trade' = trade
      /\ tradeItems' = tradeItems /\ refs' = refs /\ shown' = shown
  BY DEF Login
<1>2. TypeOK'
  BY <1>1 DEF Inv, TypeOK
<1>3. PartnersPaired'
  BY <1>1 DEF Inv, PartnersPaired
<1>4. OffersDisjoint'
  BY <1>1 DEF Inv, OffersDisjoint
<1>5. OfferAsShown'
  <2>1. \A q \in Player : Reachable(loc, q, trade[q].item)' <=> Reachable(loc, q, trade[q].item)
    BY <1>1 DEF Reachable, CarriedBy, Position
  <2>. QED  BY <1>1, <2>1 DEF Inv, OfferAsShown
<1>6. Rooted(loc)'
  BY <1>1, SamePlace
<1>. QED  BY <1>2, <1>3, <1>4, <1>5, <1>6 DEF Inv

LEMMA AcceptFirstStep == ASSUME Inv, NEW p \in Player, AcceptFirst(p) PROVE Inv'
<1>. DEFINE q == trade[p].partner
<1>1. /\ online' = online /\ pos' = pos /\ loc' = loc
      /\ tradeItems' = tradeItems /\ refs' = refs /\ shown' = shown
      /\ trade' = [trade EXCEPT ![p].state = "accept"]
      /\ trade[p].state \in {"acknowledge", "initiated"} /\ q # NoPlayer /\ trade[q].state # "accept"
  BY DEF AcceptFirst, MayAccept
<1>2. TypeOK
  BY DEF Inv
<1>3. /\ trade' \in [Player -> TradeRec]
      /\ trade'[p].state = "accept" /\ trade'[p].partner = q /\ trade'[p].item = trade[p].item
      /\ \A r \in Player \ {p} : trade'[r] = trade[r]
  BY <1>1, <1>2 DEF TypeOK, TradeRec
<1>4. TypeOK'
  BY <1>1, <1>2, <1>3 DEF TypeOK
<1>5. \A r \in Player : trade'[r].partner = trade[r].partner /\ trade'[r].item = trade[r].item
  BY <1>3
<1>. HIDE DEF q
<1>6. ASSUME NEW r \in Player
      PROVE  LET t == trade'[r]
             IN  /\ t.state = "none" <=> t.partner = NoPlayer
                 /\ t.state \in {"none", "acknowledge"} => t.item = NoItem
                 /\ t.state = "initiated" => t.item # NoItem
                 /\ t.partner # NoPlayer =>
                      /\ {r, t.partner} \subseteq online' /\ r # t.partner
                      /\ trade'[t.partner].partner = r
                      /\ t.item # NoItem \/ trade'[t.partner].item # NoItem
                      /\ t.state = "accept" => trade'[t.partner].state # "accept"
  <2>1. trade[r].partner # NoPlayer => trade[r].partner \in Player
    BY <1>2, RecordOf
  <2>2. CASE r = p
    BY <1>1, <1>3, <1>5, <2>1, <2>2 DEF Inv, PartnersPaired, q
  <2>3. CASE r # p
    <3>1. trade'[r] = trade[r]
      BY <1>3, <2>3
    <3>2. ASSUME trade[r].partner # NoPlayer, trade[r].state = "accept"
          PROVE  trade'[trade[r].partner].state # "accept"
      <4>1. CASE trade[r].partner = p
        BY <1>1, <3>2, <4>1 DEF Inv, PartnersPaired, q
      <4>2. CASE trade[r].partner # p
        BY <1>3, <2>1, <3>2, <4>2 DEF Inv, PartnersPaired
      <4>. QED  BY <4>1, <4>2
    <3>3. trade[r].partner # NoPlayer
            => /\ trade'[trade[r].partner].partner = trade[trade[r].partner].partner
               /\ trade'[trade[r].partner].item = trade[trade[r].partner].item
      BY <1>5, <2>1
    <3>4. /\ trade[r].state = "none" <=> trade[r].partner = NoPlayer
          /\ trade[r].state \in {"none", "acknowledge"} => trade[r].item = NoItem
          /\ trade[r].state = "initiated" => trade[r].item # NoItem
      BY DEF Inv, PartnersPaired
    <3>5. trade[r].partner # NoPlayer =>
            /\ {r, trade[r].partner} \subseteq online /\ r # trade[r].partner
            /\ trade[trade[r].partner].partner = r
            /\ trade[r].item # NoItem \/ trade[trade[r].partner].item # NoItem
      BY DEF Inv, PartnersPaired
    <3>. QED  BY <1>1, <3>1, <3>2, <3>3, <3>4, <3>5
  <2>. QED  BY <2>2, <2>3
<1>7. PartnersPaired'
  BY <1>6 DEF PartnersPaired
<1>8. OffersDisjoint'
  BY <1>1, <1>5 DEF Inv, OffersDisjoint
<1>9. OfferAsShown'
  <2>1. \A r \in Player : Reachable(loc, r, trade[r].item)' <=> Reachable(loc, r, trade[r].item)
    BY <1>1, <1>5 DEF Reachable, CarriedBy, Position
  <2>. QED  BY <1>1, <1>5, <2>1 DEF Inv, OfferAsShown
<1>10. Rooted(loc)'
  BY <1>1, SamePlace
<1>. QED  BY <1>4, <1>7, <1>8, <1>9, <1>10 DEF Inv

LEMMA RequestTradeStep ==
  ASSUME Inv, NEW p \in Player, NEW q \in Player, NEW i \in Item, RequestTrade(p, q, i)
  PROVE  Inv'
<1>. DEFINE offer == [state |-> "initiated", partner |-> q, item |-> i]
            asked == [state |-> "acknowledge", partner |-> p, item |-> NoItem]
<1>1. /\ online' = online /\ pos' = pos /\ loc' = loc
      /\ tradeItems' = [tradeItems EXCEPT ![i] = p]
      /\ refs' = [refs EXCEPT ![i] = @ + 1]
      /\ shown' = [shown EXCEPT ![p] = {i} \cup Holding(loc, i)]
      /\ p \in online /\ q \in online \ {p}
      /\ TradersNear(pos[p], pos[q]) /\ Reachable(loc, p, i) /\ ~AlreadyTraded(i) /\ CanStart(p, q)
  BY DEF RequestTrade
<1>2. trade' = [trade EXCEPT ![p] = offer, ![q] = IF @.state = "none" THEN asked ELSE @]
  BY DEF RequestTrade
<1>3. TypeOK /\ p # q
  BY <1>1 DEF Inv
<1>4. /\ offer \in TradeRec /\ asked \in TradeRec
      /\ offer.state = "initiated" /\ offer.partner = q /\ offer.item = i
      /\ asked.state = "acknowledge" /\ asked.partner = p /\ asked.item = NoItem
  BY DEF TradeRec
<1>. HIDE DEF offer, asked
<1>5. /\ trade' \in [Player -> TradeRec]
      /\ trade'[p] = offer
      /\ trade'[q] = IF trade[q].state = "none" THEN asked ELSE trade[q]
      /\ \A r \in Player \ {p, q} : trade'[r] = trade[r]
  BY <1>2, <1>3, <1>4 DEF TypeOK
<1>6. trade[p].item = NoItem /\ trade[p].partner \in {NoPlayer, q}
  BY <1>1 DEF CanStart, Inv, PartnersPaired
<1>7. trade[q].partner \in {NoPlayer, p} /\ (trade[q].state = "none" => trade[q].partner = NoPlayer)
  BY <1>1 DEF CanStart, Inv, PartnersPaired
<1>8. \A r \in Player \ {p, q} : trade[r].partner \notin {p, q}
  BY <1>6, <1>7, TradeAssumption DEF Inv, PartnersPaired
<1>9. tradeItems[i] = NoPlayer /\ refs[i] = 0
  BY <1>1 DEF AlreadyTraded, Inv, OffersDisjoint
<1>10. Holding(loc, i) \in SUBSET Item
  BY HoldsItems
<1>11. TypeOK'
  <2>1. /\ tradeItems' \in [Item -> Player \cup {NoPlayer}]
        /\ shown' \in [Player -> SUBSET Item]
    BY <1>1, <1>3, <1>10 DEF TypeOK
  <2>2. refs' \in [Item -> 0 .. 1]
    BY <1>1, <1>3, <1>9 DEF TypeOK
  <2>. QED  BY <1>1, <1>3, <1>5, <2>1, <2>2 DEF TypeOK
<1>12. trade'[q].partner = p /\ trade'[q].item = trade[q].item
  <2>1. CASE trade[q].state = "none"
    BY <1>4, <1>5, <2>1 DEF Inv, PartnersPaired
  <2>2. CASE trade[q].state # "none"
    BY <1>5, <1>7, <2>2 DEF Inv, PartnersPaired
  <2>. QED  BY <2>1, <2>2
<1>13. PartnersPaired'
  <2>. SUFFICES ASSUME NEW r \in Player
                PROVE  LET t == trade'[r]
                       IN  /\ t.state = "none" <=> t.partner = NoPlayer
                           /\ t.state \in {"none", "acknowledge"} => t.item = NoItem
                           /\ t.state = "initiated" => t.item # NoItem
                           /\ t.partner # NoPlayer =>
                                /\ {r, t.partner} \subseteq online' /\ r # t.partner
                                /\ trade'[t.partner].partner = r
                                /\ t.item # NoItem \/ trade'[t.partner].item # NoItem
                                /\ t.state = "accept" => trade'[t.partner].state # "accept"
    BY DEF PartnersPaired
  <2>1. CASE r = p
    BY <1>1, <1>4, <1>5, <1>12, <2>1, TradeAssumption
  <2>2. CASE r = q /\ trade[q].state = "none"
    BY <1>1, <1>4, <1>5, <2>2, TradeAssumption
  <2>3. CASE r = q /\ trade[q].state # "none"
    <3>1. trade'[q] = trade[q]
      BY <1>5, <2>3
    <3>. QED  BY <1>1, <1>4, <1>5, <1>12, <2>3, <3>1, TradeAssumption DEF Inv, PartnersPaired
  <2>4. CASE r \notin {p, q}
    <3>1. trade'[r] = trade[r]
      BY <1>5, <2>4
    <3>2. trade[r].partner # NoPlayer => trade'[trade[r].partner] = trade[trade[r].partner]
      BY <1>3, <1>5, <1>8, <2>4, RecordOf
    <3>. QED  BY <1>1, <3>1, <3>2 DEF Inv, PartnersPaired
  <2>. QED  BY <2>1, <2>2, <2>3, <2>4
<1>14. OffersDisjoint'
  <2>1. /\ tradeItems'[i] = p /\ refs'[i] = 1
        /\ \A j \in Item \ {i} : tradeItems'[j] = tradeItems[j] /\ refs'[j] = refs[j]
    BY <1>1, <1>3, <1>9 DEF TypeOK
  <2>2. \A j \in Item : refs'[j] = IF tradeItems'[j] = NoPlayer THEN 0 ELSE 1
    BY <2>1, TradeAssumption DEF Inv, OffersDisjoint
  <2>3. ASSUME NEW j \in Item, NEW r \in Player PROVE tradeItems'[j] = r <=> trade'[r].item = j
    <3>1. tradeItems[j] = r <=> trade[r].item = j
      BY DEF Inv, OffersDisjoint
    <3>2. tradeItems[i] # r /\ trade[r].item # i
      BY <1>9, TradeAssumption DEF Inv, OffersDisjoint
    <3>3. CASE r = p
      BY <1>4, <1>5, <1>6, <2>1, <3>1, <3>3, TradeAssumption
    <3>4. CASE r # p
      <4>1. trade'[r].item = trade[r].item
        BY <1>5, <1>12, <3>4
      <4>. QED  BY <2>1, <3>1, <3>2, <3>4, <4>1
    <3>. QED  BY <3>3, <3>4
  <2>4. ASSUME NEW j \in Item, NEW k \in Item, j # k, tradeItems'[j] # NoPlayer, tradeItems'[k] # NoPlayer
        PROVE  j \notin Holding(loc', k)
    BY <1>1, <2>1, <2>4 DEF Inv, OffersDisjoint, AlreadyTraded
  <2>. QED  BY <2>2, <2>3, <2>4 DEF OffersDisjoint
<1>15. OfferAsShown'
  <2>. SUFFICES ASSUME NEW r \in Player
                PROVE  /\ trade'[r].item # NoItem =>
                            /\ shown'[r] = {trade'[r].item} \cup Holding(loc', trade'[r].item)
                            /\ Reachable(loc, r, trade[r].item)'
                       /\ trade'[r].partner # NoPlayer => TradersNear(pos'[r], pos'[trade'[r].partner])
    BY DEF OfferAsShown
  <2>1. \A o \in Item : Reachable(loc, r, o)' <=> Reachable(loc, r, o)
    BY <1>1 DEF Reachable, CarriedBy, Position
  <2>2. pos[p] \in Int /\ pos[q] \in Int
    BY <1>3, TradeAssumption DEF TypeOK
  <2>3. TradersNear(pos[q], pos[p])
    BY <1>1, <2>2, DistIs DEF TradersNear
  <2>4. shown'[p] = {i} \cup Holding(loc, i) /\ \A t \in Player \ {p} : shown'[t] = shown[t]
    BY <1>1, <1>3 DEF TypeOK
  <2>5. CASE r = p
    <3>1. Reachable(loc, p, i)'
      BY <1>1, <2>1, <2>5
    <3>. QED  BY <1>1, <1>4, <1>5, <2>4, <2>5, <3>1
  <2>6. CASE r # p
    <3>1. trade'[r].item = trade[r].item /\ shown'[r] = shown[r]
      BY <1>5, <1>12, <2>4, <2>6
    <3>2. ASSUME trade'[r].item # NoItem
          PROVE  /\ shown'[r] = {trade'[r].item} \cup Holding(loc', trade'[r].item)
                 /\ Reachable(loc, r, trade[r].item)'
      <4>1. PICK o \in Item : trade[r].item = o /\ trade'[r].item = o
        BY <1>3, <3>1, <3>2, RecordOf
      <4>2. shown[r] = {o} \cup Holding(loc, o) /\ Reachable(loc, r, o)
        BY <3>1, <3>2, <4>1 DEF Inv, OfferAsShown
      <4>. QED  BY <1>1, <2>1, <3>1, <4>1, <4>2
    <3>3. trade'[r].partner # NoPlayer => TradersNear(pos'[r], pos'[trade'[r].partner])
      <4>1. CASE r = q
        BY <1>1, <1>12, <2>3, <4>1
      <4>2. CASE r # q
        BY <1>1, <1>5, <2>6, <4>2 DEF Inv, OfferAsShown
      <4>. QED  BY <4>1, <4>2
    <3>. QED  BY <3>2, <3>3
  <2>. QED  BY <2>5, <2>6
<1>16. Rooted(loc)'
  BY <1>1, SamePlace
<1>. QED  BY <1>11, <1>13, <1>14, <1>15, <1>16 DEF Inv

-----------------------------------------------------------------------------
(* The theorems. *)

LEMMA InvInit == Init => Inv
<1>. SUFFICES ASSUME Init PROVE Inv
  OBVIOUS
<1>1. /\ \A p \in Player : trade[p] = NoTrade
      /\ \A i \in Item : tradeItems[i] = NoPlayer /\ refs[i] = 0
  BY DEF Init
<1>2. loc \in Placement /\ \A i \in Item : \E x \in Spot : loc[i] = Tile(x)
  <2>1. \A x \in Spot : Tile(x) \in Place
    BY DEF Place
  <2>. QED  BY <2>1 DEF Init, Placement
<1>3. TypeOK
  BY <1>2, NoTradeIs DEF Init, TypeOK, Placement
<1>4. PartnersPaired
  BY <1>1, NoTradeIs DEF PartnersPaired
<1>5. OffersDisjoint
  BY <1>1, NoTradeIs, TradeAssumption DEF OffersDisjoint
<1>6. OfferAsShown
  BY <1>1, NoTradeIs DEF OfferAsShown
<1>7. Rooted(loc)
  <2>1. \A i \in Item, c \in Container : loc[i] # In(c)
    BY <1>2, Kinds
  <2>. QED  BY <2>1 DEF Rooted, IsRoot
<1>. QED  BY <1>3, <1>4, <1>5, <1>6, <1>7 DEF Inv

LEMMA InvStep == Inv /\ [Next]_vars => Inv'
<1>. SUFFICES ASSUME Inv, [Next]_vars PROVE Inv'
  OBVIOUS
<1>1. CASE UNCHANGED vars
  <2>1. Rooted(loc)' /\ \A p \in Player : Reachable(loc, p, trade[p].item)' <=> Reachable(loc, p, trade[p].item)
    BY <1>1, SamePlace DEF vars, Reachable, CarriedBy, Position
  <2>. QED  BY <1>1, <2>1 DEF vars, Inv, TypeOK, PartnersPaired, OffersDisjoint, OfferAsShown
<1>2. ASSUME NEW p \in Player, NEW i \in Item, MoveItem(p, i) PROVE Inv'
  BY <1>2, MoveItemStep
<1>3. ASSUME NEW p \in Player, NEW q \in Player, NEW i \in Item, RequestTrade(p, q, i) PROVE Inv'
  BY <1>3, RequestTradeStep
<1>4. ASSUME NEW p \in Player, AcceptFirst(p) \/ AcceptRefused(p) \/ SwapFails(p) \/ Swap(p) PROVE Inv'
  BY <1>4, AcceptFirstStep, AcceptRefusedStep, SwapFailsStep, SwapStep
<1>5. ASSUME NEW p \in Player, PlayerCloseTrade(p) \/ Logout(p) \/ Login(p) PROVE Inv'
  BY <1>5, PlayerCloseTradeStep, LogoutStep, LoginStep
<1>6. ASSUME NEW p \in Player, NEW x \in Spot, Walk(p, x) PROVE Inv'
  BY <1>6, WalkStep
<1>. QED  BY <1>1, <1>2, <1>3, <1>4, <1>5, <1>6 DEF Next

(* The inductive invariant holds in every state. *)
THEOREM Invariant == Spec => []Inv
BY InvInit, InvStep, PTL DEF Spec

(* Every variable keeps to its type: a trade has at most one reference to    *)
(* an item.                                                                  *)
THEOREM TypeCorrect == Spec => []TypeOK
<1>1. Inv => TypeOK
  BY DEF Inv
<1>. QED  BY <1>1, Invariant, PTL

(* Traders come in pairs of online players, however trades are requested,   *)
(* answered, accepted and closed (game.cpp, playerRequestTrade to           *)
(* internalCloseTrade).                                                     *)
THEOREM TradersComeInPairs == Spec => []PartnersPaired
<1>1. Inv => PartnersPaired
  BY DEF Inv
<1>. QED  BY <1>1, Invariant, PTL

(* No item is promised to two players, itself or inside another one, and    *)
(* tradeItems and the references agree with the trades.                     *)
THEOREM NothingPromisedTwice == Spec => []OffersDisjoint
<1>1. Inv => OffersDisjoint
  BY DEF Inv
<1>. QED  BY <1>1, Invariant, PTL

(* The notifications of player.cpp are enough: what is offered is what was   *)
(* shown, and within reach, until the trade ends.                            *)
THEOREM OffersStayAsShown == Spec => []OfferAsShown
<1>1. Inv => OfferAsShown
  BY DEF Inv
<1>. QED  BY <1>1, Invariant, PTL

-----------------------------------------------------------------------------
(* Room.  A slot has at most one item, and a container no more than it has *)
(* places, so whatever leaves one of them leaves room.                     *)

Inside(l, c) == {i \in Item : l[i] = In(c)}

OnePerSlot(l) == \A i, j \in Item, p \in Player : (l[i] \in Slots(p) /\ l[i] = l[j]) => i = j
WithinCapacity(l) ==
  \A c \in Container : IsFiniteSet(Inside(l, c)) /\ Cardinality(Inside(l, c)) <= Capacity

Tidy(l) == OnePerSlot(l) /\ WithinCapacity(l)

(* A place that is free for item i. *)
HasPlace(l, i, place) ==
  /\ place \in Place
  /\ \A p \in Player : place \in Slots(p) => \A j \in Item : l[j] # place
  /\ \A c \in Container : place = In(c) => ~Full(l, c)

LEMMA NotFullIs ==
  ASSUME NEW l, NEW c, IsFiniteSet(Inside(l, c))
  PROVE  ~Full(l, c) <=> Cardinality(Inside(l, c)) < Capacity
<1>1. Cardinality(Inside(l, c)) \in Nat
  BY FS_CardinalityType
<1>. QED  BY <1>1, TradeAssumption DEF Full, Inside

LEMMA StaysTidy ==
  ASSUME NEW l \in Placement, Tidy(l), NEW i \in Item, NEW place, HasPlace(l, i, place)
  PROVE  Tidy(Moved(l, i, place))
<1>. DEFINE m == Moved(l, i, place)
<1>1. m[i] = place /\ (\A j \in Item \ {i} : m[j] = l[j])
  BY MovedIs DEF HasPlace
<1>. HIDE DEF m
<1>2. OnePerSlot(m)
  <2>. SUFFICES ASSUME NEW j \in Item, NEW k \in Item, NEW p \in Player,
                       m[j] \in Slots(p), m[j] = m[k], j # k
                PROVE  FALSE
    BY DEF OnePerSlot
  <2>1. CASE j # i /\ k # i
    BY <1>1, <2>1 DEF Tidy, OnePerSlot
  <2>2. CASE j = i \/ k = i
    BY <1>1, <2>2 DEF HasPlace
  <2>. QED  BY <2>1, <2>2
<1>3. ASSUME NEW c \in Container
      PROVE  IsFiniteSet(Inside(m, c)) /\ Cardinality(Inside(m, c)) <= Capacity
  <2>1. /\ IsFiniteSet(Inside(l, c)) /\ Cardinality(Inside(l, c)) <= Capacity
        /\ Cardinality(Inside(l, c)) \in Nat /\ Capacity \in Nat
    BY FS_CardinalityType, TradeAssumption DEF Tidy, WithinCapacity
  <2>2. CASE place # In(c)
    <3>1. Inside(m, c) \in SUBSET Inside(l, c)
      BY <1>1, <2>2 DEF Inside
    <3>2. IsFiniteSet(Inside(m, c)) /\ Cardinality(Inside(m, c)) <= Cardinality(Inside(l, c))
      BY <2>1, <3>1, FS_Subset
    <3>3. Cardinality(Inside(m, c)) \in Nat
      BY <3>2, FS_CardinalityType
    <3>. QED  BY <2>1, <3>2, <3>3
  <2>3. CASE place = In(c)
    <3>1. Cardinality(Inside(l, c)) < Capacity
      BY <2>1, <2>3, NotFullIs DEF HasPlace
    <3>2. Inside(m, c) = Inside(l, c) \cup {i}
      BY <1>1, <2>3 DEF Inside
    <3>3. /\ IsFiniteSet(Inside(l, c) \cup {i})
          /\ Cardinality(Inside(l, c) \cup {i})
               = IF i \in Inside(l, c) THEN Cardinality(Inside(l, c)) ELSE Cardinality(Inside(l, c)) + 1
      BY <2>1, FS_AddElement
    <3>. QED  BY <2>1, <3>1, <3>2, <3>3
  <2>. QED  BY <2>2, <2>3
<1>. QED  BY <1>2, <1>3 DEF Tidy, WithinCapacity, m

LEMMA FreePlacesAreFree ==
  ASSUME NEW l, NEW p \in Player, NEW i \in Item,
         NEW near \in SUBSET Container, NEW place \in FreePlaces(l, p, i, near)
  PROVE  HasPlace(l, i, place)
<1>1. CASE place \in {Tile(x) : x \in Spot}
  BY <1>1, Kinds DEF HasPlace, Place
<1>2. CASE place \in FreeSlots(l, p, i)
  <2>1. place \in Slots(p) /\ \A j \in Item : l[j] # place
    BY <1>2 DEF FreeSlots
  <2>. QED  BY <2>1, Kinds DEF HasPlace, Place
<1>3. CASE \E d \in near : ~Full(l, d) /\ place = In(d)
  BY <1>3, Kinds DEF HasPlace, Place
<1>. QED  BY <1>1, <1>2, <1>3 DEF FreePlaces

LEMMA DestinationsAreFree ==
  ASSUME NEW l, NEW p \in Player, NEW i \in Item, NEW other, NEW place \in Destinations(l, p, i, other)
  PROVE  HasPlace(l, i, place)
<1>1. CASE place \in FreeSlots(l, p, i)
  <2>1. place \in Slots(p) /\ \A j \in Item : l[j] # place
    BY <1>1 DEF FreeSlots
  <2>. QED  BY <2>1, Kinds DEF HasPlace, Place
<1>2. CASE \E c \in Searched(l, p, i, other) : ~Full(l, c) /\ place = In(c)
  <2>1. PICK c \in Container : ~Full(l, c) /\ place = In(c)
    BY <1>2 DEF Searched
  <2>. QED  BY <2>1, Kinds DEF HasPlace, Place
<1>3. CASE place = Nowhere
  BY <1>3, Kinds DEF HasPlace, Place
<1>. QED  BY <1>1, <1>2, <1>3 DEF Destinations

LEMMA DeliveredTidy ==
  ASSUME NEW l \in Placement, Tidy(l), NEW p \in Player, NEW i \in Item, NEW other,
         NEW m \in Deliver(l, p, i, other)
  PROVE  Tidy(m)
<1>1. CASE m = l
  BY <1>1
<1>2. CASE \E place \in Destinations(l, p, i, other) : m = Moved(l, i, place)
  BY <1>2, DestinationsAreFree, StaysTidy
<1>. QED  BY <1>1, <1>2 DEF Deliver

LEMMA TidyInit == Init => Tidy(loc)
<1>. SUFFICES ASSUME Init PROVE Tidy(loc)
  OBVIOUS
<1>1. \A i \in Item : \E x \in Spot : loc[i] = Tile(x)
  BY DEF Init
<1>2. \A i \in Item : (\A p : loc[i] \notin Slots(p)) /\ (\A c : loc[i] # In(c))
  BY <1>1, Kinds
<1>3. OnePerSlot(loc)
  BY <1>2 DEF OnePerSlot
<1>4. ASSUME NEW c \in Container
      PROVE  IsFiniteSet(Inside(loc, c)) /\ Cardinality(Inside(loc, c)) <= Capacity
  <2>1. Inside(loc, c) = {}
    BY <1>2 DEF Inside
  <2>. QED  BY <2>1, FS_EmptySet, TradeAssumption
<1>. QED  BY <1>3, <1>4 DEF Tidy, WithinCapacity

LEMMA TidyStep == Inv /\ Tidy(loc) /\ [Next]_vars => Tidy(loc)'
<1>. SUFFICES ASSUME Inv, Tidy(loc), [Next]_vars PROVE Tidy(loc')
  BY DEF Tidy, OnePerSlot, WithinCapacity, Inside
<1>1. loc \in Placement
  BY DEF Inv, TypeOK, Placement
<1>2. CASE loc' = loc
  BY <1>2
<1>3. ASSUME NEW p \in Player, NEW i \in Item, MoveItem(p, i) PROVE Tidy(loc')
  <2>. DEFINE near == {c \in Container : Reachable(loc, p, c)}
  <2>1. PICK place \in FreePlaces(loc, p, i, near) : loc' = Moved(loc, i, place)
    BY <1>3 DEF MoveItem
  <2>2. near \in SUBSET Container
    OBVIOUS
  <2>. HIDE DEF near
  <2>3. HasPlace(loc, i, place)
    BY <2>2, FreePlacesAreFree
  <2>. QED  BY <1>1, <2>1, <2>3, StaysTidy
<1>4. ASSUME NEW p \in Player, Swap(p) PROVE Tidy(loc')
  <2>. DEFINE q == trade[p].partner
              mine == trade[p].item
              theirs == trade[q].item
  <2>. HIDE DEF q, mine, theirs
  <2>1. q = trade[p].partner /\ mine = trade[p].item /\ theirs = trade[q].item
    BY DEF q, mine, theirs
  <2>2. q \in Player /\ mine \in Item /\ theirs \in Item
    BY <1>4, <2>1, SwapIs
  <2>3. PICK l, m : SwapsBy(p, q, mine, theirs, l, m)
    BY <1>4, <2>1, SwapIs
  <2>4. Tidy(l)
    BY <1>1, <2>2, <2>3, DeliveredTidy DEF SwapsBy
  <2>. QED  BY <2>2, <2>3, <2>4, DeliveredTidy DEF SwapsBy
<1>5. loc' = loc \/ \E p \in Player : Swap(p) \/ \E i \in Item : MoveItem(p, i)
  BY DEF Next, vars, RequestTrade, AcceptFirst, AcceptRefused, SwapFails, PlayerCloseTrade,
         Logout, Login, Walk
<1>. QED  BY <1>2, <1>3, <1>4, <1>5

LEMMA SlotsApart ==
  \A p, q, s : (s \in Slots(p) /\ s \in Slots(q)) => p = q
BY SlotIs DEF Slots

LEMMA SearchedIsCarried ==
  ASSUME NEW l \in Placement, NEW p \in Player, NEW i, NEW other,
         NEW c \in Searched(l, p, i, other)
  PROVE  c \in Container /\ c \in Item /\ Top(l, c) \in Slots(p)
<1>1. PICK t \in Container : l[t] \in Slots(p) /\ (c = t \/ c \in Holding(l, t))
  BY DEF Searched
<1>2. c \in Container /\ c \in Item /\ t \in Item
  BY TradeAssumption DEF Searched
<1>3. IsRoot(l, c, t)
  BY <1>1, <1>2, Kinds DEF IsRoot
<1>4. Top(l, c) = l[t]
  BY <1>2, <1>3, RootIs
<1>. QED  BY <1>1, <1>2, <1>4

(* Who gets a new item has room for it: a free slot, or a container with room. *)
HasRoom(l, p, i) == \/ FreeSlots(l, p, i) # {}
                    \/ \E c \in CarriedBy(l, p) \cap Container : ~Full(l, c)

LEMMA QueryAddIsRoom ==
  ASSUME NEW l \in Placement, Rooted(l), NEW p \in Player, NEW i \in Item, NEW other
  PROVE  QueryAdd(l, p, i, other) <=> HasRoom(l, p, i)
<1>1. ASSUME NEW c \in Searched(l, p, i, other) PROVE c \in CarriedBy(l, p) \cap Container
  BY SearchedIsCarried DEF CarriedBy
<1>2. \A s \in FreeSlots(l, p, i) : s # Nowhere
  BY Kinds DEF FreeSlots
<1>3. Backpack(p) # Nowhere
  BY Kinds DEF Slots
<1>4. \A c : In(c) # Nowhere
  BY Kinds
<1>. QED  BY <1>1, <1>2, <1>3, <1>4 DEF QueryAdd, HasRoom, Destinations

(* An item goes to a slot or a container of the receiver, or nowhere. *)
LEMMA DestinationIs ==
  ASSUME NEW l \in Placement, NEW p \in Player, NEW i, NEW other,
         NEW place \in Destinations(l, p, i, other)
  PROVE  \/ place \in Slots(p) /\ \A j \in Item : l[j] # place
         \/ \E c \in Container : place = In(c) /\ Top(l, c) \in Slots(p)
         \/ place = Nowhere
<1>1. CASE place \in FreeSlots(l, p, i)
  BY <1>1 DEF FreeSlots
<1>2. CASE \E c \in Searched(l, p, i, other) : place = In(c)
  BY <1>2, SearchedIsCarried
<1>. QED  BY <1>1, <1>2 DEF Destinations

(* What the receiver does not carry goes somewhere else. *)
LEMMA GoesElsewhere ==
  ASSUME NEW l \in Placement, Rooted(l), NEW p \in Player, NEW i \in Item, l[i] # Nowhere,
         Top(l, i) \notin Slots(p), NEW other, NEW place \in Destinations(l, p, i, other)
  PROVE  place # l[i]
<1>1. ASSUME NEW c \in Container, l[i] = In(c) PROVE Top(l, c) \notin Slots(p)
  <2>1. c \in Item /\ i \in Holding(l, c)
    BY <1>1, TradeAssumption, HoldsInside
  <2>. QED  BY <2>1, SameTop
<1>. QED  BY <1>1, DestinationIs

(* Who gives an item away has no less room: if the only room was in that    *)
(* item, there is room where it was.  The place of the backpack is good for *)
(* containers only; TestsPass asks for a free hand then.                    *)
LEMMA RoomRemains ==
  ASSUME NEW l \in Placement, Rooted(l), Tidy(l), NEW p \in Player, NEW i \in Item, NEW j \in Item,
         HasRoom(l, p, j), l[i] = Backpack(p) => \A k \in Item : l[k] # Hand(p),
         NEW place, Fits(l, i, place), place \notin Slots(p),
         \A c \in Container : place = In(c) => Top(l, c) \notin Slots(p)
  PROVE  HasRoom(Moved(l, i, place), p, j)
<1>. DEFINE m == Moved(l, i, place)
<1>1. place \in Place /\ m \in Placement /\ m[i] = place /\ \A k \in Item \ {i} : m[k] = l[k]
  BY MovedIs DEF Fits
<1>2. ASSUME NEW c \in Container, c # i, c \notin Holding(l, i), Top(l, c) \in Slots(p),
             ~Full(l, c) \/ l[i] = In(c)
      PROVE  HasRoom(m, p, j)
  <2>1. c \in Item
    BY TradeAssumption
  <2>2. c \in CarriedBy(m, p)
    BY <1>1, <1>2, <2>1, TopStays DEF CarriedBy
  <2>. HIDE DEF m
  <2>3. /\ IsFiniteSet(Inside(l, c)) /\ Cardinality(Inside(l, c)) <= Capacity
        /\ Cardinality(Inside(l, c)) \in Nat /\ Capacity \in Nat
    BY FS_CardinalityType, TradeAssumption DEF Tidy, WithinCapacity
  <2>4. Inside(m, c) = Inside(l, c) \ {i}
    BY <1>1, <1>2 DEF Inside
  <2>5. /\ IsFiniteSet(Inside(l, c) \ {i})
        /\ Cardinality(Inside(l, c) \ {i})
             = IF i \in Inside(l, c) THEN Cardinality(Inside(l, c)) - 1 ELSE Cardinality(Inside(l, c))
    BY <2>3, FS_RemoveElement
  <2>6. Cardinality(Inside(l, c)) < Capacity \/ i \in Inside(l, c)
    BY <1>2, <2>3, NotFullIs DEF Inside
  <2>7. Cardinality(Inside(m, c)) < Capacity
    BY <2>3, <2>4, <2>5, <2>6
  <2>8. ~Full(m, c)
    BY <2>4, <2>5, <2>7, NotFullIs
  <2>. QED  BY <2>2, <2>8 DEF HasRoom
<1>3. ASSUME l[i] \in Slots(p) PROVE HasRoom(m, p, j)
  <2>1. \A k \in Item \ {i} : l[k] # Hand(p)
    BY <1>3 DEF Slots, Tidy, OnePerSlot
  <2>2. Hand(p) \in Slots(p)
    BY DEF Slots
  <2>3. \A k \in Item : m[k] # Hand(p)
    BY <1>1, <2>1, <2>2
  <2>4. Hand(p) \in FreeSlots(m, p, j)
    BY <2>2, <2>3 DEF FreeSlots
  <2>. QED  BY <2>4 DEF HasRoom
<1>4. CASE FreeSlots(l, p, j) # {}
  <2>1. PICK s : s \in FreeSlots(l, p, j)
    BY <1>4
  <2>2. s \in FreeSlots(m, p, j)
    BY <1>1, <2>1 DEF FreeSlots
  <2>. QED  BY <2>2 DEF HasRoom
<1>5. CASE \E c \in CarriedBy(l, p) \cap Container : ~Full(l, c)
  <2>1. PICK c \in Container : c \in Item /\ Top(l, c) \in Slots(p) /\ ~Full(l, c)
    BY <1>5 DEF CarriedBy
  <2>2. CASE c # i /\ c \notin Holding(l, i)
    BY <1>2, <2>1, <2>2
  <2>3. CASE c = i \/ c \in Holding(l, i)
    <3>1. Top(l, i) \in Slots(p)
      BY <2>1, <2>3, SameTop
    <3>2. PICK r \in Item : IsRoot(l, i, r) /\ Top(l, i) = l[r]
      BY HasRoot
    <3>3. CASE r = i
      BY <1>3, <3>1, <3>2, <3>3
    <3>4. CASE r # i
      <4>1. i \in Holding(l, r)
        BY <3>2, <3>4 DEF IsRoot
      <4>2. PICK d : l[i] = In(d) /\ (d = r \/ d \in Holding(l, r))
        BY <4>1, HoldsParent
      <4>3. d \in Container /\ d \in Item
        BY <4>2, InContainer, TradeAssumption
      <4>4. Top(l, d) \in Slots(p)
        BY <3>1, <4>1, <4>2, <3>2, SameTop
      <4>5. d # i /\ d \notin Holding(l, i)
        <5>1. i \in Holding(l, d)
          BY <4>2, HoldsInside
        <5>2. i \notin Holding(l, i)
          BY NotInItself
        <5>. QED  BY <4>3, <5>1, <5>2, HoldsThrough, NotInItself
      <4>. QED  BY <1>2, <4>2, <4>3, <4>4, <4>5
    <3>. QED  BY <3>3, <3>4
  <2>. QED  BY <2>2, <2>3
<1>. QED  BY <1>4, <1>5 DEF HasRoom

(* In every state, items are in order as well. *)
LEMMA TidyInvariant == Spec => []Tidy(loc)
BY TidyInit, TidyStep, Invariant, PTL DEF Spec

LEMMA BothMove ==
  ASSUME Inv, Tidy(loc), NEW p \in Player, Swap(p)
  PROVE  \A r \in {p, trade[p].partner} : loc'[trade[r].item] # loc[trade[r].item]
<1>. DEFINE q == trade[p].partner
            mine == trade[p].item
            theirs == trade[q].item
<1>1. /\ q \in Player /\ p # q /\ mine \in Item /\ theirs \in Item /\ mine # theirs
      /\ Reachable(loc, p, mine) /\ Reachable(loc, q, theirs)
      /\ \E l, m : SwapsBy(p, q, mine, theirs, l, m)
  BY SwapIs
<1>2. PICK l, m : SwapsBy(p, q, mine, theirs, l, m)
  BY <1>1
<1>3. loc \in Placement /\ Rooted(loc)
  BY DEF Inv, TypeOK, Placement
<1>4. /\ QueryAdd(loc, q, mine, theirs) /\ QueryAdd(loc, p, theirs, mine)
      /\ loc[mine] = Backpack(p) => \A k \in Item : loc[k] # Hand(p)
  <2>1. TestsPass(p, q)
    BY DEF Swap
  <2>. QED  BY <1>1, <2>1, TradeAssumption DEF TestsPass, OffersOwnBackpack, HandFree
<1>5. mine # theirs /\ theirs \notin Holding(loc, mine)
  <2>1. tradeItems[mine] = p /\ tradeItems[theirs] = q
    BY <1>1 DEF Inv, OffersDisjoint
  <2>. QED  BY <1>1, <2>1, TradeAssumption DEF Inv, OffersDisjoint
<1>. HIDE DEF q, mine, theirs
<1>6. l \in Deliver(loc, q, mine, theirs) /\ m \in Deliver(l, p, theirs, mine)
        /\ l \in Placement /\ Rooted(l) /\ loc' = m
  BY <1>2 DEF SwapsBy
<1>7. loc[mine] # Nowhere /\ loc[theirs] # Nowhere
        /\ Top(loc, mine) \notin Slots(q) /\ Top(loc, theirs) \notin Slots(p)
  BY <1>1, <1>3, ReachedIsSomewhere, SlotOwner
<1>8. PICK place \in Destinations(loc, q, mine, theirs) : l = Moved(loc, mine, place)
  BY <1>4, <1>6 DEF Deliver
<1>9. place # loc[mine]
  BY <1>1, <1>3, <1>7, <1>8, GoesElsewhere
<1>10. Fits(loc, mine, place) /\ place \in Place
  BY <1>1, <1>3, <1>8, DestinationsFit DEF Fits
<1>11. l[mine] = place /\ l[theirs] = loc[theirs]
  BY <1>1, <1>3, <1>8, <1>10, MovedIs
<1>12. Top(l, theirs) = Top(loc, theirs)
  BY <1>1, <1>3, <1>5, <1>8, <1>10, TopStays
<1>13. place \notin Slots(p) /\ \A c \in Container : place = In(c) => Top(loc, c) \notin Slots(p)
  BY <1>1, <1>3, <1>8, DestinationIs, SlotsApart, Kinds
<1>14. HasRoom(l, p, theirs)
  <2>1. HasRoom(loc, p, theirs)
    BY <1>1, <1>3, <1>4, QueryAddIsRoom
  <2>. QED  BY <1>1, <1>3, <1>4, <1>8, <1>10, <1>13, <2>1, RoomRemains
<1>15. PICK other \in Destinations(l, p, theirs, mine) : m = Moved(l, theirs, other)
  <2>1. QueryAdd(l, p, theirs, mine)
    BY <1>1, <1>6, <1>14, QueryAddIsRoom
  <2>. QED  BY <1>6, <2>1 DEF Deliver
<1>16. other # l[theirs]
  BY <1>1, <1>6, <1>7, <1>11, <1>12, <1>15, GoesElsewhere
<1>17. other \in Place
  BY <1>1, <1>6, <1>15, DestinationsFit DEF Fits
<1>18. m[theirs] = other /\ m[mine] = l[mine]
  BY <1>1, <1>6, <1>15, <1>17, MovedIs
<1>19. loc'[mine] # loc[mine] /\ loc'[theirs] # loc[theirs]
  BY <1>6, <1>9, <1>11, <1>16, <1>18
<1>. QED  BY <1>19 DEF q, mine, theirs

(* Both items of a trade leave the places they are in, or neither does: what *)
(* playerAcceptTrade asks before it moves anything holds for the second move *)
(* as well, whose result it does not look at.  That an item arrives where it *)
(* should is not claimed: TradedItemArrives is not so.                       *)
THEOREM SwapsMoveBoth == Spec => BothOrNone
<1>1. ASSUME Inv, Tidy(loc), [Next]_vars
      PROVE  [\A p \in Player :
                Swap(p) => \A r \in {p, trade[p].partner} : loc'[trade[r].item] # loc[trade[r].item]]_vars
  BY <1>1, BothMove
<1>. QED  BY <1>1, Invariant, TidyInvariant, PTL DEF Spec, BothOrNone
=============================================================================
