------------------------------ MODULE Belongings ------------------------------
(***************************************************************************)
(* What is kept of items when their owner logs out and when the server     *)
(* stops: the items that a player carries or has in a depot                *)
(* (iologindata.cpp, depotlocker.cpp, depotchest.cpp, mailbox.cpp), the    *)
(* items of a house (iomapserialize.cpp, and iomap.cpp for what the map    *)
(* has there) and the attributes of an item (item.cpp).                    *)
(*                                                                         *)
(* A behaviour is about one of "About":                                    *)
(*   player  two bags, coins and letters of a player                       *)
(*   held    the attributes of one item in a hand                          *)
(*   house   a tile with a door, a shelf, a board, a bed and coins         *)
(*   laid    the attributes of one item on a house tile                    *)
(*                                                                         *)
(* Abstracted: an item is known by its name, that goes with it to the      *)
(* database and back; of the attributes, one for each way in which they    *)
(* are written and read; what the map has in a shelf is left where it is.  *)
(* That saving is a transaction is what module Transaction is about: here  *)
(* it succeeds or changes nothing.                                         *)
(***************************************************************************)
EXTENDS Integers, Sequences, SequencesExt, FiniteSetsExt, TLC

CONSTANTS About,
          Depots,       \* numbers of depots
          Base,         \* rows of items are numbered after it, 100
          Maps,         \* what the map may have: a text on the board, things in the shelf
          MaxChanges,
          MaxCopies     \* bound on what there is of the map's things in the shelf

Kinds == {"player", "held", "house", "laid"}

(* Assumed where this module is instantiated. *)
BelongingsAssumption ==
  /\ About \subseteq Kinds
  /\ Depots \subseteq 1 .. Base - 1
  /\ Base \in Nat /\ MaxChanges \in [Kinds -> Nat] /\ MaxCopies \in Nat
  /\ \A map \in Maps : map.text \in Nat /\ map.shelf \in Seq({"book"})

VARIABLE s

-----------------------------------------------------------------------------
(* Items and their types                                                    *)

Containers == {"bag", "box", "shelf"}
Stackable == {"coin"}
Fluid == {"vial"}
WithCharges == {"rod"}               \* 2 when nothing is said
Stationary == {"closed", "open", "shelf", "board", "bed", "fire", "lasting"}
Doors == {"closed", "open"}
Byte == 4                            \* numbers that a byte holds, 256
MaxStack == 3                        \* pieces of a stack, 100
Int8(v) == ((v + (Byte \div 2)) % Byte) - (Byte \div 2)

(* Names of the items, and the type an item has at first                    *)
Names(about) == CASE about = "player" -> {"bag", "box", "coin", "letter"}
                  [] about = "house"  -> {"door", "shelf", "board", "bed", "fire", "coin"}
                  [] OTHER            -> {"thing"}
Books(about) == IF about = "house" THEN {"book"} ELSE {}      \* those that the map has
TypesOf(about) == CASE about = "held" -> {"coin", "vial", "rod", "ringOn", "letter"}
                    [] about = "laid" -> {"coin", "rod", "board", "bed"}
                    [] OTHER          -> {}
FirstType(x) == IF x = "door" THEN "closed" ELSE x

NoAttributes == [k \in {} |-> 0]
Attr(i, k) == IF k \in DOMAIN i.a THEN i.a[k] ELSE 0
Has(i, k) == k \in DOMAIN i.a
SetAttr(i, k, v) == [i EXCEPT !.a = (k :> v) @@ @]
RemoveAttribute(i, k) == [i EXCEPT !.a = [j \in DOMAIN @ \ {k} |-> @[j]]]

NewItem(type, count) ==
  LET i == [type |-> type, a |-> NoAttributes,
            n |-> IF type \in Fluid \/ (type \in Stackable /\ count # 0) THEN count ELSE 1]
  IN IF type \in WithCharges THEN SetAttr(i, "charges", IF count # 0 THEN count ELSE 2) ELSE i
(* Rings that are on are made as rings that are off.                         *)
CreateItem(type, count) ==
  NewItem(IF type = "ringOn" THEN "ringOff" ELSE type,
          IF type \in Stackable THEN Max({1, count}) ELSE count)
(* A fire that the map has burns for ever.                                   *)
CreateFromMap(type) == CreateItem(IF type = "fire" THEN "lasting" ELSE type, 0)

GetSubType(i) == IF i.type \in Fluid \cup Stackable THEN i.n
                 ELSE IF i.type \in WithCharges THEN Attr(i, "charges") ELSE i.n
SetSubType(i, n) == IF i.type \in WithCharges THEN SetAttr(i, "charges", n) ELSE [i EXCEPT !.n = n]

(* What is written of an item, and in which order.  A bed writes who sleeps *)
(* in it and nothing else.                                                  *)
SerializeAll(i) ==
  LET If(cond, k, v) == IF cond THEN <<<<k, v>>>> ELSE <<>>
  IN If(i.type \in Stackable \cup Fluid, "count", GetSubType(i) % Byte)
     \o If(Attr(i, "charges") # 0, "charges", Attr(i, "charges"))
     \o If(Attr(i, "action") # 0, "action", Attr(i, "action"))
     \o If(Attr(i, "text") # 0, "text", Attr(i, "text"))
     \o If(Has(i, "duration"), "duration", Attr(i, "duration"))
     \o If(Attr(i, "decaying") # 0, "decaying", Attr(i, "decaying"))
     \o If(Has(i, "hit"), "hit", Int8(Attr(i, "hit")))
     \o If(Has(i, "custom"), "custom", Attr(i, "custom"))
SerializeAttr(i) == SelectSeq(SerializeAll(i), LAMBDA p : p[1] # "action" \/ i.type \notin Stationary)
SerializeBed(i) == IF Attr(i, "sleeper") # 0 THEN <<<<"sleeper", Attr(i, "sleeper")>>>> ELSE <<>>
Serialize(i) == IF i.type = "bed" THEN SerializeBed(i) ELSE SerializeAttr(i)

(* True and pending decay (1, 2) are read as pending.                        *)
ReadNumbers(i, p) == CASE p[1] \in {"count", "charges"} -> SetSubType(i, p[2])
                       [] p[1] = "duration" -> SetAttr(i, "duration", Max({0, p[2]}))
                       [] p[1] = "decaying" -> SetAttr(i, "decaying", 2)
                       [] OTHER -> SetAttr(i, p[1], p[2])
ReadOthers(i, p) == SetAttr(i, p[1], p[2])
(* Of a sleeper that is no more the bed knows nothing.                       *)
ReadBed(i, p) == SetAttr(i, "sleeper", p[2])
UnserializeAttr(i, written) ==
  FoldLeft(LAMBDA r, p : CASE p[1] = "sleeper" -> ReadBed(r, p)
                           [] p[1] \in {"hit", "custom"} -> ReadOthers(r, p)
                           [] OTHER -> ReadNumbers(r, p), i, written)

-----------------------------------------------------------------------------
(* Where items are: has[c] are the items in place or container c, the first *)
(* in front.                                                                *)
Slots == {1, 2}
Slot == <<"hand", "back">>
Locker == <<"locker1", "locker2">>
Chest == <<"chest1", "chest2">>
SlotPlaces == {Slot[n] : n \in Slots}
Places(about) == IF about = "player"
                 THEN SlotPlaces \cup {Locker[d] : d \in Depots} \cup {Chest[d] : d \in Depots} \cup {"world"}
                 ELSE IF about = "held" THEN SlotPlaces \cup {"world"} ELSE {"tile", "world"}
Cells(about) == Places(about) \cup (Names(about) \cap Containers)

Parent(has, x) == CHOOSE c \in DOMAIN has : x \in Range(has[c])
(* The place that an item is in, through at most two bags                   *)
Root(has, c) == LET Up(d) == IF d \in Containers THEN Parent(has, d) ELSE d IN Up(Up(Up(c)))
Inside(has, x) ==
  LET Below(S) == S \cup UNION {Range(has[c]) : c \in S \cap DOMAIN has} IN Below(Below(Below({x})))
DepotOf(has, c) == {d \in Depots : Root(has, c) \in {Locker[d], Chest[d]}}

TakeOut(has, x) == [has EXCEPT ![Parent(has, x)] = SelectSeq(@, LAMBDA y : y # x)]
PutFirst(has, c, x) == [has EXCEPT ![c] = <<x>> \o @]

(* An item with all that is in it                                           *)
Tree(has, of) ==
  LET D == 0 .. 2
      tree[k \in D, x \in DOMAIN of] ==
        [item |-> of[x], name |-> x,
         in |-> IF x \in DOMAIN has /\ k > 0
                THEN [j \in 1 .. Len(has[x]) |-> tree[k - 1, has[x][j]]] ELSE <<>>]
  IN [c \in DOMAIN has |-> [j \in 1 .. Len(has[c]) |-> tree[2, has[c][j]]]]

Empty(about) == [c \in Cells(about) |-> <<>>]
InWorld(about, has) ==
  [has EXCEPT !["world"] = SetToSeq(Names(about) \ UNION {Range(has[c]) : c \in DOMAIN has})]

-----------------------------------------------------------------------------
(* The tables of a player: rows of an item's parent, its number and what    *)
(* was written of it, numbered level by level.                              *)

Row(st, pid, sid, x) ==
  [pid |-> pid, sid |-> sid, name |-> x, type |-> st.of[x].type,
   count |-> GetSubType(st.of[x]), attr |-> Serialize(st.of[x])]

(* With the contents of the outermost containers only                        *)
SaveItemsFlat(st, list) ==
  FlattenSeq([j \in 1 .. Len(list) |->
    LET x == list[j][2] IN
    <<Row(st, list[j][1], Base + j, x)>>
      \o IF x \in Containers THEN [i \in 1 .. Len(st.has[x]) |-> Row(st, Base + j, Base + 3 + i, st.has[x][i])]
         ELSE <<>>])
SaveItems(st, list) ==
  LET top == [j \in 1 .. Len(list) |-> Row(st, list[j][1], Base + j, list[j][2])]
      AddContents(rows, i) ==
        IF i > Len(rows) \/ rows[i].name \notin Containers THEN rows
        ELSE LET in == st.has[rows[i].name]
             IN rows \o [j \in 1 .. Len(in) |-> Row(st, rows[i].sid, Base + Len(rows) + j, in[j])]
  IN FoldLeft(AddContents, top, [i \in 1 .. Cardinality(DOMAIN st.of) |-> i])

ListOf(st, place, numbers) ==
  FlattenSeq([j \in 1 .. Len(numbers) |->
                [i \in 1 .. Len(st.has[place[numbers[j]]]) |-> <<numbers[j], st.has[place[numbers[j]]][i]>>]])
Ordered(S) == SetToSortSeq(S, <)

(* Depots are saved when a locker says that something came or went.          *)
NeedsSave(st) == st.save # {}
SavePlayerItems(st) ==
  LET items == SaveItems(st, ListOf(st, Slot, Ordered(Slots)))
  IN IF NeedsSave(st)
     THEN [items |-> items,
           lockers |-> SaveItems(st, ListOf(st, Locker, Ordered(st.lockers))),
           depots |-> SaveItems(st, ListOf(st, Chest, Ordered(st.chests)))]
     ELSE [st.db EXCEPT !.items = items]

(* Rows whose type there is no more make no item.                            *)
LoadItems(st, rows) == SelectSeq(rows, LAMBDA r : r.type \notin st.retired)

(* The last row first; a row whose parent was not made is dropped.           *)
LoadTable(st, rows, numbers, place) ==
  LET kept == LoadItems(st, rows)
      Put(r, row) ==
        LET of == (row.name :> UnserializeAttr(CreateItem(row.type, row.count), row.attr)) @@ r.of
            parents == {p \in Range(kept) : p.sid = row.pid}
        IN IF row.pid \in numbers
           THEN [r EXCEPT !.has = PutFirst(@, place[row.pid], row.name), !.of = of]
           ELSE IF parents = {} THEN r
           ELSE LET parent == CHOOSE x \in parents : TRUE
                IN IF parent.name \in Containers
                   THEN [r EXCEPT !.has = PutFirst(@, parent.name, row.name), !.of = of] ELSE r
  IN FoldLeft(Put, st, Reverse(kept))
LoadInventory(st) == LoadTable(st, st.db.items, Slots, Slot)
LoadLockers(st) == LoadTable(st, st.db.lockers, 0 .. Base - 1, Locker)
LoadDepots(st) == LoadTable(st, st.db.depots, 0 .. Base - 1, Chest)

TopNumbers(rows) == {rows[j].pid : j \in 1 .. Len(rows)} \cap Depots
LoadPlayer(st) ==
  LET bare == [st EXCEPT !.has = Empty(st.about)]
      r == LoadDepots(LoadLockers(LoadInventory(bare)))
      lockers == TopNumbers(st.db.lockers)
  IN [r EXCEPT !.has = InWorld(st.about, @), !.save = {},
               !.lockers = lockers, !.chests = lockers \cup TopNumbers(st.db.depots)]

-----------------------------------------------------------------------------
(* Houses.  A tile's items are written last first, the contents of a        *)
(* container too, and each is put in front when it is read.                 *)

Saved(st, x) == \/ st.of[x].type \notin Stationary
                \/ st.of[x].type \in Doors \cup {"board", "bed"}
                \/ st.of[x].type \in Containers /\ st.has[x] # <<>>
SaveItem(st, x) ==
  [name |-> x, type |-> st.of[x].type, attr |-> Serialize(st.of[x]),
   in |-> IF x \in DOMAIN st.has
          THEN Reverse([j \in 1 .. Len(st.has[x]) |->
                          [name |-> st.has[x][j], type |-> st.of[st.has[x][j]].type,
                           attr |-> Serialize(st.of[st.has[x][j]]), in |-> <<>>]])
          ELSE <<>>]
SaveTile(st) ==
  LET kept == SelectSeq(st.has["tile"], LAMBDA x : Saved(st, x))
  IN Reverse([j \in 1 .. Len(kept) |-> SaveItem(st, kept[j])])

(* What the map has on the tile: nothing that can be moved.                  *)
OnMap(about) == IF about = "house" THEN <<"door", "shelf", "board", "bed", "fire">> ELSE <<"thing">>
ParseTileArea(st) ==
  LET type(x) == IF st.about = "laid" THEN st.of["thing"].type ELSE FirstType(x)
      made(x) == LET i == CreateFromMap(type(x))
                 IN IF type(x) = "board" THEN [i EXCEPT !.a = st.map] ELSE i
      tile == SelectSeq(OnMap(st.about), LAMBDA x : type(x) \in Stationary)
      has == [Empty(st.about) EXCEPT !["tile"] = tile]
  IN [st EXCEPT !.has = IF "shelf" \in Range(tile) THEN [has EXCEPT !["shelf"] = st.shelf] ELSE has,
                !.of = [x \in DOMAIN @ |-> IF x \in Range(tile) THEN made(x) ELSE @[x]]]

LoadContainerTwice(st, row) ==
  FoldLeft(LAMBDA r, in :
             [r EXCEPT !.has = PutFirst(PutFirst(@, row.name, in.name), row.name, in.name)], st, row.in)
LoadContainer(st, row) ==
  FoldLeft(LAMBDA r, in :
             [r EXCEPT !.has = PutFirst(@, row.name, in.name),
                       !.of[in.name] = UnserializeAttr(CreateItem(in.type, 0), in.attr)],
           st, row.in)
Found(st, row) ==
  SelectSeq(st.has["tile"], LAMBDA x : \/ st.of[x].type = row.type
                                       \/ {st.of[x].type, row.type} \subseteq Doors)
LoadMoveable(st, row) ==
  LET r == LoadContainer(st, row)
  IN [r EXCEPT !.has = PutFirst(@, "tile", row.name),
               !.of[row.name] = UnserializeAttr(CreateItem(row.type, 0), row.attr)]
LoadStationary(st, row) ==
  LET found == Found(st, row) IN
  IF found = <<>> THEN st
  ELSE LET x == Head(found)
           r == LoadContainer(st, [row EXCEPT !.name = x])
       IN [r EXCEPT !.of[x] = [UnserializeAttr(@, row.attr) EXCEPT !.type = row.type]]
LoadItem(st, row) ==
  IF row.type \in Stationary THEN LoadStationary(st, row) ELSE LoadMoveable(st, row)
LoadHouseItems(st) == FoldLeft(LoadItem, st, st.db.tile)

(* The lists of a house: those that are not empty have a row.                *)
ListIds == {"guests", "subowners", "door"}
SaveHouseInfo(st) == {l \in ListIds : st.lists[l] # 0} \X {1}
SetAccessList(st, l, text) == [st EXCEPT !.lists[l] = text]
LoadHouseInfo(st) ==
  FoldSet(LAMBDA row, r : SetAccessList(r, row[1], row[2]),
          [st EXCEPT !.lists = [l \in ListIds |-> 0]], st.db.lists)
LoadMap(st) ==
  LET r == LoadHouseItems(LoadHouseInfo(ParseTileArea(st)))
  IN [r EXCEPT !.has = InWorld(st.about, @)]

-----------------------------------------------------------------------------
(* What the owner may expect to find: all that was there when it was last   *)
(* saved.  The ghosts: last is that, fresh that nothing happened since it   *)
(* was loaded, silent that something changed in a depot of which no locker  *)
(* was told, adrift that this was so when it was saved.                      *)
InHouse(about) == about \in {"house", "laid"}
Watched(about) == Places(about) \ {"world"}
Now(st) == LET t == Tree(st.has, st.of) IN [c \in Watched(st.about) |-> t[c]]

NoTables == [items |-> <<>>, lockers |-> <<>>, depots |-> <<>>]
Bare(about, type, text, action, shelf) ==
  [about |-> about, has |-> InWorld(about, Empty(about)),
   of |-> [x \in Names(about) \cup Books(about) |-> CreateItem(IF type = "none" THEN FirstType(x) ELSE type, 2)],
   map |-> [k \in {j \in {"text", "action", "unique"} : j = "text" => text # 0} |->
              CASE k = "text" -> text [] k = "action" -> action [] OTHER -> 1],
   shelf |-> shelf,
   save |-> {}, lockers |-> {}, chests |-> {}, retired |-> {},
   online |-> TRUE, fresh |-> FALSE, silent |-> FALSE, adrift |-> FALSE, left |-> 0,
   lists |-> [l \in ListIds |-> 0], lastLists |-> [l \in ListIds |-> 0],
   db |-> IF InHouse(about) THEN [tile |-> <<>>, lists |-> {}] ELSE NoTables,
   last |-> [c \in Watched(about) |-> <<>>]]
Furnished(st) ==
  CASE InHouse(st.about) -> LoadMap(st)
    [] st.about = "player" ->
         [st EXCEPT !.has = InWorld(st.about, [Empty(st.about) EXCEPT
                              !["hand"] = <<"box">>, !["box"] = <<"bag">>, !["bag"] = <<"coin">>])]
    [] st.about = "held" -> [st EXCEPT !.has = [Empty(st.about) EXCEPT !["hand"] = <<"thing">>]]
LaidDown(st) == IF st.about = "laid" /\ st.has["tile"] = <<>>
                THEN [st EXCEPT !.has = [Empty(st.about) EXCEPT !["tile"] = <<"thing">>]] ELSE st
Stored(st) ==
  IF InHouse(st.about) THEN [st EXCEPT !.db.tile = SaveTile(st), !.last = Now(st)] ELSE st
Start(about, type, map, action) ==
  Stored(LaidDown(Furnished(Bare(about, type, map.text, action, map.shelf))))

Empties == [text |-> 0, shelf |-> <<>>]
Init == \E about \in About : \E map \in IF InHouse(about) THEN Maps ELSE {Empties} :
          \/ TypesOf(about) = {} /\ s = Start(about, "none", map, 1)
          \/ \E type \in TypesOf(about) : s = Start(about, type, map, 1)

Changes == s.left < MaxChanges[s.about]
Changed(st) == [st EXCEPT !.fresh = FALSE, !.left = @ + 1]
(* An item changed where it lies: its depot is not told.                     *)
Silent(st, x) ==
  LET d == DepotOf(st.has, Parent(st.has, x))
  IN [st EXCEPT !.silent = @ \/ \E e \in d : e \notin st.save]
(* Something came to or went from these: the locker of a chest hears of it   *)
(* only when there is one.                                                   *)
Notify(st, cells) ==
  LET d == UNION {DepotOf(st.has, c) : c \in cells}
  IN [st EXCEPT !.save = @ \cup (d \cap st.lockers), !.silent = @ \/ d \ st.lockers # {}]

-----------------------------------------------------------------------------
(* Players                                                                  *)

CanHold(st, x, c) ==
  /\ c \notin Inside(st.has, x) /\ c # Parent(st.has, x)
  /\ c \in SlotPlaces => st.has[c] = <<>>
  /\ ~InHouse(st.about) => DepotOf(st.has, c) \cup DepotOf(st.has, Parent(st.has, x)) \subseteq st.lockers
  /\ c # "shelf" \/ x \notin Containers
  /\ st.retired # {} => Root(st.has, Parent(st.has, x)) # "world"     \* what is lost is lost
MoveItem(st, x, c) ==
  Notify([st EXCEPT !.has = PutFirst(TakeOut(@, x), c, x)], {c, Parent(st.has, x)})
Move(x, c) ==
  /\ s.online /\ Changes /\ s.about \in {"player", "house"}
  /\ s.of[x].type \notin Stationary /\ CanHold(s, x, c)
  /\ s' = Changed(MoveItem(s, x, c))

(* GetDepotLocker makes the locker, and the chest in it.                      *)
GetDepotLocker(st, d) == [st EXCEPT !.lockers = @ \cup {d}, !.chests = @ \cup {d}]
GetDepotChest(st, d) == [st EXCEPT !.chests = @ \cup {d}]
UseDepot(d) == /\ s.online /\ s.about = "player" /\ d \notin s.lockers
               /\ s' = GetDepotLocker([s EXCEPT !.fresh = FALSE], d)

(* A script puts something into a chest whose locker may not be there.        *)
ScriptUsesChest(x, d) ==
  /\ s.online /\ Changes /\ s.about = "player" /\ d \notin s.lockers
  /\ Parent(s.has, x) \in SlotPlaces
  /\ s' = Changed(MoveItem(GetDepotChest(s, d), x, Chest[d]))

(* A letter changes when it is written, without a word to what it is in.      *)
WriteItem(x, text) ==
  /\ s.online /\ Changes /\ s.of[x].type \in {"letter", "board"} /\ Parent(s.has, x) # "world"
  /\ s' = Changed(Silent([s EXCEPT !.of[x] = IF text = 0 THEN RemoveAttribute(@, "text")
                                             ELSE SetAttr(@, "text", text)], x))

(* Letters from elsewhere come to the locker of a player, or are put there   *)
(* while it is not online: it is loaded and saved for that.                   *)
Mail(d, ok) ==
  /\ s.about = "player" /\ Changes /\ "letter" \in Range(s.has["world"]) /\ s.retired = {}
  /\ \E sent \in {MoveItem(GetDepotLocker(IF s.online THEN s ELSE LoadPlayer(s), d),
                           "letter", Locker[d])} :
       s' = IF s.online THEN Changed(sent)
            ELSE IF ok THEN Changed([sent EXCEPT !.db = SavePlayerItems(sent), !.last = Now(sent), !.adrift = FALSE])
            ELSE Changed(s)

(* Scripts change what an item says of itself.                                *)
Values == [charges |-> {1, 5}, text |-> {1}, duration |-> {1}, decaying |-> {0, 1}, hit |-> {1, 3}]
SetAttribute(i, k, v) == SetAttr(i, k, v)
SetCustomAttribute(i, v) == SetAttr(i, "custom", v)
SetActionId(i, v) == SetAttr(i, "action", v)
SetItemCount(i, n) == [i EXCEPT !.n = n]
Script(x) ==
  /\ s.online /\ Changes /\ s.about \in {"held", "laid"}
  /\ \E i \in UNION {{SetAttribute(s.of[x], k, v) : v \in Values[k]} : k \in DOMAIN Values}
            \cup {SetCustomAttribute(s.of[x], 1), SetActionId(s.of[x], 1)}
            \cup {RemoveAttribute(s.of[x], k) : k \in DOMAIN s.of[x].a \ {"unique"}}
            \cup {SetItemCount(s.of[x], n) : n \in IF s.of[x].type \in Stackable \cup Fluid
                                                  THEN 1 .. MaxStack ELSE {}} :
       s' = Changed([s EXCEPT !.of[x] = i])

SavePlayer(st) == [st EXCEPT !.db = SavePlayerItems(st), !.last = Now(st), !.adrift = st.silent]
Save == s.online /\ ~InHouse(s.about) /\ s' = SavePlayer(s)
(* It is tried three times; a crash is when it is not saved at all.            *)
Logout(ok) == /\ s.online /\ ~InHouse(s.about)
              /\ s' = [IF ok THEN SavePlayer(s) ELSE s EXCEPT !.online = FALSE, !.fresh = FALSE]
Login == ~s.online /\ s' = [LoadPlayer(s) EXCEPT !.online = TRUE, !.fresh = ~s.adrift, !.silent = FALSE]
(* A type of item is given up between two starts of the server.               *)
Retire(x) == /\ ~s.online /\ s.retired = {} /\ s.about = "player" /\ x = "box"
             /\ s' = [s EXCEPT !.retired = {x}]

-----------------------------------------------------------------------------
(* Houses                                                                     *)
UseDoor == /\ s.about = "house" /\ Changes
           /\ s' = Changed([s EXCEPT !.of["door"].type = IF @ = "open" THEN "closed" ELSE "open"])
Sleep(player) == /\ s.about = "house" /\ Changes
                 /\ s' = Changed([s EXCEPT !.of["bed"] = SetAttr(@, "sleeper", player)])
ChangeList(l, text) == s.about = "house" /\ Changes /\ s' = Changed(SetAccessList(s, l, text))
(* The items are not saved when the lists could not be; a script saves the    *)
(* items of one house.                                                        *)
SaveInfo(st) == [st EXCEPT !.db.lists = SaveHouseInfo(st), !.lastLists = st.lists]
SaveHouseItems(st) == [st EXCEPT !.db.tile = SaveTile(st), !.last = Now(st), !.fresh = FALSE]
SaveHouse(st) == [st EXCEPT !.db.tile = SaveTile(st), !.last = Now(st), !.fresh = FALSE]
SaveMap(items) == InHouse(s.about) /\ s' = IF items THEN SaveHouseItems(SaveInfo(s)) ELSE SaveInfo(s)
ScriptSavesHouse == InHouse(s.about) /\ s' = SaveHouse(s)
Copies(st) ==
  IF st.about = "house" THEN Cardinality({j \in DOMAIN st.has["shelf"] : st.has["shelf"][j] = "book"}) ELSE 0
Restart ==
  /\ InHouse(s.about)
  /\ \E t \in {LoadMap(s)} : Copies(t) <= MaxCopies /\ s' = [t EXCEPT !.fresh = TRUE]

Next ==
  \/ \E x \in Names(s.about) :
       \/ \E c \in Cells(s.about) : Move(x, c)
       \/ \E d \in Depots : ScriptUsesChest(x, d)
       \/ \E text \in 0 .. 1 : WriteItem(x, text)
       \/ Script(x) \/ Retire(x)
  \/ \E d \in Depots : UseDepot(d) \/ \E ok \in BOOLEAN : Mail(d, ok)
  \/ \E ok \in BOOLEAN : Logout(ok) \/ SaveMap(ok)
  \/ Save \/ Login \/ UseDoor \/ ScriptSavesHouse \/ Restart
  \/ \E l \in ListIds : \E text \in 0 .. 1 : ChangeList(l, text)
  \/ \E player \in 0 .. 1 : Sleep(player)

Spec == Init /\ [][Next]_s

-----------------------------------------------------------------------------
(* Properties                                                                 *)

TypeOK ==
  /\ s.about \in About
  /\ DOMAIN s.has = Cells(s.about) /\ DOMAIN s.of = Names(s.about) \cup Books(s.about)
  /\ s.save \subseteq s.lockers /\ s.lockers \subseteq s.chests /\ s.chests \subseteq Depots

(* An item is in one place, however often it is saved and loaded: all but    *)
(* those that the map has in a shelf.                                        *)
OneOfEach ==
  \A x \in Names(s.about) :
    FoldSet(LAMBDA c, n : n + Cardinality({j \in DOMAIN s.has[c] : s.has[c][j] = x}), 0, DOMAIN s.has) = 1

(* How an item comes back: rings are off, decay is pending, and of things    *)
(* that cannot be moved the map says what the action and the unique id are.  *)
Expected(i) ==
  LET stays(k) == CASE k = "decaying" -> i.a[k] # 0 [] k = "text" -> i.a[k] # 0
                    [] k = "sleeper" -> i.a[k] # 0 [] OTHER -> TRUE
  IN [i EXCEPT !.type = IF @ = "ringOn" THEN "ringOff" ELSE @,
               !.a = [k \in {k \in DOMAIN @ : stays(k)} |-> IF k = "decaying" THEN 2 ELSE @[k]]]
ExpectedIn(tree) ==
  LET Keep(seq, Inner(_)) ==
        LET left == SelectSeq(seq, LAMBDA n : n.item.type \notin s.retired)
        IN [j \in 1 .. Len(left) |->
              [item |-> Expected(left[j].item), name |-> left[j].name, in |-> Inner(left[j].in)]]
      K0(seq) == <<>>
      K1(seq) == Keep(seq, K0)
      K2(seq) == Keep(seq, K1)
  IN [c \in DOMAIN tree |-> Keep(tree[c], K2)]

(* What scripts may say of an item without it being lost or mistaken: small  *)
(* numbers, charges of what has charges, of a bed the sleeper, and of what   *)
(* cannot be moved what the map does not say.                                *)
Fits(i) ==
  /\ Attr(i, "hit") = Int8(Attr(i, "hit"))
  /\ i.type \in WithCharges <=> Attr(i, "charges") # 0
  /\ IF i.type \in Stackable \cup Fluid THEN i.n <= MaxStack ELSE i.n = 1
  /\ i.type = "bed" => DOMAIN i.a \subseteq {"sleeper"}
  /\ i.type \in Stationary =>
       /\ Attr(i, "action") = IF i.type = "board" THEN Attr([a |-> s.map], "action") ELSE 0
       /\ Attr(i, "text") # 0 \/ i.type # "board" \/ "text" \notin DOMAIN s.map
AllFit == \A c \in DOMAIN s.last : \A j \in DOMAIN s.last[c] : Fits(s.last[c][j].item)

(* What a player owns and what is in a house is, after it was loaded, what   *)
(* it was when it was last saved: every item, where it was, in its order,    *)
(* with what is in it and what is said of it.  What the map has in a shelf   *)
(* is there besides, behind the rest, once more with each start.             *)
WithBooks(tree) ==
  [c \in DOMAIN tree |->
     [j \in DOMAIN tree[c] |->
        IF tree[c][j].name # "shelf" THEN tree[c][j]
        ELSE [tree[c][j] EXCEPT !.in = @ \o [k \in DOMAIN s.shelf |->
                [item |-> s.of[s.shelf[k]], name |-> s.shelf[k], in |-> <<>>]]]]]
LoadedAsSaved ==
  s.fresh => /\ s.lists = s.lastLists
             /\ AllFit => Now(s) = WithBooks(ExpectedIn(s.last))

-----------------------------------------------------------------------------
(* Stated, and not so                                                         *)

(* Whatever a script says of an item is kept.                                 *)
AllAttributesKept == s.fresh => Now(s) = ExpectedIn(s.last)
(* What changes in a depot is kept: neither a letter that is written there   *)
(* nor what a script puts into a chest is, unless something else was moved.   *)
DepotsKept == [][~s.online /\ s'.online /\ AllFit => Now(s') = ExpectedIn(s.last)]_s
(* What the map has in a shelf is there once: the first save of the house    *)
(* and the next start make two of it.                                        *)
BooksOnce == Copies(s) <= Len(s.shelf)
=============================================================================
