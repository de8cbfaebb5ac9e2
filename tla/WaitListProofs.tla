--------------------------- MODULE WaitListProofs ---------------------------
(***************************************************************************)
(* For any clients and any limit: the lists have one entry for each client *)
(* that waits and none for one that is online, the limit is kept, and no   *)
(* newcomer passes those who wait.                                         *)
(***************************************************************************)
EXTENDS WaitList, SequenceTheorems, FiniteSetTheorems, WellFoundedInduction, TLAPS

-----------------------------------------------------------------------------
(* Induction over the natural numbers, with the set for which it is shown. *)

LEMMA LeastElement ==
  ASSUME NEW T, T \subseteq Nat, T # {}
  PROVE  \E x \in T : \A y \in T : x <= y
<1>1. IsWellFoundedOn(OpToRel(<, Nat), Nat)
  BY NatLessThanWellFounded
<1>2. PICK x \in T : \A y \in T : ~ (<<y, x>> \in OpToRel(<, Nat))
  BY <1>1, WFMin
<1>3. \A y \in T : ~ (y < x)
  BY <1>2 DEF OpToRel
<1>. QED  BY <1>3

LEMMA InductionOnSet ==
  ASSUME NEW T, 0 \in T, \A n \in Nat : n \in T => n + 1 \in T
  PROVE  \A n \in Nat : n \in T
<1>. SUFFICES ASSUME Nat \ T # {} PROVE FALSE
  OBVIOUS
<1>1. PICK x \in Nat \ T : \A y \in Nat \ T : x <= y
  BY LeastElement
<1>2. x - 1 \in Nat /\ x - 1 < x
  BY <1>1
<1>. QED  BY <1>1, <1>2

-----------------------------------------------------------------------------
(* cleanupList: the definition of Kept has a solution, so that each of its  *)
(* values follows from the one before.                                      *)

LEMMA KeptDef ==
  ASSUME NEW list, Len(list) \in Nat
  PROVE  Kept(list) = [i \in 0 .. Len(list) |->
                         IF i = 0 THEN <<>>
                         ELSE IF Fresh(list[i]) THEN Append(Kept(list)[i - 1], list[i])
                         ELSE Kept(list)[i - 1]]
<1>. DEFINE Solves(f, n) == f = [i \in 0 .. n |->
                                   IF i = 0 THEN <<>>
                                   ELSE IF Fresh(list[i]) THEN Append(f[i - 1], list[i])
                                   ELSE f[i - 1]]
            T == {n \in Nat : \E f : Solves(f, n)}
<1>1. 0 \in T
  <2>1. Solves([i \in 0 .. 0 |-> <<>>], 0)
    OBVIOUS
  <2>. QED  BY <2>1
<1>2. ASSUME NEW n \in Nat, n \in T
      PROVE  n + 1 \in T
  <2>1. PICK f : Solves(f, n)
    BY <1>2
  <2>. DEFINE g == [i \in 0 .. n + 1 |->
                      IF i = n + 1
                        THEN IF Fresh(list[i]) THEN Append(f[n], list[i]) ELSE f[n]
                        ELSE f[i]]
              h == [i \in 0 .. n + 1 |->
                      IF i = 0 THEN <<>>
                      ELSE IF Fresh(list[i]) THEN Append(g[i - 1], list[i])
                      ELSE g[i - 1]]
  <2>2. ASSUME NEW i \in 0 .. n + 1
        PROVE  g[i] = h[i]
    <3>1. CASE i = n + 1
      <4>1. i # 0 /\ i - 1 = n /\ n \in 0 .. n + 1 /\ n # n + 1
        BY <3>1
      <4>2. g[i - 1] = f[n]
        BY <4>1
      <4>. QED  BY <3>1, <4>1, <4>2
    <3>2. CASE i = 0
      <4>1. f[0] = <<>>
        BY <2>1
      <4>. QED  BY <3>2, <4>1
    <3>3. CASE i \in 1 .. n
      <4>1. i - 1 \in 0 .. n + 1 /\ i - 1 # n + 1 /\ i # n + 1 /\ i # 0 /\ i \in 0 .. n
        BY <3>3
      <4>2. g[i - 1] = f[i - 1]
        BY <4>1
      <4>3. f[i] = IF Fresh(list[i]) THEN Append(f[i - 1], list[i]) ELSE f[i - 1]
        BY <2>1, <4>1
      <4>. QED  BY <4>1, <4>2, <4>3
    <3>. QED  BY <3>1, <3>2, <3>3
  <2>3. g = h
    BY <2>2
  <2>4. Solves(g, n + 1)
    BY <2>3
  <2>5. n + 1 \in Nat
    OBVIOUS
  <2>. HIDE DEF Solves, g, h
  <2>. QED  BY <2>4, <2>5
<1>. HIDE DEF T
<1>3. Len(list) \in T
  BY <1>1, <1>2, InductionOnSet
<1>4. PICK f : Solves(f, Len(list))
  BY <1>3 DEF T
<1>5. Solves(Kept(list), Len(list))
  <2>1. Kept(list) = CHOOSE g : Solves(g, Len(list))
    BY Zenon DEF Kept
  <2>. HIDE DEF Solves
  <2>. QED  BY <1>4, <2>1, Zenon
<1>. QED  BY <1>5
(* The entries of new are entries of the first n of old, each taken once. *)
TakenFrom(new, old, n) ==
  \E m \in [1 .. Len(new) -> 1 .. n] :
    /\ \A j, k \in 1 .. Len(new) : m[j] = m[k] => j = k
    /\ \A j \in 1 .. Len(new) : new[j] = old[m[j]]

(* What is kept of the first n entries are the fresh ones of them. *)
KeepsFresh(kept, list, n) ==
  /\ TakenFrom(kept, list, n)
  /\ \A j \in 1 .. Len(kept) : Fresh(kept[j])
  /\ \A i \in 1 .. n : Fresh(list[i]) => \E j \in 1 .. Len(kept) : kept[j] = list[i]

LEMMA KeepOneMore ==
  ASSUME NEW S, NEW list, NEW n \in Nat, NEW kept \in Seq(S), KeepsFresh(kept, list, n),
         list[n + 1] \in S
  PROVE  /\ Fresh(list[n + 1]) =>
              /\ Append(kept, list[n + 1]) \in Seq(S)
              /\ KeepsFresh(Append(kept, list[n + 1]), list, n + 1)
         /\ ~Fresh(list[n + 1]) => KeepsFresh(kept, list, n + 1)
<1>1. PICK m \in [1 .. Len(kept) -> 1 .. n] :
        /\ \A j, k \in 1 .. Len(kept) : m[j] = m[k] => j = k
        /\ \A j \in 1 .. Len(kept) : kept[j] = list[m[j]]
  BY DEF KeepsFresh, TakenFrom
<1>2. ASSUME Fresh(list[n + 1])
      PROVE  /\ Append(kept, list[n + 1]) \in Seq(S)
             /\ KeepsFresh(Append(kept, list[n + 1]), list, n + 1)
  <2>. DEFINE more == Append(kept, list[n + 1])
              mm == [j \in 1 .. Len(kept) + 1 |-> IF j = Len(kept) + 1 THEN n + 1 ELSE m[j]]
  <2>1. /\ more \in Seq(S) /\ Len(kept) \in Nat /\ Len(more) = Len(kept) + 1
        /\ more[Len(kept) + 1] = list[n + 1]
        /\ \A j \in 1 .. Len(kept) : more[j] = kept[j]
    BY AppendProperties, LenProperties
  <2>. HIDE DEF more
  <2>2. mm \in [1 .. Len(more) -> 1 .. n + 1]
    BY <2>1
  <2>3. \A j, k \in 1 .. Len(more) : mm[j] = mm[k] => j = k
    BY <1>1, <2>1
  <2>4. \A j \in 1 .. Len(more) : more[j] = list[mm[j]]
    BY <1>1, <2>1
  <2>5. TakenFrom(more, list, n + 1)
    BY <2>2, <2>3, <2>4 DEF TakenFrom
  <2>6. \A j \in 1 .. Len(more) : Fresh(more[j])
    BY <1>2, <2>1 DEF KeepsFresh
  <2>7. ASSUME NEW i \in 1 .. n + 1, Fresh(list[i])
        PROVE  \E j \in 1 .. Len(more) : more[j] = list[i]
    <3>1. CASE i = n + 1
      BY <2>1, <3>1
    <3>2. CASE i \in 1 .. n
      <4>1. PICK j \in 1 .. Len(kept) : kept[j] = list[i]
        BY <2>7, <3>2 DEF KeepsFresh
      <4>2. j \in 1 .. Len(more) /\ more[j] = list[i]
        BY <2>1, <4>1
      <4>. QED  BY <4>2
    <3>. QED  BY <3>1, <3>2
  <2>. QED  BY <2>1, <2>5, <2>6, <2>7 DEF KeepsFresh, more
<1>3. ASSUME ~Fresh(list[n + 1])
      PROVE  KeepsFresh(kept, list, n + 1)
  <2>1. m \in [1 .. Len(kept) -> 1 .. n + 1]
    BY LenProperties
  <2>2. TakenFrom(kept, list, n + 1)
    BY <1>1, <2>1 DEF TakenFrom
  <2>3. \A i \in 1 .. n + 1 : i \in 1 .. n \/ i = n + 1
    OBVIOUS
  <2>. QED  BY <1>3, <2>2, <2>3 DEF KeepsFresh
<1>. QED  BY <1>2, <1>3

(* cleanupList keeps what has not timed out, and nothing else. *)
LEMMA CleanupKeepsFresh ==
  ASSUME NEW S, NEW list \in Seq(S)
  PROVE  CleanupList(list) \in Seq(S) /\ KeepsFresh(CleanupList(list), list, Len(list))
<1>0. Len(list) \in Nat
  BY LenProperties
<1>. DEFINE K == Kept(list)
            T == {n \in Nat : n <= Len(list) => K[n] \in Seq(S) /\ KeepsFresh(K[n], list, n)}
<1>1. K = [i \in 0 .. Len(list) |->
             IF i = 0 THEN <<>>
             ELSE IF Fresh(list[i]) THEN Append(K[i - 1], list[i])
             ELSE K[i - 1]]
  BY <1>0, KeptDef
<1>. HIDE DEF K
<1>2. 0 \in T
  <2>1. K[0] = <<>>
    BY <1>0, <1>1
  <2>2. <<>> \in Seq(S) /\ Len(<<>>) = 0
    BY EmptySeq
  <2>3. TakenFrom(<<>>, list, 0)
    <3>. DEFINE none == [j \in {} |-> 0]
    <3>1. none \in [{} -> 1 .. 0]
      OBVIOUS
    <3>2. 1 .. Len(<<>>) = {}
      BY <2>2
    <3>. HIDE DEF none
    <3>. QED  BY <3>1, <3>2, Zenon DEF TakenFrom
  <2>4. KeepsFresh(<<>>, list, 0)
    BY <2>2, <2>3 DEF KeepsFresh
  <2>. QED  BY <2>1, <2>2, <2>4
<1>3. ASSUME NEW n \in Nat, n \in T
      PROVE  n + 1 \in T
  <2>. SUFFICES ASSUME n + 1 <= Len(list)
                PROVE  K[n + 1] \in Seq(S) /\ KeepsFresh(K[n + 1], list, n + 1)
    OBVIOUS
  <2>1. K[n] \in Seq(S) /\ KeepsFresh(K[n], list, n)
    BY <1>0, <1>3
  <2>2. list[n + 1] \in S
    BY <1>0, ElementOfSeq
  <2>3. K[n + 1] = IF Fresh(list[n + 1]) THEN Append(K[n], list[n + 1]) ELSE K[n]
    <3>1. n + 1 \in 0 .. Len(list) /\ n + 1 # 0 /\ (n + 1) - 1 = n
      BY <1>0
    <3>. QED  BY <1>1, <3>1
  <2>. QED  BY <2>1, <2>2, <2>3, KeepOneMore
<1>. HIDE DEF T
<1>4. Len(list) \in T
  BY <1>0, <1>2, <1>3, InductionOnSet
<1>. QED  BY <1>0, <1>4 DEF T, K, CleanupList

-----------------------------------------------------------------------------
(* The fresh entries of a list belong to different clients, *)
Single(list) ==
  \A i, j \in 1 .. Len(list) :
    (/\ list[i].guid = list[j].guid /\ list[i].guid # Garbage
     /\ Fresh(list[i]) /\ Fresh(list[j])) => i = j

(* none of which is in Out, *)
NoneOf(list, Out) == \A i \in 1 .. Len(list) : Fresh(list[i]) => list[i].guid \notin Out

(* and those of two lists to different ones. *)
Apart(p, w) ==
  \A i \in 1 .. Len(p), j \in 1 .. Len(w) :
    (Fresh(p[i]) /\ Fresh(w[j]) /\ p[i].guid = w[j].guid) => p[i].guid = Garbage

Orderly(p, w, Out) ==
  Single(p) /\ Single(w) /\ NoneOf(p, Out) /\ NoneOf(w, Out) /\ Apart(p, w)

AllFresh(list) == \A i \in 1 .. Len(list) : Fresh(list[i])
NoEntry(list, c) == \A i \in 1 .. Len(list) : list[i].guid # c

(* The two lists have the same part in it. *)
LEMMA OrderlyTurned ==
  ASSUME NEW p, NEW w, NEW Out, Orderly(p, w, Out)
  PROVE  Orderly(w, p, Out)
BY DEF Orderly, Apart

LEMMA OrderlyFewer ==
  ASSUME NEW p, NEW w, NEW Out, NEW Less, Less \subseteq Out, Orderly(p, w, Out)
  PROVE  Orderly(p, w, Less)
BY DEF Orderly, NoneOf

LEMMA TakenOrderly ==
  ASSUME NEW p, NEW w, NEW Out, NEW q, Orderly(p, w, Out), TakenFrom(q, p, Len(p))
  PROVE  Orderly(q, w, Out)
<1>1. PICK m \in [1 .. Len(q) -> 1 .. Len(p)] :
        /\ \A j, k \in 1 .. Len(q) : m[j] = m[k] => j = k
        /\ \A j \in 1 .. Len(q) : q[j] = p[m[j]]
  BY DEF TakenFrom
<1>2. \A j \in 1 .. Len(q) : m[j] \in 1 .. Len(p)
  BY <1>1
<1>3. Single(q)
  BY <1>1, <1>2 DEF Orderly, Single
<1>4. NoneOf(q, Out)
  BY <1>1, <1>2 DEF Orderly, NoneOf
<1>5. Apart(q, w)
  BY <1>1, <1>2 DEF Orderly, Apart
<1>. QED  BY <1>3, <1>4, <1>5 DEF Orderly

(* A new entry for a client that has none. *)
LEMMA AppendOrderly ==
  ASSUME NEW p \in Seq(Entry), NEW w \in Seq(Entry), NEW Out, Orderly(p, w, Out),
         NEW e \in Entry, NoEntry(p, e.guid), NoEntry(w, e.guid), e.guid \notin Out
  PROVE  Orderly(Append(p, e), w, Out)
<1>. DEFINE q == Append(p, e)
<1>1. /\ Len(p) \in Nat /\ Len(q) = Len(p) + 1 /\ q[Len(p) + 1] = e
      /\ \A j \in 1 .. Len(p) : q[j] = p[j]
  BY AppendProperties, LenProperties
<1>2. \A i \in 1 .. Len(q) : i \in 1 .. Len(p) \/ i = Len(p) + 1
  BY <1>1
<1>. HIDE DEF q
<1>3. Single(q)
  BY <1>1, <1>2 DEF Orderly, Single, NoEntry
<1>4. NoneOf(q, Out)
  BY <1>1, <1>2 DEF Orderly, NoneOf
<1>5. Apart(q, w)
  BY <1>1, <1>2 DEF Orderly, Apart, NoEntry
<1>. QED  BY <1>3, <1>4, <1>5 DEF Orderly, q

(* The entry of a client is taken out: it has no other. *)
LEMMA DropOrderly ==
  ASSUME NEW p \in Seq(Entry), NEW w \in Seq(Entry), NEW Out, Orderly(p, w, Out),
         AllFresh(p), AllFresh(w), NEW i \in 1 .. Len(p), p[i].guid # Garbage
  PROVE  /\ DropEntry(p, i) \in Seq(Entry)
         /\ Orderly(DropEntry(p, i), w, Out \cup {p[i].guid})
<1>. DEFINE q == DropEntry(p, i)
            m == [j \in 1 .. Len(p) - 1 |-> IF j < i THEN j ELSE j + 1]
<1>1. Len(p) \in Nat
  BY LenProperties
<1>2. /\ SubSeq(p, 1, i - 1) \in Seq(Entry) /\ Len(SubSeq(p, 1, i - 1)) = i - 1
      /\ \A j \in 1 .. i - 1 : SubSeq(p, 1, i - 1)[j] = p[j]
  BY <1>1, SubSeqProperties
<1>3. /\ SubSeq(p, i + 1, Len(p)) \in Seq(Entry)
      /\ Len(SubSeq(p, i + 1, Len(p))) = Len(p) - i
      /\ \A j \in 1 .. Len(p) - i : SubSeq(p, i + 1, Len(p))[j] = p[j + i]
  <2>. DEFINE b == SubSeq(p, i + 1, Len(p))
  <2>1. /\ b \in Seq(Entry)
        /\ Len(b) = IF i + 1 <= Len(p) THEN Len(p) - (i + 1) + 1 ELSE 0
        /\ \A j \in 1 .. Len(p) - (i + 1) + 1 : b[j] = p[(i + 1) + j - 1]
    BY <1>1, SubSeqProperties
  <2>2. Len(p) - (i + 1) + 1 = Len(p) - i
    BY <1>1
  <2>. HIDE DEF b
  <2>3. \A j \in 1 .. Len(p) - i : (i + 1) + j - 1 = j + i
    BY <1>1
  <2>4. \A j \in 1 .. Len(p) - i : b[j] = p[j + i]
    BY <2>1, <2>2, <2>3
  <2>5. Len(b) = Len(p) - i
    BY <1>1, <2>1
  <2>. QED  BY <2>1, <2>4, <2>5 DEF b
<1>4. /\ q \in Seq(Entry) /\ Len(q) = Len(p) - 1
      /\ \A j \in 1 .. Len(p) - 1 : q[j] = p[m[j]]
  <2>. DEFINE a == SubSeq(p, 1, i - 1)
              b == SubSeq(p, i + 1, Len(p))
  <2>1. q = a \o b
    BY DEF DropEntry, RemoveAt
  <2>2. a \in Seq(Entry) /\ b \in Seq(Entry) /\ Len(a) = i - 1 /\ Len(b) = Len(p) - i
    BY <1>2, <1>3
  <2>3. /\ \A j \in 1 .. i - 1 : a[j] = p[j]
        /\ \A j \in 1 .. Len(p) - i : b[j] = p[j + i]
    BY <1>2, <1>3
  <2>. HIDE DEF q, a, b
  <2>4. /\ q \in Seq(Entry) /\ Len(q) = Len(a) + Len(b)
        /\ \A j \in 1 .. Len(a) + Len(b) : q[j] = IF j <= Len(a) THEN a[j] ELSE b[j - Len(a)]
    BY <2>1, <2>2, ConcatProperties
  <2>5. Len(q) = Len(p) - 1 /\ i \in Nat
    BY <1>1, <2>2, <2>4
  <2>6. ASSUME NEW j \in 1 .. Len(p) - 1
        PROVE  q[j] = p[m[j]]
    <3>1. q[j] = IF j <= i - 1 THEN a[j] ELSE b[j - (i - 1)]
      BY <1>1, <2>2, <2>4, <2>5
    <3>2. CASE j < i
      <4>1. q[j] = a[j] /\ a[j] = p[j]
        BY <1>1, <2>3, <2>5, <3>1, <3>2
      <4>. QED  BY <3>2, <4>1
    <3>3. CASE ~ (j < i)
      <4>1. q[j] = b[j - (i - 1)] /\ j - (i - 1) \in 1 .. Len(p) - i
        BY <1>1, <2>5, <3>1, <3>3
      <4>2. b[j - (i - 1)] = p[(j - (i - 1)) + i] /\ (j - (i - 1)) + i = j + 1
        BY <1>1, <2>3, <4>1
      <4>. QED  BY <3>3, <4>1, <4>2
    <3>. QED  BY <3>2, <3>3
  <2>. QED  BY <2>4, <2>5, <2>6
<1>. HIDE DEF q
<1>5. m \in [1 .. Len(q) -> 1 .. Len(p)] /\ \A j \in 1 .. Len(q) : m[j] # i
  BY <1>1, <1>4
<1>6. \A j, k \in 1 .. Len(q) : m[j] = m[k] => j = k
  BY <1>1, <1>4
<1>7. TakenFrom(q, p, Len(p))
  BY <1>4, <1>5, <1>6 DEF TakenFrom
<1>8. Orderly(q, w, Out)
  BY <1>7, TakenOrderly
<1>. HIDE DEF m
<1>9. NoneOf(q, {p[i].guid})
  <2>. SUFFICES ASSUME NEW j \in 1 .. Len(q), q[j].guid = p[i].guid
                PROVE  FALSE
    BY DEF NoneOf
  <2>1. m[j] \in 1 .. Len(p) /\ m[j] # i /\ q[j] = p[m[j]]
    BY <1>4, <1>5
  <2>2. Fresh(p[m[j]]) /\ Fresh(p[i])
    BY <2>1 DEF AllFresh
  <2>. QED  BY <2>1, <2>2 DEF Orderly, Single
<1>10. NoneOf(w, {p[i].guid})
  BY DEF Orderly, Apart, NoneOf, AllFresh
<1>. QED  BY <1>4, <1>8, <1>9, <1>10 DEF Orderly, NoneOf, q

(* An entry that gets a GUID nobody has. *)
LEMMA GarbageOrderly ==
  ASSUME NEW p \in Seq(Entry), NEW w \in Seq(Entry), NEW Out, Orderly(p, w, Out),
         Out \subseteq Client, NEW i \in 1 .. Len(p)
  PROVE  WaitLonger(p, i) \in Seq(Entry) /\ Orderly(WaitLonger(p, i), w, Out)
<1>. DEFINE q == WaitLonger(p, i)
<1>1. /\ Len(p) \in Nat /\ DOMAIN p = 1 .. Len(p)
      /\ \A j \in 1 .. Len(p) : p[j] \in Entry
  BY LenProperties, ElementOfSeq
<1>2. /\ DOMAIN q = 1 .. Len(p)
      /\ q[i] = [p[i] EXCEPT !.guid = Garbage]
      /\ \A j \in 1 .. Len(p) : j # i => q[j] = p[j]
  BY <1>1 DEF WaitLonger
<1>3. q[i] \in Entry /\ q[i].guid = Garbage
  BY <1>1, <1>2 DEF Entry
<1>4. q \in [1 .. Len(p) -> Entry]
  BY <1>1, <1>2, <1>3 DEF WaitLonger
<1>5. q \in Seq(Entry) /\ Len(q) = Len(p)
  BY <1>1, <1>4, SeqDef, LenProperties
<1>. HIDE DEF q
<1>6. Single(q) /\ NoneOf(q, Out) /\ Apart(q, w)
  BY <1>2, <1>3, <1>5, WaitListAssumption DEF Orderly, Single, NoneOf, Apart
<1>. QED  BY <1>5, <1>6 DEF Orderly, q

(* Five seconds less for each entry: none becomes fresh. *)
LEMMA ElapseOrderly ==
  ASSUME NEW p \in Seq(Entry), NEW w \in Seq(Entry), NEW Out, Orderly(p, w, Out)
  PROVE  Elapse(p) \in Seq(Entry) /\ Orderly(Elapse(p), w, Out)
<1>. DEFINE q == Elapse(p)
<1>1. /\ Len(p) \in Nat /\ DOMAIN p = 1 .. Len(p)
      /\ \A j \in 1 .. Len(p) : p[j] \in Entry
  BY LenProperties, ElementOfSeq
<1>2. ASSUME NEW j \in 1 .. Len(p)
      PROVE  /\ q[j] \in Entry /\ q[j].guid = p[j].guid
             /\ Fresh(q[j]) => Fresh(p[j])
  <2>1. p[j] \in Entry /\ p[j].left \in Times /\ p[j].guid \in Client \cup {Garbage}
    BY <1>1 DEF Entry
  <2>2. q[j] = [p[j] EXCEPT !.left = IF p[j].left > 5 THEN p[j].left - 5 ELSE 0]
    BY <1>1 DEF Elapse
  <2>3. PICK t \in 0 .. 27 : p[j].left = 5 * t
    BY <2>1 DEF Times
  <2>4. q[j].left = (IF p[j].left > 5 THEN p[j].left - 5 ELSE 0) /\ q[j].guid = p[j].guid
    BY <2>1, <2>2 DEF Entry
  <2>5. q[j].left \in Times
    <3>1. CASE p[j].left > 5
      <4>1. t - 1 \in 0 .. 27 /\ q[j].left = 5 * (t - 1)
        BY <2>3, <2>4, <3>1
      <4>. QED  BY <4>1 DEF Times
    <3>2. CASE ~ (p[j].left > 5)
      <4>1. q[j].left = 5 * 0 /\ 0 \in 0 .. 27
        BY <2>4, <3>2
      <4>. QED  BY <4>1 DEF Times
    <3>. QED  BY <3>1, <3>2
  <2>6. q[j] \in Entry
    BY <2>1, <2>2, <2>4, <2>5 DEF Entry
  <2>7. Fresh(q[j]) => Fresh(p[j])
    BY <2>3, <2>4 DEF Fresh
  <2>. QED  BY <2>4, <2>6, <2>7
<1>3. q = [j \in 1 .. Len(p) |-> q[j]]
  BY <1>1 DEF Elapse
<1>4. q \in [1 .. Len(p) -> Entry]
  BY <1>2, <1>3
<1>5. q \in Seq(Entry) /\ Len(q) = Len(p)
  BY <1>1, <1>4, SeqDef, LenProperties
<1>. HIDE DEF q
<1>6. Single(q)
  BY <1>2, <1>5 DEF Orderly, Single
<1>7. NoneOf(q, Out)
  BY <1>2, <1>5 DEF Orderly, NoneOf
<1>8. Apart(q, w)
  BY <1>2, <1>5 DEF Orderly, Apart
<1>. QED  BY <1>5, <1>6, <1>7, <1>8 DEF Orderly, q

(* Both lists of a login, cleaned up. *)
LEMMA CleanedUp ==
  ASSUME NEW p \in Seq(Entry), NEW w \in Seq(Entry), NEW Out, Orderly(p, w, Out)
  PROVE  /\ CleanupList(p) \in Seq(Entry) /\ CleanupList(w) \in Seq(Entry)
         /\ AllFresh(CleanupList(p)) /\ AllFresh(CleanupList(w))
         /\ Orderly(CleanupList(p), CleanupList(w), Out)
<1>1. CleanupList(p) \in Seq(Entry) /\ KeepsFresh(CleanupList(p), p, Len(p))
  BY CleanupKeepsFresh
<1>2. CleanupList(w) \in Seq(Entry) /\ KeepsFresh(CleanupList(w), w, Len(w))
  BY CleanupKeepsFresh
<1>3. Orderly(CleanupList(p), w, Out)
  BY <1>1, TakenOrderly DEF KeepsFresh
<1>4. Orderly(CleanupList(w), CleanupList(p), Out)
  BY <1>2, <1>3, OrderlyTurned, TakenOrderly DEF KeepsFresh
<1>. QED  BY <1>1, <1>2, <1>4, OrderlyTurned DEF KeepsFresh, AllFresh

-----------------------------------------------------------------------------
(* findClient: the entry it finds is the client's, and there is none if it  *)
(* finds none.                                                              *)

LEMMA IndexOfClient ==
  ASSUME NEW list \in Seq(Entry), NEW c
  PROVE  /\ IndexOf(list, c) = 0 => NoEntry(list, c)
         /\ IndexOf(list, c) # 0 =>
              IndexOf(list, c) \in 1 .. Len(list) /\ list[IndexOf(list, c)].guid = c
<1>1. Len(list) \in Nat /\ DOMAIN list = 1 .. Len(list)
  BY LenProperties
<1>. DEFINE T == {i \in 1 .. Len(list) : list[i].guid = c}
            First(i) == list[i].guid = c /\ \A j \in 1 .. i - 1 : list[j].guid # c
<1>2. CASE T = {}
  <2>1. IndexOf(list, c) = 0
    BY <1>1, <1>2 DEF IndexOf
  <2>. QED  BY <1>2, <2>1 DEF NoEntry
<1>3. CASE T # {}
  <2>1. T \subseteq Nat
    BY <1>1
  <2>. HIDE DEF T
  <2>2. PICK i \in T : \A j \in T : i <= j
    BY <1>3, <2>1, LeastElement
  <2>3. i \in 1 .. Len(list) /\ list[i].guid = c
    BY <2>2 DEF T
  <2>4. \A j \in 1 .. i - 1 : list[j].guid # c
    BY <1>1, <2>2, <2>3 DEF T
  <2>5. First(i)
    BY <2>3, <2>4
  <2>6. IndexOf(list, c) = CHOOSE k \in 1 .. Len(list) : First(k)
    BY <1>1, <2>3 DEF IndexOf
  <2>. HIDE DEF First
  <2>7. IndexOf(list, c) \in 1 .. Len(list) /\ First(IndexOf(list, c))
    BY <2>3, <2>5, <2>6
  <2>. QED  BY <1>1, <2>7 DEF First
<1>. QED  BY <1>2, <1>3

(* What findClient answers for the lists prio and wait. *)
Finds(found, prio, wait, c) ==
  \/ found.list = "none" /\ NoEntry(prio, c) /\ NoEntry(wait, c)
  \/ /\ found.list = "priority" /\ found.index \in 1 .. Len(prio)
     /\ prio[found.index].guid = c
  \/ /\ found.list = "normal" /\ found.index \in 1 .. Len(wait)
     /\ wait[found.index].guid = c

LEMMA FindsClient ==
  ASSUME NEW prio \in Seq(Entry), NEW wait \in Seq(Entry), NEW c
  PROVE  /\ Finds(FindClient(prio, wait, c), prio, wait, c)
         /\ FindClient(prio, wait, c).slot \in Nat
         /\ ~ NewEntry(FindClient(prio, wait, c)) => FindClient(prio, wait, c).slot >= 1
<1>. DEFINE i == IndexOf(prio, c)
            j == IndexOf(wait, c)
            found == FindClient(prio, wait, c)
<1>1. Len(prio) \in Nat /\ Len(wait) \in Nat
  BY LenProperties
<1>2. /\ i = 0 => NoEntry(prio, c)
      /\ i # 0 => i \in 1 .. Len(prio) /\ prio[i].guid = c
  BY IndexOfClient
<1>3. /\ j = 0 => NoEntry(wait, c)
      /\ j # 0 => j \in 1 .. Len(wait) /\ wait[j].guid = c
  BY IndexOfClient
<1>4. CASE i # 0
  <2>1. found = [list |-> "priority", index |-> i, slot |-> SlotFromEnd(prio, i)]
    BY <1>1, <1>2, <1>4 DEF FindClient
  <2>. HIDE DEF i, found
  <2>2. SlotFromEnd(prio, i) \in Nat /\ SlotFromEnd(prio, i) >= 1
    BY <1>1, <1>2, <1>4 DEF SlotFromEnd
  <2>. QED  BY <1>2, <1>4, <2>1, <2>2 DEF Finds, found
<1>5. CASE i = 0 /\ j # 0
  <2>1. found = [list |-> "normal", index |-> j, slot |-> Len(prio) + SlotFromEnd(wait, j)]
    BY <1>1, <1>3, <1>5 DEF FindClient
  <2>. HIDE DEF i, j, found
  <2>2. /\ Len(prio) + SlotFromEnd(wait, j) \in Nat
        /\ Len(prio) + SlotFromEnd(wait, j) >= 1
    BY <1>1, <1>3, <1>5 DEF SlotFromEnd
  <2>. QED  BY <1>3, <1>5, <2>1, <2>2 DEF Finds, found
<1>6. CASE i = 0 /\ j = 0
  <2>1. found = [list |-> "none", index |-> 0, slot |-> 0]
    BY <1>6 DEF FindClient
  <2>. HIDE DEF i, j, found
  <2>. QED  BY <1>2, <1>3, <1>6, <2>1 DEF Finds, NewEntry, found
<1>. QED  BY <1>4, <1>5, <1>6

-----------------------------------------------------------------------------
(* The inductive invariant.  That no entry is of a privileged character is  *)
(* needed because such a one gets online without a look at the lists; that  *)
(* both are empty without a limit, because everybody does then.             *)

Inv ==
  /\ TypeOK
  /\ MaxPlayers = 0 => priorityWaitList = <<>> /\ waitList = <<>>
  /\ Orderly(priorityWaitList, waitList, Online \cup Privileged)
  /\ IsFiniteSet(Online)

LEMMA EmptyOrderly == ASSUME NEW Out PROVE Orderly(<<>>, <<>>, Out)
<1>1. Len(<<>>) = 0
  BY EmptySeq
<1>2. 1 .. Len(<<>>) = {}
  BY <1>1
<1>. QED  BY <1>2, Zenon DEF Orderly, Single, NoneOf, Apart

LEMMA ZeroIsATime == 0 \in Times
<1>1. 0 = 5 * 0 /\ 0 \in 0 .. 27
  OBVIOUS
<1>. QED  BY <1>1 DEF Times

LEMMA NothingTaken == ASSUME NEW S, NEW q \in Seq(S), TakenFrom(q, <<>>, 0) PROVE q = <<>>
<1>1. PICK m \in [1 .. Len(q) -> 1 .. 0] : TRUE
  BY DEF TakenFrom
<1>2. Len(q) \in Nat
  BY LenProperties
<1>3. Len(q) = 0
  <2>. SUFFICES ASSUME Len(q) # 0 PROVE FALSE
    OBVIOUS
  <2>1. 1 \in 1 .. Len(q)
    BY <1>2
  <2>2. m[1] \in 1 .. 0
    BY <1>1, <2>1
  <2>. QED  BY <2>2
<1>. QED  BY <1>3, EmptySeq

LEMMA CleanupOfNone == CleanupList(<<>>) = <<>>
<1>1. <<>> \in Seq(Entry) /\ Len(<<>>) = 0
  BY EmptySeq
<1>2. CleanupList(<<>>) \in Seq(Entry) /\ TakenFrom(CleanupList(<<>>), <<>>, 0)
  BY <1>1, CleanupKeepsFresh DEF KeepsFresh
<1>. QED  BY <1>2, NothingTaken

LEMMA InvInit == Init => Inv
<1>. SUFFICES ASSUME Init PROVE Inv
  OBVIOUS
<1>1. 0 \in Times
  BY ZeroIsATime
<1>2. TypeOK
  BY <1>1, EmptySeq DEF Init, TypeOK
<1>3. Orderly(priorityWaitList, waitList, Online \cup Privileged)
  BY EmptyOrderly DEF Init
<1>4. Online = {}
  BY DEF Init, Online
<1>. QED  BY <1>2, <1>3, <1>4, FS_EmptySet DEF Inv, Init

(* A client whose status becomes s is online then or not. *)
LEMMA OnlineAfter ==
  ASSUME TypeOK, NEW c \in Client, NEW s \in {"away", "waiting", "online"},
         status' = [status EXCEPT ![c] = s], IsFiniteSet(Online)
  PROVE  /\ status' \in [Client -> {"away", "waiting", "online"}]
         /\ Online' \subseteq Online \cup {c}
         /\ s # "online" => Online' \subseteq Online
         /\ IsFiniteSet(Online')
<1>1. status' \in [Client -> {"away", "waiting", "online"}]
  BY DEF TypeOK
<1>2. \A d \in Client : status'[d] = IF d = c THEN s ELSE status[d]
  BY DEF TypeOK
<1>3. Online' \subseteq Online \cup {c} /\ (s # "online" => Online' \subseteq Online)
  BY <1>2 DEF Online
<1>4. IsFiniteSet(Online \cup {c})
  BY FS_AddElement
<1>. QED  BY <1>1, <1>3, <1>4, FS_Subset

LEMMA WaitTimes ==
  ASSUME NEW slot \in Nat
  PROVE  GetWaitTime(slot) \in Times /\ GetTimeout(slot) \in Times
<1>1. GetWaitTime(slot) \in {5, 10, 20, 60, 120}
  BY DEF GetWaitTime
<1>2. GetTimeout(slot) \in {20, 25, 35, 75, 135}
  BY <1>1 DEF GetTimeout
<1>3. \A i \in 0 .. 27 : 5 * i \in Times
  BY DEF Times
<1>4. /\ 5 * 1 = 5 /\ 5 * 2 = 10 /\ 5 * 4 = 20 /\ 5 * 12 = 60 /\ 5 * 24 = 120
      /\ 5 * 5 = 25 /\ 5 * 7 = 35 /\ 5 * 15 = 75 /\ 5 * 27 = 135
  OBVIOUS
<1>5. {5, 10, 20, 25, 35, 60, 75, 120, 135} \subseteq Times
  BY <1>3, <1>4
<1>. QED  BY <1>1, <1>2, <1>5

LEMMA LetInKeeps ==
  ASSUME TypeOK, NEW c \in Client, LetIn(c), IsFiniteSet(Online)
  PROVE  /\ status' \in [Client -> {"away", "waiting", "online"}]
         /\ retryIn' \in [Client -> Times]
         /\ Online' \subseteq Online \cup {c} /\ IsFiniteSet(Online')
<1>1. 0 \in Times
  BY ZeroIsATime
<1>2. PICK s \in {"online", "away"} : status' = [status EXCEPT ![c] = s]
  BY DEF LetIn
<1>3. retryIn' \in [Client -> Times]
  BY <1>1 DEF LetIn, TypeOK
<1>. QED  BY <1>2, <1>3, OnlineAfter

LEMMA WaitKeeps ==
  ASSUME TypeOK, NEW c \in Client, NEW slot \in Nat, Wait(c, slot), IsFiniteSet(Online)
  PROVE  /\ status' \in [Client -> {"away", "waiting", "online"}]
         /\ retryIn' \in [Client -> Times]
         /\ Online' \subseteq Online /\ IsFiniteSet(Online')
<1>1. status' = [status EXCEPT ![c] = "waiting"]
  BY DEF Wait
<1>2. retryIn' \in [Client -> Times]
  BY WaitTimes DEF Wait, TypeOK
<1>. QED  BY <1>1, <1>2, OnlineAfter

(* The ways clientLogin ends: with no look at the lists, *)
PassesBy(c) == c \in Privileged /\ LetIn(c) /\ UNCHANGED <<priorityWaitList, waitList>>

(* directly, *)
GoesIn(c, prio, wait) ==
  /\ DirectAccess(prio, wait) /\ c \notin Privileged
  /\ LetIn(c) /\ priorityWaitList' = prio /\ waitList' = wait

(* with a new entry, *)
StartsToWait(c, prio, wait, found, slot) ==
  /\ ~DirectAccess(prio, wait) /\ NewEntry(found) /\ c \notin Privileged
  /\ Wait(c, slot)
  /\ \/ /\ waitList' = wait
        /\ priorityWaitList' = Append(prio, [left |-> GetTimeout(slot), guid |-> c])
     \/ /\ priorityWaitList' = prio
        /\ waitList' = Append(wait, [left |-> GetTimeout(slot), guid |-> c])

(* with the entry dropped, *)
GetsItsTurn(c, prio, wait, found) ==
  /\ ~DirectAccess(prio, wait) /\ ~NewEntry(found) /\ c \notin Privileged
  /\ CapacityFor(found.slot) /\ LetIn(c)
  /\ Replace(found, prio, wait,
             DropEntry(IF found.list = "priority" THEN prio ELSE wait, found.index))

(* or with the entry spoiled. *)
WaitsOn(c, prio, wait, found) ==
  /\ ~DirectAccess(prio, wait) /\ ~NewEntry(found) /\ c \notin Privileged
  /\ Wait(c, found.slot)
  /\ Replace(found, prio, wait,
             WaitLonger(IF found.list = "priority" THEN prio ELSE wait, found.index))

LEMMA LoginEnds ==
  ASSUME NEW c \in Client, Login(c),
         NEW prio, prio = CleanupList(priorityWaitList),
         NEW wait, wait = CleanupList(waitList),
         NEW found, found = FindClient(prio, wait, c),
         NEW slot, slot = (IF c \in premium THEN 0 ELSE Len(wait)) + Len(prio) + 1
  PROVE  /\ UNCHANGED premium
         /\ \/ PassesBy(c) \/ GoesIn(c, prio, wait)
            \/ StartsToWait(c, prio, wait, found, slot)
            \/ GetsItsTurn(c, prio, wait, found) \/ WaitsOn(c, prio, wait, found)
BY Zenon DEF Login, PassesBy, GoesIn, StartsToWait, GetsItsTurn, WaitsOn

(* clientLogin keeps the invariant. *)
LEMMA LoginStep ==
  ASSUME Inv, NEW c \in Client, Login(c)
  PROVE  Inv'
<1>. DEFINE prio == CleanupList(priorityWaitList)
            wait == CleanupList(waitList)
            found == FindClient(prio, wait, c)
            slot == (IF c \in premium THEN 0 ELSE Len(wait)) + Len(prio) + 1
            Out == Online \cup Privileged
<1>1. /\ TypeOK /\ IsFiniteSet(Online) /\ Orderly(priorityWaitList, waitList, Out)
      /\ priorityWaitList \in Seq(Entry) /\ waitList \in Seq(Entry)
  BY DEF Inv, TypeOK
<1>2. /\ prio \in Seq(Entry) /\ wait \in Seq(Entry)
      /\ AllFresh(prio) /\ AllFresh(wait) /\ Orderly(prio, wait, Out)
  BY <1>1, CleanedUp
<1>3. /\ UNCHANGED premium
      /\ \/ PassesBy(c) \/ GoesIn(c, prio, wait)
         \/ StartsToWait(c, prio, wait, found, slot)
         \/ GetsItsTurn(c, prio, wait, found) \/ WaitsOn(c, prio, wait, found)
  BY LoginEnds
<1>4. slot \in Nat /\ found.slot \in Nat /\ Finds(found, prio, wait, c)
  <2>1. Len(prio) \in Nat /\ Len(wait) \in Nat
    BY <1>2, LenProperties
  <2>. QED  BY <1>2, <2>1, FindsClient
<1>5. Garbage \notin Client /\ c # Garbage /\ Out \subseteq Client
  BY WaitListAssumption DEF Online
<1>. HIDE DEF prio, wait, found, slot
<1>6. MaxPlayers = 0 => prio = <<>> /\ wait = <<>>
  BY CleanupOfNone DEF Inv, prio, wait
<1>. SUFFICES /\ priorityWaitList' \in Seq(Entry) /\ waitList' \in Seq(Entry)
              /\ status' \in [Client -> {"away", "waiting", "online"}]
              /\ retryIn' \in [Client -> Times]
              /\ MaxPlayers = 0 => priorityWaitList' = <<>> /\ waitList' = <<>>
              /\ Orderly(priorityWaitList', waitList', Online' \cup Privileged)
              /\ IsFiniteSet(Online')
  BY <1>1, <1>3 DEF Inv, TypeOK
<1>7. CASE PassesBy(c)
  <2>1. Online' \cup Privileged \subseteq Out
    BY <1>1, <1>7, LetInKeeps DEF PassesBy
  <2>2. Orderly(priorityWaitList', waitList', Online' \cup Privileged)
    BY <1>1, <1>7, <2>1, OrderlyFewer DEF PassesBy
  <2>. QED  BY <1>1, <1>7, <2>2, LetInKeeps DEF PassesBy, Inv
<1>8. CASE GoesIn(c, prio, wait)
  <2>1. prio = <<>> /\ wait = <<>>
    BY <1>6, <1>8 DEF GoesIn, DirectAccess
  <2>. QED  BY <1>1, <1>2, <1>8, <2>1, LetInKeeps, EmptyOrderly DEF GoesIn
<1>9. CASE StartsToWait(c, prio, wait, found, slot)
  <2>. DEFINE e == [left |-> GetTimeout(slot), guid |-> c]
  <2>1. e \in Entry /\ e.guid = c
    BY <1>4, WaitTimes DEF Entry
  <2>2. NoEntry(prio, c) /\ NoEntry(wait, c)
    BY <1>4, <1>9 DEF Finds, StartsToWait, NewEntry
  <2>3. /\ status' \in [Client -> {"away", "waiting", "online"}]
        /\ retryIn' \in [Client -> Times]
        /\ Online' \subseteq Online /\ IsFiniteSet(Online')
    BY <1>1, <1>4, <1>9, WaitKeeps DEF StartsToWait
  <2>4. c \notin Online' \cup Privileged
    <3>1. status' = [status EXCEPT ![c] = "waiting"]
      BY <1>9 DEF StartsToWait, Wait
    <3>2. status'[c] # "online"
      BY <1>1, <3>1 DEF TypeOK
    <3>. QED  BY <1>9, <3>2 DEF StartsToWait, Online
  <2>. DEFINE Less == Online' \cup Privileged
  <2>5. Orderly(prio, wait, Less) /\ Orderly(wait, prio, Less)
    BY <1>2, <2>3, OrderlyFewer, OrderlyTurned
  <2>6. MaxPlayers # 0
    BY <1>9 DEF StartsToWait, DirectAccess
  <2>. HIDE DEF e, Less
  <2>7. CASE waitList' = wait /\ priorityWaitList' = Append(prio, e)
    <3>1. Orderly(Append(prio, e), wait, Less) /\ Append(prio, e) \in Seq(Entry)
      BY <1>2, <2>1, <2>2, <2>4, <2>5, AppendOrderly, AppendProperties DEF Less
    <3>. QED  BY <1>2, <2>3, <2>6, <2>7, <3>1 DEF Less
  <2>8. CASE priorityWaitList' = prio /\ waitList' = Append(wait, e)
    <3>1. Orderly(Append(wait, e), prio, Less) /\ Append(wait, e) \in Seq(Entry)
      BY <1>2, <2>1, <2>2, <2>4, <2>5, AppendOrderly, AppendProperties DEF Less
    <3>2. Orderly(prio, Append(wait, e), Less)
      BY <3>1, OrderlyTurned
    <3>. QED  BY <1>2, <2>3, <2>6, <2>8, <3>1, <3>2 DEF Less
  <2>. QED  BY <1>9, <2>7, <2>8 DEF StartsToWait, e
<1>10. CASE GetsItsTurn(c, prio, wait, found)
  <2>1. /\ status' \in [Client -> {"away", "waiting", "online"}]
        /\ retryIn' \in [Client -> Times]
        /\ Online' \cup Privileged \subseteq Out \cup {c} /\ IsFiniteSet(Online')
    BY <1>1, <1>10, LetInKeeps DEF GetsItsTurn
  <2>2. MaxPlayers # 0
    BY <1>10 DEF GetsItsTurn, DirectAccess
  <2>3. CASE found.list = "priority"
    <3>1. found.index \in 1 .. Len(prio) /\ prio[found.index].guid = c
      BY <1>4, <2>3 DEF Finds
    <3>2. /\ DropEntry(prio, found.index) \in Seq(Entry)
          /\ Orderly(DropEntry(prio, found.index), wait, Out \cup {c})
      BY <1>2, <1>5, <3>1, DropOrderly
    <3>3. Orderly(DropEntry(prio, found.index), wait, Online' \cup Privileged)
      BY <2>1, <3>2, OrderlyFewer
    <3>4. priorityWaitList' = DropEntry(prio, found.index) /\ waitList' = wait
      BY <1>10, <2>3 DEF GetsItsTurn, Replace
    <3>. QED  BY <1>2, <2>1, <2>2, <3>2, <3>3, <3>4
  <2>4. CASE found.list = "normal"
    <3>1. found.index \in 1 .. Len(wait) /\ wait[found.index].guid = c
      BY <1>4, <2>4 DEF Finds
    <3>2. /\ DropEntry(wait, found.index) \in Seq(Entry)
          /\ Orderly(DropEntry(wait, found.index), prio, Out \cup {c})
      BY <1>2, <1>5, <3>1, DropOrderly, OrderlyTurned
    <3>3. Orderly(prio, DropEntry(wait, found.index), Online' \cup Privileged)
      BY <2>1, <3>2, OrderlyFewer, OrderlyTurned
    <3>4. waitList' = DropEntry(wait, found.index) /\ priorityWaitList' = prio
      BY <1>10, <2>4 DEF GetsItsTurn, Replace
    <3>. QED  BY <1>2, <2>1, <2>2, <3>2, <3>3, <3>4
  <2>. QED  BY <1>4, <1>10, <2>3, <2>4 DEF Finds, GetsItsTurn, NewEntry
<1>11. CASE WaitsOn(c, prio, wait, found)
  <2>1. /\ status' \in [Client -> {"away", "waiting", "online"}]
        /\ retryIn' \in [Client -> Times]
        /\ Online' \cup Privileged \subseteq Out /\ IsFiniteSet(Online')
    BY <1>1, <1>4, <1>11, WaitKeeps DEF WaitsOn
  <2>2. MaxPlayers # 0
    BY <1>11 DEF WaitsOn, DirectAccess
  <2>3. CASE found.list = "priority"
    <3>1. found.index \in 1 .. Len(prio)
      BY <1>4, <2>3 DEF Finds
    <3>2. /\ WaitLonger(prio, found.index) \in Seq(Entry)
          /\ Orderly(WaitLonger(prio, found.index), wait, Out)
      BY <1>2, <1>5, <3>1, GarbageOrderly
    <3>3. Orderly(WaitLonger(prio, found.index), wait, Online' \cup Privileged)
      BY <2>1, <3>2, OrderlyFewer
    <3>4. priorityWaitList' = WaitLonger(prio, found.index) /\ waitList' = wait
      BY <1>11, <2>3 DEF WaitsOn, Replace
    <3>. QED  BY <1>2, <2>1, <2>2, <3>2, <3>3, <3>4
  <2>4. CASE found.list = "normal"
    <3>1. found.index \in 1 .. Len(wait)
      BY <1>4, <2>4 DEF Finds
    <3>2. /\ WaitLonger(wait, found.index) \in Seq(Entry)
          /\ Orderly(WaitLonger(wait, found.index), prio, Out)
      BY <1>2, <1>5, <3>1, GarbageOrderly, OrderlyTurned
    <3>3. Orderly(prio, WaitLonger(wait, found.index), Online' \cup Privileged)
      BY <2>1, <3>2, OrderlyFewer, OrderlyTurned
    <3>4. waitList' = WaitLonger(wait, found.index) /\ priorityWaitList' = prio
      BY <1>11, <2>4 DEF WaitsOn, Replace
    <3>. QED  BY <1>2, <2>1, <2>2, <3>2, <3>3, <3>4
  <2>. QED  BY <1>4, <1>11, <2>3, <2>4 DEF Finds, WaitsOn, NewEntry
<1>. QED  BY <1>3, <1>7, <1>8, <1>9, <1>10, <1>11

-----------------------------------------------------------------------------
(* The other steps. *)

LEMMA LogoutStep ==
  ASSUME Inv, NEW c \in Client, Logout(c)
  PROVE  Inv'
<1>1. /\ TypeOK /\ IsFiniteSet(Online)
      /\ Orderly(priorityWaitList, waitList, Online \cup Privileged)
  BY DEF Inv
<1>2. /\ status' \in [Client -> {"away", "waiting", "online"}]
      /\ Online' \subseteq Online /\ IsFiniteSet(Online')
  BY <1>1, OnlineAfter DEF Logout
<1>3. Orderly(priorityWaitList, waitList, Online' \cup Privileged)
  BY <1>1, <1>2, OrderlyFewer
<1>. QED  BY <1>1, <1>2, <1>3 DEF Inv, TypeOK, Logout

LEMMA GiveUpStep ==
  ASSUME Inv, NEW c \in Client, GiveUp(c)
  PROVE  Inv'
<1>1. /\ TypeOK /\ IsFiniteSet(Online)
      /\ Orderly(priorityWaitList, waitList, Online \cup Privileged)
  BY DEF Inv
<1>2. /\ status' \in [Client -> {"away", "waiting", "online"}]
      /\ Online' \subseteq Online /\ IsFiniteSet(Online')
  BY <1>1, OnlineAfter DEF GiveUp
<1>3. retryIn' \in [Client -> Times]
  BY <1>1, ZeroIsATime DEF GiveUp, TypeOK
<1>4. Orderly(priorityWaitList, waitList, Online' \cup Privileged)
  BY <1>1, <1>2, OrderlyFewer
<1>. QED  BY <1>1, <1>2, <1>3, <1>4 DEF Inv, TypeOK, GiveUp

LEMMA BuyPremiumStep ==
  ASSUME Inv, NEW c \in Client, BuyPremium(c)
  PROVE  Inv'
BY DEF Inv, TypeOK, BuyPremium, Online

LEMMA FiveSecondsLess ==
  ASSUME NEW t \in Times
  PROVE  (IF t > 5 THEN t - 5 ELSE 0) \in Times
<1>1. PICK i \in 0 .. 27 : t = 5 * i
  BY DEF Times
<1>2. CASE t > 5
  <2>1. i - 1 \in 0 .. 27 /\ t - 5 = 5 * (i - 1)
    BY <1>1, <1>2
  <2>. QED  BY <1>2, <2>1 DEF Times
<1>3. CASE ~ (t > 5)
  BY <1>3, ZeroIsATime
<1>. QED  BY <1>2, <1>3

LEMMA ElapseOfNone == Elapse(<<>>) = <<>>
<1>1. Len(<<>>) = 0 /\ <<>> \in Seq(Entry) /\ DOMAIN <<>> = 1 .. 0
  BY EmptySeq, LenProperties
<1>2. DOMAIN Elapse(<<>>) = 1 .. 0
  BY <1>1 DEF Elapse
<1>3. Elapse(<<>>) \in [1 .. 0 -> Entry]
  BY <1>1 DEF Elapse
<1>4. Elapse(<<>>) \in Seq(Entry) /\ Len(Elapse(<<>>)) = 0
  BY <1>2, <1>3, SeqDef, LenProperties
<1>. QED  BY <1>4, EmptySeq

LEMMA TickStep == Inv /\ Tick => Inv'
<1>. SUFFICES ASSUME Inv, Tick PROVE Inv'
  OBVIOUS
<1>. DEFINE Out == Online \cup Privileged
<1>1. /\ TypeOK /\ Orderly(priorityWaitList, waitList, Out)
      /\ priorityWaitList \in Seq(Entry) /\ waitList \in Seq(Entry)
  BY DEF Inv, TypeOK
<1>2. /\ Elapse(priorityWaitList) \in Seq(Entry)
      /\ Orderly(Elapse(priorityWaitList), waitList, Out)
  BY <1>1, ElapseOrderly
<1>3. /\ Elapse(waitList) \in Seq(Entry)
      /\ Orderly(Elapse(waitList), Elapse(priorityWaitList), Out)
  BY <1>1, <1>2, OrderlyTurned, ElapseOrderly
<1>4. Orderly(Elapse(priorityWaitList), Elapse(waitList), Out)
  BY <1>3, OrderlyTurned
<1>5. retryIn' \in [Client -> Times]
  BY <1>1, FiveSecondsLess DEF Tick, TypeOK
<1>6. Online' = Online
  BY DEF Tick, Online
<1>. QED  BY <1>1, <1>2, <1>3, <1>4, <1>5, <1>6, ElapseOfNone DEF Inv, TypeOK, Tick

LEMMA InvStep == Inv /\ [Next]_vars => Inv'
<1>. SUFFICES ASSUME Inv, [Next]_vars PROVE Inv'
  OBVIOUS
<1>1. CASE Tick
  BY <1>1, TickStep
<1>2. CASE \E c \in Client : Login(c) \/ Logout(c) \/ GiveUp(c) \/ BuyPremium(c)
  BY <1>2, LoginStep, LogoutStep, GiveUpStep, BuyPremiumStep
<1>3. CASE UNCHANGED vars
  BY <1>3 DEF vars, Inv, TypeOK, Online
<1>. QED  BY <1>1, <1>2, <1>3 DEF Next

(* In every reachable state the invariant above holds. *)
THEOREM Invariant == Spec => []Inv
BY InvInit, InvStep, PTL DEF Spec

(* The lists hold entries, and each character is away, waits or is online. *)
THEOREM TypeCorrect == Spec => []TypeOK
<1>1. Inv => TypeOK
  BY DEF Inv
<1>. QED  BY <1>1, Invariant, PTL

-----------------------------------------------------------------------------
(* The two lists as one. *)
LEMMA InLists ==
  ASSUME NEW p \in Seq(Entry), NEW w \in Seq(Entry)
  PROVE  /\ DOMAIN (p \o w) = 1 .. Len(p) + Len(w)
         /\ \A i \in 1 .. Len(p) + Len(w) :
              \/ i \in 1 .. Len(p) /\ (p \o w)[i] = p[i]
              \/ i > Len(p) /\ i - Len(p) \in 1 .. Len(w) /\ (p \o w)[i] = w[i - Len(p)]
         /\ \A i \in 1 .. Len(p) : (p \o w)[i] = p[i] /\ i \in 1 .. Len(p) + Len(w)
         /\ \A i \in 1 .. Len(w) :
              (p \o w)[i + Len(p)] = w[i] /\ i + Len(p) \in 1 .. Len(p) + Len(w)
<1>1. Len(p) \in Nat /\ Len(w) \in Nat
  BY LenProperties
<1>. DEFINE q == p \o w
<1>2. /\ q \in Seq(Entry) /\ Len(q) = Len(p) + Len(w)
      /\ \A i \in 1 .. Len(p) + Len(w) :
           q[i] = IF i <= Len(p) THEN p[i] ELSE w[i - Len(p)]
  BY ConcatProperties
<1>3. DOMAIN q = 1 .. Len(p) + Len(w)
  BY <1>2, LenProperties
<1>. HIDE DEF q
<1>4. ASSUME NEW i \in 1 .. Len(p) + Len(w)
      PROVE  \/ i \in 1 .. Len(p) /\ q[i] = p[i]
             \/ i > Len(p) /\ i - Len(p) \in 1 .. Len(w) /\ q[i] = w[i - Len(p)]
  BY <1>1, <1>2
<1>5. ASSUME NEW i \in 1 .. Len(p)
      PROVE  q[i] = p[i] /\ i \in 1 .. Len(p) + Len(w)
  BY <1>1, <1>2
<1>6. ASSUME NEW i \in 1 .. Len(w)
      PROVE  q[i + Len(p)] = w[i] /\ i + Len(p) \in 1 .. Len(p) + Len(w)
  <2>1. /\ i + Len(p) \in 1 .. Len(p) + Len(w) /\ ~ (i + Len(p) <= Len(p))
        /\ (i + Len(p)) - Len(p) = i
    BY <1>1
  <2>. QED  BY <1>2, <2>1
<1>. QED  BY <1>3, <1>4, <1>5, <1>6 DEF q

(* A character waits in one entry of one list, and none of an online one is *)
(* left: protocolgame.cpp, clientLogin with findClient and cleanupList.     *)
THEOREM OneEntryEach == Spec => []OneEntryPerClient
<1>1. Inv => OneEntryPerClient
  <2>. SUFFICES ASSUME Inv PROVE OneEntryPerClient
    OBVIOUS
  <2>. DEFINE p == priorityWaitList
              w == waitList
  <2>1. /\ p \in Seq(Entry) /\ w \in Seq(Entry) /\ Orderly(p, w, Online \cup Privileged)
        /\ Len(p) \in Nat /\ Len(w) \in Nat
    BY LenProperties DEF Inv, TypeOK
  <2>2. /\ DOMAIN Lists = 1 .. Len(p) + Len(w)
        /\ \A i \in 1 .. Len(p) + Len(w) :
             \/ i \in 1 .. Len(p) /\ Lists[i] = p[i]
             \/ i > Len(p) /\ i - Len(p) \in 1 .. Len(w) /\ Lists[i] = w[i - Len(p)]
    BY <2>1, InLists DEF Lists
  <2>. HIDE DEF p, w
  <2>3. ASSUME NEW i \in DOMAIN Lists, NEW j \in DOMAIN Lists,
               Lists[i].guid = Lists[j].guid, Lists[i].guid # Garbage,
               Fresh(Lists[i]), Fresh(Lists[j])
        PROVE  i = j
    <3>1. CASE i \in 1 .. Len(p) /\ Lists[i] = p[i] /\ j \in 1 .. Len(p) /\ Lists[j] = p[j]
      BY <2>1, <2>3, <3>1 DEF Orderly, Single
    <3>2. CASE /\ i \in 1 .. Len(p) /\ Lists[i] = p[i]
               /\ j - Len(p) \in 1 .. Len(w) /\ Lists[j] = w[j - Len(p)]
      BY <2>1, <2>3, <3>2 DEF Orderly, Apart
    <3>3. CASE /\ j \in 1 .. Len(p) /\ Lists[j] = p[j]
               /\ i - Len(p) \in 1 .. Len(w) /\ Lists[i] = w[i - Len(p)]
      BY <2>1, <2>3, <3>3 DEF Orderly, Apart
    <3>4. CASE /\ i - Len(p) \in 1 .. Len(w) /\ Lists[i] = w[i - Len(p)]
               /\ j - Len(p) \in 1 .. Len(w) /\ Lists[j] = w[j - Len(p)]
      <4>1. i - Len(p) = j - Len(p)
        BY <2>1, <2>3, <3>4 DEF Orderly, Single
      <4>. QED  BY <2>1, <2>2, <4>1
    <3>. QED  BY <2>2, <3>1, <3>2, <3>3, <3>4
  <2>4. ASSUME NEW i \in DOMAIN Lists, Fresh(Lists[i])
        PROVE  Lists[i].guid \notin Online
    BY <2>1, <2>2, <2>4 DEF Orderly, NoneOf
  <2>. QED  BY <2>3, <2>4 DEF OneEntryPerClient, Fresh
<1>. QED  BY <1>1, Invariant, PTL

-----------------------------------------------------------------------------
(* Only its own login gets a client online, if it goes in or has its turn.  *)
LEMMA LoginsAlone ==
  ASSUME Inv, [Next]_vars, NEW c \in Client \ Privileged, c \notin Online, c \in Online',
         NEW prio, prio = CleanupList(priorityWaitList),
         NEW wait, wait = CleanupList(waitList),
         NEW found, found = FindClient(prio, wait, c)
  PROVE  GoesIn(c, prio, wait) \/ GetsItsTurn(c, prio, wait, found)
<1>1. c \in Client /\ status[c] # "online" /\ status'[c] = "online"
  BY DEF Online
<1>2. /\ status \in [Client -> {"away", "waiting", "online"}] /\ TypeOK /\ IsFiniteSet(Online)
      /\ priorityWaitList \in Seq(Entry) /\ waitList \in Seq(Entry)
  BY DEF Inv, TypeOK
<1>3. Login(c)
  <2>1. CASE Tick \/ UNCHANGED vars
    BY <1>1, <2>1 DEF Tick, vars
  <2>2. ASSUME NEW d \in Client, Logout(d) \/ GiveUp(d) \/ BuyPremium(d)
        PROVE  FALSE
    BY <1>1, <1>2, <2>2 DEF Logout, GiveUp, BuyPremium
  <2>3. ASSUME NEW d \in Client, Login(d), d # c
        PROVE  FALSE
    <3>1. PICK s : status' = [status EXCEPT ![d] = s]
      BY <2>3, LoginEnds DEF PassesBy, GoesIn, StartsToWait, GetsItsTurn, WaitsOn, LetIn, Wait
    <3>. QED  BY <1>1, <1>2, <2>3, <3>1
  <2>. QED  BY <2>1, <2>2, <2>3 DEF Next
<1>4. ASSUME NEW slot, Wait(c, slot)
      PROVE  FALSE
  BY <1>1, <1>2, <1>4 DEF Wait
<1>. QED  BY <1>3, <1>4, LoginEnds DEF PassesBy, StartsToWait, WaitsOn

LEMMA LimitStep ==
  ASSUME Inv, [Next]_vars, MaxPlayers > 0, NEW c \in Client \ Privileged,
         c \notin Online, c \in Online'
  PROVE  Cardinality(Online) < MaxPlayers
<1>. DEFINE prio == CleanupList(priorityWaitList)
            wait == CleanupList(waitList)
            found == FindClient(prio, wait, c)
<1>1. GoesIn(c, prio, wait) \/ GetsItsTurn(c, prio, wait, found)
  BY LoginsAlone
<1>2. prio \in Seq(Entry) /\ wait \in Seq(Entry) /\ Cardinality(Online) \in Nat
  BY CleanedUp, FS_CardinalityType DEF Inv, TypeOK
<1>3. found.slot \in Nat /\ (~NewEntry(found) => found.slot >= 1)
  BY <1>2, FindsClient
<1>. HIDE DEF prio, wait, found
<1>4. MaxPlayers \in Nat
  BY WaitListAssumption
<1>5. CASE GoesIn(c, prio, wait)
  BY <1>4, <1>5 DEF GoesIn, DirectAccess
<1>6. CASE GetsItsTurn(c, prio, wait, found)
  BY <1>2, <1>3, <1>4, <1>6 DEF GetsItsTurn, CapacityFor
<1>. QED  BY <1>1, <1>5, <1>6

(* Nobody without privileges gets in when the server is full: clientLogin    *)
(* asks for room directly or for the slot that findClient counted.           *)
THEOREM LimitIsKept == Spec => LimitKept
<1>1. ASSUME Inv, [Next]_vars
      PROVE  [MaxPlayers > 0 =>
                \A c \in Client \ Privileged :
                  (c \notin Online /\ c \in Online') => Cardinality(Online) < MaxPlayers]_vars
  BY <1>1, LimitStep
<1>. QED  BY <1>1, Invariant, PTL DEF Spec, LimitKept

LEMMA BargingStep ==
  ASSUME Inv, [Next]_vars, MaxPlayers > 0, NEW c \in Client \ Privileged,
         c \notin Online, c \in Online', \E i \in DOMAIN Lists : Lists[i].left > 0
  PROVE  \E i \in DOMAIN Lists : Lists[i].guid = c /\ Lists[i].left > 0
<1>. DEFINE p == priorityWaitList
            w == waitList
            prio == CleanupList(p)
            wait == CleanupList(w)
            found == FindClient(prio, wait, c)
<1>1. GoesIn(c, prio, wait) \/ GetsItsTurn(c, prio, wait, found)
  BY LoginsAlone
<1>2. p \in Seq(Entry) /\ w \in Seq(Entry)
  BY DEF Inv, TypeOK
<1>3. /\ prio \in Seq(Entry) /\ KeepsFresh(prio, p, Len(p))
      /\ wait \in Seq(Entry) /\ KeepsFresh(wait, w, Len(w))
  BY <1>2, CleanupKeepsFresh
<1>4. Finds(found, prio, wait, c)
  BY <1>3, FindsClient
<1>5. /\ DOMAIN Lists = 1 .. Len(p) + Len(w)
      /\ \A i \in 1 .. Len(p) + Len(w) :
           \/ i \in 1 .. Len(p) /\ Lists[i] = p[i]
           \/ i > Len(p) /\ i - Len(p) \in 1 .. Len(w) /\ Lists[i] = w[i - Len(p)]
      /\ \A i \in 1 .. Len(p) : Lists[i] = p[i] /\ i \in 1 .. Len(p) + Len(w)
      /\ \A i \in 1 .. Len(w) :
           Lists[i + Len(p)] = w[i] /\ i + Len(p) \in 1 .. Len(p) + Len(w)
  BY <1>2, InLists DEF Lists
<1>. HIDE DEF p, w, prio, wait, found
<1>6. ~ (prio = <<>> /\ wait = <<>>)
  <2>. SUFFICES ASSUME prio = <<>>, wait = <<>> PROVE FALSE
    OBVIOUS
  <2>1. 1 .. Len(prio) = {} /\ 1 .. Len(wait) = {}
    BY EmptySeq
  <2>2. PICK i \in DOMAIN Lists : Fresh(Lists[i])
    BY DEF Fresh
  <2>3. \/ \E j \in 1 .. Len(p) : Fresh(p[j])
        \/ \E j \in 1 .. Len(w) : Fresh(w[j])
    BY <1>5, <2>2
  <2>. QED  BY <1>3, <2>1, <2>3 DEF KeepsFresh
<1>7. GetsItsTurn(c, prio, wait, found)
  BY <1>1, <1>6 DEF GoesIn, DirectAccess
<1>8. CASE found.list = "priority"
  <2>1. PICK j \in 1 .. Len(prio) : prio[j].guid = c
    BY <1>4, <1>8 DEF Finds
  <2>2. Fresh(prio[j]) /\ \E i \in 1 .. Len(p) : prio[j] = p[i]
    BY <1>3 DEF KeepsFresh, TakenFrom
  <2>3. PICK i \in 1 .. Len(p) : p[i].guid = c /\ Fresh(p[i])
    BY <2>1, <2>2
  <2>. QED  BY <1>5, <2>3 DEF Fresh
<1>9. CASE found.list = "normal"
  <2>1. PICK j \in 1 .. Len(wait) : wait[j].guid = c
    BY <1>4, <1>9 DEF Finds
  <2>2. Fresh(wait[j]) /\ \E i \in 1 .. Len(w) : wait[j] = w[i]
    BY <1>3 DEF KeepsFresh, TakenFrom
  <2>3. PICK i \in 1 .. Len(w) : w[i].guid = c /\ Fresh(w[i])
    BY <2>1, <2>2
  <2>4. Lists[i + Len(p)] = w[i] /\ i + Len(p) \in DOMAIN Lists
    BY <1>5
  <2>. QED  BY <2>3, <2>4 DEF Fresh
<1>. QED  BY <1>4, <1>7, <1>8, <1>9 DEF Finds, GetsItsTurn, NewEntry

(* While an entry that has not timed out is on a list, only a client with    *)
(* such an entry is let in: clientLogin after cleanupList.                   *)
THEOREM NobodyBarges == Spec => NoBarging
<1>1. ASSUME Inv, [Next]_vars
      PROVE  [MaxPlayers > 0 =>
                \A c \in Client \ Privileged :
                  (c \notin Online /\ c \in Online' /\ \E i \in DOMAIN Lists : Lists[i].left > 0)
                    => \E i \in DOMAIN Lists : Lists[i].guid = c /\ Lists[i].left > 0]_vars
  BY <1>1, BargingStep
<1>. QED  BY <1>1, Invariant, PTL DEF Spec, NoBarging
=============================================================================
