---------------------------- MODULE SessionProofs ----------------------------
(***************************************************************************)
(* For any number of connections and Player objects: a protocol and its    *)
(* player point to each other, references are counted right, and the       *)
(* network thread never parses a packet for a player that is gone.         *)
(***************************************************************************)
EXTENDS Session, SequenceTheorems, FunctionTheorems, FiniteSetTheorems, TLAPS

-----------------------------------------------------------------------------
(* How often x is in the list t of the dispatcher. *)

Count(t, x) == Cardinality({i \in DOMAIN t : t[i] = x})

LEMMA PlacesFinite ==
  ASSUME NEW t \in Seq(Task), NEW x
  PROVE  IsFiniteSet({i \in DOMAIN t : t[i] = x}) /\ Count(t, x) \in Nat
<1>1. Len(t) \in Nat /\ DOMAIN t = 1 .. Len(t)
  BY LenProperties
<1>2. IsFiniteSet(1 .. Len(t))
  BY <1>1, FS_Interval
<1>3. IsFiniteSet({i \in DOMAIN t : t[i] = x})
  BY <1>1, <1>2, FS_Subset
<1>. QED  BY <1>3, FS_CardinalityType DEF Count

LEMMA CountNone == ASSUME NEW x PROVE Count(<<>>, x) = 0
<1>1. {i \in DOMAIN <<>> : <<>>[i] = x} = {}
  <2>1. DOMAIN <<>> = {}
    OBVIOUS
  <2>. QED  BY <2>1
<1>. QED  BY <1>1, FS_EmptySet DEF Count

LEMMA CountAppend ==
  ASSUME NEW t \in Seq(Task), NEW x, NEW y \in Task
  PROVE  /\ Append(t, y) \in Seq(Task)
         /\ Count(Append(t, y), x) = Count(t, x) + (IF x = y THEN 1 ELSE 0)
<1>. DEFINE u == Append(t, y)
            S == {i \in DOMAIN t : t[i] = x}
            U == {i \in DOMAIN u : u[i] = x}
            n == Len(t) + 1
<1>1. /\ Len(t) \in Nat /\ DOMAIN t = 1 .. Len(t)
      /\ u \in Seq(Task) /\ Len(u) = n /\ u[n] = y
      /\ \A i \in 1 .. Len(t) : u[i] = t[i]
  BY LenProperties, AppendProperties
<1>2. DOMAIN u = 1 .. n
  BY <1>1, LenProperties
<1>3. IsFiniteSet(S) /\ n \notin S
  <2>1. IsFiniteSet(S)
    BY PlacesFinite
  <2>2. n \notin DOMAIN t
    BY <1>1
  <2>. QED  BY <2>1, <2>2
<1>0. Count(u, x) = Cardinality(U) /\ Count(t, x) = Cardinality(S)
  BY DEF Count
<1>. HIDE DEF u
<1>4. CASE x = y
  <2>1. U = S \cup {n}
    BY <1>1, <1>2, <1>4
  <2>2. Cardinality(S \cup {n}) = Cardinality(S) + 1
    BY <1>3, FS_AddElement
  <2>. QED  BY <1>0, <1>1, <1>4, <2>1, <2>2 DEF u
<1>5. CASE x # y
  <2>1. U = S
    BY <1>1, <1>2, <1>5
  <2>2. Cardinality(S) \in Nat
    BY <1>3, FS_CardinalityType
  <2>. HIDE DEF S, U
  <2>. QED  BY <1>0, <1>1, <1>5, <2>1, <2>2 DEF u
<1>. QED  BY <1>4, <1>5

LEMMA CountTail ==
  ASSUME NEW t \in Seq(Task), t # <<>>, NEW x
  PROVE  /\ Tail(t) \in Seq(Task) /\ Head(t) \in Task
         /\ Count(t, x) = Count(Tail(t), x) + (IF x = Head(t) THEN 1 ELSE 0)
<1>. DEFINE u == Tail(t)
            S == {i \in DOMAIN t : t[i] = x}
            U == {i \in DOMAIN u : u[i] = x}
            f == [i \in S \ {1} |-> i - 1]
<1>1. /\ Len(t) \in Nat /\ DOMAIN t = 1 .. Len(t) /\ Head(t) = t[1] /\ Len(t) > 0
      /\ u \in Seq(Task) /\ Len(u) = Len(t) - 1 /\ Head(t) \in Task
      /\ \A i \in 1 .. Len(u) : u[i] = t[i + 1]
  BY LenProperties, HeadTailProperties, EmptySeq
<1>2. DOMAIN u = 1 .. Len(t) - 1
  BY <1>1, LenProperties
<1>3. IsFiniteSet(S) /\ IsFiniteSet(S \ {1})
  BY PlacesFinite, FS_RemoveElement, ZenonT(60)
<1>4. Cardinality(S) = Cardinality(S \ {1}) + (IF x = Head(t) THEN 1 ELSE 0)
  <2>1. 1 \in S <=> x = Head(t)
    BY <1>1
  <2>2. Cardinality(S) \in Nat
    BY <1>3, FS_CardinalityType
  <2>3. Cardinality(S \ {1}) = IF 1 \in S THEN Cardinality(S) - 1 ELSE Cardinality(S)
    BY <1>3, FS_RemoveElement
  <2>. HIDE DEF S
  <2>. QED  BY <2>1, <2>2, <2>3
<1>. HIDE DEF u
<1>5. f \in Bijection(S \ {1}, U)
  <2>1. f \in [S \ {1} -> U]
    BY <1>1, <1>2
  <2>2. \A a, b \in S \ {1} : f[a] = f[b] => a = b
    BY <1>1
  <2>3. ASSUME NEW j \in U
        PROVE  \E i \in S \ {1} : f[i] = j
    <3>1. j + 1 \in S \ {1} /\ (j + 1) - 1 = j
      BY <1>1, <1>2
    <3>. QED  BY <3>1
  <2>. HIDE DEF f, S, U
  <2>. QED  BY <2>1, <2>2, <2>3, Fun_IsBij
<1>6. Cardinality(U) = Cardinality(S \ {1})
  BY <1>3, <1>5, FS_Bijection, Fun_ExistsBij
<1>. QED  BY <1>1, <1>4, <1>6 DEF Count, u

LEMMA WaitingIsCount == \A op, c : Waiting(op, c) = Count(tasks, ATask(op, c))
BY DEF Waiting, Count

LEMMA TaskIs ==
  /\ \A op \in {"login", "connect", "logout", "release"}, c \in Conn : ATask(op, c) \in Task
  /\ \A o1, o2, c, d : ATask(o1, c) = ATask(o2, d) <=> o1 = o2 /\ c = d
<1>1. \A op \in {"login", "connect", "logout", "release"}, c \in Conn : ATask(op, c) \in Task
  BY DEF ATask, Task
<1>2. \A o1, o2, c, d : ATask(o1, c) = ATask(o2, d) <=> o1 = o2 /\ c = d
  <2>. SUFFICES ASSUME NEW o1, NEW o2, NEW c, NEW d, ATask(o1, c) = ATask(o2, d)
                PROVE  o1 = o2 /\ c = d
    OBVIOUS
  <2>1. ATask(o1, c).op = o1 /\ ATask(o2, d).op = o2 /\ ATask(o1, c).c = c /\ ATask(o2, d).c = d
    BY DEF ATask
  <2>. QED  BY <2>1
<1>. QED  BY <1>1, <1>2

-----------------------------------------------------------------------------
(* The inductive invariant: what the properties say, and the facts that     *)
(* they rest on.                                                            *)

(* A protocol gets a player once: it is before its login, or has a login    *)
(* task, or waits for connect() in the scheduler or in the dispatcher.      *)
Pending(c) ==
  Waiting("login", c) + Waiting("connect", c) + (IF c \in timers THEN 1 ELSE 0)
    + (IF conn[c].receivedFirst THEN 0 ELSE 1)

OneLogin ==
  \A c \in Conn :
    /\ Pending(c) <= 1
    /\ Pending(c) = 1 => proto[c].player = NoPlayer /\ ~proto[c].acceptPackets
    /\ (c \in timers \/ Waiting("connect", c) > 0) => proto[c].connectTo \in Player

(* parsePacket goes on with the connection only if it is not closed, and    *)
(* keeps the lock.                                                          *)
ParsesOpen == net.at = "parse" => ~conn[net.c].closed

AcceptsWithPlayer ==
  \A c \in Conn : proto[c].acceptPackets => proto[c].released \/ proto[c].player # NoPlayer

ToReleaseOnce ==
  \A p \in Player :
    /\ players[p].toRelease <= 1
    /\ players[p].placed = "game" => players[p].toRelease = 0

Inv ==
  /\ TypeOK
  /\ ClientPaired /\ ReferencesCounted /\ OutputIsSent
  /\ OneLogin /\ ParsesOpen /\ AcceptsWithPlayer /\ ToReleaseOnce

-----------------------------------------------------------------------------
(* What a step does to the connections and to the list of the dispatcher:   *)
(* the tasks of lost are taken, those of gained added, the connections of   *)
(* first have received their first packet, and a connection is closed       *)
(* exactly when the release of its protocol is added.                       *)
Summary(lost, gained, first) ==
  /\ conn' \in [Conn -> ConnRec]
  /\ net' \in [at : {"parse", "end"}, c : Conn] \cup {Idle}
  /\ tasks' \in Seq(Task)
  /\ ParsesOpen'
  /\ \A x \in Task : Count(tasks', x) = Count(tasks, x) + (IF x \in gained THEN 1 ELSE 0)
                                         - (IF x \in lost THEN 1 ELSE 0)
  /\ \A d \in Conn :
       /\ conn'[d].closed <=> conn[d].closed \/ ATask("release", d) \in gained
       /\ ATask("release", d) \in gained => ~conn[d].closed
       /\ conn'[d].receivedFirst <=> conn[d].receivedFirst \/ d \in first

(* A connection in the state s, reached from connection d and the list t    *)
(* with what calls do: it is closed once, with a release at the end of t,   *)
(* or as it was.                                                            *)
Reached(s, d, t) ==
  /\ s.k \in ConnRec
  /\ s.k.receivedFirst = conn[d].receivedFirst
  /\ \/ s.k.closed = conn[d].closed /\ s.t = t
     \/ s.k.closed /\ ~conn[d].closed /\ s.t = Append(t, ATask("release", d))

StateOf(s) == s = [k |-> s.k, t |-> s.t]

LEMMA CloseReaches ==
  ASSUME NEW s, StateOf(s), NEW d \in Conn, NEW t, NEW force \in BOOLEAN, Reached(s, d, t)
  PROVE  Reached(Close(s, d, force), d, t) /\ StateOf(Close(s, d, force))
         /\ Close(s, d, force).k.closed
<1>1. CASE s.k.closed
  BY <1>1 DEF Close
<1>2. CASE ~s.k.closed
  <2>1. s.k.closed = conn[d].closed /\ s.t = t
    BY <1>2 DEF Reached
  <2>. DEFINE kk == [s.k EXCEPT !.closed = TRUE, !.open = @ /\ s.k.queue > 0 /\ ~force]
  <2>2. Close(s, d, force) = [k |-> kk, t |-> Append(s.t, ATask("release", d))]
    BY <1>2 DEF Close
  <2>3. s.k \in ConnRec
    BY DEF Reached
  <2>4. kk \in ConnRec /\ kk.closed /\ kk.receivedFirst = s.k.receivedFirst
    BY <2>3 DEF ConnRec
  <2>. HIDE DEF kk
  <2>. QED  BY <1>2, <2>1, <2>2, <2>4 DEF Reached, StateOf
<1>. QED  BY <1>1, <1>2

LEMMA SendReaches ==
  ASSUME NEW s, StateOf(s), NEW d \in Conn, NEW t, s.k.queue < MaxQueue, Reached(s, d, t)
  PROVE  Reached(Send(s), d, t) /\ StateOf(Send(s)) /\ Send(s).k.closed = s.k.closed
<1>1. CASE s.k.closed
  BY <1>1 DEF Send
<1>2. CASE ~s.k.closed
  <2>. DEFINE kk == [s.k EXCEPT !.queue = @ + 1]
  <2>1. Send(s) = [k |-> kk, t |-> s.t]
    BY <1>2 DEF Send, StateOf
  <2>2. s.k \in ConnRec
    BY DEF Reached
  <2>3. kk \in ConnRec /\ kk.closed = s.k.closed /\ kk.receivedFirst = s.k.receivedFirst
    BY <2>2, ConnectionAssumption DEF ConnRec
  <2>. HIDE DEF kk
  <2>. QED  BY <2>1, <2>3 DEF Reached, StateOf
<1>. QED  BY <1>1, <1>2

LEMMA DisconnectReaches ==
  ASSUME NEW s, StateOf(s), NEW d \in Conn, NEW t, s.k.queue < MaxQueue, Reached(s, d, t)
  PROVE  Reached(DisconnectClient(s, d), d, t) /\ StateOf(DisconnectClient(s, d))
BY SendReaches, CloseReaches DEF DisconnectClient

(* The list t is that of the dispatcher without lost and with more. *)
Based(t, lost, more) ==
  /\ t \in Seq(Task)
  /\ \A x \in Task : Count(t, x) = Count(tasks, x) + (IF x \in more THEN 1 ELSE 0)
                                   - (IF x \in lost THEN 1 ELSE 0)

LEMMA BasedOnTasks == ASSUME TypeOK PROVE Based(tasks, {}, {})
<1>1. tasks \in Seq(Task)
  BY DEF TypeOK, ConnTypeOK
<1>2. \A x \in Task : Count(tasks, x) \in Nat
  BY <1>1, PlacesFinite
<1>. QED  BY <1>1, <1>2 DEF Based

LEMMA BasedOnTail ==
  ASSUME TypeOK, tasks # <<>>
  PROVE  Based(Tail(tasks), {Head(tasks)}, {})
<1>1. tasks \in Seq(Task)
  BY DEF TypeOK, ConnTypeOK
<1>2. Tail(tasks) \in Seq(Task)
  BY <1>1, CountTail
<1>3. ASSUME NEW x \in Task
      PROVE  Count(Tail(tasks), x) = Count(tasks, x) - (IF x = Head(tasks) THEN 1 ELSE 0)
  <2>1. Count(tasks, x) = Count(Tail(tasks), x) + (IF x = Head(tasks) THEN 1 ELSE 0)
    BY <1>1, CountTail
  <2>2. Count(Tail(tasks), x) \in Nat
    BY <1>2, PlacesFinite
  <2>. QED  BY <2>1, <2>2
<1>4. \A x \in Task : Count(tasks, x) \in Nat
  BY <1>1, PlacesFinite
<1>. QED  BY <1>2, <1>3, <1>4 DEF Based

LEMMA BasedOnAppend ==
  ASSUME TypeOK, NEW y \in Task
  PROVE  Based(Append(tasks, y), {}, {y})
<1>1. tasks \in Seq(Task)
  BY DEF TypeOK, ConnTypeOK
<1>2. \A x \in Task : Count(tasks, x) \in Nat
  BY <1>1, PlacesFinite
<1>3. \A x : Count(Append(tasks, y), x) = Count(tasks, x) + (IF x = y THEN 1 ELSE 0)
  BY <1>1, CountAppend
<1>4. Append(tasks, y) \in Seq(Task)
  BY <1>1, CountAppend
<1>. QED  BY <1>2, <1>3, <1>4 DEF Based

(* No other connection is locked, or the handler does not parse any more. *)
NetGoesOn(d) ==
  /\ net' \in [at : {"parse", "end"}, c : Conn] \cup {Idle}
  /\ net'.at = "parse" => net' = net /\ ~Locked(d)

(* The step that takes connection d to s, and its record further to k. *)
LEMMA ReachedSummary ==
  ASSUME TypeOK, ParsesOpen, NEW d \in Conn, NEW s, NEW t, NEW lost, NEW more, NEW first,
         Reached(s, d, t), Based(t, lost, more),
         ATask("release", d) \notin lost, \A c \in Conn : ATask("release", c) \notin more,
         NEW k \in ConnRec, k.closed = s.k.closed,
         k.receivedFirst <=> s.k.receivedFirst \/ d \in first, first \subseteq {d},
         conn' = [conn EXCEPT ![d] = k], tasks' = s.t, NetGoesOn(d)
  PROVE  Summary(lost, more, first) \/ Summary(lost, more \cup {ATask("release", d)}, first)
<1>1. /\ conn \in [Conn -> ConnRec] /\ conn' \in [Conn -> ConnRec]
      /\ conn'[d] = k /\ \A c \in Conn \ {d} : conn'[c] = conn[c]
  BY DEF TypeOK, ConnTypeOK
<1>2. k.closed \in BOOLEAN /\ conn[d].closed \in BOOLEAN
  BY <1>1 DEF ConnRec
<1>3. ParsesOpen'
  <2>. SUFFICES ASSUME net'.at = "parse" PROVE ~conn'[net'.c].closed
    BY DEF ParsesOpen
  <2>1. net' = net /\ ~Locked(d) /\ net \in [at : {"parse", "end"}, c : Conn] \cup {Idle}
    BY DEF NetGoesOn
  <2>2. net # Idle
    BY <2>1 DEF Idle
  <2>3. net = [at |-> "parse", c |-> net.c] /\ net.c \in Conn
    BY <2>1, <2>2
  <2>4. net.c # d
    BY <2>1, <2>3 DEF Locked
  <2>. QED  BY <1>1, <2>1, <2>3, <2>4 DEF ParsesOpen
<1>4. \A c \in Conn : conn'[c].receivedFirst <=> conn[c].receivedFirst \/ c \in first
  BY <1>1 DEF Reached
<1>5. ATask("release", d) \in Task
  BY TaskIs
<1>6. CASE s.k.closed = conn[d].closed /\ s.t = t
  <2>1. \A c \in Conn : /\ conn'[c].closed <=> conn[c].closed \/ ATask("release", c) \in more
                        /\ ATask("release", c) \in more => ~conn[c].closed
    BY <1>1, <1>6
  <2>. QED  BY <1>1, <1>3, <1>4, <1>6, <2>1 DEF Summary, NetGoesOn, Based
<1>7. CASE s.k.closed /\ ~conn[d].closed /\ s.t = Append(t, ATask("release", d))
  <2>. DEFINE all == more \cup {ATask("release", d)}
  <2>1. \A c \in Conn : ATask("release", c) \in all <=> c = d
    BY TaskIs
  <2>2. \A c \in Conn : /\ conn'[c].closed <=> conn[c].closed \/ ATask("release", c) \in all
                        /\ ATask("release", c) \in all => ~conn[c].closed
    BY <1>1, <1>7, <2>1
  <2>3. tasks' \in Seq(Task)
    BY <1>5, <1>7, CountAppend DEF Based
  <2>4. ASSUME NEW x \in Task
        PROVE  Count(tasks', x) = Count(tasks, x) + (IF x \in all THEN 1 ELSE 0)
                                   - (IF x \in lost THEN 1 ELSE 0)
    <3>1. Count(tasks', x) = Count(t, x) + (IF x = ATask("release", d) THEN 1 ELSE 0)
      BY <1>5, <1>7, CountAppend DEF Based
    <3>2. Count(t, x) = Count(tasks, x) + (IF x \in more THEN 1 ELSE 0)
                                   - (IF x \in lost THEN 1 ELSE 0)
      BY DEF Based
    <3>3. Count(tasks, x) \in Nat
      BY PlacesFinite DEF TypeOK, ConnTypeOK
    <3>. QED  BY <3>1, <3>2, <3>3
  <2>. HIDE DEF all
  <2>5. Summary(lost, all, first)
    BY <1>1, <1>3, <1>4, <2>2, <2>3, <2>4 DEF Summary, NetGoesOn
  <2>. QED  BY <2>5 DEF all
<1>. QED  BY <1>6, <1>7 DEF Reached

-----------------------------------------------------------------------------
(* The handlers of the network thread. *)

LEMMA RecordReached ==
  ASSUME NEW d \in Conn, NEW t, NEW k \in ConnRec, k.closed = conn[d].closed,
         k.receivedFirst = conn[d].receivedFirst
  PROVE  Reached([k |-> k, t |-> t], d, t) /\ StateOf([k |-> k, t |-> t])
BY DEF Reached, StateOf

LEMMA HandledSummary ==
  ASSUME TypeOK, ParsesOpen, NEW c \in Conn, NEW s, Reached(s, c, tasks), Handled(s, c)
  PROVE  Summary({}, {}, {}) \/ Summary({}, {ATask("release", c)}, {})
<1>1. NetGoesOn(c)
  BY DEF NetGoesOn, Handled, Idle
<1>2. conn' = [conn EXCEPT ![c] = s.k] /\ tasks' = s.t
  BY DEF Handled
<1>3. s.k \in ConnRec
  BY DEF Reached
<1>. DEFINE none == {}
<1>4. /\ {} \cup {ATask("release", c)} = {ATask("release", c)}
      /\ \A x : x \notin none
  OBVIOUS
<1>5. Based(tasks, none, none) /\ none \subseteq {c}
  BY BasedOnTasks
<1>6. s.k.receivedFirst <=> s.k.receivedFirst \/ c \in none
  OBVIOUS
<1>. HIDE DEF none
<1>7. \/ Summary(none, none, none)
      \/ Summary(none, none \cup {ATask("release", c)}, none)
  BY <1>1, <1>2, <1>3, <1>4, <1>5, <1>6, ReachedSummary
<1>. QED  BY <1>4, <1>7 DEF none

LEMMA HandlersSummary ==
  ASSUME TypeOK, ParsesOpen, NEW c \in Conn, Handlers(c)
  PROVE  Summary({}, {}, {}) \/ Summary({}, {ATask("release", c)}, {})
<1>1. conn[c] \in ConnRec /\ State(c) = [k |-> conn[c], t |-> tasks]
  BY DEF TypeOK, ConnTypeOK, State
<1>2. Reached(State(c), c, tasks) /\ StateOf(State(c))
  BY <1>1, RecordReached
<1>. DEFINE done == [conn[c] EXCEPT !.reading = "no"]
<1>3. /\ ReadDone(c) = [k |-> done, t |-> tasks]
      /\ Reached(ReadDone(c), c, tasks) /\ StateOf(ReadDone(c))
  <2>1. ReadDone(c) = [k |-> done, t |-> tasks]
    BY <1>1 DEF ReadDone
  <2>2. done \in ConnRec /\ done.closed = conn[c].closed
        /\ done.receivedFirst = conn[c].receivedFirst
    BY <1>1 DEF ConnRec
  <2>. HIDE DEF done
  <2>. QED  BY <2>1, <2>2, RecordReached
<1>4. CASE Accept(c)
  <2>. DEFINE k == [conn[c] EXCEPT !.accepted = TRUE, !.open = TRUE, !.reading = "header"]
  <2>1. Handled([k |-> k, t |-> tasks], c)
    BY <1>1, <1>4 DEF Accept
  <2>2. k \in ConnRec /\ k.closed = conn[c].closed /\ k.receivedFirst = conn[c].receivedFirst
    BY <1>1 DEF ConnRec
  <2>. HIDE DEF k
  <2>. QED  BY <2>1, <2>2, RecordReached, HandledSummary
<1>5. CASE ReadFails(c)
  BY <1>3, <1>5, CloseReaches, HandledSummary DEF ReadFails
<1>6. CASE ReadOnClosed(c)
  BY <1>3, <1>6, HandledSummary DEF ReadOnClosed
<1>7. CASE ParseHeader(c)
  <2>. DEFINE k == [conn[c] EXCEPT !.reading = "packet"]
  <2>1. k \in ConnRec /\ k.closed = conn[c].closed /\ k.receivedFirst = conn[c].receivedFirst
    BY <1>1 DEF ConnRec
  <2>2. [State(c) EXCEPT !.k.reading = "packet"] = [k |-> k, t |-> tasks]
    BY <1>1
  <2>. HIDE DEF k
  <2>3. CASE Handled([State(c) EXCEPT !.k.reading = "packet"], c)
    BY <2>1, <2>2, <2>3, RecordReached, HandledSummary
  <2>4. CASE Handled(Close(ReadDone(c), c, FALSE), c)
    BY <1>3, <2>4, CloseReaches, HandledSummary
  <2>. QED  BY <1>7, <2>3, <2>4 DEF ParseHeader
<1>8. CASE ParsePacket(c)
  <2>1. conn' = [conn EXCEPT ![c].reading = "no"] /\ tasks' = tasks
        /\ net' = [at |-> "parse", c |-> c] /\ ~conn[c].closed
    BY <1>8 DEF ParsePacket, MayParse
  <2>2. conn' = [conn EXCEPT ![c] = done]
    BY <2>1 DEF TypeOK, ConnTypeOK
  <2>3. done \in ConnRec /\ done.closed = conn[c].closed
        /\ done.receivedFirst = conn[c].receivedFirst
    BY <1>1 DEF ConnRec
  <2>. HIDE DEF done
  <2>4. /\ conn' \in [Conn -> ConnRec]
        /\ \A d \in Conn :
             /\ conn'[d].closed = conn[d].closed
             /\ conn'[d].receivedFirst = conn[d].receivedFirst
    BY <2>2, <2>3 DEF TypeOK, ConnTypeOK
  <2>5. ParsesOpen'
    BY <2>1, <2>4 DEF ParsesOpen
  <2>6. Based(tasks, {}, {})
    BY BasedOnTasks
  <2>. QED  BY <2>1, <2>4, <2>5, <2>6 DEF Summary, Based
<1>9. CASE OnWriteOperation(c)
  <2>. DEFINE less == [conn[c] EXCEPT !.queue = @ - 1]
              k == LastWritten(less)
              none == [conn[c] EXCEPT !.queue = 0]
  <2>1. less \in ConnRec /\ less.closed = conn[c].closed
        /\ less.receivedFirst = conn[c].receivedFirst
    BY <1>1, <1>9, ConnectionAssumption DEF ConnRec, OnWriteOperation
  <2>2. k \in ConnRec /\ k.closed = conn[c].closed /\ k.receivedFirst = conn[c].receivedFirst
    <3>. HIDE DEF less
    <3>. QED  BY <2>1 DEF ConnRec, LastWritten
  <2>3. none \in ConnRec /\ none.closed = conn[c].closed
        /\ none.receivedFirst = conn[c].receivedFirst
    BY <1>1, ConnectionAssumption DEF ConnRec
  <2>4. /\ [State(c) EXCEPT !.k = LastWritten([conn[c] EXCEPT !.queue = @ - 1])] = [k |-> k, t |-> tasks]
        /\ [State(c) EXCEPT !.k.queue = 0] = [k |-> none, t |-> tasks]
    BY <1>1
  <2>. HIDE DEF k, none
  <2>5. CASE Handled([State(c) EXCEPT !.k = LastWritten([conn[c] EXCEPT !.queue = @ - 1])], c)
    BY <2>2, <2>4, <2>5, RecordReached, HandledSummary
  <2>6. CASE Handled(Close([State(c) EXCEPT !.k.queue = 0], c, TRUE), c)
    BY <2>3, <2>4, <2>6, RecordReached, CloseReaches, HandledSummary
  <2>. QED  BY <1>9, <2>5, <2>6 DEF OnWriteOperation
<1>10. CASE Timeout(c)
  BY <1>2, <1>10, CloseReaches, HandledSummary DEF Timeout
<1>. QED  BY <1>4, <1>5, <1>6, <1>7, <1>8, <1>9, <1>10 DEF Handlers

(* The end of parsePacket, after the protocol added the tasks of more. *)
LEMMA EndParseSummary ==
  ASSUME TypeOK, ParsesOpen, NEW c \in Conn, NEW s, NEW t, NEW more,
         Reached(s, c, t), StateOf(s), Based(t, {}, more),
         \A d \in Conn : ATask("release", d) \notin more, EndParse(s, c)
  PROVE  Summary({}, more, {c}) \/ Summary({}, more \cup {ATask("release", c)}, {c})
<1>. DEFINE k == [s.k EXCEPT !.reading = "header", !.receivedFirst = TRUE]
<1>1. s.k \in ConnRec
  BY DEF Reached
<1>2. k \in ConnRec /\ k.closed = s.k.closed /\ k.receivedFirst
  BY <1>1 DEF ConnRec
<1>3. [s EXCEPT !.k = [@ EXCEPT !.reading = "header", !.receivedFirst = TRUE]] = [k |-> k, t |-> s.t]
  BY DEF StateOf
<1>4. Handled([k |-> k, t |-> s.t], c)
  BY <1>3 DEF EndParse
<1>. HIDE DEF k
<1>5. conn' = [conn EXCEPT ![c] = k] /\ tasks' = s.t
  BY <1>4 DEF Handled
<1>6. NetGoesOn(c)
  BY <1>4 DEF Handled, NetGoesOn, Idle
<1>. QED  BY <1>2, <1>5, <1>6, ReachedSummary

-----------------------------------------------------------------------------
(* What a step with such a summary has to keep of the protocols and of the  *)
(* players for the invariant.                                               *)

(* Each client has a reference, the map one, and checkCreatures. *)
RefsCounted ==
  \A p \in Player :
    players[p].refs = (IF players[p].client # NoConn THEN 1 ELSE 0)
                        + (IF players[p].placed = "game" THEN 1 ELSE 0)
                        + (IF players[p].checked THEN 1 ELSE 0) + players[p].toRelease

SessionTypeOK ==
  /\ proto \in [Conn -> ProtoRec]
  /\ players \in [Player -> PlayerRec]
  /\ timers \subseteq Conn /\ buffered \subseteq Conn
  /\ chains \in 0 .. MaxChains

(* The way of d to a player: a login task is the first packet's, a connect  *)
(* task that of a timer, a timer that of a login, and the player comes with *)
(* the last of them.                                                        *)
LoginGoesOn(d, lost, gained, first) ==
  /\ ATask("login", d) \in gained => d \in first /\ ~conn[d].receivedFirst
  /\ ATask("connect", d) \in gained => d \in timers /\ d \notin timers'
  /\ d \in timers' =>
       d \in timers \/ (ATask("login", d) \in lost /\ proto'[d].connectTo \in Player)
  /\ \/ /\ proto'[d].player = proto[d].player
        /\ proto'[d].acceptPackets = proto[d].acceptPackets
     \/ ATask("login", d) \in lost /\ d \notin timers'
     \/ ATask("connect", d) \in lost
     \/ proto[d].player # NoPlayer
  /\ \/ proto'[d].connectTo = proto[d].connectTo
     \/ d \in timers' /\ proto'[d].connectTo \in Player
     \/ ATask("login", d) \in lost /\ d \notin timers'
     \/ ATask("connect", d) \in lost
  /\ {ATask("login", d), ATask("connect", d)} \cap lost \cap gained = {}

LEMMA CountsOf ==
  ASSUME TypeOK, NEW lost, NEW gained, NEW first, Summary(lost, gained, first),
         NEW op \in {"login", "connect", "logout", "release"}, NEW d \in Conn
  PROVE  /\ Waiting(op, d) \in Nat /\ Waiting(op, d)' \in Nat
         /\ Waiting(op, d)' = Waiting(op, d) + (IF ATask(op, d) \in gained THEN 1 ELSE 0)
                                 - (IF ATask(op, d) \in lost THEN 1 ELSE 0)
<1>1. ATask(op, d) \in Task
  BY TaskIs
<1>2. Waiting(op, d) = Count(tasks, ATask(op, d)) /\ Waiting(op, d)' = Count(tasks', ATask(op, d))
  BY DEF Waiting, Count
<1>3. tasks \in Seq(Task) /\ tasks' \in Seq(Task)
  BY DEF TypeOK, ConnTypeOK, Summary
<1>4. Count(tasks, ATask(op, d)) \in Nat /\ Count(tasks', ATask(op, d)) \in Nat
  BY <1>3, PlacesFinite
<1>. QED  BY <1>1, <1>2, <1>4 DEF Summary

LEMMA OneLoginKeeps ==
  ASSUME Inv, NEW lost, NEW gained, NEW first, Summary(lost, gained, first),
         \A d \in Conn : LoginGoesOn(d, lost, gained, first)
  PROVE  OneLogin'
<1>. SUFFICES ASSUME NEW d \in Conn
              PROVE  /\ Pending(d)' <= 1
                     /\ Pending(d)' = 1 => proto'[d].player = NoPlayer /\ ~proto'[d].acceptPackets
                     /\ (d \in timers' \/ Waiting("connect", d)' > 0)
                          => proto'[d].connectTo \in Player
  BY DEF OneLogin
<1>. DEFINE login == Waiting("login", d)
            connect == Waiting("connect", d)
            toLogin == IF ATask("login", d) \in gained THEN 1 ELSE 0
            toConnect == IF ATask("connect", d) \in gained THEN 1 ELSE 0
            noLogin == IF ATask("login", d) \in lost THEN 1 ELSE 0
            noConnect == IF ATask("connect", d) \in lost THEN 1 ELSE 0
            timer == IF d \in timers THEN 1 ELSE 0
            before == IF conn[d].receivedFirst THEN 0 ELSE 1
<1>1. TypeOK
  BY DEF Inv
<1>2. /\ login \in Nat /\ login + toLogin - noLogin \in Nat
      /\ Waiting("login", d)' = login + toLogin - noLogin
  BY <1>1, CountsOf
<1>3. /\ connect \in Nat /\ connect + toConnect - noConnect \in Nat
      /\ Waiting("connect", d)' = connect + toConnect - noConnect
  BY <1>1, CountsOf
<1>4. conn'[d].receivedFirst <=> conn[d].receivedFirst \/ d \in first
  BY DEF Summary
<1>5. /\ login + connect + timer + before <= 1
      /\ login + connect + timer + before = 1
           => proto[d].player = NoPlayer /\ ~proto[d].acceptPackets
      /\ (d \in timers \/ connect > 0) => proto[d].connectTo \in Player
  BY DEF Inv, OneLogin, Pending
<1>6. Pending(d)' = (login + toLogin - noLogin) + (connect + toConnect - noConnect)
                     + (IF d \in timers' THEN 1 ELSE 0) + (IF conn'[d].receivedFirst THEN 0 ELSE 1)
  BY <1>2, <1>3 DEF Pending
<1>7. LoginGoesOn(d, lost, gained, first)
  OBVIOUS
<1>. HIDE DEF login, connect
<1>. DEFINE sum == login + connect + timer + before
<1>12. sum \in Nat
  BY <1>2, <1>3
<1>8. (login + toLogin - noLogin) + (connect + toConnect - noConnect)
         + (IF d \in timers' THEN 1 ELSE 0) + (IF conn'[d].receivedFirst THEN 0 ELSE 1)
       <= login + connect + timer + before
  BY <1>2, <1>3, <1>4, <1>5, <1>7 DEF LoginGoesOn
<1>9. Pending(d)' <= 1 /\ Pending(d)' <= sum /\ sum <= 1
  BY <1>2, <1>3, <1>5, <1>6, <1>8
<1>10. ASSUME Pending(d)' = 1
       PROVE  proto'[d].player = NoPlayer /\ ~proto'[d].acceptPackets
  <2>1. sum = 1
    <3>. HIDE DEF sum
    <3>. QED  BY <1>9, <1>10, <1>12
  <2>2. proto[d].player = NoPlayer /\ ~proto[d].acceptPackets
    BY <1>5, <2>1
  <2>3. CASE ATask("login", d) \in lost /\ d \notin timers'
    BY <1>2, <1>3, <1>4, <1>5, <1>6, <1>7, <1>10, <2>3 DEF LoginGoesOn
  <2>4. CASE ATask("connect", d) \in lost
    BY <1>2, <1>3, <1>4, <1>5, <1>6, <1>7, <1>10, <2>4 DEF LoginGoesOn
  <2>. QED  BY <1>7, <2>2, <2>3, <2>4 DEF LoginGoesOn
<1>11. ASSUME d \in timers' \/ Waiting("connect", d)' > 0
       PROVE  proto'[d].connectTo \in Player
  <2>1. CASE ATask("connect", d) \in lost
    BY <1>2, <1>3, <1>5, <1>7, <1>11, <2>1 DEF LoginGoesOn
  <2>2. CASE proto'[d].connectTo = proto[d].connectTo /\ ATask("connect", d) \notin lost
    <3>1. \/ d \in timers \/ connect > 0
          \/ ATask("login", d) \in lost /\ proto'[d].connectTo \in Player
      BY <1>3, <1>7, <1>11, <2>2 DEF LoginGoesOn
    <3>. QED  BY <1>5, <2>2, <3>1
  <2>3. CASE ATask("login", d) \in lost /\ d \notin timers'
    BY <1>2, <1>3, <1>5, <1>7, <1>11, <2>3 DEF LoginGoesOn
  <2>. QED  BY <1>7, <2>1, <2>2, <2>3 DEF LoginGoesOn
<1>. QED  BY <1>9, <1>10, <1>11

LEMMA Keeps ==
  ASSUME Inv, NEW lost, NEW gained, NEW first, Summary(lost, gained, first),
         \A d \in Conn : LoginGoesOn(d, lost, gained, first),
         \A d \in Conn : /\ proto'[d].released <=> proto[d].released \/ ATask("release", d) \in lost
                         /\ ~ (ATask("release", d) \in lost /\ ATask("release", d) \in gained),
         SessionTypeOK', ClientPaired', RefsCounted', OutputIsSent', AcceptsWithPlayer',
         ToReleaseOnce'
  PROVE  Inv'
<1>1. TypeOK'
  BY DEF TypeOK, SessionTypeOK, ConnTypeOK, Summary
<1>2. ReleasedOnce'
  <2>. SUFFICES ASSUME NEW d \in Conn
                PROVE  Waiting("release", d)' + (IF proto'[d].released THEN 1 ELSE 0)
                         = IF conn'[d].closed THEN 1 ELSE 0
    BY DEF ReleasedOnce
  <2>. DEFINE waits == Waiting("release", d)
              ATaskOf == ATask("release", d)
  <2>1. /\ waits \in Nat /\ waits' \in Nat
        /\ waits' = waits + (IF ATaskOf \in gained THEN 1 ELSE 0)
                      - (IF ATaskOf \in lost THEN 1 ELSE 0)
    BY CountsOf DEF Inv
  <2>2. waits + (IF proto[d].released THEN 1 ELSE 0) = IF conn[d].closed THEN 1 ELSE 0
    BY DEF Inv, ReferencesCounted, ReleasedOnce
  <2>3. /\ conn'[d].closed <=> conn[d].closed \/ ATaskOf \in gained
        /\ ATaskOf \in gained => ~conn[d].closed
    BY DEF Summary
  <2>4. /\ proto'[d].released <=> proto[d].released \/ ATaskOf \in lost
        /\ ~ (ATaskOf \in lost /\ ATaskOf \in gained)
    OBVIOUS
  <2>. HIDE DEF waits, ATaskOf
  <2>5. waits' + (IF proto'[d].released THEN 1 ELSE 0) = IF conn'[d].closed THEN 1 ELSE 0
    BY <2>1, <2>2, <2>3, <2>4
  <2>. QED  BY <2>5 DEF waits
<1>3. ReferencesCounted'
  BY <1>2 DEF ReferencesCounted, RefsCounted
<1>. QED  BY <1>1, <1>3, OneLoginKeeps DEF Inv, Summary

LEMMA QuietKeeps ==
  ASSUME Inv, NEW gained, NEW first, Summary({}, gained, first),
         UNCHANGED <<proto, players, timers>>,
         buffered' \subseteq Conn, chains' \in 0 .. MaxChains, OutputIsSent',
         \A d \in Conn : /\ ATask("login", d) \in gained => d \in first /\ ~conn[d].receivedFirst
                         /\ ATask("connect", d) \notin gained
  PROVE  Inv'
<1>. DEFINE lost == {}
<1>1. Summary(lost, gained, first) /\ \A x : x \notin lost
  OBVIOUS
<1>. HIDE DEF lost
<1>2. \A d \in Conn : LoginGoesOn(d, lost, gained, first)
  BY <1>1 DEF LoginGoesOn
<1>3. SessionTypeOK' /\ ClientPaired' /\ RefsCounted' /\ AcceptsWithPlayer' /\ ToReleaseOnce'
  BY DEF Inv, TypeOK, SessionTypeOK, ClientPaired, ReferencesCounted, RefsCounted,
         AcceptsWithPlayer, ToReleaseOnce
<1>. QED  BY <1>1, <1>2, <1>3, Keeps

LEMMA HandlersStep ==
  ASSUME Inv, NEW c \in Conn, Handlers(c), Quiet
  PROVE  Inv'
<1>1. TypeOK /\ ParsesOpen
  BY DEF Inv
<1>2. /\ UNCHANGED <<proto, players, timers>>
      /\ buffered' \subseteq Conn /\ chains' \in 0 .. MaxChains /\ OutputIsSent'
  BY DEF Inv, TypeOK, Quiet, OutputIsSent
<1>3. \A d \in Conn : /\ ATask("login", d) # ATask("release", c)
                      /\ ATask("connect", d) # ATask("release", c)
  BY TaskIs
<1>4. CASE Summary({}, {}, {})
  BY <1>2, <1>4, QuietKeeps
<1>5. CASE Summary({}, {ATask("release", c)}, {})
  BY <1>2, <1>3, <1>5, QuietKeeps
<1>. QED  BY <1>1, <1>4, <1>5, HandlersSummary

LEMMA ParsedStep ==
  ASSUME Inv, NEW c \in Conn, RecvFirstMessage(c) \/ RecvMessage(c)
  PROVE  Inv'
<1>1. TypeOK /\ ParsesOpen
  BY DEF Inv
<1>2. /\ UNCHANGED <<proto, players, timers>>
      /\ buffered' \subseteq Conn /\ chains' \in 0 .. MaxChains /\ OutputIsSent'
  BY DEF Inv, TypeOK, Quiet, OutputIsSent, RecvFirstMessage, RecvMessage
<1>3. Reached(State(c), c, tasks) /\ StateOf(State(c)) /\ State(c) = [k |-> conn[c], t |-> tasks]
  <2>1. conn[c] \in ConnRec /\ State(c) = [k |-> conn[c], t |-> tasks]
    BY <1>1 DEF TypeOK, ConnTypeOK, State
  <2>. QED  BY <2>1, RecordReached
<1>. DEFINE Ends(more) == Summary({}, more, {c}) \/ Summary({}, more \cup {ATask("release", c)}, {c})
            Starts(op) == Append(tasks, ATask(op, c))
<1>4. ASSUME NEW s, Reached(s, c, tasks), StateOf(s), EndParse(s, c)
      PROVE  Ends({})
  <2>1. Based(tasks, {}, {})
    BY <1>1, BasedOnTasks
  <2>. QED  BY <1>1, <1>4, <2>1, EndParseSummary
<1>5. ASSUME NEW op \in {"login", "logout"},
             EndParse([State(c) EXCEPT !.t = Append(@, ATask(op, c))], c)
      PROVE  Ends({ATask(op, c)})
  <2>1. [State(c) EXCEPT !.t = Append(@, ATask(op, c))] = [k |-> conn[c], t |-> Starts(op)]
    BY <1>3
  <2>2. EndParse([k |-> conn[c], t |-> Starts(op)], c)
    BY <1>5, <2>1
  <2>3. /\ Reached([k |-> conn[c], t |-> Starts(op)], c, Starts(op))
        /\ StateOf([k |-> conn[c], t |-> Starts(op)])
    BY <1>1, RecordReached DEF TypeOK, ConnTypeOK
  <2>4. ATask(op, c) \in Task /\ \A d \in Conn : ATask("release", d) \notin {ATask(op, c)}
    BY TaskIs
  <2>5. Based(Starts(op), {}, {ATask(op, c)})
    BY <1>1, <2>4, BasedOnAppend
  <2>. QED  BY <1>1, <2>2, <2>3, <2>4, <2>5, EndParseSummary
<1>6. ASSUME NEW more, Ends(more),
             \A d \in Conn : /\ ATask("login", d) \in more => d = c /\ ~conn[d].receivedFirst
                             /\ ATask("connect", d) \notin more
      PROVE  Inv'
  <2>1. \A d \in Conn : /\ ATask("login", d) # ATask("release", c)
                        /\ ATask("connect", d) # ATask("release", c)
    BY TaskIs
  <2>2. CASE Summary({}, more, {c})
    BY <1>2, <1>6, <2>2, QuietKeeps
  <2>3. CASE Summary({}, more \cup {ATask("release", c)}, {c})
    BY <1>2, <1>6, <2>1, <2>3, QuietKeeps
  <2>. QED  BY <1>6, <2>2, <2>3
<1>7. ASSUME NEW s, Reached(s, c, tasks), StateOf(s), EndParse(s, c)
      PROVE  Inv'
  <2>1. Ends({})
    BY <1>4, <1>7
  <2>. HIDE DEF Ends
  <2>. QED  BY <1>6, <2>1
<1>8. CASE RecvFirstMessage(c)
  <2>1. ~conn[c].receivedFirst
    BY <1>8 DEF RecvFirstMessage
  <2>2. CASE EndParse(Close(State(c), c, FALSE), c)
    BY <1>3, <1>7, <2>2, CloseReaches
  <2>3. CASE State(c).k.queue < MaxQueue /\ EndParse(DisconnectClient(State(c), c), c)
    BY <1>3, <1>7, <2>3, DisconnectReaches
  <2>4. CASE EndParse([State(c) EXCEPT !.t = Append(@, ATask("login", c))], c)
    <3>1. Ends({ATask("login", c)})
      BY <1>5, <2>4
    <3>2. \A d \in Conn : /\ ATask("login", d) = ATask("login", c) => d = c
                          /\ ATask("connect", d) # ATask("login", c)
      BY TaskIs
    <3>. HIDE DEF Ends
    <3>. QED  BY <1>6, <2>1, <3>1, <3>2
  <2>. QED  BY <1>8, <2>2, <2>3, <2>4 DEF RecvFirstMessage
<1>9. CASE RecvMessage(c)
  <2>1. CASE EndParse(State(c), c)
    BY <1>3, <1>7, <2>1
  <2>2. CASE EndParse(Close(State(c), c, FALSE), c)
    BY <1>3, <1>7, <2>2, CloseReaches
  <2>3. CASE EndParse([State(c) EXCEPT !.t = Append(@, ATask("logout", c))], c)
    <3>1. Ends({ATask("logout", c)})
      BY <1>5, <2>3
    <3>2. \A d \in Conn : /\ ATask("login", d) # ATask("logout", c)
                          /\ ATask("connect", d) # ATask("logout", c)
      BY TaskIs
    <3>. HIDE DEF Ends
    <3>. QED  BY <1>6, <3>1, <3>2
  <2>. QED  BY <1>9, <2>1, <2>2, <2>3 DEF RecvMessage
<1>. QED  BY <1>8, <1>9

-----------------------------------------------------------------------------
(* The tasks of the dispatcher. *)

LEMMA RunTakes ==
  ASSUME TypeOK, NEW op, NEW c, Run(op, c)
  PROVE  Based(Tail(tasks), {ATask(op, c)}, {})
BY BasedOnTail DEF Run

LEMMA NothingDoneSummary ==
  ASSUME TypeOK, ParsesOpen, NEW op, NEW c, Run(op, c), NothingDone
  PROVE  Summary({ATask(op, c)}, {}, {})
<1>1. Based(Tail(tasks), {ATask(op, c)}, {})
  BY RunTakes
<1>2. UNCHANGED <<conn, net>> /\ tasks' = Tail(tasks)
  BY DEF NothingDone
<1>. QED  BY <1>1, <1>2 DEF Summary, Based, TypeOK, ConnTypeOK, ParsesOpen

LEMMA DoneSummary ==
  ASSUME TypeOK, ParsesOpen, NEW op \in {"login", "connect", "logout"}, NEW c \in Conn,
         Run(op, c), NEW d \in Conn, NEW s, Reached(s, d, Tail(tasks)), Done(s, d)
  PROVE  \/ Summary({ATask(op, c)}, {}, {})
         \/ Summary({ATask(op, c)}, {ATask("release", d)}, {})
<1>. DEFINE none == {}
<1>1. Based(Tail(tasks), {ATask(op, c)}, none)
  BY RunTakes
<1>2. conn' = [conn EXCEPT ![d] = s.k] /\ tasks' = s.t /\ s.k \in ConnRec
  BY DEF Done, Reached
<1>3. NetGoesOn(d)
  BY DEF NetGoesOn, Done, TypeOK, ConnTypeOK
<1>4. ATask("release", d) \notin {ATask(op, c)}
  BY TaskIs
<1>5. /\ \A x : x \notin none
      /\ none \subseteq {d} /\ none \cup {ATask("release", d)} = {ATask("release", d)}
  OBVIOUS
<1>6. s.k.receivedFirst <=> s.k.receivedFirst \/ d \in none
  OBVIOUS
<1>. HIDE DEF none
<1>7. \/ Summary({ATask(op, c)}, none, none)
      \/ Summary({ATask(op, c)}, none \cup {ATask("release", d)}, none)
  BY <1>1, <1>2, <1>3, <1>4, <1>5, <1>6, ReachedSummary
<1>. QED  BY <1>5, <1>7 DEF none

LEMMA AfterReached ==
  ASSUME TypeOK, NEW d \in Conn
  PROVE  /\ Reached(After(d), d, Tail(tasks)) /\ StateOf(After(d))
         /\ After(d).k = conn[d]
<1>1. conn[d] \in ConnRec /\ After(d) = [k |-> conn[d], t |-> Tail(tasks)]
  BY DEF TypeOK, ConnTypeOK, After
<1>2. /\ Reached([k |-> conn[d], t |-> Tail(tasks)], d, Tail(tasks))
      /\ StateOf([k |-> conn[d], t |-> Tail(tasks)])
  BY <1>1, RecordReached
<1>. QED  BY <1>1, <1>2

LEMMA RefusedSummary ==
  ASSUME TypeOK, ParsesOpen, NEW op \in {"login", "connect", "logout"}, NEW c \in Conn,
         Run(op, c), Refused(c)
  PROVE  \/ Summary({ATask(op, c)}, {}, {})
         \/ Summary({ATask(op, c)}, {ATask("release", c)}, {})
<1>1. Reached(DisconnectClient(After(c), c), c, Tail(tasks))
  BY AfterReached, DisconnectReaches DEF Refused
<1>. QED  BY <1>1, DoneSummary DEF Refused

LEMMA ClosedSummary ==
  ASSUME TypeOK, ParsesOpen, NEW op \in {"login", "connect", "logout"}, NEW c \in Conn,
         Run(op, c), NEW d \in Conn, Done(Close(After(d), d, FALSE), d)
  PROVE  \/ Summary({ATask(op, c)}, {}, {})
         \/ Summary({ATask(op, c)}, {ATask("release", d)}, {})
<1>1. Reached(Close(After(d), d, FALSE), d, Tail(tasks))
  BY AfterReached, CloseReaches
<1>. QED  BY <1>1, DoneSummary

(* A login or connect() that runs finds its protocol without a player. *)
LEMMA RunPending ==
  ASSUME Inv, NEW op \in {"login", "connect"}, NEW c \in Conn, Run(op, c)
  PROVE  /\ proto[c].player = NoPlayer /\ ~proto[c].acceptPackets
         /\ c \notin timers /\ conn[c].receivedFirst
         /\ op = "connect" => proto[c].connectTo \in Player
<1>1. tasks \in Seq(Task) /\ tasks # <<>> /\ Head(tasks) = ATask(op, c)
  BY DEF Inv, TypeOK, ConnTypeOK, Run
<1>2. /\ Count(tasks, ATask(op, c)) = Count(Tail(tasks), ATask(op, c)) + 1
      /\ Tail(tasks) \in Seq(Task)
  BY <1>1, CountTail
<1>3. Count(Tail(tasks), ATask(op, c)) \in Nat
  BY <1>2, PlacesFinite
<1>. DEFINE login == Waiting("login", c)
            connect == Waiting("connect", c)
<1>4. login \in Nat /\ connect \in Nat
  <2>1. login = Count(tasks, ATask("login", c)) /\ connect = Count(tasks, ATask("connect", c))
    BY WaitingIsCount
  <2>. QED  BY <1>1, <2>1, PlacesFinite
<1>5. op = "login" => login >= 1
  BY <1>2, <1>3, WaitingIsCount
<1>6. op = "connect" => connect >= 1
  BY <1>2, <1>3, WaitingIsCount
<1>7. /\ login + connect + (IF c \in timers THEN 1 ELSE 0)
              + (IF conn[c].receivedFirst THEN 0 ELSE 1) <= 1
      /\ (login + connect + (IF c \in timers THEN 1 ELSE 0)
              + (IF conn[c].receivedFirst THEN 0 ELSE 1) = 1)
           => proto[c].player = NoPlayer /\ ~proto[c].acceptPackets
      /\ connect > 0 => proto[c].connectTo \in Player
  BY DEF Inv, OneLogin, Pending
<1>. HIDE DEF login, connect
<1>8. login + connect >= 1
  BY <1>4, <1>5, <1>6
<1>9. c \notin timers /\ conn[c].receivedFirst /\ login + connect = 1
  BY <1>4, <1>7, <1>8
<1>. QED  BY <1>4, <1>6, <1>7, <1>9

LEMMA SumOfNone ==
  ASSUME NEW i \in Nat, NEW j \in Nat, NEW k \in Nat, NEW l \in Nat, 0 = i + j + k + l
  PROVE  i = 0 /\ j = 0 /\ k = 0 /\ l = 0
OBVIOUS

(* Nobody refers to a Player object without references. *)
LEMMA UnusedAlone ==
  ASSUME Inv, NEW p \in Unused
  PROVE  /\ p \in Player /\ players[p].client = NoConn /\ players[p].placed # "game"
         /\ ~players[p].checked /\ players[p].toRelease = 0
         /\ \A c \in Conn : proto[c].player # p
<1>1. p \in Player /\ players[p] \in PlayerRec /\ players[p].refs = 0
  BY DEF Inv, TypeOK, Unused
<1>2. players[p].refs = (IF players[p].client # NoConn THEN 1 ELSE 0)
                           + (IF players[p].placed = "game" THEN 1 ELSE 0)
                           + (IF players[p].checked THEN 1 ELSE 0) + players[p].toRelease
  BY <1>1 DEF Inv, ReferencesCounted
<1>3. players[p].toRelease \in Nat /\ players[p].checked \in BOOLEAN
  BY <1>1 DEF PlayerRec
<1>. DEFINE client == IF players[p].client # NoConn THEN 1 ELSE 0
            placed == IF players[p].placed = "game" THEN 1 ELSE 0
            checked == IF players[p].checked THEN 1 ELSE 0
<1>5. client \in Nat /\ placed \in Nat /\ checked \in Nat
  OBVIOUS
<1>6. 0 = client + placed + checked + players[p].toRelease
  BY <1>1, <1>2
<1>. HIDE DEF client, placed, checked
<1>7. client = 0 /\ placed = 0 /\ checked = 0 /\ players[p].toRelease = 0
  BY <1>3, <1>5, <1>6, SumOfNone
<1>4. /\ players[p].client = NoConn /\ players[p].placed # "game"
      /\ ~players[p].checked /\ players[p].toRelease = 0
  BY <1>3, <1>7 DEF client, placed, checked
<1>. QED  BY <1>1, <1>4, ConnectionAssumption DEF Inv, ClientPaired

(* A task that took ATask(op, c) and may have closed d. *)
LEMMA TaskKeeps ==
  ASSUME Inv, NEW op \in {"login", "connect", "logout"}, NEW c \in Conn, NEW d \in Conn,
         \/ Summary({ATask(op, c)}, {}, {})
         \/ Summary({ATask(op, c)}, {ATask("release", d)}, {}),
         \A e \in Conn : /\ LoginGoesOn(e, {ATask(op, c)}, {}, {})
                         /\ proto'[e].released <=> proto[e].released,
         SessionTypeOK', ClientPaired', RefsCounted', OutputIsSent', AcceptsWithPlayer',
         ToReleaseOnce'
  PROVE  Inv'
<1>. DEFINE lost == {ATask(op, c)}
            none == {}
<1>1. \A e \in Conn : /\ ATask("release", e) \notin lost
                      /\ ATask("login", e) # ATask("release", d)
                      /\ ATask("connect", e) # ATask("release", d)
  BY TaskIs
<1>2. ASSUME NEW gained, gained = {} \/ gained = {ATask("release", d)}
      PROVE  \A e \in Conn : LoginGoesOn(e, lost, gained, none)
  BY <1>1, <1>2 DEF LoginGoesOn
<1>3. \A e \in Conn : proto'[e].released <=> proto[e].released \/ ATask("release", e) \in lost
  BY <1>1
<1>. HIDE DEF lost, none
<1>4. ASSUME NEW gained, gained = {} \/ gained = {ATask("release", d)},
             Summary(lost, gained, none)
      PROVE  Inv'
  BY <1>1, <1>2, <1>3, <1>4, Keeps
<1>. QED  BY <1>4 DEF lost, none

(* Protocol c and player p, both without the other, get it. *)
LEMMA NewPair ==
  ASSUME Inv, NEW c \in Conn, NEW p \in Player,
         proto[c].player = NoPlayer, players[p].client = NoConn,
         proto'[c].player = p, \A e \in Conn \ {c} : proto'[e].player = proto[e].player,
         players'[p].client = c, \A q \in Player \ {p} : players'[q].client = players[q].client
  PROVE  ClientPaired'
<1>. SUFFICES ASSUME NEW e \in Conn, NEW q \in Player
              PROVE  proto'[e].player = q <=> players'[q].client = e
  BY DEF ClientPaired
<1>1. proto[e].player = q <=> players[q].client = e
  BY DEF Inv, ClientPaired
<1>2. proto[c].player # q /\ players[p].client # e
  BY ConnectionAssumption, SessionAssumption
<1>3. /\ proto[c].player = q <=> players[q].client = c
      /\ proto[e].player = p <=> players[p].client = e
  BY DEF Inv, ClientPaired
<1>. QED  BY <1>1, <1>2, <1>3

(* What the invariant says of one Player object. *)
RefsRight(r) ==
  /\ r.refs = (IF r.client # NoConn THEN 1 ELSE 0) + (IF r.placed = "game" THEN 1 ELSE 0)
                + (IF r.checked THEN 1 ELSE 0) + r.toRelease
  /\ r.toRelease <= 1
  /\ r.placed = "game" => r.toRelease = 0

LEMMA RefsOf ==
  /\ Inv => \A p \in Player : RefsRight(players[p]) /\ players[p] \in PlayerRec
  /\ (\A p \in Player : RefsRight(players'[p])) => RefsCounted' /\ ToReleaseOnce'
BY DEF Inv, TypeOK, ReferencesCounted, RefsCounted, ToReleaseOnce, RefsRight

(* The step changes one Player object, or one protocol. *)
LEMMA OnePlayer ==
  ASSUME Inv, NEW p \in Player, NEW r \in PlayerRec, RefsRight(r),
         players' = [players EXCEPT ![p] = r]
  PROVE  /\ players' \in [Player -> PlayerRec]
         /\ players'[p] = r /\ \A q \in Player \ {p} : players'[q] = players[q]
         /\ RefsCounted' /\ ToReleaseOnce'
<1>1. /\ players' \in [Player -> PlayerRec]
      /\ players'[p] = r /\ \A q \in Player \ {p} : players'[q] = players[q]
  BY DEF Inv, TypeOK
<1>2. \A q \in Player : RefsRight(players'[q])
  BY <1>1, RefsOf
<1>. QED  BY <1>1, <1>2, RefsOf

LEMMA OneProtocol ==
  ASSUME Inv, NEW c \in Conn, NEW r \in ProtoRec,
         r.acceptPackets => r.released \/ r.player # NoPlayer,
         proto' = [proto EXCEPT ![c] = r]
  PROVE  /\ proto' \in [Conn -> ProtoRec]
         /\ proto'[c] = r /\ \A e \in Conn \ {c} : proto'[e] = proto[e]
         /\ AcceptsWithPlayer'
<1>1. /\ proto' \in [Conn -> ProtoRec]
      /\ proto'[c] = r /\ \A e \in Conn \ {c} : proto'[e] = proto[e]
  BY DEF Inv, TypeOK
<1>. QED  BY <1>1 DEF Inv, AcceptsWithPlayer

(* The player p that a login made is now r, and its protocol k. *)
Made(c, p, r, k) ==
  /\ r \in PlayerRec /\ RefsRight(r) /\ r.client = c
  /\ players' = [players EXCEPT ![p] = r]
  /\ k \in ProtoRec /\ k.player = p /\ k.connectTo = proto[c].connectTo
  /\ k.released = proto[c].released
  /\ proto' = [proto EXCEPT ![c] = k]
  /\ UNCHANGED timers

LEMMA MadePair ==
  ASSUME Inv, NEW c \in Conn, Run("login", c), NEW p \in Unused, NEW r, NEW k, Made(c, p, r, k)
  PROVE  /\ proto' \in [Conn -> ProtoRec] /\ players' \in [Player -> PlayerRec]
         /\ ClientPaired' /\ RefsCounted' /\ AcceptsWithPlayer' /\ ToReleaseOnce'
         /\ \A e \in Conn : /\ LoginGoesOn(e, {ATask("login", c)}, {}, {})
                            /\ proto'[e].released <=> proto[e].released
<1>1. p \in Player /\ players[p].client = NoConn
  BY UnusedAlone
<1>2. proto[c].player = NoPlayer /\ c \notin timers
  BY RunPending
<1>3. /\ r \in PlayerRec /\ RefsRight(r) /\ r.client = c
      /\ players' = [players EXCEPT ![p] = r] /\ UNCHANGED timers
  BY DEF Made
<1>4. /\ k \in ProtoRec /\ k.player = p /\ k.connectTo = proto[c].connectTo
      /\ k.released = proto[c].released /\ proto' = [proto EXCEPT ![c] = k]
  BY DEF Made
<1>5. /\ players' \in [Player -> PlayerRec] /\ RefsCounted' /\ ToReleaseOnce'
      /\ players'[p] = r /\ \A q \in Player \ {p} : players'[q] = players[q]
  BY <1>1, <1>3, OnePlayer
<1>6. p # NoPlayer
  BY <1>1, SessionAssumption
<1>7. /\ proto' \in [Conn -> ProtoRec] /\ AcceptsWithPlayer'
      /\ proto'[c] = k /\ \A e \in Conn \ {c} : proto'[e] = proto[e]
  BY <1>4, <1>6, OneProtocol
<1>8. ClientPaired'
  <2>1. /\ proto'[c].player = p /\ players'[p].client = c
        /\ \A e \in Conn \ {c} : proto'[e].player = proto[e].player
        /\ \A q \in Player \ {p} : players'[q].client = players[q].client
    BY <1>3, <1>4, <1>5, <1>7
  <2>. QED  BY <1>1, <1>2, <2>1, NewPair
<1>9. ASSUME NEW e \in Conn
      PROVE  /\ LoginGoesOn(e, {ATask("login", c)}, {}, {})
             /\ proto'[e].released <=> proto[e].released
  <2>1. CASE e = c
    BY <1>2, <1>3, <1>4, <1>7, <2>1 DEF LoginGoesOn
  <2>2. CASE e # c
    BY <1>3, <1>7, <2>2 DEF LoginGoesOn
  <2>. QED  BY <2>1, <2>2
<1>. QED  BY <1>5, <1>7, <1>8, <1>9

LEMMA NewPlayerIs ==
  /\ NewPlayer \in PlayerRec
  /\ NewPlayer.refs = 0 /\ NewPlayer.client = NoConn /\ NewPlayer.placed = "no"
  /\ ~NewPlayer.checked /\ NewPlayer.toRelease = 0
BY DEF NewPlayer, PlayerRec

LEMMA LoginNewStep ==
  ASSUME Inv, NEW c \in Conn, LoginNew(c)
  PROVE  Inv'
<1>1. TypeOK /\ ParsesOpen /\ Run("login", c) /\ Refused(c)
      /\ UNCHANGED <<timers, buffered, chains>>
  BY DEF Inv, LoginNew
<1>. DEFINE r == [NewPlayer EXCEPT !.refs = 1, !.client = c]
            one == [NewPlayer EXCEPT !.refs = 1]
<1>2. r \in PlayerRec /\ r.client = c /\ RefsRight(r)
  <2>1. r \in PlayerRec
    <3>1. one \in PlayerRec /\ r = [one EXCEPT !.client = c]
      BY NewPlayerIs DEF PlayerRec
    <3>. HIDE DEF one, r
    <3>. QED  BY <3>1 DEF PlayerRec
  <2>2. r.refs = 1 /\ r.client = c
    BY NewPlayerIs DEF PlayerRec
  <2>3. r.placed = "no" /\ ~r.checked /\ r.toRelease = 0
    BY NewPlayerIs DEF PlayerRec
  <2>. HIDE DEF r
  <2>. QED  BY <2>1, <2>2, <2>3, ConnectionAssumption DEF RefsRight
<1>. HIDE DEF r
<1>3. PICK p \in Unused : /\ proto' = [proto EXCEPT ![c].player = p]
                          /\ players' = [players EXCEPT ![p] = r]
  BY DEF LoginNew, r
<1>. DEFINE k == [proto[c] EXCEPT !.player = p]
<1>4. /\ proto[c] \in ProtoRec /\ p \in Player
      /\ proto' = [proto EXCEPT ![c] = k]
  BY <1>1, <1>3 DEF TypeOK, Unused
<1>5. /\ k \in ProtoRec /\ k.player = p /\ k.connectTo = proto[c].connectTo
      /\ k.released = proto[c].released
  BY <1>4 DEF ProtoRec
<1>. HIDE DEF k
<1>6. /\ proto' \in [Conn -> ProtoRec] /\ players' \in [Player -> PlayerRec]
      /\ ClientPaired' /\ RefsCounted' /\ AcceptsWithPlayer' /\ ToReleaseOnce'
      /\ \A e \in Conn : /\ LoginGoesOn(e, {ATask("login", c)}, {}, {})
                         /\ proto'[e].released <=> proto[e].released
  <2>1. Made(c, p, r, k)
    BY <1>1, <1>2, <1>3, <1>4, <1>5 DEF Made
  <2>. QED  BY <1>1, <2>1, MadePair
<1>7. SessionTypeOK' /\ OutputIsSent'
  BY <1>1, <1>6 DEF Inv, TypeOK, SessionTypeOK, OutputIsSent
<1>8. \/ Summary({ATask("login", c)}, {}, {})
      \/ Summary({ATask("login", c)}, {ATask("release", c)}, {})
  BY <1>1, RefusedSummary
<1>. QED  BY <1>6, <1>7, <1>8, TaskKeeps

LEMMA AddToAutosendSends ==
  ASSUME Inv, NEW c \in Conn, AddToAutosend(c)
  PROVE  buffered' \subseteq Conn /\ chains' \in 0 .. MaxChains /\ OutputIsSent'
<1>1. chains \in Nat /\ MaxChains \in Nat /\ buffered \subseteq Conn
  BY SessionAssumption DEF Inv, TypeOK
<1>2. buffered # {} => chains > 0
  BY DEF Inv, OutputIsSent
<1>3. chains' \in Nat /\ chains' > 0 /\ chains' <= MaxChains
  BY <1>1, <1>2 DEF AddToAutosend, ChainsStarted
<1>4. buffered' = buffered \cup {c}
  BY DEF AddToAutosend
<1>. QED  BY <1>1, <1>3, <1>4 DEF OutputIsSent

LEMMA LoginPlacedStep ==
  ASSUME Inv, NEW c \in Conn, LoginPlaced(c)
  PROVE  Inv'
<1>1. TypeOK /\ ParsesOpen /\ Run("login", c) /\ NothingDone /\ timers' = timers
  BY DEF Inv, LoginPlaced
<1>. DEFINE r == [NewPlayer EXCEPT !.refs = 3, !.placed = "game", !.checked = TRUE, !.client = c]
            one == [NewPlayer EXCEPT !.refs = 3]
            two == [one EXCEPT !.placed = "game"]
            three == [two EXCEPT !.checked = TRUE]
<1>2. r \in PlayerRec /\ r.client = c /\ RefsRight(r)
  <2>1. /\ one \in PlayerRec /\ one.refs = 3 /\ one.client = NoConn /\ one.placed = "no"
        /\ ~one.checked /\ one.toRelease = 0
    BY NewPlayerIs DEF PlayerRec
  <2>. HIDE DEF one
  <2>2. /\ two \in PlayerRec /\ two.refs = 3 /\ two.client = NoConn /\ two.placed = "game"
        /\ ~two.checked /\ two.toRelease = 0
    BY <2>1 DEF PlayerRec
  <2>. HIDE DEF two
  <2>3. /\ three \in PlayerRec /\ three.refs = 3 /\ three.client = NoConn /\ three.placed = "game"
        /\ three.checked /\ three.toRelease = 0
    BY <2>2 DEF PlayerRec
  <2>. HIDE DEF three
  <2>4. r = [three EXCEPT !.client = c]
    BY DEF one, two, three
  <2>. HIDE DEF r
  <2>5. /\ r \in PlayerRec /\ r.refs = 3 /\ r.client = c /\ r.placed = "game"
        /\ r.checked /\ r.toRelease = 0
    BY <2>3, <2>4 DEF PlayerRec
  <2>. QED  BY <2>5, ConnectionAssumption DEF RefsRight
<1>. HIDE DEF r
<1>3. PICK p \in Unused :
        /\ proto' = [proto EXCEPT ![c].player = p, ![c].acceptPackets = TRUE]
        /\ players' = [players EXCEPT ![p] = r]
  BY DEF LoginPlaced, r
<1>. DEFINE k == [proto[c] EXCEPT !.player = p, !.acceptPackets = TRUE]
<1>4. /\ proto[c] \in ProtoRec /\ p \in Player
      /\ proto' = [proto EXCEPT ![c] = k]
  BY <1>1, <1>3 DEF TypeOK, Unused
<1>5. /\ k \in ProtoRec /\ k.player = p /\ k.connectTo = proto[c].connectTo
      /\ k.released = proto[c].released
  BY <1>4 DEF ProtoRec
<1>. HIDE DEF k
<1>6. /\ proto' \in [Conn -> ProtoRec] /\ players' \in [Player -> PlayerRec]
      /\ ClientPaired' /\ RefsCounted' /\ AcceptsWithPlayer' /\ ToReleaseOnce'
      /\ \A e \in Conn : /\ LoginGoesOn(e, {ATask("login", c)}, {}, {})
                         /\ proto'[e].released <=> proto[e].released
  <2>1. Made(c, p, r, k)
    BY <1>1, <1>2, <1>3, <1>4, <1>5 DEF Made
  <2>. QED  BY <1>1, <2>1, MadePair
<1>7. buffered' \subseteq Conn /\ chains' \in 0 .. MaxChains /\ OutputIsSent'
  BY AddToAutosendSends DEF LoginPlaced
<1>8. SessionTypeOK'
  BY <1>1, <1>6, <1>7 DEF TypeOK, SessionTypeOK
<1>9. Summary({ATask("login", c)}, {}, {})
  BY <1>1, NothingDoneSummary
<1>. QED  BY <1>6, <1>7, <1>8, <1>9, TaskKeeps

LEMMA LoginReplacesStep ==
  ASSUME Inv, NEW c \in Conn, LoginReplaces(c)
  PROVE  Inv'
<1>1. TypeOK /\ ParsesOpen /\ Run("login", c) /\ timers' = timers \cup {c}
  BY DEF Inv, LoginReplaces
<1>2. PICK p \in InGame :
        /\ players[p].client # NoConn
        /\ Done(Close(After(players[p].client), players[p].client, FALSE), players[p].client)
        /\ players' = [players EXCEPT ![p].isConnecting = TRUE]
        /\ proto' = [proto EXCEPT ![c].connectTo = p]
  BY DEF LoginReplaces
<1>. DEFINE d == players[p].client
            r == [players[p] EXCEPT !.isConnecting = TRUE]
            k == [proto[c] EXCEPT !.connectTo = p]
<1>3. p \in Player /\ players[p] \in PlayerRec /\ RefsRight(players[p]) /\ proto[c] \in ProtoRec
  BY <1>1, RefsOf DEF InGame, TypeOK
<1>4. d \in Conn
  BY <1>2, <1>3 DEF PlayerRec
<1>5. /\ r \in PlayerRec /\ r.client = players[p].client /\ r.placed = players[p].placed
      /\ r.refs = players[p].refs /\ r.toRelease = players[p].toRelease
      /\ r.checked = players[p].checked
  BY <1>3 DEF PlayerRec
<1>6. /\ k \in ProtoRec /\ k.player = proto[c].player /\ k.connectTo = p
      /\ k.acceptPackets = proto[c].acceptPackets /\ k.released = proto[c].released
  BY <1>3 DEF ProtoRec
<1>7. players' = [players EXCEPT ![p] = r] /\ proto' = [proto EXCEPT ![c] = k]
  BY <1>1, <1>2, <1>3 DEF TypeOK
<1>8. /\ proto[c].player = NoPlayer /\ ~proto[c].acceptPackets
  BY <1>1, RunPending
<1>. HIDE DEF r, k
<1>9. /\ players' \in [Player -> PlayerRec] /\ RefsCounted' /\ ToReleaseOnce'
      /\ players'[p] = r /\ \A q \in Player \ {p} : players'[q] = players[q]
  <2>1. RefsRight(r)
    BY <1>3, <1>5 DEF RefsRight
  <2>. QED  BY <1>3, <1>5, <1>7, <2>1, OnePlayer
<1>10. /\ proto' \in [Conn -> ProtoRec] /\ AcceptsWithPlayer'
       /\ proto'[c] = k /\ \A e \in Conn \ {c} : proto'[e] = proto[e]
  BY <1>6, <1>7, <1>8, OneProtocol
<1>11. ClientPaired'
  <2>1. /\ \A e \in Conn : proto'[e].player = proto[e].player
        /\ \A q \in Player : players'[q].client = players[q].client
    BY <1>5, <1>6, <1>9, <1>10
  <2>. QED  BY <2>1 DEF Inv, ClientPaired
<1>12. ASSUME NEW e \in Conn
       PROVE  /\ LoginGoesOn(e, {ATask("login", c)}, {}, {})
              /\ proto'[e].released <=> proto[e].released
  <2>1. CASE e = c
    BY <1>1, <1>3, <1>6, <1>8, <1>10, <2>1 DEF LoginGoesOn
  <2>2. CASE e # c
    BY <1>1, <1>10, <2>2 DEF LoginGoesOn
  <2>. QED  BY <2>1, <2>2
<1>13. buffered' \subseteq Conn /\ chains' \in 0 .. MaxChains /\ OutputIsSent'
  BY AddToAutosendSends DEF LoginReplaces
<1>14. SessionTypeOK'
  BY <1>1, <1>9, <1>10, <1>13 DEF TypeOK, SessionTypeOK
<1>15. \/ Summary({ATask("login", c)}, {}, {})
       \/ Summary({ATask("login", c)}, {ATask("release", d)}, {})
  BY <1>1, <1>2, <1>4, ClosedSummary
<1>. QED  BY <1>4, <1>9, <1>10, <1>11, <1>12, <1>13, <1>14, <1>15, TaskKeeps

LEMMA LoginTwiceStep ==
  ASSUME Inv, NEW c \in Conn, LoginTwice(c)
  PROVE  Inv'
<1>1. TypeOK /\ ParsesOpen /\ Run("login", c) /\ Refused(c) /\ Quiet
  BY DEF Inv, LoginTwice
<1>2. \A e \in Conn : /\ LoginGoesOn(e, {ATask("login", c)}, {}, {})
                      /\ proto'[e].released <=> proto[e].released
  BY <1>1 DEF LoginGoesOn, Quiet
<1>3. /\ SessionTypeOK' /\ ClientPaired' /\ RefsCounted' /\ OutputIsSent' /\ AcceptsWithPlayer'
      /\ ToReleaseOnce'
  BY <1>1 DEF Inv, TypeOK, SessionTypeOK, ClientPaired, ReferencesCounted, RefsCounted,
              OutputIsSent, AcceptsWithPlayer, ToReleaseOnce, Quiet
<1>4. \/ Summary({ATask("login", c)}, {}, {})
      \/ Summary({ATask("login", c)}, {ATask("release", c)}, {})
  BY <1>1, RefusedSummary
<1>. QED  BY <1>2, <1>3, <1>4, TaskKeeps

(* connect() gives player p to protocol c. *)
LEMMA ConnectedPair ==
  ASSUME Inv, NEW c \in Conn, NEW p \in InGame, players[p].client = NoConn,
         proto[c].player = NoPlayer, Connected(c, p)
  PROVE  /\ proto' \in [Conn -> ProtoRec] /\ players' \in [Player -> PlayerRec]
         /\ ClientPaired' /\ RefsCounted' /\ AcceptsWithPlayer' /\ ToReleaseOnce'
         /\ \A e \in Conn \ {c} : proto'[e] = proto[e]
         /\ proto'[c].released = proto[c].released
<1>. DEFINE one == [players[p] EXCEPT !.refs = @ + 1]
            r == [players[p] EXCEPT !.refs = @ + 1, !.isConnecting = FALSE, !.client = c]
            k == [proto[c] EXCEPT !.player = p, !.acceptPackets = TRUE, !.connectTo = NoPlayer]
<1>1. /\ p \in Player /\ players[p].placed = "game" /\ p # NoPlayer
      /\ players[p] \in PlayerRec /\ RefsRight(players[p]) /\ proto[c] \in ProtoRec
  BY SessionAssumption, RefsOf DEF InGame, Inv, TypeOK
<1>2. one \in PlayerRec /\ RefsRight([one EXCEPT !.isConnecting = FALSE, !.client = c])
  <2>1. players[p].refs \in 1 .. 2 /\ players[p].refs = 1 + (IF players[p].checked THEN 1 ELSE 0)
        /\ players[p].toRelease = 0
    BY <1>1 DEF RefsRight, PlayerRec
  <2>2. /\ one \in PlayerRec /\ one.refs = players[p].refs + 1 /\ one.placed = "game"
        /\ one.toRelease = 0 /\ one.checked = players[p].checked
    BY <1>1, <2>1 DEF PlayerRec
  <2>. HIDE DEF one
  <2>. DEFINE all == [one EXCEPT !.isConnecting = FALSE, !.client = c]
  <2>3. /\ all.refs = one.refs /\ all.placed = "game" /\ all.toRelease = 0
        /\ all.checked = one.checked /\ all.client = c
    BY <2>2 DEF PlayerRec
  <2>. HIDE DEF all
  <2>4. RefsRight(all)
    BY <2>1, <2>2, <2>3, ConnectionAssumption DEF RefsRight
  <2>. QED  BY <2>2, <2>4 DEF all
<1>3. r = [one EXCEPT !.isConnecting = FALSE, !.client = c]
  OBVIOUS
<1>4. /\ k \in ProtoRec /\ k.player = p /\ k.connectTo = NoPlayer
      /\ k.released = proto[c].released
  BY <1>1 DEF ProtoRec
<1>5. players' = [players EXCEPT ![p] = r] /\ proto' = [proto EXCEPT ![c] = k]
  BY <1>1 DEF Connected, Inv, TypeOK
<1>. HIDE DEF one, r, k
<1>6. r \in PlayerRec /\ RefsRight(r) /\ r.client = c
  BY <1>2, <1>3 DEF PlayerRec
<1>7. /\ players' \in [Player -> PlayerRec] /\ RefsCounted' /\ ToReleaseOnce'
      /\ players'[p] = r /\ \A q \in Player \ {p} : players'[q] = players[q]
  BY <1>1, <1>5, <1>6, OnePlayer
<1>8. /\ proto' \in [Conn -> ProtoRec] /\ AcceptsWithPlayer'
      /\ proto'[c] = k /\ \A e \in Conn \ {c} : proto'[e] = proto[e]
  BY <1>1, <1>4, <1>5, OneProtocol
<1>9. ClientPaired'
  <2>1. /\ proto'[c].player = p /\ players'[p].client = c
        /\ \A e \in Conn \ {c} : proto'[e].player = proto[e].player
        /\ \A q \in Player \ {p} : players'[q].client = players[q].client
    BY <1>4, <1>6, <1>7, <1>8
  <2>. QED  BY <1>1, <2>1, NewPair
<1>. QED  BY <1>4, <1>7, <1>8, <1>9

LEMMA LoginConnectsStep ==
  ASSUME Inv, NEW c \in Conn, LoginConnects(c)
  PROVE  Inv'
<1>1. TypeOK /\ ParsesOpen /\ Run("login", c) /\ NothingDone /\ timers' = timers
  BY DEF Inv, LoginConnects
<1>2. PICK p \in InGame :
        /\ players[p].client = NoConn
        /\ IF Expired(c) THEN UNCHANGED <<proto, players>> ELSE Connected(c, p)
  BY DEF LoginConnects
<1>3. proto[c].player = NoPlayer /\ c \notin timers
  BY <1>1, RunPending
<1>4. /\ proto' \in [Conn -> ProtoRec] /\ players' \in [Player -> PlayerRec]
      /\ ClientPaired' /\ RefsCounted' /\ AcceptsWithPlayer' /\ ToReleaseOnce'
      /\ \A e \in Conn \ {c} : proto'[e] = proto[e]
      /\ proto'[c].released = proto[c].released
      /\ proto'[c] = proto[c] \/ Connected(c, p)
  <2>1. CASE UNCHANGED <<proto, players>>
    BY <2>1 DEF Inv, TypeOK, ClientPaired, ReferencesCounted, RefsCounted, AcceptsWithPlayer,
                ToReleaseOnce
  <2>2. CASE Connected(c, p)
    BY <1>2, <1>3, <2>2, ConnectedPair
  <2>. QED  BY <1>2, <2>1, <2>2
<1>5. ASSUME NEW e \in Conn
      PROVE  /\ LoginGoesOn(e, {ATask("login", c)}, {}, {})
             /\ proto'[e].released <=> proto[e].released
  <2>1. CASE e = c
    BY <1>1, <1>3, <1>4, <2>1 DEF LoginGoesOn
  <2>2. CASE e # c
    BY <1>1, <1>4, <2>2 DEF LoginGoesOn
  <2>. QED  BY <2>1, <2>2
<1>6. buffered' \subseteq Conn /\ chains' \in 0 .. MaxChains /\ OutputIsSent'
  BY AddToAutosendSends DEF LoginConnects
<1>7. SessionTypeOK'
  BY <1>1, <1>4, <1>6 DEF TypeOK, SessionTypeOK
<1>8. Summary({ATask("login", c)}, {}, {})
  BY <1>1, NothingDoneSummary
<1>. QED  BY <1>4, <1>5, <1>6, <1>7, <1>8, TaskKeeps

LEMMA ConnectStep ==
  ASSUME Inv, NEW c \in Conn, Connect(c)
  PROVE  Inv'
<1>. DEFINE p == proto[c].connectTo
<1>1. TypeOK /\ ParsesOpen /\ Run("connect", c) /\ UNCHANGED <<timers, buffered, chains>>
  BY DEF Inv, Connect
<1>2. proto[c].player = NoPlayer /\ ~proto[c].acceptPackets /\ c \notin timers /\ p \in Player
  BY <1>1, RunPending
<1>3. CASE proto' = [proto EXCEPT ![c].connectTo = NoPlayer] /\ UNCHANGED players
           /\ (Refused(c) \/ NothingDone)
  <2>. DEFINE k == [proto[c] EXCEPT !.connectTo = NoPlayer]
  <2>1. /\ k \in ProtoRec /\ k.player = proto[c].player /\ k.acceptPackets = proto[c].acceptPackets
        /\ k.released = proto[c].released /\ proto' = [proto EXCEPT ![c] = k]
    BY <1>1, <1>3 DEF TypeOK, ProtoRec
  <2>. HIDE DEF k
  <2>2. /\ proto' \in [Conn -> ProtoRec] /\ AcceptsWithPlayer'
        /\ proto'[c] = k /\ \A e \in Conn \ {c} : proto'[e] = proto[e]
    BY <1>2, <2>1, OneProtocol
  <2>3. ClientPaired'
    <3>1. \A e \in Conn : proto'[e].player = proto[e].player
      BY <2>1, <2>2
    <3>. QED  BY <1>3, <3>1 DEF Inv, ClientPaired
  <2>4. ASSUME NEW e \in Conn
        PROVE  /\ LoginGoesOn(e, {ATask("connect", c)}, {}, {})
               /\ proto'[e].released <=> proto[e].released
    <3>1. CASE e = c
      BY <1>1, <1>2, <2>1, <2>2, <3>1 DEF LoginGoesOn
    <3>2. CASE e # c
      BY <1>1, <2>2, <3>2 DEF LoginGoesOn
    <3>. QED  BY <3>1, <3>2
  <2>5. SessionTypeOK' /\ OutputIsSent' /\ RefsCounted' /\ ToReleaseOnce'
    BY <1>1, <1>3, <2>2 DEF Inv, TypeOK, SessionTypeOK, OutputIsSent, ReferencesCounted,
                            RefsCounted, ToReleaseOnce
  <2>6. \/ Summary({ATask("connect", c)}, {}, {})
        \/ Summary({ATask("connect", c)}, {ATask("release", c)}, {})
    BY <1>1, <1>3, RefusedSummary, NothingDoneSummary
  <2>. QED  BY <2>2, <2>3, <2>4, <2>5, <2>6, TaskKeeps
<1>4. CASE Free(p) /\ NothingDone /\ Connected(c, p)
  <2>1. p \in InGame /\ players[p].client = NoConn
    BY <1>2, <1>4 DEF Free, InGame
  <2>. HIDE DEF p
  <2>2. /\ proto' \in [Conn -> ProtoRec] /\ players' \in [Player -> PlayerRec]
        /\ ClientPaired' /\ RefsCounted' /\ AcceptsWithPlayer' /\ ToReleaseOnce'
        /\ \A e \in Conn \ {c} : proto'[e] = proto[e]
        /\ proto'[c].released = proto[c].released
    BY <1>2, <1>4, <2>1, ConnectedPair
  <2>3. ASSUME NEW e \in Conn
        PROVE  /\ LoginGoesOn(e, {ATask("connect", c)}, {}, {})
               /\ proto'[e].released <=> proto[e].released
    <3>1. CASE e = c
      BY <1>1, <1>2, <2>2, <3>1 DEF LoginGoesOn
    <3>2. CASE e # c
      BY <1>1, <2>2, <3>2 DEF LoginGoesOn
    <3>. QED  BY <3>1, <3>2
  <2>4. SessionTypeOK' /\ OutputIsSent'
    BY <1>1, <2>2 DEF Inv, TypeOK, SessionTypeOK, OutputIsSent
  <2>5. Summary({ATask("connect", c)}, {}, {})
    BY <1>1, <1>4, NothingDoneSummary
  <2>. QED  BY <2>2, <2>3, <2>4, <2>5, TaskKeeps
<1>. QED  BY <1>3, <1>4 DEF Connect

(* Game::removeCreature: the reference of the map is one to release. *)
LEMMA RemoveCreatureKeeps ==
  ASSUME Inv, NEW p \in InGame, RemoveCreature(p), UNCHANGED proto
  PROVE  /\ players' \in [Player -> PlayerRec]
         /\ ClientPaired' /\ RefsCounted' /\ ToReleaseOnce'
<1>. DEFINE one == [players[p] EXCEPT !.placed = "removed"]
            r == [one EXCEPT !.toRelease = @ + 1]
<1>1. /\ p \in Player /\ players[p].placed = "game" /\ players[p].toRelease = 0
      /\ players[p] \in PlayerRec /\ RefsRight(players[p])
  <2>1. p \in Player /\ players[p].placed = "game"
    BY DEF InGame
  <2>. QED  BY <2>1, RefsOf DEF RefsRight
<1>2. /\ one \in PlayerRec /\ one.placed = "removed" /\ one.toRelease = 0
      /\ one.refs = players[p].refs /\ one.client = players[p].client
      /\ one.checked = players[p].checked
  BY <1>1 DEF PlayerRec
<1>3. players' = [players EXCEPT ![p] = r]
  <2>1. r = [players[p] EXCEPT !.placed = "removed", !.toRelease = @ + 1]
    BY <1>1 DEF PlayerRec
  <2>. HIDE DEF r
  <2>. QED  BY <1>1, <2>1 DEF RemoveCreature, Inv, TypeOK
<1>. HIDE DEF one
<1>4. /\ r \in PlayerRec /\ r.placed = "removed" /\ r.toRelease = 1
      /\ r.refs = one.refs /\ r.client = one.client /\ r.checked = one.checked
  BY <1>2 DEF PlayerRec
<1>. HIDE DEF r
<1>5. RefsRight(r)
  BY <1>1, <1>2, <1>4 DEF RefsRight, PlayerRec
<1>6. /\ players' \in [Player -> PlayerRec] /\ RefsCounted' /\ ToReleaseOnce'
      /\ players'[p] = r /\ \A q \in Player \ {p} : players'[q] = players[q]
  BY <1>1, <1>3, <1>4, <1>5, OnePlayer
<1>7. \A q \in Player : players'[q].client = players[q].client
  BY <1>2, <1>4, <1>6
<1>8. ClientPaired'
  BY <1>7 DEF Inv, ClientPaired
<1>. QED  BY <1>6, <1>8

LEMMA LogoutRefusedStep ==
  ASSUME Inv, NEW c \in Conn, LogoutRefused(c)
  PROVE  Inv'
<1>1. TypeOK /\ ParsesOpen /\ Run("logout", c) /\ NothingDone /\ Quiet
  BY DEF Inv, LogoutRefused
<1>2. \A e \in Conn : /\ LoginGoesOn(e, {ATask("logout", c)}, {}, {})
                      /\ proto'[e].released <=> proto[e].released
  BY <1>1 DEF LoginGoesOn, Quiet
<1>3. /\ SessionTypeOK' /\ ClientPaired' /\ RefsCounted' /\ OutputIsSent' /\ AcceptsWithPlayer'
      /\ ToReleaseOnce'
  BY <1>1 DEF Inv, TypeOK, SessionTypeOK, ClientPaired, ReferencesCounted, RefsCounted,
              OutputIsSent, AcceptsWithPlayer, ToReleaseOnce, Quiet
<1>4. Summary({ATask("logout", c)}, {}, {})
  BY <1>1, NothingDoneSummary
<1>. QED  BY <1>2, <1>3, <1>4, TaskKeeps

LEMMA LogoutStep ==
  ASSUME Inv, NEW c \in Conn, Logout(c)
  PROVE  Inv'
<1>1. /\ TypeOK /\ ParsesOpen /\ Run("logout", c)
      /\ UNCHANGED <<proto, timers, buffered, chains>>
  BY DEF Inv, Logout
<1>2. \A e \in Conn : /\ LoginGoesOn(e, {ATask("logout", c)}, {}, {})
                      /\ proto'[e].released <=> proto[e].released
  BY <1>1 DEF LoginGoesOn
<1>3. /\ players' \in [Player -> PlayerRec]
      /\ ClientPaired' /\ RefsCounted' /\ ToReleaseOnce'
  <2>1. CASE proto[c].player \in InGame
    BY <1>1, <2>1, RemoveCreatureKeeps DEF Logout
  <2>2. CASE proto[c].player \notin InGame
    BY <1>1, <2>2 DEF Inv, TypeOK, ClientPaired, ReferencesCounted, RefsCounted, ToReleaseOnce,
                      Logout
  <2>. QED  BY <2>1, <2>2
<1>4. SessionTypeOK' /\ OutputIsSent' /\ AcceptsWithPlayer'
  BY <1>1, <1>3 DEF Inv, TypeOK, SessionTypeOK, OutputIsSent, AcceptsWithPlayer
<1>5. \/ Summary({ATask("logout", c)}, {}, {})
      \/ Summary({ATask("logout", c)}, {ATask("release", c)}, {})
  BY <1>1, ClosedSummary DEF Logout
<1>. QED  BY <1>2, <1>3, <1>4, <1>5, TaskKeeps

(* A protocol that is released lets go of its player. *)
LEMMA DropPlayerKeeps ==
  ASSUME Inv, NEW c \in Conn, NEW p \in Player, proto[c].player = p, players[p].client = c,
         players' = DropPlayer(p),
         proto'[c].player = NoPlayer, \A e \in Conn \ {c} : proto'[e] = proto[e]
  PROVE  /\ players' \in [Player -> PlayerRec]
         /\ ClientPaired' /\ RefsCounted' /\ ToReleaseOnce'
<1>. DEFINE one == [players[p] EXCEPT !.client = NoConn]
            r == [one EXCEPT !.refs = @ - 1]
<1>1. players[p] \in PlayerRec /\ RefsRight(players[p]) /\ c # NoConn
  BY RefsOf, ConnectionAssumption
<1>2. /\ one \in PlayerRec /\ one.client = NoConn /\ one.refs = players[p].refs
      /\ one.placed = players[p].placed /\ one.toRelease = players[p].toRelease
      /\ one.checked = players[p].checked
  BY <1>1 DEF PlayerRec
<1>3. players' = [players EXCEPT ![p] = r]
  <2>1. r = [players[p] EXCEPT !.client = NoConn, !.refs = @ - 1]
    BY <1>1 DEF PlayerRec
  <2>. HIDE DEF r
  <2>. QED  BY <1>1, <2>1 DEF DropPlayer, Inv, TypeOK
<1>. HIDE DEF one
<1>4. players[p].refs \in 1 .. 3
  BY <1>1 DEF RefsRight, PlayerRec
<1>5. /\ r \in PlayerRec /\ r.client = NoConn /\ r.refs = players[p].refs - 1
      /\ r.placed = one.placed /\ r.toRelease = one.toRelease /\ r.checked = one.checked
  BY <1>2, <1>4 DEF PlayerRec
<1>. HIDE DEF r
<1>6. RefsRight(r)
  BY <1>1, <1>2, <1>4, <1>5 DEF RefsRight, PlayerRec
<1>7. /\ players' \in [Player -> PlayerRec] /\ RefsCounted' /\ ToReleaseOnce'
      /\ players'[p] = r /\ \A q \in Player \ {p} : players'[q] = players[q]
  BY <1>3, <1>5, <1>6, OnePlayer
<1>8. ClientPaired'
  <2>. SUFFICES ASSUME NEW e \in Conn, NEW q \in Player
                PROVE  proto'[e].player = q <=> players'[q].client = e
    BY DEF ClientPaired
  <2>1. /\ proto[e].player = q <=> players[q].client = e
        /\ proto[c].player = q <=> players[q].client = c
        /\ proto[e].player = p <=> players[p].client = e
    BY DEF Inv, ClientPaired
  <2>2. q # NoPlayer /\ e # NoConn
    BY SessionAssumption, ConnectionAssumption
  <2>. QED  BY <1>5, <1>7, <2>1, <2>2
<1>. QED  BY <1>7, <1>8

LEMMA ReleaseStep ==
  ASSUME Inv, NEW c \in Conn, Release(c)
  PROVE  Inv'
<1>. DEFINE p == proto[c].player
            mine == p # NoPlayer /\ players[p].client = c
            lost == {ATask("release", c)}
            none == {}
            one == [proto[c] EXCEPT !.released = TRUE]
            k == [one EXCEPT !.player = IF mine THEN NoPlayer ELSE @]
<1>1. /\ TypeOK /\ ParsesOpen /\ Run("release", c) /\ NothingDone /\ UNCHANGED <<timers, chains>>
      /\ players' = (IF mine THEN DropPlayer(p) ELSE players)
      /\ buffered' = buffered \ {c}
  BY DEF Inv, Release
<1>2. proto[c] \in ProtoRec
  BY <1>1 DEF TypeOK
<1>3. mine <=> p # NoPlayer
  BY <1>2 DEF ProtoRec, Inv, ClientPaired
<1>4. /\ one \in ProtoRec /\ one.released /\ one.player = p
      /\ one.acceptPackets = proto[c].acceptPackets /\ one.connectTo = proto[c].connectTo
  BY <1>2 DEF ProtoRec
<1>5. proto' = [proto EXCEPT ![c] = k]
  <2>1. k = [proto[c] EXCEPT !.released = TRUE, !.player = IF mine THEN NoPlayer ELSE @]
    BY <1>2 DEF ProtoRec
  <2>. HIDE DEF k
  <2>. QED  BY <1>1, <2>1 DEF Release, TypeOK
<1>. HIDE DEF one
<1>6. /\ k \in ProtoRec /\ k.released /\ k.player = NoPlayer
      /\ k.acceptPackets = proto[c].acceptPackets /\ k.connectTo = proto[c].connectTo
  BY <1>3, <1>4 DEF ProtoRec
<1>. HIDE DEF k
<1>7. /\ proto' \in [Conn -> ProtoRec] /\ AcceptsWithPlayer'
      /\ proto'[c] = k /\ \A e \in Conn \ {c} : proto'[e] = proto[e]
  BY <1>5, <1>6, OneProtocol
<1>8. /\ players' \in [Player -> PlayerRec]
      /\ ClientPaired' /\ RefsCounted' /\ ToReleaseOnce'
  <2>1. CASE p # NoPlayer
    <3>1. p \in Player
      BY <1>2, <2>1 DEF ProtoRec
    <3>. QED  BY <1>1, <1>3, <1>6, <1>7, <2>1, <3>1, DropPlayerKeeps
  <2>2. CASE p = NoPlayer
    <3>1. players' = players /\ \A e \in Conn : proto'[e].player = proto[e].player
      BY <1>1, <1>6, <1>7, <2>2
    <3>. QED  BY <3>1 DEF Inv, TypeOK, ClientPaired, ReferencesCounted, RefsCounted, ToReleaseOnce
  <2>. QED  BY <2>1, <2>2
<1>9. SessionTypeOK' /\ OutputIsSent'
  BY <1>1, <1>7, <1>8 DEF Inv, TypeOK, SessionTypeOK, OutputIsSent
<1>10. \A x : x \notin none
  OBVIOUS
<1>11. Summary(lost, none, none)
  BY <1>1, NothingDoneSummary
<1>12. /\ ATask("release", c) \in lost
       /\ \A e \in Conn : ATask("release", e) \in lost => e = c
  BY TaskIs
<1>. HIDE DEF lost, none
<1>13. \A e \in Conn : LoginGoesOn(e, lost, none, none)
  <2>. SUFFICES ASSUME NEW e \in Conn PROVE LoginGoesOn(e, lost, none, none)
    OBVIOUS
  <2>1. CASE e = c
    BY <1>1, <1>6, <1>7, <1>10, <2>1 DEF LoginGoesOn
  <2>2. CASE e # c
    BY <1>1, <1>7, <1>10, <2>2 DEF LoginGoesOn
  <2>. QED  BY <2>1, <2>2
<1>14. \A e \in Conn :
         /\ proto'[e].released <=> proto[e].released \/ ATask("release", e) \in lost
         /\ ~ (ATask("release", e) \in lost /\ ATask("release", e) \in none)
  BY <1>6, <1>7, <1>10, <1>12
<1>. QED  BY <1>7, <1>8, <1>9, <1>11, <1>13, <1>14, Keeps

-----------------------------------------------------------------------------
(* The other steps. *)

LEMMA ConnectTimerStep ==
  ASSUME Inv, NEW c \in Conn, ConnectTimer(c)
  PROVE  Inv'
<1>. DEFINE none == {}
            gained == {ATask("connect", c)}
<1>1. /\ TypeOK /\ ParsesOpen /\ c \in timers /\ timers' = timers \ {c}
      /\ tasks' = Append(tasks, ATask("connect", c))
      /\ UNCHANGED <<conn, net, proto, players, buffered, chains>>
  BY DEF Inv, ConnectTimer
<1>2. ATask("connect", c) \in Task
  BY TaskIs
<1>3. Based(tasks', {}, gained)
  BY <1>1, <1>2, BasedOnAppend
<1>4. \A e \in Conn : /\ ATask("release", e) \notin gained /\ ATask("login", e) \notin gained
                      /\ ATask("connect", e) \in gained => e = c
  BY TaskIs
<1>5. \A x : x \notin none
  OBVIOUS
<1>6. Based(tasks', none, gained)
  BY <1>3
<1>. HIDE DEF none, gained
<1>7. Summary(none, gained, none)
  BY <1>1, <1>4, <1>5, <1>6 DEF Summary, Based, TypeOK, ConnTypeOK, ParsesOpen
<1>8. \A e \in Conn : LoginGoesOn(e, none, gained, none)
  BY <1>1, <1>4, <1>5 DEF LoginGoesOn
<1>9. \A e \in Conn : /\ proto'[e].released <=> proto[e].released \/ ATask("release", e) \in none
                      /\ ~ (ATask("release", e) \in none /\ ATask("release", e) \in gained)
  BY <1>1, <1>5
<1>10. /\ SessionTypeOK' /\ ClientPaired' /\ RefsCounted' /\ OutputIsSent' /\ AcceptsWithPlayer'
       /\ ToReleaseOnce'
  BY <1>1 DEF Inv, TypeOK, SessionTypeOK, ClientPaired, ReferencesCounted, RefsCounted,
              OutputIsSent, AcceptsWithPlayer, ToReleaseOnce
<1>. QED  BY <1>7, <1>8, <1>9, <1>10, Keeps

(* A step that takes no task, and may close d. *)
LEMMA PlayersKeep ==
  ASSUME Inv, NEW d,
         Summary({}, {}, {}) \/ (d \in Conn /\ Summary({}, {ATask("release", d)}, {})),
         UNCHANGED <<proto, timers>>, buffered' \subseteq Conn, chains' \in 0 .. MaxChains,
         players' \in [Player -> PlayerRec], ClientPaired', RefsCounted', OutputIsSent',
         ToReleaseOnce'
  PROVE  Inv'
<1>. DEFINE none == {}
<1>1. \A x : x \notin none
  OBVIOUS
<1>2. SessionTypeOK' /\ AcceptsWithPlayer'
  BY DEF Inv, TypeOK, SessionTypeOK, AcceptsWithPlayer
<1>3. ASSUME NEW gained, Summary(none, gained, none),
             gained = none \/ (d \in Conn /\ gained = {ATask("release", d)})
      PROVE  Inv'
  <2>1. \A e \in Conn : ATask("login", e) \notin gained /\ ATask("connect", e) \notin gained
    <3>1. d \in Conn => \A e \in Conn : /\ ATask("login", e) # ATask("release", d)
                                        /\ ATask("connect", e) # ATask("release", d)
      BY TaskIs
    <3>. QED  BY <1>1, <1>3, <3>1
  <2>. HIDE DEF none
  <2>2. \A e \in Conn : LoginGoesOn(e, none, gained, none)
    BY <1>1, <2>1 DEF LoginGoesOn
  <2>3. \A e \in Conn : /\ proto'[e].released <=> proto[e].released \/ ATask("release", e) \in none
                        /\ ~ (ATask("release", e) \in none /\ ATask("release", e) \in gained)
    BY <1>1
  <2>. QED  BY <1>2, <1>3, <2>2, <2>3, Keeps
<1>4. Summary(none, none, none) \/ (d \in Conn /\ Summary(none, {ATask("release", d)}, none))
  OBVIOUS
<1>. HIDE DEF none
<1>. QED  BY <1>3, <1>4

LEMMA SameSummary ==
  ASSUME TypeOK, UNCHANGED tasks, conn' \in [Conn -> ConnRec],
         \A d \in Conn : /\ conn'[d].closed = conn[d].closed
                         /\ conn'[d].receivedFirst = conn[d].receivedFirst,
         net' \in [at : {"parse", "end"}, c : Conn] \cup {Idle}, ParsesOpen'
  PROVE  Summary({}, {}, {})
<1>1. Based(tasks, {}, {})
  BY BasedOnTasks
<1>. QED  BY <1>1 DEF Summary, Based

LEMMA UnchangedSummary ==
  ASSUME Inv, UNCHANGED <<conn, tasks>>, net' = net \/ net' = Idle
  PROVE  Summary({}, {}, {})
<1>1. TypeOK /\ conn' \in [Conn -> ConnRec]
      /\ net' \in [at : {"parse", "end"}, c : Conn] \cup {Idle}
  BY DEF Inv, TypeOK, ConnTypeOK
<1>2. ParsesOpen'
  BY DEF Inv, ParsesOpen, Idle
<1>. QED  BY <1>1, <1>2, SameSummary

LEMMA HandlerEndsStep ==
  ASSUME Inv, HandlerEnds, Quiet
  PROVE  Inv'
<1>1. Summary({}, {}, {})
  BY UnchangedSummary DEF HandlerEnds
<1>2. /\ UNCHANGED <<proto, players, timers>>
      /\ buffered' \subseteq Conn /\ chains' \in 0 .. MaxChains /\ OutputIsSent'
  BY DEF Inv, TypeOK, Quiet, OutputIsSent
<1>. QED  BY <1>1, <1>2, QuietKeeps

LEMMA KickStep ==
  ASSUME Inv, NEW p \in Player, Kick(p)
  PROVE  Inv'
<1>. DEFINE d == players[p].client
            none == {}
<1>1. /\ TypeOK /\ ParsesOpen /\ p \in InGame /\ RemoveCreature(p)
      /\ UNCHANGED <<proto, timers, buffered, chains>>
  BY DEF Inv, Kick
<1>2. Summary({}, {}, {}) \/ (d \in Conn /\ Summary({}, {ATask("release", d)}, {}))
  <2>1. CASE d = NoConn
    BY <2>1, UnchangedSummary DEF Kick, connVars
  <2>2. CASE d # NoConn
    <3>1. d \in Conn
      BY <1>1, <2>2 DEF TypeOK, PlayerRec
    <3>. HIDE DEF d
    <3>. DEFINE s == Close(State(d), d, FALSE)
    <3>2. ~Locked(d) /\ conn' = [conn EXCEPT ![d] = s.k] /\ tasks' = s.t /\ net' = net
      BY <2>2 DEF Kick, d
    <3>3. Reached(s, d, tasks)
      <4>1. conn[d] \in ConnRec /\ State(d) = [k |-> conn[d], t |-> tasks]
        BY <1>1, <3>1 DEF TypeOK, ConnTypeOK, State
      <4>2. Reached(State(d), d, tasks) /\ StateOf(State(d))
        BY <3>1, <4>1, RecordReached
      <4>. QED  BY <3>1, <4>2, CloseReaches
    <3>. HIDE DEF s
    <3>4. NetGoesOn(d)
      BY <1>1, <3>2 DEF NetGoesOn, TypeOK, ConnTypeOK
    <3>5. Based(tasks, none, none) /\ (\A x : x \notin none) /\ none \subseteq {d}
          /\ none \cup {ATask("release", d)} = {ATask("release", d)}
      BY <1>1, BasedOnTasks
    <3>6. s.k \in ConnRec /\ (s.k.receivedFirst <=> s.k.receivedFirst \/ d \in none)
      BY <3>3 DEF Reached
    <3>. HIDE DEF none
    <3>7. Summary(none, none, none) \/ Summary(none, none \cup {ATask("release", d)}, none)
      BY <1>1, <3>1, <3>2, <3>3, <3>4, <3>5, <3>6, ReachedSummary
    <3>. QED  BY <3>1, <3>5, <3>7 DEF none
  <2>. QED  BY <2>1, <2>2
<1>3. players' \in [Player -> PlayerRec] /\ ClientPaired' /\ RefsCounted' /\ ToReleaseOnce'
  BY <1>1, RemoveCreatureKeeps
<1>4. buffered' \subseteq Conn /\ chains' \in 0 .. MaxChains /\ OutputIsSent'
  BY <1>1 DEF Inv, TypeOK, OutputIsSent
<1>. QED  BY <1>1, <1>2, <1>3, <1>4, PlayersKeep

LEMMA DieStep ==
  ASSUME Inv, NEW p \in Player, Die(p)
  PROVE  Inv'
<1>1. p \in InGame /\ RemoveCreature(p) /\ UNCHANGED <<connVars, proto, timers, buffered, chains>>
  BY DEF Die
<1>2. Summary({}, {}, {})
  BY <1>1, UnchangedSummary DEF connVars
<1>3. players' \in [Player -> PlayerRec] /\ ClientPaired' /\ RefsCounted' /\ ToReleaseOnce'
  BY <1>1, RemoveCreatureKeeps
<1>4. buffered' \subseteq Conn /\ chains' \in 0 .. MaxChains /\ OutputIsSent'
  BY <1>1 DEF Inv, TypeOK, OutputIsSent
<1>. QED  BY <1>1, <1>2, <1>3, <1>4, PlayersKeep

(* A Player object that left the list of checkCreatures or did not, and     *)
(* gives back its references.                                               *)
LeftOrNot(r, q) ==
  \/ q = r
  \/ r.checked /\ r.placed = "removed" /\ q = [r EXCEPT !.checked = FALSE, !.toRelease = @ + 1]
GaveBack(q, t) == t = [q EXCEPT !.refs = @ - q.toRelease, !.toRelease = 0]

LEMMA GivesBack ==
  ASSUME NEW r \in PlayerRec, RefsRight(r), NEW q, NEW t, LeftOrNot(r, q), GaveBack(q, t)
  PROVE  t \in PlayerRec /\ RefsRight(t) /\ t.client = r.client
<1>1. /\ q \in PlayerRec /\ q.client = r.client /\ q.placed = r.placed /\ q.refs = r.refs
      /\ q.refs = (IF q.client # NoConn THEN 1 ELSE 0) + (IF q.placed = "game" THEN 1 ELSE 0)
                    + (IF q.checked THEN 1 ELSE 0) + q.toRelease
  <2>1. CASE q = r
    BY <2>1 DEF RefsRight
  <2>2. CASE r.checked /\ r.placed = "removed"
             /\ q = [r EXCEPT !.checked = FALSE, !.toRelease = @ + 1]
    <3>. DEFINE one == [r EXCEPT !.checked = FALSE]
    <3>1. /\ one \in PlayerRec /\ ~one.checked /\ one.client = r.client
          /\ one.placed = r.placed /\ one.refs = r.refs /\ one.toRelease = r.toRelease
          /\ q = [one EXCEPT !.toRelease = @ + 1]
      BY <2>2 DEF PlayerRec
    <3>. HIDE DEF one
    <3>2. r.toRelease \in 0 .. 1
      BY DEF RefsRight, PlayerRec
    <3>3. /\ q \in PlayerRec /\ ~q.checked /\ q.client = r.client
          /\ q.placed = r.placed /\ q.refs = r.refs /\ q.toRelease = r.toRelease + 1
      BY <3>1, <3>2 DEF PlayerRec
    <3>4. q.refs = (IF q.client # NoConn THEN 1 ELSE 0) + (IF q.placed = "game" THEN 1 ELSE 0)
                    + (IF q.checked THEN 1 ELSE 0) + q.toRelease
      BY <2>2, <3>2, <3>3 DEF RefsRight
    <3>. QED  BY <3>3, <3>4
  <2>. QED  BY <2>1, <2>2 DEF LeftOrNot
<1>. DEFINE n == q.refs - q.toRelease
            one == [q EXCEPT !.refs = n]
<1>2. n \in 0 .. 3 /\ n = (IF q.client # NoConn THEN 1 ELSE 0)
                        + (IF q.placed = "game" THEN 1 ELSE 0) + (IF q.checked THEN 1 ELSE 0)
  <2>1. q.toRelease \in Nat
    BY <1>1 DEF PlayerRec
  <2>. QED  BY <1>1, <2>1
<1>. HIDE DEF n
<1>3. /\ one \in PlayerRec /\ one.refs = n /\ one.client = q.client /\ one.placed = q.placed
      /\ one.checked = q.checked
  BY <1>1, <1>2 DEF PlayerRec
<1>4. t = [one EXCEPT !.toRelease = 0]
  BY <1>1 DEF n, PlayerRec, GaveBack
<1>. HIDE DEF one
<1>5. /\ t \in PlayerRec /\ t.refs = n /\ t.client = q.client /\ t.placed = q.placed
      /\ t.checked = q.checked /\ t.toRelease = 0
  BY <1>3, <1>4 DEF PlayerRec
<1>6. RefsRight(t)
  BY <1>2, <1>5 DEF RefsRight
<1>. QED  BY <1>1, <1>5, <1>6

LEMMA CheckCreaturesStep ==
  ASSUME Inv, CheckCreatures
  PROVE  Inv'
<1>1. PICK left \in SUBSET {p \in Player : players[p].checked /\ players[p].placed = "removed"} :
        players' = CleanedUp([p \in Player |->
                     IF p \in left THEN [players[p] EXCEPT !.checked = FALSE, !.toRelease = @ + 1]
                     ELSE players[p]])
  BY Zenon DEF CheckCreatures
<1>. DEFINE f == [p \in Player |->
                   IF p \in left THEN [players[p] EXCEPT !.checked = FALSE, !.toRelease = @ + 1]
                   ELSE players[p]]
<1>2. UNCHANGED <<connVars, proto, timers, buffered, chains>>
  BY Zenon DEF CheckCreatures
<1>3. /\ players' = [p \in Player |-> players'[p]]
      /\ \A p \in Player : LeftOrNot(players[p], f[p]) /\ GaveBack(f[p], players'[p])
  <2>1. \A p \in Player : LeftOrNot(players[p], f[p])
    <3>. SUFFICES ASSUME NEW p \in Player PROVE LeftOrNot(players[p], f[p])
      OBVIOUS
    <3>1. CASE p \in left
      <4>1. f[p] = [players[p] EXCEPT !.checked = FALSE, !.toRelease = @ + 1]
        BY <3>1
      <4>. HIDE DEF f
      <4>. QED  BY <3>1, <4>1 DEF LeftOrNot
    <3>2. CASE p \notin left
      <4>1. f[p] = players[p]
        BY <3>2
      <4>. HIDE DEF f
      <4>. QED  BY <4>1 DEF LeftOrNot
    <3>. QED  BY <3>1, <3>2
  <2>2. players' = CleanedUp(f)
    BY Zenon, <1>1
  <2>. HIDE DEF f
  <2>3. \A p \in Player : GaveBack(f[p], players'[p])
    BY Zenon, <2>2 DEF CleanedUp, GaveBack
  <2>4. players' = [p \in Player |-> players'[p]]
    <3>1. \E g : players' = [p \in Player |-> g[p]]
      <4>. WITNESS CleanedUp(f)
      <4>1. CleanedUp(f) = [p \in Player |-> CleanedUp(f)[p]]
        BY Zenon DEF CleanedUp
      <4>. QED  BY Zenon, <2>2, <4>1
    <3>. QED  BY <3>1
  <2>. QED  BY <2>1, <2>3, <2>4
<1>. HIDE DEF f
<1>4. ASSUME NEW p \in Player
      PROVE  /\ players'[p] \in PlayerRec /\ RefsRight(players'[p])
             /\ players'[p].client = players[p].client
  <2>1. players[p] \in PlayerRec /\ RefsRight(players[p])
    BY RefsOf
  <2>. QED  BY <1>3, <2>1, GivesBack
<1>5. /\ players' \in [Player -> PlayerRec]
      /\ \A p \in Player : RefsRight(players'[p]) /\ players'[p].client = players[p].client
  BY <1>3, <1>4
<1>6. RefsCounted' /\ ToReleaseOnce'
  BY <1>5, RefsOf
<1>7. ClientPaired'
  BY <1>2, <1>5 DEF Inv, ClientPaired
<1>8. Summary({}, {}, {})
  BY <1>2, UnchangedSummary DEF connVars
<1>9. buffered' \subseteq Conn /\ chains' \in 0 .. MaxChains /\ OutputIsSent'
  BY <1>2 DEF Inv, TypeOK, OutputIsSent
<1>. QED  BY <1>2, <1>5, <1>6, <1>7, <1>8, <1>9, PlayersKeep

LEMMA SendAllStep ==
  ASSUME Inv, SendAll
  PROVE  Inv'
<1>1. PICK S \in SUBSET buffered :
        /\ \A c \in S : ~Locked(c) /\ conn[c].queue < MaxQueue
        /\ conn' = [c \in Conn |-> IF c \in S THEN Send(State(c)).k ELSE conn[c]]
  BY DEF SendAll
<1>2. /\ TypeOK /\ ParsesOpen /\ UNCHANGED <<net, tasks, proto, players, timers, buffered>>
      /\ chains > 0 /\ chains' = (IF buffered # {} THEN chains ELSE chains - 1)
  BY DEF Inv, SendAll
<1>3. ASSUME NEW c \in Conn
      PROVE  /\ conn'[c] \in ConnRec /\ conn'[c].closed = conn[c].closed
             /\ conn'[c].receivedFirst = conn[c].receivedFirst
  <2>1. conn[c] \in ConnRec /\ State(c) = [k |-> conn[c], t |-> tasks]
    BY <1>2 DEF TypeOK, ConnTypeOK, State
  <2>2. CASE c \in S
    <3>1. conn'[c] = Send(State(c)).k /\ State(c).k.queue < MaxQueue
      BY <1>1, <2>1, <2>2
    <3>2. Reached(State(c), c, tasks) /\ StateOf(State(c))
      BY <2>1, RecordReached
    <3>3. Reached(Send(State(c)), c, tasks) /\ Send(State(c)).k.closed = State(c).k.closed
      BY <3>1, <3>2, SendReaches
    <3>. QED  BY <2>1, <3>1, <3>3 DEF Reached
  <2>3. CASE c \notin S
    BY <1>1, <2>1, <2>3
  <2>. QED  BY <2>2, <2>3
<1>4. conn' \in [Conn -> ConnRec]
  BY <1>1, <1>3
<1>5. net' \in [at : {"parse", "end"}, c : Conn] \cup {Idle} /\ ParsesOpen'
  <2>1. net \in [at : {"parse", "end"}, c : Conn] \cup {Idle} /\ net' = net
    BY <1>2 DEF TypeOK, ConnTypeOK
  <2>2. ASSUME net.at = "parse" PROVE ~conn'[net.c].closed
    <3>1. net.c \in Conn /\ ~conn[net.c].closed
      BY <1>2, <2>1, <2>2 DEF Idle, ParsesOpen
    <3>. QED  BY <1>3, <3>1
  <2>. QED  BY <2>1, <2>2 DEF ParsesOpen
<1>6. Summary({}, {}, {})
  BY <1>2, <1>3, <1>4, <1>5, SameSummary
<1>7. buffered' \subseteq Conn /\ chains' \in 0 .. MaxChains /\ OutputIsSent'
  <2>1. chains \in Nat /\ MaxChains \in Nat /\ chains <= MaxChains /\ buffered \subseteq Conn
    BY <1>2, SessionAssumption DEF TypeOK
  <2>. QED  BY <1>2, <2>1 DEF OutputIsSent
<1>. QED  BY <1>2, <1>6, <1>7, QuietKeeps

LEMMA RenewStep ==
  ASSUME Inv, NEW c \in Conn, Renew(c)
  PROVE  Inv'
<1>1. /\ TypeOK /\ proto[c].released /\ Expired(c) /\ proto[c].player = NoPlayer /\ c \notin timers
      /\ \A i \in DOMAIN tasks : tasks[i].c # c
      /\ conn' = [conn EXCEPT ![c] = NewConnection]
      /\ proto' = [proto EXCEPT ![c] = NewProtocol]
      /\ UNCHANGED <<net, tasks, players, timers, buffered, chains>>
  BY DEF Inv, Renew
<1>2. /\ conn' \in [Conn -> ConnRec]
      /\ conn'[c] = NewConnection /\ \A d \in Conn \ {c} : conn'[d] = conn[d]
  <2>1. NewConnection \in ConnRec
    BY ConnectionAssumption DEF NewConnection, ConnRec
  <2>. QED  BY <1>1, <2>1 DEF TypeOK, ConnTypeOK
<1>3. /\ proto' \in [Conn -> ProtoRec] /\ AcceptsWithPlayer'
      /\ proto'[c] = NewProtocol /\ \A d \in Conn \ {c} : proto'[d] = proto[d]
  <2>1. NewProtocol \in ProtoRec /\ ~NewProtocol.acceptPackets
    BY DEF NewProtocol, ProtoRec
  <2>. QED  BY <1>1, <2>1, OneProtocol
<1>4. /\ ~conn'[c].closed /\ ~conn'[c].receivedFirst
      /\ proto'[c].player = NoPlayer /\ ~proto'[c].acceptPackets /\ ~proto'[c].released
  BY <1>2, <1>3 DEF NewConnection, NewProtocol
<1>5. \A op, d : Waiting(op, d)' = Waiting(op, d)
  BY <1>1 DEF Waiting
<1>6. \A op : Waiting(op, c)' = 0
  <2>. SUFFICES ASSUME NEW op PROVE Waiting(op, c) = 0
    BY <1>5
  <2>1. ATask(op, c).c = c
    BY DEF ATask
  <2>2. {i \in DOMAIN tasks : tasks[i] = ATask(op, c)} = {}
    BY <1>1, <2>1
  <2>. QED  BY <2>2, FS_EmptySet DEF Waiting
<1>7. OneLogin'
  <2>. SUFFICES ASSUME NEW d \in Conn
                PROVE  /\ Pending(d)' <= 1
                       /\ Pending(d)' = 1 => proto'[d].player = NoPlayer /\ ~proto'[d].acceptPackets
                       /\ (d \in timers' \/ Waiting("connect", d)' > 0)
                            => proto'[d].connectTo \in Player
    BY DEF OneLogin
  <2>1. CASE d = c
    <3>1. Pending(d)' = 1
      BY <1>1, <1>4, <1>6, <2>1 DEF Pending
    <3>. QED  BY <1>1, <1>4, <1>6, <2>1, <3>1
  <2>2. CASE d # c
    <3>1. Pending(d)' = Pending(d) /\ proto'[d] = proto[d]
      BY <1>1, <1>2, <1>3, <1>5, <2>2 DEF Pending
    <3>. QED  BY <1>1, <1>5, <3>1 DEF Inv, OneLogin
  <2>. QED  BY <2>1, <2>2
<1>8. ReleasedOnce'
  <2>. SUFFICES ASSUME NEW d \in Conn
                PROVE  Waiting("release", d)' + (IF proto'[d].released THEN 1 ELSE 0)
                         = IF conn'[d].closed THEN 1 ELSE 0
    BY DEF ReleasedOnce
  <2>1. CASE d = c
    BY <1>4, <1>6, <2>1
  <2>2. CASE d # c
    BY <1>2, <1>3, <1>5, <2>2 DEF Inv, ReferencesCounted, ReleasedOnce
  <2>. QED  BY <2>1, <2>2
<1>9. ClientPaired'
  <2>1. \A d \in Conn : proto'[d].player = proto[d].player
    BY <1>1, <1>3, <1>4
  <2>. QED  BY <1>1, <2>1 DEF Inv, ClientPaired
<1>10. ParsesOpen'
  BY <1>1, <1>2 DEF Inv, ParsesOpen, Expired, TypeOK, ConnTypeOK, Idle
<1>11. ReferencesCounted' /\ ToReleaseOnce' /\ OutputIsSent'
  BY <1>1, <1>8 DEF Inv, ReferencesCounted, ToReleaseOnce, OutputIsSent
<1>12. TypeOK'
  BY <1>1, <1>2, <1>3 DEF TypeOK, ConnTypeOK
<1>. QED  BY <1>3, <1>7, <1>9, <1>10, <1>11, <1>12 DEF Inv

-----------------------------------------------------------------------------
LEMMA InvInit == Init => Inv
<1>. SUFFICES ASSUME Init PROVE Inv
  OBVIOUS
<1>1. /\ conn = [c \in Conn |-> NewConnection] /\ net = Idle /\ tasks = <<>>
      /\ proto = [c \in Conn |-> NewProtocol] /\ players = [p \in Player |-> NewPlayer]
      /\ timers = {} /\ buffered = {} /\ chains = 0
  BY DEF Init, ConnInit
<1>2. \A op, c : Waiting(op, c) = 0
  BY <1>1, WaitingIsCount, CountNone
<1>3. \A c \in Conn : /\ ~conn[c].closed /\ ~conn[c].receivedFirst
                      /\ proto[c].player = NoPlayer /\ ~proto[c].acceptPackets
                      /\ ~proto[c].released
  BY <1>1 DEF NewConnection, NewProtocol
<1>4. TypeOK
  <2>1. NewConnection \in ConnRec /\ NewProtocol \in ProtoRec
    BY ConnectionAssumption DEF NewConnection, ConnRec, NewProtocol, ProtoRec
  <2>2. tasks \in Seq(Task)
    BY <1>1
  <2>. QED  BY <1>1, <2>1, <2>2, NewPlayerIs, SessionAssumption DEF TypeOK, ConnTypeOK
<1>5. ClientPaired /\ AcceptsWithPlayer
  BY <1>1, <1>3, NewPlayerIs, ConnectionAssumption, SessionAssumption
     DEF ClientPaired, AcceptsWithPlayer
<1>6. ReferencesCounted
  <2>1. ReleasedOnce
    BY <1>2, <1>3 DEF ReleasedOnce
  <2>. QED  BY <1>1, <2>1, NewPlayerIs DEF ReferencesCounted
<1>7. OneLogin
  <2>1. \A c \in Conn : Pending(c) = 1
    BY <1>1, <1>2, <1>3 DEF Pending
  <2>. QED  BY <1>1, <1>2, <1>3, <2>1 DEF OneLogin
<1>8. OutputIsSent /\ ParsesOpen
  BY <1>1 DEF OutputIsSent, ParsesOpen, Idle
<1>9. ToReleaseOnce
  BY <1>1, NewPlayerIs DEF ToReleaseOnce
<1>. QED  BY <1>4, <1>5, <1>6, <1>7, <1>8, <1>9 DEF Inv

LEMMA InvStep == Inv /\ [Next]_vars => Inv'
<1>. SUFFICES ASSUME Inv, [Next]_vars PROVE Inv'
  OBVIOUS
<1>1. CASE UNCHANGED vars
  <2>1. \A op, c : Waiting(op, c)' = Waiting(op, c)
    BY <1>1 DEF Waiting, vars, connVars
  <2>2. Summary({}, {}, {})
    BY <1>1, UnchangedSummary DEF vars, connVars
  <2>3. /\ UNCHANGED <<proto, players, timers>>
        /\ buffered' \subseteq Conn /\ chains' \in 0 .. MaxChains /\ OutputIsSent'
    BY <1>1 DEF Inv, TypeOK, OutputIsSent, vars
  <2>. QED  BY <2>2, <2>3, QuietKeeps
<1>2. CASE \E c \in Conn : \/ Handlers(c) /\ Quiet
                           \/ RecvFirstMessage(c) \/ RecvMessage(c)
                           \/ DispatcherTask(c) \/ ConnectTimer(c) \/ Renew(c)
  <2>. PICK c \in Conn : \/ Handlers(c) /\ Quiet
                         \/ RecvFirstMessage(c) \/ RecvMessage(c)
                         \/ DispatcherTask(c) \/ ConnectTimer(c) \/ Renew(c)
    BY <1>2
  <2>1. CASE Handlers(c) /\ Quiet
    BY <2>1, HandlersStep
  <2>2. CASE RecvFirstMessage(c) \/ RecvMessage(c)
    BY <2>2, ParsedStep
  <2>3. CASE DispatcherTask(c)
    BY <2>3, LoginNewStep, LoginPlacedStep, LoginReplacesStep, LoginTwiceStep, LoginConnectsStep,
       ConnectStep, LogoutRefusedStep, LogoutStep, ReleaseStep DEF DispatcherTask
  <2>4. CASE ConnectTimer(c)
    BY <2>4, ConnectTimerStep
  <2>5. CASE Renew(c)
    BY <2>5, RenewStep
  <2>. QED  BY <2>1, <2>2, <2>3, <2>4, <2>5
<1>3. CASE \E p \in Player : Kick(p) \/ Die(p)
  BY <1>3, KickStep, DieStep
<1>4. CASE HandlerEnds /\ Quiet
  BY <1>4, HandlerEndsStep
<1>5. CASE CheckCreatures
  BY <1>5, CheckCreaturesStep
<1>6. CASE SendAll
  BY <1>6, SendAllStep
<1>. QED  BY <1>1, <1>2, <1>3, <1>4, <1>5, <1>6 DEF Next

(* The inductive invariant holds in every state. *)
THEOREM Invariant == Spec => []Inv
BY InvInit, InvStep, PTL DEF Spec

(* Every variable keeps to its type: no counter of a Player object leaves   *)
(* its range.                                                               *)
THEOREM TypeCorrect == Spec => []TypeOK
<1>1. Inv => TypeOK
  BY DEF Inv
<1>. QED  BY <1>1, Invariant, PTL

(* A protocol and its player point to each other, and no two protocols have *)
(* the same player, whatever logins, replacements and releases compete.     *)
THEOREM PairsMatch == Spec => []ClientPaired
<1>1. Inv => ClientPaired
  BY DEF Inv
<1>. QED  BY <1>1, Invariant, PTL

(* Each Player object has the references of those that hold it, and each    *)
(* closed connection has its protocol released once.                        *)
THEOREM ReferencesAreRight == Spec => []ReferencesCounted
<1>1. Inv => ReferencesCounted
  BY DEF Inv
<1>. QED  BY <1>1, Invariant, PTL

(* While a protocol is in bufferedProtocols, a sendAll is to come.          *)
THEOREM OutputGetsSent == Spec => []OutputIsSent
<1>1. Inv => OutputIsSent
  BY DEF Inv
<1>. QED  BY <1>1, Invariant, PTL

(* No release is on its way while a packet is parsed: the connection is not *)
(* closed.                                                                  *)
LEMMA InvParses == Inv => PlayerAliveWhileParsed
<1>. SUFFICES ASSUME Inv, NEW c \in Conn, Parsing(c), proto[c].acceptPackets
              PROVE  /\ ~proto[c].released /\ Waiting("release", c) = 0
                     /\ proto[c].player # NoPlayer /\ players[proto[c].player].refs > 0
  BY DEF PlayerAliveWhileParsed
<1>1. ~conn[c].closed
  BY DEF Inv, ParsesOpen, Parsing
<1>. DEFINE waits == Waiting("release", c)
<1>2. waits \in Nat
  <2>1. tasks \in Seq(Task) /\ waits = Count(tasks, ATask("release", c))
    BY WaitingIsCount DEF Inv, TypeOK, ConnTypeOK
  <2>. QED  BY <2>1, PlacesFinite
<1>3. waits + (IF proto[c].released THEN 1 ELSE 0) = 0
  BY <1>1 DEF Inv, ReferencesCounted, ReleasedOnce
<1>. HIDE DEF waits
<1>4. waits = 0 /\ ~proto[c].released
  BY <1>2, <1>3
<1>5. proto[c].player # NoPlayer
  BY <1>4 DEF Inv, AcceptsWithPlayer
<1>6. proto[c].player \in Player /\ players[proto[c].player].client = c
  BY <1>5 DEF Inv, TypeOK, ProtoRec, ClientPaired
<1>7. players[proto[c].player].refs > 0
  <2>. DEFINE r == players[proto[c].player]
  <2>1. RefsRight(r) /\ r \in PlayerRec /\ r.client # NoConn
    BY <1>6, RefsOf, ConnectionAssumption
  <2>. HIDE DEF r
  <2>2. r.toRelease \in Nat /\ r.refs \in Nat
    BY <2>1 DEF PlayerRec
  <2>. DEFINE others == (IF r.placed = "game" THEN 1 ELSE 0) + (IF r.checked THEN 1 ELSE 0)
  <2>3. others \in Nat
    OBVIOUS
  <2>4. r.refs = 1 + others + r.toRelease
    BY <2>1, <2>2 DEF RefsRight
  <2>. HIDE DEF others
  <2>5. r.refs > 0
    BY <2>2, <2>3, <2>4
  <2>. QED  BY <2>5 DEF r
<1>. QED  BY <1>4, <1>5, <1>7 DEF waits

(* The network thread parses a packet of a protocol that accepts packets    *)
(* only while its Player object is there.                                   *)
THEOREM ParsedPlayerLives == Spec => []PlayerAliveWhileParsed
BY Invariant, InvParses, PTL
=============================================================================
