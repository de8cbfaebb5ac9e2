------------------------------ MODULE Session ------------------------------
(***************************************************************************)
(* Game sessions of one character (connection.cpp, protocolgame.cpp,       *)
(* game.cpp, player.cpp): the sockets and the network thread that runs     *)
(* their completion handlers, and over them login, replacing another       *)
(* client of the same character, logout, kick, death, and the release of a *)
(* closed protocol.  The tasks of the dispatcher change the protocols and  *)
(* the Player objects; the network thread reads them while it parses a     *)
(* packet, with no lock but that of its connection.                        *)
(*                                                                         *)
(* A handler of the network thread is one step, what it does under         *)
(* connectionLock; they run one at a time.  parsePacket is two, because it *)
(* calls the protocol: what that does is a step of its own.  After a close *)
(* the end of the handler is a step too, since until then it keeps the     *)
(* Connection object alive.  A task is one step, taken when no connection  *)
(* that it closes or sends to is locked.                                   *)
(*                                                                         *)
(* Abstracted: contents of messages, and the timers of connections, which  *)
(* are armed as long as there is something to wait for: a timeout may come *)
(* at any time.  The scheduler: what it was given happens later.  Objects  *)
(* that are gone are used again for new ones.                              *)
(***************************************************************************)
EXTENDS Naturals, Sequences, FiniteSets, TLC

-----------------------------------------------------------------------------
(* Connections.  Other threads than their own call send and close; closing *)
(* hands the release of the protocol to the dispatcher as a task.          *)

CONSTANTS Conn,           \* connections at a time, each with the protocol made for it
          NoConn,
          MaxQueue        \* bound: messages waiting to be written

ASSUME ConnectionAssumption == NoConn \notin Conn /\ MaxQueue \in Nat

VARIABLES conn,           \* the fields of each connection
          net,            \* the handler that the network thread is in
          tasks           \* the tasks that wait in the dispatcher, in order

connVars == <<conn, net, tasks>>

ConnRec == [accepted : BOOLEAN,    \* onAccept was called
            closed : BOOLEAN,
            open : BOOLEAN,        \* the socket, until closeSocket
            reading : {"no", "header", "packet"},  \* the pending async_read
            queue : 0 .. MaxQueue, \* length of messageQueue; its front is being written
            receivedFirst : BOOLEAN]

Task == [op : {"login", "connect", "logout", "release"}, c : Conn]
ATask(op, c) == [op |-> op, c |-> c]

Idle == [at |-> "idle", c |-> NoConn]

ConnTypeOK ==
  /\ conn \in [Conn -> ConnRec]
  /\ net \in [at : {"parse", "end"}, c : Conn] \cup {Idle}
  /\ tasks \in Seq(Task)

NewConnection == [accepted |-> FALSE, closed |-> FALSE, open |-> FALSE, reading |-> "no",
                  queue |-> 0, receivedFirst |-> FALSE]

ConnInit ==
  /\ conn = [c \in Conn |-> NewConnection]
  /\ net = Idle
  /\ tasks = <<>>

-----------------------------------------------------------------------------
(* connectionLock: parsePacket keeps others out. *)
Locked(c) == net = [at |-> "parse", c |-> c]

(* shared_from_this: the manager holds a connection until it is closed, its *)
(* pending reads and writes do, and the handler that runs does.             *)
Expired(c) ==
  conn[c].closed /\ conn[c].reading = "no" /\ conn[c].queue = 0 /\ net.c # c

(* A call on a connection is a function of the record k of the connection   *)
(* and the list t of the dispatcher, since a handler may make several.      *)
State(c) == [k |-> conn[c], t |-> tasks]

(* A mutant: the task is added even when the connection is closed already. *)
CloseAgain(s, c, force) ==
  [k |-> [s.k EXCEPT !.closed = TRUE, !.open = @ /\ s.k.queue > 0 /\ ~force],
   t |-> Append(s.t, ATask("release", c))]

Close(s, c, force) ==
  IF s.k.closed THEN s
  ELSE [k |-> [s.k EXCEPT !.closed = TRUE, !.open = @ /\ s.k.queue > 0 /\ ~force],
        t |-> Append(s.t, ATask("release", c))]

Send(s) == IF s.k.closed THEN s ELSE [s EXCEPT !.k.queue = @ + 1]

(* ProtocolGame::disconnectClient *)
DisconnectClient(s, c) == Close(Send(s), c, FALSE)

(* The handler of the network thread has done this to connection c. *)
Handled(s, c) ==
  /\ conn' = [conn EXCEPT ![c] = s.k]
  /\ tasks' = s.t
  /\ net' = IF s.k.closed THEN [at |-> "end", c |-> c] ELSE Idle

-----------------------------------------------------------------------------
(* Handlers of the network thread *)

(* ServicePort::onAccept and accept(protocol); the task for onConnect does   *)
(* nothing, its body is commented out.                                        *)
Accept(c) ==
  /\ net = Idle /\ ~conn[c].accepted
  /\ Handled([State(c) EXCEPT !.k = [@ EXCEPT !.accepted = TRUE, !.open = TRUE,
                                              !.reading = "header"]], c)

Reading(c, what) == net = Idle /\ conn[c].reading = what
ReadDone(c) == [State(c) EXCEPT !.k.reading = "no"]

(* The read failed, as it must when the socket was closed; or, of a header, *)
(* the size in it is wrong.                                                  *)
ReadFails(c) ==
  /\ \E what \in {"header", "packet"} : Reading(c, what)
  /\ Handled(Close(ReadDone(c), c, TRUE), c)

ReadOnClosed(c) ==
  /\ \E what \in {"header", "packet"} : Reading(c, what)
  /\ conn[c].open /\ conn[c].closed
  /\ Handled(ReadDone(c), c)

(* parseHeader: the packet is read, or there were too many of them. *)
ParseHeader(c) ==
  /\ Reading(c, "header") /\ conn[c].open /\ ~conn[c].closed
  /\ \/ Handled([State(c) EXCEPT !.k.reading = "packet"], c)
     \/ Handled(Close(ReadDone(c), c, FALSE), c)

(* A mutant: nothing is looked at but the socket. *)
MayParseClosed(c) == conn[c].open
MayParse(c) == conn[c].open /\ ~conn[c].closed

(* parsePacket, up to the call of the protocol. *)
ParsePacket(c) ==
  /\ Reading(c, "packet") /\ MayParse(c)
  /\ conn' = [conn EXCEPT ![c].reading = "no"]
  /\ net' = [at |-> "parse", c |-> c]
  /\ UNCHANGED tasks

(* parsePacket, after the protocol left s: the next header is read. *)
EndParse(s, c) ==
  Handled([s EXCEPT !.k = [@ EXCEPT !.reading = "header", !.receivedFirst = TRUE]], c)

(* The socket of a connection closed meanwhile waited for the last write.    *)
LastWritten(k) == IF k.queue = 0 /\ k.closed THEN [k EXCEPT !.open = FALSE] ELSE k

OnWriteOperation(c) ==
  /\ net = Idle /\ conn[c].queue > 0
  /\ LET s == State(c)
     IN  \/ /\ conn[c].open
            /\ Handled([s EXCEPT !.k = LastWritten([conn[c] EXCEPT !.queue = @ - 1])], c)
         \/ Handled(Close([s EXCEPT !.k.queue = 0], c, TRUE), c)

(* handleTimeout *)
Timeout(c) ==
  /\ net = Idle /\ conn[c].accepted /\ ~conn[c].closed
  /\ Handled(Close(State(c), c, TRUE), c)

HandlerEnds ==
  /\ net.at = "end"
  /\ net' = Idle
  /\ UNCHANGED <<conn, tasks>>

(* Every handler but the rest of parsePacket, for connection c. *)
Handlers(c) == \/ Accept(c) \/ ReadFails(c) \/ ReadOnClosed(c) \/ ParseHeader(c)
               \/ ParsePacket(c) \/ OnWriteOperation(c) \/ Timeout(c)

-----------------------------------------------------------------------------
(* Sessions *)

CONSTANTS Player,         \* Player objects at a time
          NoPlayer,
          MaxChains,      \* bound: sendAll tasks under way
          MaxLogouts      \* bound: logout tasks of a protocol that wait

ASSUME SessionAssumption == MaxChains \in Nat /\ MaxLogouts \in Nat /\ NoPlayer \notin Player

VARIABLES proto,          \* the fields of each ProtocolGame
          players,        \* the Player objects
          timers,         \* protocols whose connect() waits in the scheduler
          buffered,       \* bufferedProtocols
          chains          \* sendAll tasks that wait in the scheduler

vars == <<connVars, proto, players, timers, buffered, chains>>

ProtoRec == [player : Player \cup {NoPlayer},
             acceptPackets : BOOLEAN,
             connectTo : Player \cup {NoPlayer},  \* the argument of connect()
             released : BOOLEAN]                \* history: release() was run

PlayerRec == [refs : 0 .. 3,                 \* referenceCounter
              placed : {"no", "game", "removed"},
              checked : BOOLEAN,           \* in a list of checkCreatures
              toRelease : 0 .. 2,          \* times in ToReleaseCreatures
              client : Conn \cup {NoConn},
              isConnecting : BOOLEAN]

TypeOK ==
  /\ ConnTypeOK
  /\ proto \in [Conn -> ProtoRec]
  /\ players \in [Player -> PlayerRec]
  /\ timers \subseteq Conn /\ buffered \subseteq Conn
  /\ chains \in 0 .. MaxChains

NewPlayer == [refs |-> 0, placed |-> "no", checked |-> FALSE, toRelease |-> 0,
              client |-> NoConn, isConnecting |-> FALSE]

NewProtocol == [player |-> NoPlayer, acceptPackets |-> FALSE, connectTo |-> NoPlayer,
                released |-> FALSE]

Init ==
  /\ ConnInit
  /\ proto = [c \in Conn |-> NewProtocol]
  /\ players = [p \in Player |-> NewPlayer]
  /\ timers = {} /\ buffered = {} /\ chains = 0

Unused == {p \in Player : players[p].refs = 0}
InGame == {p \in Player : players[p].placed = "game"}

-----------------------------------------------------------------------------
(* The protocol and the connection are gone, a new connection is made.     *)
Renew(c) ==
  /\ proto[c].released /\ Expired(c) /\ proto[c].player = NoPlayer
  /\ c \notin timers /\ proto[c].connectTo = NoPlayer
  /\ \A i \in DOMAIN tasks : tasks[i].c # c
  /\ conn' = [conn EXCEPT ![c] = NewConnection]
  /\ proto' = [proto EXCEPT ![c] = NewProtocol]
  /\ UNCHANGED <<net, tasks, players, timers, buffered, chains>>

(* ProtocolGame::parsePacket and onRecvFirstMessage, on the network thread *)

Parsing(c) == net = [at |-> "parse", c |-> c]

Quiet == UNCHANGED <<proto, players, timers, buffered, chains>>

(* The first packet: refused, or a login task. *)
RecvFirstMessage(c) ==
  /\ Parsing(c) /\ ~conn[c].receivedFirst
  /\ LET s == State(c)
     IN  \/ EndParse(Close(s, c, FALSE), c)
         \/ s.k.queue < MaxQueue /\ EndParse(DisconnectClient(s, c), c)
         \/ EndParse([s EXCEPT !.t = Append(@, ATask("login", c))], c)
  /\ Quiet

Waiting(op, c) == Cardinality({i \in DOMAIN tasks : tasks[i] = ATask(op, c)})

(* A later packet: nothing for this model, a logout, or one that closes the *)
(* connection (an overrun, or a logout with no living player).              *)
RecvMessage(c) ==
  /\ Parsing(c) /\ conn[c].receivedFirst
  /\ LET s == State(c)
     IN  \/ EndParse(s, c)
         \/ proto[c].acceptPackets /\ EndParse(Close(s, c, FALSE), c)
         \/ /\ proto[c].acceptPackets /\ proto[c].player # NoPlayer
            /\ Waiting("logout", c) < MaxLogouts
            /\ EndParse([s EXCEPT !.t = Append(@, ATask("logout", c))], c)
  /\ Quiet

-----------------------------------------------------------------------------
(* Tasks of the dispatcher.  Each takes the task at the head of the list;  *)
(* what it does to a connection d starts from After(d).                    *)

Run(op, c) == tasks # <<>> /\ Head(tasks) = ATask(op, c)
After(d) == [k |-> conn[d], t |-> Tail(tasks)]

(* The task has done this to connection d. *)
Done(s, d) == /\ ~Locked(d)
              /\ conn' = [conn EXCEPT ![d] = s.k]
              /\ tasks' = s.t
              /\ UNCHANGED net

NothingDone == tasks' = Tail(tasks) /\ UNCHANGED <<conn, net>>

Refused(c) == conn[c].queue < MaxQueue /\ Done(DisconnectClient(After(c), c), c)

(* OutputMessagePool::addProtocolToAutosend.  A mutant: the first protocol  *)
(* does not start the chain.                                                *)
NoChain == chains
ChainsStarted == IF buffered = {} THEN chains + 1 ELSE chains

AddToAutosend(c) == /\ buffered' = buffered \cup {c}
                    /\ chains' = ChainsStarted /\ chains' <= MaxChains

(* The character is not in the game: a Player is made, and is placed on the *)
(* map unless the login is refused.                                         *)
LoginNew(c) ==
  /\ Run("login", c) /\ InGame = {}
  /\ \E p \in Unused :
       /\ proto' = [proto EXCEPT ![c].player = p]
       /\ players' = [players EXCEPT ![p] = [NewPlayer EXCEPT !.refs = 1, !.client = c]]
  /\ Refused(c)
  /\ UNCHANGED <<timers, buffered, chains>>

LoginPlaced(c) ==
  /\ Run("login", c) /\ InGame = {}
  /\ NothingDone
  /\ \E p \in Unused :
       /\ proto' = [proto EXCEPT ![c].player = p, ![c].acceptPackets = TRUE]
       /\ players' = [players EXCEPT ![p] = [NewPlayer EXCEPT !.refs = 3, !.placed = "game",
                                                              !.checked = TRUE, !.client = c]]
  /\ AddToAutosend(c)
  /\ UNCHANGED timers

(* It is, with another client: that one is disconnected, and connect() is  *)
(* called in a second.                                                     *)
LoginReplaces(c) ==
  /\ Run("login", c)
  /\ \E p \in InGame :
       LET d == players[p].client
       IN  /\ d # NoConn
           /\ Done(Close(After(d), d, FALSE), d)
           /\ players' = [players EXCEPT ![p].isConnecting = TRUE]
           /\ proto' = [proto EXCEPT ![c].connectTo = p]
           /\ timers' = timers \cup {c}
  /\ AddToAutosend(c)

(* The same where replaceKickOnLogin is off. *)
LoginTwice(c) ==
  /\ Run("login", c) /\ InGame # {}
  /\ Refused(c)
  /\ Quiet

(* connect(): what becomes of the protocol and the player. *)
Connected(c, p) ==
  /\ proto' = [proto EXCEPT ![c].player = p, ![c].acceptPackets = TRUE,
                            ![c].connectTo = NoPlayer]
  /\ players' = [players EXCEPT ![p].refs = @ + 1, ![p].isConnecting = FALSE, ![p].client = c]

LoginConnects(c) ==
  /\ Run("login", c)
  /\ \E p \in InGame :
       /\ players[p].client = NoConn
       /\ IF Expired(c) THEN UNCHANGED <<proto, players>> ELSE Connected(c, p)
  /\ NothingDone
  /\ AddToAutosend(c)
  /\ UNCHANGED timers

ConnectTimer(c) ==
  /\ c \in timers
  /\ timers' = timers \ {c}
  /\ tasks' = Append(tasks, ATask("connect", c))
  /\ UNCHANGED <<conn, net, proto, players, buffered, chains>>

(* A mutant: a client that came first is not noticed. *)
FreeInGame(p) == players[p].placed = "game"
Free(p) == players[p].placed = "game" /\ players[p].client = NoConn

Connect(c) ==
  /\ Run("connect", c)
  /\ LET p == proto[c].connectTo
     IN  \/ /\ ~Free(p)
            /\ Refused(c)
            /\ proto' = [proto EXCEPT ![c].connectTo = NoPlayer]
            /\ UNCHANGED players
         \/ /\ Free(p) /\ Expired(c)
            /\ NothingDone
            /\ proto' = [proto EXCEPT ![c].connectTo = NoPlayer]
            /\ UNCHANGED players
         \/ /\ Free(p) /\ ~Expired(c)
            /\ NothingDone
            /\ Connected(c, p)
  /\ UNCHANGED <<timers, buffered, chains>>

(* Game::removeCreature *)
RemoveCreature(p) ==
  players' = [players EXCEPT ![p].placed = "removed", ![p].toRelease = @ + 1]

LogoutRefused(c) ==
  /\ Run("logout", c)
  /\ proto[c].player = NoPlayer \/ proto[c].player \in InGame
  /\ NothingDone
  /\ Quiet

Logout(c) ==
  /\ Run("logout", c) /\ proto[c].player # NoPlayer
  /\ Done(Close(After(c), c, FALSE), c)
  /\ IF proto[c].player \in InGame THEN RemoveCreature(proto[c].player) ELSE UNCHANGED players
  /\ UNCHANGED <<proto, timers, buffered, chains>>

(* A mutant: the player is forgotten and its reference kept. *)
ForgetPlayer(p) == [players EXCEPT ![p].client = NoConn]
DropPlayer(p) == [players EXCEPT ![p].client = NoConn, ![p].refs = @ - 1]

Release(c) ==
  /\ Run("release", c)
  /\ NothingDone
  /\ LET p == proto[c].player
         mine == p # NoPlayer /\ players[p].client = c
     IN  /\ players' = IF mine THEN DropPlayer(p) ELSE players
         /\ proto' = [proto EXCEPT ![c].released = TRUE,
                                   ![c].player = IF mine THEN NoPlayer ELSE @]
  /\ buffered' = buffered \ {c}
  /\ UNCHANGED <<timers, chains>>

-----------------------------------------------------------------------------
(* Tasks for which no connection is the cause *)

(* A player that is kicked, or does not answer the pings and is not         *)
(* connecting.                                                              *)
Kick(p) ==
  /\ p \in InGame
  /\ LET d == players[p].client
     IN  IF d = NoConn THEN UNCHANGED connVars
         ELSE LET s == Close(State(d), d, FALSE)
              IN  /\ ~Locked(d)
                  /\ conn' = [conn EXCEPT ![d] = s.k]
                  /\ tasks' = s.t
                  /\ UNCHANGED net
  /\ RemoveCreature(p)
  /\ UNCHANGED <<proto, timers, buffered, chains>>

(* A player that dies is removed and its client stays. *)
Die(p) ==
  /\ p \in InGame
  /\ RemoveCreature(p)
  /\ UNCHANGED <<connVars, proto, timers, buffered, chains>>

(* Game::checkCreatures: removed players leave the list that is looked at,  *)
(* and cleanup(), which is called elsewhere as well, gives back the         *)
(* references collected so far.  A mutant: ToReleaseCreatures is not cleared. *)
KeepsToRelease(f) == [p \in Player |-> [f[p] EXCEPT !.refs = @ - f[p].toRelease]]
CleanedUp(f) == [p \in Player |-> [f[p] EXCEPT !.refs = @ - f[p].toRelease, !.toRelease = 0]]

CheckCreatures ==
  /\ \E left \in SUBSET {p \in Player : players[p].checked /\ players[p].placed = "removed"} :
       players' = CleanedUp([p \in Player |->
                    IF p \in left THEN [players[p] EXCEPT !.checked = FALSE, !.toRelease = @ + 1]
                    ELSE players[p]])
  /\ players' # players
  /\ UNCHANGED <<connVars, proto, timers, buffered, chains>>

(* sendAll: what is in the buffers of the protocols of S is sent.          *)
SendAll ==
  /\ chains > 0
  /\ \E S \in SUBSET buffered :
       /\ \A c \in S : ~Locked(c) /\ conn[c].queue < MaxQueue
       /\ conn' = [c \in Conn |-> IF c \in S THEN Send(State(c)).k ELSE conn[c]]
  /\ chains' = IF buffered # {} THEN chains ELSE chains - 1
  /\ UNCHANGED <<net, tasks, proto, players, timers, buffered>>

-----------------------------------------------------------------------------
DispatcherTask(c) == \/ LoginNew(c) \/ LoginPlaced(c) \/ LoginReplaces(c) \/ LoginTwice(c)
                     \/ LoginConnects(c) \/ Connect(c) \/ LogoutRefused(c) \/ Logout(c) \/ Release(c)

Next == \/ \E c \in Conn : \/ Handlers(c) /\ Quiet
                           \/ RecvFirstMessage(c) \/ RecvMessage(c)
                           \/ DispatcherTask(c) \/ ConnectTimer(c) \/ Renew(c)
        \/ \E p \in Player : Kick(p) \/ Die(p)
        \/ HandlerEnds /\ Quiet
        \/ CheckCreatures \/ SendAll

Spec == Init /\ [][Next]_vars

(* Connections and Player objects differ only in what happens to them. *)
Symmetry == Permutations(Conn) \cup Permutations(Player)

-----------------------------------------------------------------------------
(* While the network thread parses a packet, the Player that the protocol   *)
(* points to exists and stays the same, although no lock protects it: the   *)
(* release of a protocol is only added by a close, which waits for the lock *)
(* or ends the parsing.                                                     *)
PlayerAliveWhileParsed ==
  /\ \A c \in Conn : (Parsing(c) /\ proto[c].acceptPackets)
       => /\ ~proto[c].released /\ Waiting("release", c) = 0
          /\ proto[c].player # NoPlayer /\ players[proto[c].player].refs > 0

(* A closed connection has its protocol released once.                      *)
ReleasedOnce ==
  \A c \in Conn : Waiting("release", c) + (IF proto[c].released THEN 1 ELSE 0)
                    = IF conn[c].closed THEN 1 ELSE 0

(* No two protocols have the same player, and a protocol and its player     *)
(* point to each other, whatever logins of the character compete.           *)
ClientPaired == \A c \in Conn, p \in Player : proto[c].player = p <=> players[p].client = c

(* A Player object is deleted when the last of the protocol, the map and    *)
(* the list of checkCreatures has let go of it, and not before; the protocol *)
(* lets go once, whoever closes its connection and however often.           *)
ReferencesCounted ==
  /\ ReleasedOnce
  /\ \A p \in Player :
       players[p].refs = (IF players[p].client # NoConn THEN 1 ELSE 0)
                           + (IF players[p].placed = "game" THEN 1 ELSE 0)
                           + (IF players[p].checked THEN 1 ELSE 0) + players[p].toRelease

(* Buffered output does not stay behind: while there is a protocol to send  *)
(* for, a sendAll is to come.                                               *)
OutputIsSent == buffered # {} => chains > 0

(* protocolgame.cpp:283: connect() does not take the player once the         *)
(* protocol was released, even when a message that the client does not read  *)
(* keeps the connection and its socket.                                       *)
ReleasedLetsGo ==
  [][\A c \in Conn : (proto[c].released /\ conn[c].open /\ net = Idle)
       => proto'[c].player \in {proto[c].player, NoPlayer}]_vars
=============================================================================
