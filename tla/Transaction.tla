----------------------------- MODULE Transaction -----------------------------
(***************************************************************************)
(* Database, DBTransaction (database.cpp, database.h) and the saving of a  *)
(* player (IOLoginData::savePlayer), against the one session that both     *)
(* threads use: the dispatcher thread saves, the database thread executes  *)
(* queries of its own.  saveHouse, saveHouseItems, saveHouseInfo and       *)
(* saveAccountStorageValues have the same shape: begin, statements that    *)
(* may fail, commit, and a rollback by the destructor.                     *)
(*                                                                         *)
(* A query, with its retries, is executed under databaseLock and is one    *)
(* step.  The lock is recursive; unlocking it without owning it, which     *)
(* happens when BEGIN fails, is undefined, and refused by the C library of *)
(* the builds.                                                             *)
(*                                                                         *)
(* External: the MySQL session.  It has at most one open transaction,      *)
(* which is gone when the connection is lost; the client library then      *)
(* reports the loss once and reconnects at the next call.                  *)
(*                                                                         *)
(* Abstracted: a table holds the number of the change it was written       *)
(* after, or 0 when it was emptied.  Spells are written like items.        *)
(***************************************************************************)
EXTENDS Naturals, Sequences

CONSTANTS NoTx,            \* no transaction is open
          MaxChanges,      \* changes of the player
          MaxQueries,      \* queries of the database thread
          MaxErrors,       \* statements that fail
          MaxLosses        \* lost connections

(* Assumed where this module is instantiated. *)
TransactionAssumption == {MaxChanges, MaxQueries, MaxErrors, MaxLosses} \subseteq Nat

VARIABLE s

Table == {"players", "items", "depot", "storage"}
Content == [tables : [Table -> 0 .. MaxChanges + 1], log : 0 .. MaxQueries]

TypeOK ==
  s \in [live : [Table -> 0 .. MaxChanges + 1],      \* the Player object
         needsSave : BOOLEAN,                        \* of its depot
         online : BOOLEAN,
         pc : {"idle", "begin", "locked"}, next : Nat, tries : 0 .. 3,
         lock : {"free", "dispatcher"},              \* database thread: within a step
         committed : Content, tx : Content \cup {NoTx},
         saved : [Table -> 0 .. MaxChanges + 1],     \* by the last save that succeeded
         was : SUBSET [Table -> 0 .. MaxChanges + 1],   \* history: what the player was
         known : 0 .. MaxQueries,                    \* queries that returned true
         cut : {"no", "now", "since"},               \* history: connection lost within the last
                                                     \* save, or since one that was all there
         changes : 0 .. MaxChanges, queries : 0 .. MaxQueries,
         errors : 0 .. MaxErrors, losses : 0 .. MaxLosses]

First == [t \in Table |-> 1]

Init == s = [live |-> First, needsSave |-> FALSE, online |-> TRUE,
             pc |-> "idle", next |-> 1, tries |-> 0, lock |-> "free",
             committed |-> [tables |-> First, log |-> 0], tx |-> NoTx,
             saved |-> First, was |-> {First}, known |-> 0, cut |-> "no",
             changes |-> 0, queries |-> 0, errors |-> 0, losses |-> 0]

(* What savePlayer writes *)
Statement == <<[table |-> "players", insert |-> TRUE],
               [table |-> "items", insert |-> FALSE], [table |-> "items", insert |-> TRUE],
               [table |-> "depot", insert |-> FALSE], [table |-> "depot", insert |-> TRUE],
               [table |-> "storage", insert |-> FALSE], [table |-> "storage", insert |-> TRUE]>>

-----------------------------------------------------------------------------
(* The session *)

View(t) == IF t.tx = NoTx THEN t.committed ELSE t.tx
Write(t, c) == IF t.tx = NoTx THEN [t EXCEPT !.committed = c] ELSE [t EXCEPT !.tx = c]

(* A lost connection ends the transaction, and executeQuery tries again,    *)
(* outside of any: what the save has still to write is written at once.     *)
Midway(t) == t.pc # "idle" /\ t.next <= Len(Statement)
Lost(t) == [t EXCEPT !.tx = NoTx, !.losses = @ + 1, !.cut = IF Midway(t) THEN "now" ELSE @]
Connected(t) == {t} \cup (IF t.losses = MaxLosses THEN {} ELSE {Lost(t)})

(* BEGIN commits what is open. *)
BeginTx(t) == LET c == View(t) IN [t EXCEPT !.committed = c, !.tx = c]

Fails(t) == IF t.errors = MaxErrors THEN {} ELSE {[t EXCEPT !.errors = @ + 1]}

-----------------------------------------------------------------------------
(* savePlayer *)

(* A mutant forgets what the depot holds. *)
SkippedDelete(i) == Statement[i].table = "depot" /\ Statement[i].insert /\ ~s.needsSave
Skipped(i) == Statement[i].table = "depot" /\ ~s.needsSave

(* A failed save is tried twice more when the player leaves the game; what  *)
(* autosaves and mails do when it fails is nothing.                         *)
Failed(t) ==
  LET again == ~t.online /\ t.tries < 2
  IN  [t EXCEPT !.pc = "idle", !.next = 1, !.tries = IF again THEN @ + 1 ELSE 3]

Succeeded(t) == [t EXCEPT !.pc = "idle", !.next = 1, !.tries = 3, !.saved = t.live,
                          !.cut = IF @ = "now" THEN @ ELSE "no"]

(* Database::rollback, called by the destructor in STATE_START.  A mutant   *)
(* unlocks only.                                                            *)
UnlockOnly(t) == [t EXCEPT !.lock = "free"]
Rollback(t) == [t EXCEPT !.tx = NoTx, !.lock = "free"]

(* An autosave, or one of the tries of a player that leaves.  The SELECT    *)
(* before BEGIN can fail too, and nothing has been begun then.              *)
Idle == s.pc = "idle" /\ (s.online \/ s.tries < 3)

SaveBegin ==
  /\ Idle /\ s.lock = "free"
  /\ \/ \E t \in Connected(s) : s' = [BeginTx(t) EXCEPT !.pc = "begin", !.cut = IF @ = "now" THEN "since" ELSE @]
     \/ \E t \in Fails(s) : s' \in {Failed(t), Failed(Rollback(t))}

SaveLock == s.pc = "begin" /\ s.lock = "free"
            /\ s' = [s EXCEPT !.pc = "locked", !.lock = "dispatcher"]

Executed(t, st) ==
  Write(t, [View(t) EXCEPT !.tables[st.table] = IF st.insert THEN t.live[st.table] ELSE 0])

SaveStatement ==
  /\ s.pc = "locked" /\ s.next <= Len(Statement)
  /\ \/ /\ Skipped(s.next)
        /\ s' = [s EXCEPT !.next = @ + 1]
     \/ /\ ~Skipped(s.next)
        /\ \/ \E t \in Connected(s) : s' = [Executed(t, Statement[s.next]) EXCEPT !.next = @ + 1]
           \/ \E t \in Fails(s) : s' = Failed(Rollback(t))

(* Database::commit unlocks in any case.  A lost connection makes it fail,  *)
(* before the server has committed or, its answer lost, after; another      *)
(* error leaves the transaction open.                                       *)
SaveCommit ==
  /\ s.pc = "locked" /\ s.next > Len(Statement)
  /\ LET done == [s EXCEPT !.committed = View(s), !.tx = NoTx, !.lock = "free"]
         open == [s EXCEPT !.lock = "free"]
     IN  \/ s' = Succeeded(done)
         \/ \E t \in Connected(s) \ {s} :
              s' \in {Failed([t EXCEPT !.lock = "free"]), Failed([done EXCEPT !.losses = t.losses])}
         \/ \E t \in Fails(open) : s' = Failed(t)

-----------------------------------------------------------------------------
(* The game changes the player: in itself, or by an item that goes to the   *)
(* depot or comes from there.                                               *)
Change ==
  /\ s.pc = "idle" /\ s.online /\ s.changes < MaxChanges
  /\ \E ts \in {{"players", "storage"}, {"items", "depot"}} :
       LET new == [t \in Table |-> IF t \in ts THEN s.changes + 2 ELSE s.live[t]]
       IN  s' = [s EXCEPT !.live = new, !.was = @ \cup {new},
                          !.needsSave = @ \/ "depot" \in ts, !.changes = @ + 1]

(* Player::onRemoveCreature, whose tries follow without a pause. *)
Logout ==
  /\ s.pc = "idle" /\ s.online
  /\ s' = [s EXCEPT !.online = FALSE, !.tries = 0]

(* loadPlayer, on the same session. *)
Login ==
  /\ s.pc = "idle" /\ ~s.online /\ s.tries = 3 /\ s.lock = "free"
  /\ s' = [s EXCEPT !.online = TRUE, !.needsSave = FALSE, !.live = View(s).tables,
                    !.was = @ \cup {View(s).tables}]

(* The server dies and is started again. *)
Crash ==
  /\ s' = [s EXCEPT !.online = FALSE, !.pc = "idle", !.next = 1, !.tries = 3,
                    !.lock = "free", !.tx = NoTx]

(* Database::executeQuery, of the database thread. *)
AsyncQuery ==
  /\ s.lock = "free" /\ s.queries < MaxQueries
  /\ \/ \E t \in Connected(s) :
          s' = [Write(t, [View(t) EXCEPT !.log = @ + 1])
                 EXCEPT !.queries = @ + 1, !.known = @ + 1]
     \/ \E t \in Fails(s) : s' = [t EXCEPT !.queries = @ + 1]

Next == \/ SaveBegin \/ SaveLock \/ SaveStatement \/ SaveCommit
        \/ Change \/ Logout \/ Login \/ Crash \/ AsyncQuery

Spec == Init /\ [][Next]_s

-----------------------------------------------------------------------------
(* Whatever statement fails, whenever the connection is lost between saves, *)
(* at BEGIN or at COMMIT, and whenever the server dies: what it finds again *)
(* is the player as of one moment, not before the last save that succeeded, *)
(* never an inventory of one and a depot of another.  Only a connection     *)
(* that is lost between BEGIN and COMMIT leaves part of a save, until the   *)
(* next one succeeds.                                                       *)
OneSnapshot == s.cut = "no" =>
  /\ s.committed.tables \in s.was
  /\ \A t \in Table : s.committed.tables[t] >= s.saved[t]

(* No way out of a save leaves the database locked to the other thread.     *)
LockGivenBack == s.lock = "dispatcher" <=> s.pc = "locked"

(* Database: "@return true on success, false on error", of commit().  A     *)
(* player that was saved is the one in the database.                        *)
CommitMeansAll == s.pc = "idle" /\ s.tries = 3 /\ s.tx = NoTx /\ s.saved = s.live
                    => s.committed.tables = s.live

(* The same of executeQuery(): what the database thread was told has been   *)
(* done is not undone by the save of a player.                              *)
ReportedIsKept == View(s).log >= s.known
=============================================================================
