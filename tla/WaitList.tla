------------------------------ MODULE WaitList ------------------------------
(***************************************************************************)
(* The waiting list of protocolgame.cpp: a login to a full server puts the *)
(* character on one of two lists and tells the client its slot and when to *)
(* try again.  clientLogin runs in one dispatcher task, with the login it  *)
(* allows.                                                                 *)
(*                                                                         *)
(* Times are what is left of them, in seconds; the clock moves in steps of *)
(* 5, which divides every time in the code.                                *)
(***************************************************************************)
EXTENDS Integers, Sequences, FiniteSets, TLC

CONSTANTS Client,         \* the characters, by their GUID
          Privileged,     \* CanAlwaysLogin, or a gamemaster's account
          MaxPlayers,     \* configuration, 0 for no limit
          MaxList,        \* bound: entries on the two lists together
          Garbage         \* a GUID that belongs to nobody

ASSUME WaitListAssumption ==
  /\ Privileged \subseteq Client
  /\ MaxPlayers \in Nat /\ MaxList \in Nat
  /\ Garbage \notin Client

VARIABLES priorityWaitList, waitList,  \* entries (timeout, player guid)
          status,         \* of each client: away, waiting for its next try, or online
          retryIn,        \* seconds until a waiting client tries again
          premium         \* the clients with a premium account

vars == <<priorityWaitList, waitList, status, retryIn, premium>>

Lists == priorityWaitList \o waitList
Online == {c \in Client : status[c] = "online"}

GetWaitTime(slot) == CASE slot < 5 -> 5
                       [] slot \in 5 .. 9 -> 10
                       [] slot \in 10 .. 19 -> 20
                       [] slot \in 20 .. 49 -> 60
                       [] OTHER -> 120

(* A mutant: milliseconds added to seconds. *)
GetTimeoutMixed(slot) == GetWaitTime(slot) + 15 * 1000
GetTimeout(slot) == GetWaitTime(slot) + 15

Times == {5 * i : i \in 0 .. 27}
Entry == [left : Times, guid : Client \cup {Garbage}]

TypeOK ==
  /\ priorityWaitList \in Seq(Entry) /\ waitList \in Seq(Entry)
  /\ status \in [Client -> {"away", "waiting", "online"}]
  /\ retryIn \in [Client -> Times]
  /\ premium \subseteq Client

Init ==
  /\ priorityWaitList = <<>> /\ waitList = <<>>
  /\ status = [c \in Client |-> "away"]
  /\ retryIn = [c \in Client |-> 0]
  /\ premium \in SUBSET (Client \ Privileged)

-----------------------------------------------------------------------------
Fresh(e) == e.left > 0

(* What is kept of the first i entries. *)
Kept(list) ==
  LET kept[i \in 0 .. Len(list)] ==
        IF i = 0 THEN <<>>
        ELSE IF Fresh(list[i]) THEN Append(kept[i - 1], list[i])
        ELSE kept[i - 1]
  IN  kept

CleanupList(list) == Kept(list)[Len(list)]

IndexOf(list, c) == IF \E i \in DOMAIN list : list[i].guid = c
                      THEN CHOOSE i \in DOMAIN list :
                             list[i].guid = c /\ \A j \in 1 .. i - 1 : list[j].guid # c
                      ELSE 0

RemoveAt(list, i) == SubSeq(list, 1, i - 1) \o SubSeq(list, i + 1, Len(list))

(* findClient: which list, where in it, and the slot.  std::distance(it,   *)
(* end) + 1 counts from the end of the list and one more.                  *)
SlotFromEnd(list, i) == (Len(list) - (i - 1)) + 1

FindClient(prio, wait, c) ==
  LET p == IndexOf(prio, c)
      w == IndexOf(wait, c)
  IN  CASE p > 0 -> [list |-> "priority", index |-> p, slot |-> SlotFromEnd(prio, p)]
        [] p = 0 /\ w > 0 -> [list |-> "normal", index |-> w,
                              slot |-> Len(prio) + SlotFromEnd(wait, w)]
        [] OTHER -> [list |-> "none", index |-> 0, slot |-> 0]

(* A mutant: the newcomer is compared with the limit only. *)
DirectAccessIfRoom(prio, wait) ==
  MaxPlayers = 0 \/ Cardinality(Online) < MaxPlayers

DirectAccess(prio, wait) ==
  MaxPlayers = 0 \/ (prio = <<>> /\ wait = <<>> /\ Cardinality(Online) < MaxPlayers)

(* A mutant: the limit itself is not counted in. *)
CapacityForOneMore(slot) == Cardinality(Online) + slot <= MaxPlayers + 2
CapacityFor(slot) == Cardinality(Online) + slot <= MaxPlayers

(* "let them wait a bit longer" assigns to ->second: the new timeout goes   *)
(* into the GUID of the entry, whose timeout stays.                         *)
WaitLonger(list, i) == [list EXCEPT ![i].guid = Garbage]

(* The login goes on, and still fails when the character cannot be loaded  *)
(* or placed on the map.                                                   *)
LetIn(c) == /\ \E s \in {"online", "away"} : status' = [status EXCEPT ![c] = s]
            /\ retryIn' = [retryIn EXCEPT ![c] = 0]

(* "You are at place slot on the waiting list": the client's timer is set. *)
Wait(c, slot) == /\ status' = [status EXCEPT ![c] = "waiting"]
                 /\ retryIn' = [retryIn EXCEPT ![c] = GetWaitTime(slot)]

(* A mutant: the entry of a client that is let in stays. *)
KeepEntry(list, i) == list
DropEntry(list, i) == RemoveAt(list, i)

(* The list of the entry that was found becomes new. *)
Replace(found, prio, wait, new) ==
  /\ priorityWaitList' = IF found.list = "priority" THEN new ELSE prio
  /\ waitList' = IF found.list = "normal" THEN new ELSE wait

(* A mutant: only the list of the client's account type is searched. *)
NewEntryAlways(found) == found.list = "none" \/ found.list = "normal"
NewEntry(found) == found.list = "none"

(* clientLogin, and the login it allows. *)
Login(c) ==
  /\ status[c] = "away" \/ (status[c] = "waiting" /\ retryIn[c] = 0)
  /\ UNCHANGED premium
  /\ IF c \in Privileged
       THEN LetIn(c) /\ UNCHANGED <<priorityWaitList, waitList>>
       ELSE
         LET prio == CleanupList(priorityWaitList)
             wait == CleanupList(waitList)
             found == FindClient(prio, wait, c)
             slot == (IF c \in premium THEN 0 ELSE Len(wait)) + Len(prio) + 1
             its == IF found.list = "priority" THEN prio ELSE wait
             entry == [left |-> GetTimeout(slot), guid |-> c]
         IN  IF DirectAccess(prio, wait)
               THEN LetIn(c) /\ priorityWaitList' = prio /\ waitList' = wait
             ELSE IF NewEntry(found)
               THEN /\ slot <= MaxList
                    /\ Wait(c, slot)
                    /\ priorityWaitList' = IF c \in premium THEN Append(prio, entry) ELSE prio
                    /\ waitList' = IF c \in premium THEN wait ELSE Append(wait, entry)
             ELSE IF CapacityFor(found.slot)
               THEN LetIn(c) /\ Replace(found, prio, wait, DropEntry(its, found.index))
             ELSE /\ Wait(c, found.slot)
                  /\ Replace(found, prio, wait, WaitLonger(its, found.index))

-----------------------------------------------------------------------------
(* The environment *)

Logout(c) ==
  /\ status[c] = "online"
  /\ status' = [status EXCEPT ![c] = "away"]
  /\ UNCHANGED <<priorityWaitList, waitList, retryIn, premium>>

(* The user closes the client, and may try again at any time. *)
GiveUp(c) ==
  /\ status[c] = "waiting"
  /\ status' = [status EXCEPT ![c] = "away"]
  /\ retryIn' = [retryIn EXCEPT ![c] = 0]
  /\ UNCHANGED <<priorityWaitList, waitList, premium>>

(* Premium time is bought on the website while the character is offline. *)
BuyPremium(c) ==
  /\ status[c] # "online" /\ c \notin premium \cup Privileged
  /\ premium' = premium \cup {c}
  /\ UNCHANGED <<priorityWaitList, waitList, status, retryIn>>

Elapse(list) == [i \in DOMAIN list |->
                   [list[i] EXCEPT !.left = IF @ > 5 THEN @ - 5 ELSE 0]]

(* Five seconds pass.  A waiting client tries again when its time has come. *)
Tick ==
  /\ \A c \in Client : status[c] = "waiting" => retryIn[c] > 0
  /\ priorityWaitList' = Elapse(priorityWaitList)
  /\ waitList' = Elapse(waitList)
  /\ retryIn' = [c \in Client |-> IF retryIn[c] > 5 THEN retryIn[c] - 5 ELSE 0]
  /\ UNCHANGED <<status, premium>>

Next == \/ \E c \in Client : Login(c) \/ Logout(c) \/ GiveUp(c) \/ BuyPremium(c)
        \/ Tick

Spec == Init /\ [][Next]_vars

(* Who waits where does not depend on the names of the ordinary clients. *)
Symmetry == Permutations(Client \ Privileged)

-----------------------------------------------------------------------------
(* A character waits in one entry of one list, whatever its account becomes *)
(* between two tries, and no entry of an online character is left behind.   *)
OneEntryPerClient ==
  /\ \A i, j \in DOMAIN Lists :
       (Lists[i].guid = Lists[j].guid /\ Lists[i].guid # Garbage
          /\ Lists[i].left > 0 /\ Lists[j].left > 0) => i = j
  /\ \A i \in DOMAIN Lists : Lists[i].left > 0 => Lists[i].guid \notin Online

(* The lists never let in more than the limit: a login without privileges   *)
(* finds a free place.                                                      *)
LimitKept ==
  [][MaxPlayers > 0 =>
       \A c \in Client \ Privileged :
         (c \notin Online /\ c \in Online') => Cardinality(Online) < MaxPlayers]_vars

(* A newcomer does not slip past the clients that wait: while an entry that *)
(* has not timed out is on a list, only a client with an entry is let in.   *)
NoBarging ==
  [][MaxPlayers > 0 =>
       \A c \in Client \ Privileged :
         (c \notin Online /\ c \in Online' /\ \E i \in DOMAIN Lists : Lists[i].left > 0)
           => \E i \in DOMAIN Lists : Lists[i].guid = c /\ Lists[i].left > 0]_vars

(* A try of c that ends with "too many players online". *)
TurnedAway(c) == retryIn[c] = 0 /\ retryIn'[c] > 0

(* protocolgame.cpp:123, "If server has capacity for this client, let him   *)
(* in": the client at place p of the lists is let in when p places are free. *)
CapacityLetsIn ==
  [][\A c \in Client : \A p \in DOMAIN Lists :
       (/\ Lists[p].guid = c
        /\ \A q \in DOMAIN Lists : Lists[q].left > 0
        /\ Cardinality(Online) + p <= MaxPlayers)
         => ~TurnedAway(c)]_vars

(* protocolgame.cpp:129, "let them wait a bit longer": a client that tries   *)
(* again as told, and is turned away again, still has its entry.             *)
WaitingKeepsEntry ==
  [][\A c \in Client : TurnedAway(c) => \E i \in DOMAIN Lists' : Lists'[i].guid = c]_vars
=============================================================================
