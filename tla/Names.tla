------------------------------- MODULE Names -------------------------------
(***************************************************************************)
(* Finding players by the beginning of their names: the tree of letters    *)
(* (wildcardtree.cpp) beside the map from names to players (game.cpp).     *)
(*                                                                         *)
(* A node of the tree is the sequence of letters that leads to it.         *)
(* Left out: the case of letters, and players with the same name (clones,  *)
(* which the configuration may allow).                                     *)
(***************************************************************************)
EXTENDS Naturals, Sequences, SequencesExt, FiniteSets

CONSTANTS Name,            \* sequences of letters
          Query            \* what players type before the "~"

VARIABLE s

Prefixed(q, set) == {n \in set : IsPrefix(q, n)}
Letters == UNION {Range(n) : n \in Name}
PrefixesOf(n) == {SubSeq(n, 1, k) : k \in 1 .. Len(n)}

TypeOK ==
  s \in [node : SUBSET UNION {PrefixesOf(n) : n \in Name},   \* all but the root
         breakpoint : SUBSET Name,
         online : SUBSET Name]                 \* mappedPlayerNames

Init == s = [node |-> {}, breakpoint |-> {}, online |-> {}]

-----------------------------------------------------------------------------
Children(t, n) == {m \in t.node : Len(m) = Len(n) + 1 /\ IsPrefix(n, m)}

(* WildcardTreeNode::insert.  Mutant: an inner node is not marked. *)
TreeInsertNew(t, n) ==
  [t EXCEPT !.node = @ \cup PrefixesOf(n),
            !.breakpoint = IF n \in t.node THEN @ ELSE @ \cup {n}]
TreeInsert(t, n) == [t EXCEPT !.node = @ \cup PrefixesOf(n), !.breakpoint = @ \cup {n}]

(* WildcardTreeNode::remove: up from the end of the name, until a node has  *)
(* children or ends a name.  Mutant: until it has children.                 *)
TreeRemoveToFork(t, n) ==
  LET open == [t EXCEPT !.breakpoint = @ \ {n}]
      dead[k \in Nat] == IF k > Len(n) THEN {}
                         ELSE LET cur == SubSeq(n, 1, k)
                              IN  IF Children(open, cur) \subseteq dead[k + 1]
                                  THEN {cur} \cup dead[k + 1] ELSE dead[k + 1]
  IN  [open EXCEPT !.node = @ \ dead[1]]
TreeRemove(t, n) ==
  LET open == [t EXCEPT !.breakpoint = @ \ {n}]
      dead[k \in Nat] == IF k > Len(n) THEN {}
                         ELSE LET cur == SubSeq(n, 1, k)
                              IN  IF /\ Children(open, cur) \subseteq dead[k + 1]
                                     /\ cur \notin open.breakpoint
                                  THEN {cur} \cup dead[k + 1] ELSE dead[k + 1]
  IN  IF n \in t.node THEN [open EXCEPT !.node = @ \ dead[1]] ELSE t

(* WildcardTreeNode::findOne *)
FindOne(t, q) ==
  LET follow[n \in Seq(Letters)] ==
        LET below == Children(t, n)
        IN  IF below = {} THEN [ret |-> "noerror", name |-> n]
            ELSE IF Cardinality(below) > 1 \/ n \in t.breakpoint
            THEN [ret |-> "ambiguous", name |-> n]
            ELSE follow[CHOOSE m \in below : TRUE]
  IN  IF q = <<>> \/ q \in t.node THEN follow[q] ELSE [ret |-> "notonline", name |-> q]

(* Game::getPlayerByNameWildcard *)
GetPlayerByNameWildcard(t, q) ==
  LET found == FindOne(t, q)
  IN  IF found.ret = "noerror" /\ found.name \notin t.online
      THEN [found EXCEPT !.ret = "notonline"] ELSE found

-----------------------------------------------------------------------------
AddPlayer(n) ==
  /\ n \notin s.online
  /\ s' = TreeInsert([s EXCEPT !.online = @ \cup {n}], n)

RemovePlayer(n) ==
  /\ n \in s.online
  /\ s' = TreeRemove([s EXCEPT !.online = @ \ {n}], n)

Next == \E n \in Name : AddPlayer(n) \/ RemovePlayer(n)

Spec == Init /\ [][Next]_s

-----------------------------------------------------------------------------
(* After any logins and logouts, whatever beginning of a name is looked for:*)
(* the one player in the game whose name begins so is found, and no player  *)
(* when there is none or more than one.                                     *)
FindsTheOne ==
  \A q \in Query :
    LET them == Prefixed(q, s.online)
        found == GetPlayerByNameWildcard(s, q)
    IN  CASE Cardinality(them) = 1 -> found.ret = "noerror" /\ found.name \in them
          [] them = {} -> found.ret = "notonline"
          [] OTHER -> found.ret = "ambiguous"
=============================================================================
