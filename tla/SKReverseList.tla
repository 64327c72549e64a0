---------------------------- MODULE SKReverseList ----------------------------
(***************************************************************************)
(* constructNodeList and reverseNodeList (reverseList and reverseListNode  *)
(* are the same loop): a linked list is built and reversed in place.       *)
(* constructNodeList does not set next of the last node, so that the       *)
(* memory from malloc decides whether the list ends: here it is 0, which   *)
(* is NULL, or an address that is no node.                                 *)
(***************************************************************************)
EXTENDS Integers, Sequences

CONSTANT ListSizes  \* the sizes of the lists; 5 in constructNodeList

ASSUME SizesAssumption == ListSizes \subseteq Nat

VARIABLES size, link, p, newH, reverse  \* reverse is "run", "done" or "fault"
reverseVars == <<size, link, p, newH, reverse>>

Wild == -1

\* The list 1, 2, ..., size.
ReverseInit ==
  /\ size \in ListSizes
  /\ \E last \in {0, Wild} : link = [i \in 1 .. size |-> IF i < size THEN i + 1 ELSE last]
  /\ p = (IF size = 0 THEN 0 ELSE 1) /\ newH = 0
  /\ reverse = "run"

\* Mutant: next is read after it was changed.
TurnLate ==
  /\ reverse = "run" /\ p \in 1 .. size
  /\ link' = [link EXCEPT ![p] = newH]
  /\ newH' = p
  /\ p' = newH
  /\ UNCHANGED <<size, reverse>>

\* The node at p goes to the head of the new list.
Turn ==
  /\ reverse = "run" /\ p \in 1 .. size
  /\ link' = [link EXCEPT ![p] = newH]
  /\ newH' = p
  /\ p' = link[p]
  /\ UNCHANGED <<size, reverse>>

TurnEnds ==
  /\ reverse = "run" /\ p \notin 1 .. size
  /\ reverse' = IF p = 0 THEN "done" ELSE "fault"
  /\ UNCHANGED <<size, link, p, newH>>

ReverseNext == Turn \/ TurnEnds
ReverseSpec == ReverseInit /\ [][ReverseNext]_reverseVars
-----------------------------------------------------------------------------
\* The links lead from n through s, the last element of which is no node.
Linked(n, s) == s[1] = n /\ \A i \in 1 .. Len(s) - 1 : link[s[i]] = s[i + 1]

\* At every turn the nodes turned so far are a list in the opposite order that
\* ends with NULL, and the others are still the rest of the list that was built:
\* no node is lost, repeated or moved.  When the loop is done all nodes are
\* turned; it faults only if the last node was not ended by NULL.
ListKept ==
  \E turned \in 0 .. size, last \in {0, Wild} :
    /\ Linked(newH, [i \in 1 .. turned + 1 |-> turned + 1 - i])
    /\ Linked(p, [i \in 1 .. size - turned + 1 |-> IF i <= size - turned THEN turned + i ELSE last])
    /\ reverse = "done" => turned = size /\ last = 0
    /\ reverse = "fault" => last = Wild
=============================================================================
