----------------------------- MODULE SKHasCycle -----------------------------
(***************************************************************************)
(* hasCycleMore: does a linked list run into a cycle?  A slow and a fast   *)
(* pointer go along the list until they meet or the fast one is at the     *)
(* end.  0 is NULL.                                                        *)
(***************************************************************************)
EXTENDS Integers

CONSTANT ListSize  \* the nodes are 1 .. ListSize

ASSUME ListAssumption == ListSize \in Nat \ {0}

VARIABLES next, head, slow, fast, cycle  \* cycle is "run", or the result
cycleVars == <<next, head, slow, fast, cycle>>

Nodes == 1 .. ListSize

\* "if (slow == NULL || fast->next == NULL) return false"
CycleInit ==
  /\ next \in [Nodes -> Nodes \cup {0}] /\ head \in {0, 1}
  /\ slow = head /\ fast = head
  /\ cycle = IF head # 0 /\ next[1] # 0 THEN "run" ELSE "false"

\* May the loop go on?
MoreCycle == slow # 0 /\ fast # 0 /\ next[fast] # 0

\* Mutant: the pointers are compared before they move.
ChaseEarly ==
  /\ cycle = "run"
  /\ \/ ~MoreCycle /\ cycle' = "false" /\ UNCHANGED <<slow, fast>>
     \/ /\ MoreCycle
        /\ cycle' = IF slow = fast THEN "true" ELSE "run"
        /\ slow' = next[slow] /\ fast' = next[next[fast]]
  /\ UNCHANGED <<next, head>>

\* Mutant: the slow pointer does not move.
ChaseStill ==
  /\ cycle = "run"
  /\ \/ ~MoreCycle /\ cycle' = "false" /\ UNCHANGED fast
     \/ /\ MoreCycle
        /\ fast' = next[next[fast]]
        /\ cycle' = IF slow = fast' THEN "true" ELSE "run"
  /\ UNCHANGED <<next, head, slow>>

\* A turn of the loop.
Chase ==
  /\ cycle = "run"
  /\ \/ ~MoreCycle /\ cycle' = "false" /\ UNCHANGED <<slow, fast>>
     \/ /\ MoreCycle
        /\ slow' = next[slow] /\ fast' = next[next[fast]]
        /\ cycle' = IF slow' = fast' THEN "true" ELSE "run"
  /\ UNCHANGED <<next, head>>

CycleSpec == CycleInit /\ [][Chase]_cycleVars /\ WF_cycleVars(Chase)
-----------------------------------------------------------------------------
\* A list has no end if there are nodes, the head among them, that next never
\* leaves.
Endless == \E ns \in SUBSET Nodes : head \in ns /\ \A n \in ns : next[n] \in ns

\* hasCycleMore returns true exactly for the lists that have no end, wherever
\* the cycle is entered and however long it is.
CycleFound == cycle # "run" => (cycle = "true" <=> Endless)

\* hasCycleMore returns for every list: on a cycle the pointers meet.
CycleEnds == <>(cycle # "run")
=============================================================================
