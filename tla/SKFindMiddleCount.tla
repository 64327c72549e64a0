-------------------------- MODULE SKFindMiddleCount --------------------------
(***************************************************************************)
(* findMiddleCount: the middle element of an unsorted array by repeated    *)
(* partition.  The bounds low and high of findMiddleCount never move: after *)
(* a partition to the left of the middle the next one reaches to the end   *)
(* of the array again.                                                     *)
(***************************************************************************)
EXTENDS Integers

CONSTANTS Lengths, Values  \* the lengths and the elements of the arrays

ASSUME MiddleAssumption == Lengths \subseteq Nat \ {0} /\ Values \subseteq Int

VARIABLES list, aLen, middle  \* middle is the program counter, or "done"
VARIABLES start, end, key, low, high, div  \* of the current call of PartSort

bounds == <<start, end, key>>
middleVars == <<list, aLen, middle, bounds, low, high, div>>

Arrays(n) == [0 .. n - 1 -> Values]
Mid == (aLen - 1) \div 2
Exchange(a, i, j) == [a EXCEPT ![i] = a[j], ![j] = a[i]]

\* A call of PartSort for the elements from s to e.
PartSort(s, e) ==
  /\ start' = s /\ end' = e /\ key' = list[e]
  /\ low' = s /\ high' = e
  /\ middle' = "low"

MiddleInit ==
  /\ aLen \in Lengths
  /\ list \in Arrays(aLen)
  /\ start = 0 /\ end = aLen - 1 /\ key = list[aLen - 1]
  /\ low = 0 /\ high = aLen - 1 /\ div = 0
  /\ middle = "low"
-----------------------------------------------------------------------------
ScanLow ==
  /\ middle = "low"
  /\ IF low < high /\ list[low] <= key
     THEN low' = low + 1 /\ UNCHANGED middle
     ELSE middle' = "high" /\ UNCHANGED low
  /\ UNCHANGED <<list, aLen, bounds, high, div>>

ScanHigh ==
  /\ middle = "high"
  /\ IF low < high /\ list[high] >= key
     THEN high' = high - 1 /\ UNCHANGED middle
     ELSE middle' = "swap" /\ UNCHANGED high
  /\ UNCHANGED <<list, aLen, bounds, low, div>>

Swap ==
  /\ middle = "swap" /\ low < high
  /\ list' = Exchange(list, low, high)
  /\ middle' = "low"
  /\ UNCHANGED <<aLen, bounds, low, high, div>>

\* Mutant: the key stays at the end.
PlaceLater ==
  /\ middle = "swap" /\ low >= high
  /\ div' = low
  /\ middle' = "while"
  /\ UNCHANGED <<list, aLen, bounds, low, high>>

\* The key is put between the two parts.
Place ==
  /\ middle = "swap" /\ low >= high
  /\ list' = Exchange(list, high, end)
  /\ div' = low
  /\ middle' = "while"
  /\ UNCHANGED <<aLen, bounds, low, high>>

\* The loop of findMiddleCount.
SearchOn ==
  /\ middle = "while"
  /\ \/ Mid = div /\ middle' = "done" /\ UNCHANGED <<bounds, low, high>>
     \/ Mid < div /\ PartSort(0, div - 1)
     \/ Mid > div /\ PartSort(div + 1, aLen - 1)
  /\ UNCHANGED <<list, aLen, div>>

MiddleNext == ScanLow \/ ScanHigh \/ Swap \/ Place \/ SearchOn

MiddleSpec == MiddleInit /\ [][MiddleNext]_middleVars /\ WF_middleVars(MiddleNext)
-----------------------------------------------------------------------------
\* When findMiddleCount returns list[mid], no element before it is larger and
\* no element after it is smaller, although the second part of the search
\* goes over elements that were placed before.
MiddleFound ==
  middle = "done" => \A i \in 0 .. aLen - 1 : /\ i < Mid => list[i] <= list[Mid]
                                              /\ i > Mid => list[Mid] <= list[i]

\* findMiddleCount returns for every array that is not empty.
MiddleEnds == <>(middle = "done")
=============================================================================
