---------------------------- MODULE MCAlgorithms ----------------------------
(***************************************************************************)
(* Each behaviour is one call of one algorithm: a machine that steps, while *)
(* the variables of the others stay as they are, or an operator on input.  *)
(***************************************************************************)
EXTENDS SKFindMiddleCount, SKFindNumberIn2DArray, SKMaxProfitOne, SKHasCycle, SKReverseList,
        SKAlgorithms

CONSTANTS ArrayElements, MaxSize, ViewCount, TreeDepth  \* see Calls
-----------------------------------------------------------------------------
\* The calls: two arrays and a number, two words, two views of a hierarchy of
\* ViewCount views, two trees of depth TreeDepth.
ArraysUpTo(n) == UNION {[0 .. m - 1 -> ArrayElements] : m \in 0 .. n}

RECURSIVE TreesUpTo(_)
TreesUpTo(d) ==
  IF d = 0 THEN {<<>>}
  ELSE {<<>>} \cup {<<v, l, r>> : v \in {0, 1}, l \in TreesUpTo(d - 1), r \in TreesUpTo(d - 1)}

Calls ==
  {[kind |-> "arrays", a |-> a, b |-> b, k |-> k] :
     a \in ArraysUpTo(MaxSize), b \in ArraysUpTo(2), k \in 0 .. MaxSize + 1}
    \cup {[kind |-> "words", x |-> x, y |-> y] : x \in 0 .. WordSize - 1, y \in 0 .. WordSize - 1}
    \cup {[kind |-> "views", superview |-> f, one |-> v, other |-> w] :
            f \in {g \in [1 .. ViewCount -> 0 .. ViewCount - 1] : \A v \in 1 .. ViewCount : g[v] < v},
            v \in 0 .. ViewCount, w \in 0 .. ViewCount}
    \cup {[kind |-> "trees", s |-> s, t |-> t] : s \in TreesUpTo(TreeDepth), t \in TreesUpTo(TreeDepth)}
-----------------------------------------------------------------------------
NoMiddle ==
  /\ list = <<>> /\ aLen = 1 /\ middle = "idle"
  /\ start = 0 /\ end = 0 /\ key = 0 /\ low = 0 /\ high = 0 /\ div = 0
NoSearch == matrix = <<>> /\ target = 0 /\ row = 0 /\ column = 0 /\ search = "run"
NoProfit == prices = <<>> /\ pricesSize = 1 /\ day = 0 /\ lowPrice = 0 /\ maxP = 0
NoCycle == next = <<>> /\ head = 0 /\ slow = 0 /\ fast = 0 /\ cycle = "run"
NoReverse == size = 0 /\ link = <<>> /\ p = 0 /\ newH = 0 /\ reverse = "idle"
NoInput == input = [kind |-> "none"]

\* The algorithm that is called.
VARIABLE called
allVars == <<middleVars, searchVars, profitVars, cycleVars, reverseVars, input, called>>

Init ==
  /\ called \in {"middle", "search", "profit", "cycle", "reverse", "operator"}
  /\ IF called = "middle" THEN MiddleInit ELSE NoMiddle
  /\ IF called = "search" THEN SearchInit ELSE NoSearch
  /\ IF called = "profit" THEN ProfitInit ELSE NoProfit
  /\ IF called = "cycle" THEN CycleInit ELSE NoCycle
  /\ IF called = "reverse" THEN ReverseInit ELSE NoReverse
  /\ IF called = "operator" THEN input \in Calls ELSE NoInput

Step ==
  \/ /\ called = "middle" /\ MiddleNext
     /\ UNCHANGED <<searchVars, profitVars, cycleVars, reverseVars>>
  \/ /\ called = "search" /\ Look
     /\ UNCHANGED <<middleVars, profitVars, cycleVars, reverseVars>>
  \/ /\ called = "profit" /\ Trade
     /\ UNCHANGED <<middleVars, searchVars, cycleVars, reverseVars>>
  \/ /\ called = "cycle" /\ Chase
     /\ UNCHANGED <<middleVars, searchVars, profitVars, reverseVars>>
  \/ /\ called = "reverse" /\ ReverseNext
     /\ UNCHANGED <<middleVars, searchVars, profitVars, cycleVars>>

Next == Step /\ UNCHANGED <<input, called>>
Spec == Init /\ [][Next]_allVars /\ WF_allVars(Next)

\* The two loops whose end is not obvious end: findMiddleCount, which never
\* narrows its range, and the chase of hasCycleMore.
LoopsReturn == (called = "middle" => MiddleEnds) /\ (called = "cycle" => CycleEnds)
=============================================================================
