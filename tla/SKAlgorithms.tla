---------------------------- MODULE SKAlgorithms ----------------------------
(***************************************************************************)
(* The algorithms on arrays, strings, views and trees, as operators that   *)
(* return what the C function leaves in its array or returns, each next to *)
(* what it is to compute.  Arrays are functions on 0 .. n-1; a loop is a   *)
(* fold over its indices.                                                  *)
(***************************************************************************)
EXTENDS Integers, Sequences, FiniteSets, SequencesExt, Bitwise

CONSTANT WordSize  \* 2^64 for an NSInteger

VARIABLE input  \* the arguments of a call, a record with the field kind

\* The length that the functions are given with an array.
Size(a) == Cardinality(DOMAIN a)

\* for (i = from; i <= to; i++) x = Op(x, i)
For(Op(_, _), x, from, to) == FoldLeft(Op, x, [k \in 1 .. to - from + 1 |-> from + k - 1])

\* while (Test(x)) x = Op(x)
RECURSIVE While(_, _, _)
While(Test(_), Op(_), x) == IF Test(x) THEN While(Test, Op, Op(x)) ELSE x

Flip(a, i, j) == [a EXCEPT ![i] = a[j], ![j] = a[i]]

Sorted(a) == \A i, j \in DOMAIN a : i < j => a[i] <= a[j]
Count(a, x) == Cardinality({i \in DOMAIN a : a[i] = x})
SameElements(a, b) == DOMAIN a = DOMAIN b /\ \A x \in Range(a) \cup Range(b) : Count(a, x) = Count(b, x)
-----------------------------------------------------------------------------
(* Sorting: bubbleSort, bubbldSort, quickSortArray.                        *)

\* A pass of bubbleSort; it changes the array exactly if the flag is set.
BubblePass(a, m) == For(LAMBDA b, j : IF b[j] > b[j + 1] THEN Flip(b, j, j + 1) ELSE b, a, 0, m)

BubbleSort(a) ==
  For(LAMBDA s, i : IF s.done THEN s
                    ELSE LET b == BubblePass(s.a, Size(a) - 2 - i) IN [a |-> b, done |-> b = s.a],
      [a |-> a, done |-> FALSE], 0, Size(a) - 1).a

\* The array of bubbldSort is compared with all elements but the last.
BubbldSort(a) ==
  For(LAMBDA b, i : For(LAMBDA c, j : IF c[i] < c[j] THEN Flip(c, i, j) ELSE c, b, 0, Size(a) - 2),
      a, 0, Size(a) - 1)

\* partition leaves a hole at i or at j for the element of the other side.
Partition(a, left, right) ==
  LET temp == a[left]
      FromRight(s) ==
        LET j == Max({k \in s.i .. s.j : k = s.i \/ s.a[k] <= temp})
        IN  IF s.i < j THEN [a |-> [s.a EXCEPT ![s.i] = s.a[j]], i |-> s.i + 1, j |-> j]
            ELSE [s EXCEPT !.j = j]
      FromLeft(s) ==
        LET i == Min({k \in s.i .. s.j : k = s.j \/ s.a[k] >= temp})
        IN  IF i < s.j THEN [a |-> [s.a EXCEPT ![s.j] = s.a[i]], i |-> i, j |-> s.j - 1]
            ELSE [s EXCEPT !.i = i]
      s == While(LAMBDA t : t.i < t.j, LAMBDA t : FromLeft(FromRight(t)),
                 [a |-> a, i |-> left, j |-> right])
  IN  [a |-> [s.a EXCEPT ![s.i] = temp], i |-> s.i]

RECURSIVE QuickSortArray(_, _, _)
QuickSortArray(a, left, right) ==
  IF left > right THEN a
  ELSE LET s == Partition(a, left, right)
       IN  QuickSortArray(QuickSortArray(s.a, left, s.i - 1), s.i + 1, right)

SortArray(a) == QuickSortArray(a, 0, Size(a) - 1)

\* Each of the three sorts the array and keeps its elements, also with equal
\* elements, where partition stops on both sides and bubbleSort ends early.
SortsSort ==
  input.kind = "arrays" =>
    \A b \in {BubbleSort(input.a), BubbldSort(input.a), SortArray(input.a)} :
      Sorted(b) /\ SameElements(input.a, b)
-----------------------------------------------------------------------------
(* mergeSortedArray and merge, intersect.                                  *)

\* Mutant: the rest of the second array is lost.
MergeSortedArrayShort(a, b) ==
  While(LAMBDA s : s.p < Size(a),
        LAMBDA s : IF s.q >= Size(b) \/ a[s.p] <= b[s.q]
                   THEN [s EXCEPT !.p = @ + 1, !.result = Append(@, a[s.p])]
                   ELSE [s EXCEPT !.q = @ + 1, !.result = Append(@, b[s.q])],
        [p |-> 0, q |-> 0, result |-> <<>>]).result

\* The smaller one of the two next elements, the one of a if they are equal;
\* then what is left of a or of b.
MergeSortedArray(a, b) ==
  While(LAMBDA s : s.p < Size(a) \/ s.q < Size(b),
        LAMBDA s : IF s.q >= Size(b) \/ (s.p < Size(a) /\ a[s.p] <= b[s.q])
                   THEN [s EXCEPT !.p = @ + 1, !.result = Append(@, a[s.p])]
                   ELSE [s EXCEPT !.q = @ + 1, !.result = Append(@, b[s.q])],
        [p |-> 0, q |-> 0, result |-> <<>>]).result

\* qsort of the C library.
QSort(a) == CHOOSE b \in [DOMAIN a -> Range(a)] : Sorted(b) /\ SameElements(a, b)

\* The result is built in memory that intersect allocates; a failed malloc, after
\* which it returns NULL, is left out.
Intersect(nums1, nums2) ==
  LET a == QSort(nums1) b == QSort(nums2)
  IN  While(LAMBDA s : s.i < Size(a) /\ s.j < Size(b),
            LAMBDA s : IF a[s.i] = b[s.j]
                       THEN [i |-> s.i + 1, j |-> s.j + 1, temp |-> Append(s.temp, a[s.i])]
                       ELSE IF a[s.i] > b[s.j] THEN [s EXCEPT !.j = @ + 1]
                       ELSE [s EXCEPT !.i = @ + 1],
            [i |-> 0, j |-> 0, temp |-> <<>>]).temp

\* Two sorted arrays are merged into a sorted one that has each element as
\* often as the two together.
MergesMerge ==
  input.kind = "arrays" /\ Sorted(input.a) /\ Sorted(input.b) =>
    LET result == MergeSortedArray(input.a, input.b)
    IN  /\ Sorted(result)
        /\ \A x \in Range(result) \cup Range(input.a) \cup Range(input.b) :
             Count(result, x) = Count(input.a, x) + Count(input.b, x)

\* intersect returns each element as often as both arrays have it, and so never
\* more elements than the smaller array, the size of the memory it allocates.
IntersectsIntersect ==
  input.kind = "arrays" =>
    LET result == Intersect(input.a, input.b)
    IN  /\ Len(result) <= Min({Size(input.a), Size(input.b)})
        /\ \A x \in Range(input.a) \cup Range(input.b) :
             Count(result, x) = Min({Count(input.a, x), Count(input.b, x)})
-----------------------------------------------------------------------------
(* rotateArray, rotateArrayTwo, rotateArrayThree.                          *)

ReverseRange(a, start, end) ==
  While(LAMBDA s : s.start < s.end,
        LAMBDA s : [a |-> Flip(s.a, s.start, s.end), start |-> s.start + 1, end |-> s.end - 1],
        [a |-> a, start |-> start, end |-> end]).a

\* Each element takes the place of the next one, the last one that of the first.
RotateOnce(a) ==
  For(LAMBDA s, j : [a |-> [s.a EXCEPT ![j] = s.previous], previous |-> s.a[j]],
      [a |-> a, previous |-> a[Size(a) - 1]], 0, Size(a) - 1).a

RotateArray(a, k) == For(LAMBDA b, i : RotateOnce(b), a, 0, k - 1)

RotateArrayTwo(a, k) ==
  For(LAMBDA b, i : [b EXCEPT ![(i + k) % Size(a)] = a[i]], a, 0, Size(a) - 1)

RotateArrayThree(a, k) ==
  LET n == Size(a) m == k % n
  IN  ReverseRange(ReverseRange(ReverseRange(a, 0, n - 1), 0, m - 1), m, n - 1)

\* The three rotations move each element by k places to the right, also if k
\* is larger than the array.
RotationsAgree ==
  input.kind = "arrays" =>
    LET n == Size(input.a)
    IN  n > 0 => \A b \in {RotateArray(input.a, input.k), RotateArrayTwo(input.a, input.k),
                             RotateArrayThree(input.a, input.k)} :
                    \A i \in 0 .. n - 1 : b[(i + input.k) % n] = input.a[i]
-----------------------------------------------------------------------------
(* removeDuplicates, containsForceDuplicate, containsDuplicate,            *)
(* findRepeatNumber.                                                       *)

\* What is left of the array: the elements up to the slow index.
RemoveDuplicates(a) ==
  LET s == For(LAMBDA t, j : IF t.a[j] # t.a[t.i]
                             THEN [a |-> [t.a EXCEPT ![t.i + 1] = t.a[j]], i |-> t.i + 1] ELSE t,
               [a |-> a, i |-> 0], 1, Size(a) - 1)
  IN  IF Size(a) < 2 THEN a ELSE [k \in 0 .. s.i |-> s.a[k]]

ContainsForceDuplicate(a) == \E i, j \in DOMAIN a : i # j /\ a[i] = a[j]

ContainsDuplicate(a) ==
  LET b == BubbleSort(a) IN \E i \in 0 .. Size(b) - 2 : b[i] = b[i + 1]

\* For arrays of n elements from 0 .. n-1.
FindRepeatNumber(a) ==
  LET colocNums == For(LAMBDA c, i : [c EXCEPT ![a[i]] = @ + 1], [i \in DOMAIN a |-> 0], 0, Size(a) - 1)
      found == {i \in DOMAIN a : colocNums[i] >= 2}
  IN  IF found = {} THEN -1 ELSE Min(found)

\* containsDuplicate agrees with the comparison of all pairs, and so does
\* removeDuplicates, for sorted arrays, with the set of the elements;
\* findRepeatNumber returns an element that is there twice if there is one.
DuplicatesAgree ==
  input.kind = "arrays" =>
    LET a == input.a
        b == RemoveDuplicates(a)
    IN  /\ ContainsDuplicate(a) <=> ContainsForceDuplicate(a)
        /\ Sorted(a) => /\ Range(b) = Range(a) /\ ~ContainsForceDuplicate(b) /\ Sorted(b)
                        /\ ContainsForceDuplicate(a) <=> Size(b) < Size(a)
        /\ Range(a) \subseteq DOMAIN a =>
             IF ContainsForceDuplicate(a) THEN Count(a, FindRepeatNumber(a)) >= 2
             ELSE FindRepeatNumber(a) = -1
-----------------------------------------------------------------------------
(* moveZeroes, moveZeroesSwap, plusOne.                                    *)

MoveZeroes(a) ==
  LET s == For(LAMBDA t, i : IF t.a[i] = 0 THEN t
                             ELSE [a |-> [t.a EXCEPT ![t.j] = t.a[i]], j |-> t.j + 1],
               [a |-> a, j |-> 0], 0, Size(a) - 1)
  IN  For(LAMBDA b, q : [b EXCEPT ![q] = 0], s.a, s.j, Size(a) - 1)

MoveZeroesSwap(a) ==
  For(LAMBDA t, i : IF t.a[i] = 0 THEN t ELSE [a |-> Flip(t.a, i, t.j), j |-> t.j + 1],
      [a |-> a, j |-> 0], 0, Size(a) - 1).a

\* Both leave the elements other than 0 in their order, followed by the zeroes.
ZeroesMoved ==
  input.kind = "arrays" =>
    LET a == input.a
        AsSeq(b) == [i \in 1 .. Size(b) |-> b[i - 1]]
        rest == SelectSeq(AsSeq(a), LAMBDA x : x # 0)
    IN  \A b \in {MoveZeroes(a), MoveZeroesSwap(a)} :
          AsSeq(b) = rest \o [i \in 1 .. Size(a) - Len(rest) |-> 0]

\* The last digit below 9 is increased, the nines after it become zeroes; if
\* there is none, the result has one more digit.
PlusOne(digits) ==
  LET up == {i \in DOMAIN digits : digits[i] < 9}
      last == Max(up)
  IN  IF up = {} THEN [i \in 0 .. Size(digits) |-> IF i = 0 THEN 1 ELSE 0]
      ELSE [i \in DOMAIN digits |->
              IF i < last THEN digits[i] ELSE IF i = last THEN digits[i] + 1 ELSE 0]

Value(digits) == For(LAMBDA v, i : 10 * v + digits[i], 0, 0, Size(digits) - 1)

\* plusOne adds one to the number the digits stand for.
OneMore == input.kind = "arrays" => Value(PlusOne(input.a)) = Value(input.a) + 1
-----------------------------------------------------------------------------
(* maxProfitOne, maxProfit of SKMaxProfitTwo; singleNumber and             *)
(* singleNUmserTwo.                                                        *)

MaxProfitOne(prices) ==
  For(LAMBDA m, i : For(LAMBDA n, j : IF prices[j] - prices[i] > n THEN prices[j] - prices[i] ELSE n,
                        m, i + 1, Size(prices) - 1),
      0, 0, Size(prices) - 1)

MaxProfit(prices) ==
  For(LAMBDA m, i : IF prices[i] > prices[i - 1] THEN m + prices[i] - prices[i - 1] ELSE m,
      0, 1, Size(prices) - 1)

\* The profit of holding a share, or not, after each day.
ProfitOf(prices, holds) ==
  For(LAMBDA m, i : m + prices[i] * ((IF i > 0 /\ i - 1 \in holds THEN 1 ELSE 0)
                                       - (IF i \in holds THEN 1 ELSE 0)),
      0, 0, Size(prices) - 1)

\* The greedy sum of all rises is the best profit of any purchases and sales,
\* one share at a time, and that of one purchase is never above it.
GreedyIsBest ==
  input.kind = "arrays" =>
    /\ MaxProfit(input.a) =
         Max({ProfitOf(input.a, holds) : holds \in SUBSET (0 .. Size(input.a) - 2)})
    /\ MaxProfitOne(input.a) <= MaxProfit(input.a)

SingleNumber(nums) == For(LAMBDA temp, i : temp ^^ nums[i], nums[0], 1, Size(nums) - 1)

SingleNumberTwo(nums) ==
  nums[Min({i \in DOMAIN nums : \A j \in DOMAIN nums : i # j => nums[i] # nums[j]})]

\* If one element is there once and all others twice, the exclusive or of all
\* elements is that one.
SingleFound ==
  input.kind = "arrays" =>
    \A x \in Range(input.a) :
      Count(input.a, x) = 1 /\ (\A y \in Range(input.a) \ {x} : Count(input.a, y) = 2)
        => SingleNumber(input.a) = x /\ SingleNumberTwo(input.a) = x
-----------------------------------------------------------------------------
(* swapAddTwoNumber and swapXorTwoNumber on words of WordSize values.       *)

\* The sum of two NSInteger that overflows is undefined in C.  A build lets it wrap
\* around, as here, or computes with the differences of the statements instead of
\* the sum, which gives the same two numbers.
SwapAdd(x, y) ==
  LET sum == (x + y) % WordSize b == (sum - y) % WordSize IN <<(sum - b) % WordSize, b>>

SwapXor(x, y) == LET a == x ^^ y b == a ^^ y IN <<a ^^ b, b>>

\* Both exchange the two numbers, even if their sum overflows.
SwapsSwap ==
  input.kind = "words" =>
    SwapAdd(input.x, input.y) = <<input.y, input.x>> /\ SwapXor(input.x, input.y) = <<input.y, input.x>>
-----------------------------------------------------------------------------
(* findCommonSuperView, isSameTree and isSubtree.                          *)

\* The superviews of a view from the nearest to the root; 0 is nil.
FindSuperView(superview, view) ==
  LET Above(v) == IF v = 0 THEN 0 ELSE superview[v]
  IN  While(LAMBDA s : s.temp # 0,
            LAMBDA s : [temp |-> Above(s.temp), all |-> Append(s.all, s.temp)],
            [temp |-> Above(view), all |-> <<>>]).all

\* The views from the root on, as long as they are the same.
FindCommonSuperView(superview, viewOne, viewOther) ==
  LET a == Reverse(FindSuperView(superview, viewOne))
      b == Reverse(FindSuperView(superview, viewOther))
      same == {i \in 0 .. Min({Len(a), Len(b)}) : \A k \in 1 .. i : a[k] = b[k]}
  IN  SubSeq(a, 1, Max(same))

\* The result has exactly the superviews the two views have in common, each
\* one after its own superview, also if one view is above the other.
SuperviewsCommon ==
  input.kind = "views" =>
    LET common == FindCommonSuperView(input.superview, input.one, input.other)
    IN  /\ Range(common) = Range(FindSuperView(input.superview, input.one))
                             \cap Range(FindSuperView(input.superview, input.other))
        /\ \A i \in 2 .. Len(common) : input.superview[common[i]] = common[i - 1]

\* A tree is <<>>, which is NULL, or <<value, left, right>>.
RECURSIVE IsSameTree(_, _)
IsSameTree(p, q) ==
  IF p = <<>> /\ q = <<>> THEN TRUE
  ELSE /\ p # <<>> /\ q # <<>>
       /\ p[1] = q[1]
       /\ IsSameTree(p[2], q[2]) /\ IsSameTree(p[3], q[3])

\* checkNodeValid is isSameTree.
RECURSIVE IsSubtree(_, _)
IsSubtree(s, t) ==
  s # <<>> /\ (IsSameTree(s, t) \/ IsSubtree(s[2], t) \/ IsSubtree(s[3], t))
-----------------------------------------------------------------------------
\* The subtrees of a tree, NULL left out.
RECURSIVE Subtrees(_)
Subtrees(s) == IF s = <<>> THEN {} ELSE {s} \cup Subtrees(s[2]) \cup Subtrees(s[3])

\* isSameTree is equality, and isSubtree finds the trees that hang at a node
\* with all that is below them: not those that are cut off, and never NULL.
SubtreeFound ==
  input.kind = "trees" => /\ IsSameTree(input.s, input.t) <=> input.s = input.t
                          /\ IsSubtree(input.s, input.t) <=> input.t \in Subtrees(input.s)

\* Each function leaves or returns what the definition next to it says.
FunctionsCompute ==
  /\ SortsSort /\ MergesMerge /\ IntersectsIntersect /\ RotationsAgree /\ DuplicatesAgree
  /\ ZeroesMoved /\ OneMore /\ GreedyIsBest /\ SingleFound /\ SwapsSwap
  /\ SuperviewsCommon /\ SubtreeFound
=============================================================================
