------------------------ MODULE SKFindNumberIn2DArray ------------------------
(***************************************************************************)
(* The search of a matrix with sorted rows and columns from its upper      *)
(* right corner: findNumberIn2DArray, and findNumFromArrayTwo, which is    *)
(* the same loop.                                                          *)
(***************************************************************************)
EXTENDS Integers

CONSTANTS MatrixSize, ColSize, Numbers  \* rows, columns, elements

ASSUME MatrixAssumption == MatrixSize \in Nat /\ ColSize \in Nat /\ Numbers \subseteq Int

VARIABLES matrix, target, row, column, search  \* search is "run", or the result
searchVars == <<matrix, target, row, column, search>>

Rows == 0 .. MatrixSize - 1
Columns == 0 .. ColSize - 1

\* The matrices the search is for: its rows and its columns do not decrease.
Ordered(m) ==
  \A r, q \in Rows, c, d \in Columns : r <= q /\ c <= d => m[r][c] <= m[q][d]

SearchInit ==
  /\ matrix \in [Rows -> [Columns -> Numbers]] /\ Ordered(matrix)
  /\ target \in Numbers
  /\ row = 0 /\ column = ColSize - 1
  /\ search = IF MatrixSize = 0 \/ ColSize = 0 THEN "false" ELSE "run"

\* Mutant: the search leaves out the last row.
LookEarly ==
  /\ search = "run"
  /\ \/ /\ ~(row < MatrixSize - 1 /\ column >= 0)
        /\ search' = "false"
        /\ UNCHANGED <<row, column>>
     \/ /\ row < MatrixSize - 1 /\ column >= 0
        /\ search' = IF target = matrix[row][column] THEN "true" ELSE "run"
        /\ row' = IF target > matrix[row][column] THEN row + 1 ELSE row
        /\ column' = IF target < matrix[row][column] THEN column - 1 ELSE column
  /\ UNCHANGED <<matrix, target>>

\* A turn of the loop.
Look ==
  /\ search = "run"
  /\ \/ /\ ~(row <= MatrixSize - 1 /\ column >= 0)
        /\ search' = "false"
        /\ UNCHANGED <<row, column>>
     \/ /\ row <= MatrixSize - 1 /\ column >= 0
        /\ search' = IF target = matrix[row][column] THEN "true" ELSE "run"
        /\ row' = IF target > matrix[row][column] THEN row + 1 ELSE row
        /\ column' = IF target < matrix[row][column] THEN column - 1 ELSE column
  /\ UNCHANGED <<matrix, target>>

SearchSpec == SearchInit /\ [][Look]_searchVars /\ WF_searchVars(Look)
-----------------------------------------------------------------------------
\* The search returns true exactly if the matrix has the target, although it
\* leaves a whole row or column after it has looked at one of its elements.
SearchExact ==
  search # "run" => (search = "true" <=> \E r \in Rows, c \in Columns : matrix[r][c] = target)
=============================================================================
