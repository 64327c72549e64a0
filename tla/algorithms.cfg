CONSTANTS
  Lengths = {1, 2, 3, 4, 5}
  Values = {0, 1, 2, 3}
  MatrixSize = 3
  ColSize = 3
  Numbers = {0, 1, 2, 3}
  PriceSizes = {0, 1, 2, 3, 4}
  Prices = {0, 1, 2, 3}
  ListSize = 5
  ListSizes = {0, 1, 2, 3, 4, 5}
  ArrayElements = {0, 1, 2, 9}
  MaxSize = 4
  WordSize = 16
  ViewCount = 4
  TreeDepth = 2
SPECIFICATION Spec
INVARIANTS MiddleFound SearchExact ProfitBest CycleFound ListKept FunctionsCompute
PROPERTIES LoopsReturn
CHECK_DEADLOCK FALSE
