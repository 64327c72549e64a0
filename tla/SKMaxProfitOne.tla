--------------------------- MODULE SKMaxProfitOne ---------------------------
(***************************************************************************)
(* maxProfitCycle: the best profit of one purchase and one later sale in a *)
(* single pass over the prices.                                            *)
(***************************************************************************)
EXTENDS Integers

CONSTANTS PriceSizes, Prices  \* the lengths of the arrays and their elements

ASSUME PriceAssumption == PriceSizes \subseteq Nat /\ Prices \subseteq Int

VARIABLES prices, pricesSize, day, lowPrice, maxP  \* day is the variable i
profitVars == <<prices, pricesSize, day, lowPrice, maxP>>

Days == 0 .. pricesSize - 1

\* "if(pricesSize == 0) return 0": no turn of the loop is taken then.
ProfitInit ==
  /\ pricesSize \in PriceSizes
  /\ prices \in [Days -> Prices]
  /\ day = 1 /\ maxP = 0
  /\ lowPrice = IF pricesSize = 0 THEN 0 ELSE prices[0]

\* Mutant: the profit is compared with the price before.
TradeNext ==
  /\ day < pricesSize
  /\ day' = day + 1
  /\ lowPrice' = prices[day]
  /\ maxP' = IF prices[day] - lowPrice > maxP THEN prices[day] - lowPrice ELSE maxP
  /\ UNCHANGED <<prices, pricesSize>>

\* A turn of the loop: a lower price, or else perhaps a better profit.
Trade ==
  /\ day < pricesSize
  /\ day' = day + 1
  /\ \/ /\ prices[day] < lowPrice
        /\ lowPrice' = prices[day]
        /\ UNCHANGED maxP
     \/ /\ prices[day] >= lowPrice
        /\ maxP' = IF prices[day] - lowPrice > maxP THEN prices[day] - lowPrice ELSE maxP
        /\ UNCHANGED lowPrice
  /\ UNCHANGED <<prices, pricesSize>>

ProfitSpec == ProfitInit /\ [][Trade]_profitVars
-----------------------------------------------------------------------------
\* When the loop is over, no purchase and later sale gives more than the
\* result, and one gives it unless the result is 0: what maxProfitOne finds by
\* going over all pairs of days.
ProfitBest ==
  day >= pricesSize =>
    /\ maxP >= 0
    /\ \A i, j \in Days : i < j => prices[j] - prices[i] <= maxP
    /\ maxP # 0 => \E i, j \in Days : i < j /\ prices[j] - prices[i] = maxP
=============================================================================
