----------------------------- MODULE MCBacktest -----------------------------
(* Small instances of Backtest for TLC.                                    *)
EXTENDS Backtest

CONSTANTS b1, b2
MCBorrowers == {b1, b2}
MCSymmetry == Permutations(MCBorrowers)

(* Ten times the binary logarithm of 1 .. 16, to the unit.                 *)
MCPriceTick == <<0, 10, 16, 20, 23, 26, 28, 30, 32, 33, 35, 36, 37, 38, 39, 40>>

(* At a price of 16 and an index of 1000: close to the limit, safe, and a  *)
(* large position whose sale moves the price.                              *)
MCHoldings == {[coll |-> 90, shares |-> 1], [coll |-> 200, shares |-> 1],
               [coll |-> 300, shares |-> 3]}

(* Too short a path, a quiet one, falls after and before the snapshot.     *)
MCPricePaths == {<<16, 15>>, <<16, 16, 16, 15>>, <<16, 12, 13, 12>>,
                 <<16, 16, 3, 4, 4>>, <<12, 16, 10, 10>>}
MCProfiles == {[p99 |-> 800, alpha |-> 600, drawdowns |-> {100, 850}],
               [p99 |-> 125, alpha |-> 50, drawdowns |-> {0, 125}]}
MCReserves == {0, 390, 3000}
=============================================================================
