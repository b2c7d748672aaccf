--------------------------- MODULE MCDrawdownPair ---------------------------
(* Small instances of DrawdownPair for TLC.                                *)
EXTENDS DrawdownPair

CONSTANTS b1, b2
MCBorrowers == {b1, b2}

(* Ten times the binary logarithm of 1 .. 16, to the unit.                 *)
MCPriceTick == <<0, 10, 16, 20, 23, 26, 28, 30, 32, 33, 35, 36, 37, 38, 39, 40>>

(* At a price of 16 and an index of 1000: from close to the limit to far   *)
(* from it, and a large position whose sale moves the price.               *)
MCHoldings == {[coll |-> 80, shares |-> 1], [coll |-> 100, shares |-> 1],
               [coll |-> 150, shares |-> 1], [coll |-> 300, shares |-> 3]}
MCReserves == {0}
MCDrawdowns == 0 .. 6
MCDtBlocks == {1, 2, 3}
=============================================================================
