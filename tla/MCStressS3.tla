----------------------------- MODULE MCStressS3 -----------------------------
(* Small instances of StressS3 for TLC.                                    *)
EXTENDS StressS3

CONSTANTS b1, b2
MCBorrowers == {b1, b2}

(* Ten times the binary logarithm of 1 .. 8, to the unit.                  *)
MCPriceTick == <<0, 10, 16, 20, 23, 26, 28, 30>>

(* At a price of 8 and an index of 1000: at risk after a small fall, after *)
(* a large one, a larger position, and one whose collateral is gone.       *)
MCHoldings == {[coll |-> 160, shares |-> 1], [coll |-> 300, shares |-> 1],
               [coll |-> 400, shares |-> 2], [coll |-> 0, shares |-> 1]}
MCReserves == {0, 500}
MCGrowths == {0, 100}

(* Drawdowns over 4: a quarter, three quarters, and one out of bounds.     *)
MCDrawdowns == {1, 3, 4}
MCDtBlocks == {0, 1, 2}
MCHorizons == {1, 3}
MCShapes == {"linear", "instant", "vee"}
MCKinds == {"chainlink", "uniswap_twap"}
MCLags == {0, 2}
=============================================================================
