----------------------------- MODULE MCStressS1 -----------------------------
(* Small instances of StressS1 for TLC.                                    *)
EXTENDS StressS1

MCSupplies == {0, 3, 6}
MCInterests == {0, 2}
(* alpha over 4: below, at and inside the bounds, and above them.          *)
MCAlphas == {-1, 0, 2, 3, 4, 5}
MCDurations == {0, 1, 2, 3}
MCHorizons == {0, 2, 4}
MCArrivals == {"linear", "exponential", "bursty"}
=============================================================================
