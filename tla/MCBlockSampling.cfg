CONSTANTS
    Created <- MCCreated
    Scripts = {"fetch_market_state", "fetch_oracle_prices"}
    Cadence = 2
    BlockTime = 2
    ReorgBuffer = 2
    HasFallback = TRUE
    Attempts = 3
    Windows <- MCWindows
    Heights = {1, 6}
    Gaps = {2, 3}
    ReorgDepth = 2
    MaxGrowth = 1
SPECIFICATION FairSpec
INVARIANTS RowsStayCanonical AbortsOnlyWhenAllFail HoleMeansAFailedCall
           WindowCovered
PROPERTY SamplingEnds
\* the script ends
CHECK_DEADLOCK FALSE
