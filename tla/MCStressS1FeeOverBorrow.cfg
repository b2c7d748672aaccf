SPECIFICATION Spec
CONSTANTS
    LltvNum = 4
    LltvDen = 5
    FeeDen = 2
    SlipNum = 0
    SlipDen = 1
    MaxSlip = 0
    MinVolume = 0
    Supplies <- MCSupplies
    Fees = {0, 1}
    Interests <- MCInterests
    Alphas <- MCAlphas
    AlphaDen = 4
    Durations <- MCDurations
    Horizons <- MCHorizons
    Arrivals <- MCArrivals
INVARIANTS
    NoOverBorrow
CHECK_DEADLOCK FALSE
