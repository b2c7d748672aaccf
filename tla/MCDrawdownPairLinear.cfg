SPECIFICATION PairSpec
CONSTANTS
    LltvNum = 4
    LltvDen = 5
    FeeDen = 2
    SlipNum = 1
    SlipDen = 25
    MaxSlip = 20
    MinVolume = 10
    PriceTick <- MCPriceTick
    Drawdowns <- MCDrawdowns
    DrawdownDen = 8
    DtBlocks <- MCDtBlocks
    Horizons = {3}
    Shapes = {"linear"}
    Kinds = {"chainlink"}
    Lags = {0, 2}
    DefaultWindow = 3
    b1 = b1
    b2 = b2
    Borrowers <- MCBorrowers
    Holdings <- MCHoldings
    Index = 1000
    Reserves <- MCReserves
    InitialPrices = {16}
    Fees = {0}
    Growths = {0}
INVARIANTS
    BadDebtMonotone
CHECK_DEADLOCK FALSE
