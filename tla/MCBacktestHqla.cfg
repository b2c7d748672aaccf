SPECIFICATION Spec
CONSTANTS
    LltvNum = 4
    LltvDen = 5
    FeeDen = 2
    SlipNum = 1
    SlipDen = 25
    MaxSlip = 20
    MinVolume = 10
    PriceTick <- MCPriceTick
    LoanUnit = 1
    Window = 2
    Drawdowns = {0}
    DrawdownDen = 1000
    DtBlocks = {1}
    Horizons = {1}
    Shapes = {"instant"}
    Kinds = {"chainlink", "uniswap_twap"}
    Lags = {0}
    DefaultWindow = 3
    b1 = b1
    b2 = b2
    Borrowers <- MCBorrowers
    Holdings <- MCHoldings
    Index = 1000
    Reserves <- MCReserves
    InitialPrices = {16}
    Growths = {10}
    Day = 3
    PricePaths <- MCPricePaths
    Profiles <- MCProfiles
    Paths = 5
SYMMETRY MCSymmetry
INVARIANT HqlaAsDocumented
\* an evaluation concludes
CHECK_DEADLOCK FALSE
