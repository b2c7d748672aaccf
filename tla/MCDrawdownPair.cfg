SPECIFICATION PairSpec
CONSTANTS
    LltvNum = 4
    LltvDen = 5
    FeeDen = 2
    SlipNum = 1
    SlipDen = 25
    MaxSlip = 20
    MinVolume = 10
    PriceTick <- MCPriceTick
    Drawdowns <- MCDrawdowns
    DrawdownDen = 8
    DtBlocks <- MCDtBlocks
    Horizons = {3}
    Shapes = {"linear", "instant"}
    Kinds = {"chainlink", "uniswap_twap"}
    Lags = {0, 2}
    DefaultWindow = 3
    b1 = b1
    b2 = b2
    Borrowers <- MCBorrowers
    Holdings <- MCHoldings
    Index = 1000
    Reserves <- MCReserves
    InitialPrices = {16}
    Fees = {0, 1}
    Growths = {0, 100}
INVARIANTS
    SevereLiquidatesFirst
    OnlyInterestOvertakes
    BadDebtMonotoneAtFloor
CHECK_DEADLOCK FALSE
