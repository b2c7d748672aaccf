SPECIFICATION Spec
CONSTANTS
    LltvNum = 4
    LltvDen = 5
    FeeDen = 2
    SlipNum = 1
    SlipDen = 50
    MaxSlip = 20
    MinVolume = 10
    PriceTick <- MCPriceTick
    Drawdowns <- MCDrawdowns
    DrawdownDen = 4
    DtBlocks <- MCDtBlocks
    Horizons <- MCHorizons
    Shapes <- MCShapes
    Kinds <- MCKinds
    Lags <- MCLags
    DefaultWindow = 3
    b1 = b1
    b2 = b2
    Borrowers <- MCBorrowers
    Holdings <- MCHoldings
    Index = 1000
    Reserves <- MCReserves
    InitialPrices = {8}
    Fees = {0, 1}
    Growths <- MCGrowths
INVARIANTS
    NoOverBorrowWithoutFee
    SharesMatchPositions
    SupplyAccounted
    SnapshotNeverStale
    EventsExplainLosses
PROPERTIES
    DebtOfOthersUntouched
    ImplementsBlockwise
CHECK_DEADLOCK FALSE
