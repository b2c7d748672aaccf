SPECIFICATION MCSpec
CONSTANTS
    r1 = r1
    r2 = r2
    r3 = r3
    r4 = r4
    r5 = r5
    Given = Given
    Absent = Absent
    Torn = Torn
    Runs <- MCRuns
    Script <- MCScript
    EventTypes <- MCEventTypes
    Serial = TRUE
    usdc_wbtc = usdc_wbtc
    idle = idle
    NoRows = NoRows
    Markets <- MCMarkets
    Idle = {idle}
    Loan <- MCLoan
    Coll <- MCColl
    TruePrice <- MCTruePrice
    UsdPerLoan <- MCUsdPerLoan
INVARIANTS
    RecordsEverySuccess
    DriftMeansAFailedRun
    RatiosSurviveWrongDecimals
    VolumeOffByLoanAsset
    TrustedIsComplete
PROPERTIES
    ImplementsLog
    LostConfigStopsAll
    EveryRunEnds
\* every invocation ends
CHECK_DEADLOCK FALSE
