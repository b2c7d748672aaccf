SPECIFICATION MCSpec
CONSTANTS
    PriceTick <- MCPriceTick
    Fed <- MCFed
    Windows <- MCWindows
    Gaps <- MCGaps
    MaxBlock = 5
    Parameters <- MCParameters
    Words = 4
    Streams <- MCStreams
    MaxPaths = 3
INVARIANTS
    PathsReproduced
    BlocksContiguous
PROPERTIES
    ImplementFeed
    TwapFallsMonotonically
\* the clock ends, and a study is edited once
CHECK_DEADLOCK FALSE
