--------------------------- MODULE DrawdownScenario ---------------------------
(***************************************************************************)
(* The inputs of scenario S3: its configuration, the market price path     *)
(* of the drawdown, and the window of the oracle the market uses.          *)
(***************************************************************************)
EXTENDS OraclePricing

CONSTANTS Drawdowns,      \* drawdown, as numerators over DrawdownDen
          DrawdownDen,
          DtBlocks,       \* dt_blocks
          Horizons,       \* horizon_blocks
          Shapes,         \* shapes asked for
          Kinds,          \* params.oracle_kind
          Lags,           \* oracle_lag_blocks
          DefaultWindow   \* the TWAP window taken for a lag of 0

ASSUME ScenarioAssumption ==
    /\ DrawdownDen \in Nat \ {0} /\ Drawdowns \subseteq Int
    /\ DtBlocks \subseteq Int /\ Horizons \subseteq Nat
    /\ Lags \subseteq Nat /\ DefaultWindow \in Nat \ {0}

S3Config == [drawdown: Drawdowns, dt: DtBlocks, horizon: Horizons,
             shape: Shapes, kind: Kinds, lag: Lags]

(* What stress_s3 and _drawdown_path accept without a ValueError.          *)
ValidConfig(c) ==
    /\ c.horizon >= c.dt
    /\ c.drawdown \in 0 .. DrawdownDen - 1
    /\ c.dt >= 1
    /\ c.shape \in {"linear", "instant"}

(* How much of the drawdown has unfolded at block k, in parts of dt.       *)
Progress(c, k) ==
    IF k = 0 THEN 0
    ELSE IF c.shape = "instant" THEN c.dt
    ELSE Min({k, c.dt})

(* The market price at block k: the path, extended by its floor.           *)
MarketPriceAt(c, p0, k) ==
    p0 - (p0 * c.drawdown * Progress(c, k)) \div (DrawdownDen * c.dt)

(* _make_oracle_for_state: a TWAP for uniswap_twap, whose window is the    *)
(* lag; any other kind mirrors the market, a window of one observation,    *)
(* and has no lag (PriceOracle shows both implement that feed).            *)
OracleWindow(c) ==
    IF c.kind # "uniswap_twap" THEN 1
    ELSE IF c.lag > 0 THEN c.lag ELSE DefaultWindow
=============================================================================
