---------------------------- MODULE PriceOracle ----------------------------
(***************************************************************************)
(* The two oracles of the simulator, fed the same market prices: the       *)
(* exogenous one, which mirrors the last price, and the geometric TWAP     *)
(* over a bounded window of observations.                                  *)
(***************************************************************************)
EXTENDS OraclePricing, SequencesExt

CONSTANTS Fed,        \* prices an update may carry; those below 1 are invalid
          Windows,    \* lambda_blocks
          Gaps,       \* blocks between two updates
          MaxBlock    \* bound on the clock

ASSUME OracleAssumption ==
    /\ Fed \subseteq Int /\ Fed \cap Nat \subseteq Prices \cup {0}
    /\ Windows \subseteq Nat \ {0} /\ Gaps \subseteq Nat /\ MaxBlock \in Nat

VARIABLES
    window,     \* TwapOracle._lambda
    obs,        \* TwapOracle._obs
    current,    \* ExogenousOracle._current
    clock,      \* block of the last update
    accepted    \* history: the prices accepted, the initial one first

oracleVars == <<window, obs, current, clock, accepted>>

OracleInit ==
    /\ window \in Windows
    /\ \E p \in Fed \cap Prices :
         /\ obs = <<Observed(0, p)>>
         /\ current = p
         /\ accepted = <<p>>
    /\ clock = 0

Usable(price) == price > 0

(* update(price, block) of both oracles: an invalid price is ignored.      *)
Update(price, block) ==
    /\ IF Usable(price)
       THEN /\ obs' = Push(obs, Observed(block, price), window)
            /\ current' = price
            /\ accepted' = Append(accepted, price)
       ELSE UNCHANGED <<obs, current, accepted>>
    /\ clock' = block
    /\ UNCHANGED window

OracleNext ==
    \E price \in Fed, gap \in Gaps :
        clock + gap <= MaxBlock /\ Len(accepted) <= MaxBlock
        /\ Update(price, clock + gap)

OracleSpec == OracleInit /\ [][OracleNext]_oracleVars

ReadExogenous == current

-----------------------------------------------------------------------------
(* The variables have their types, and the deque its bound.                *)
OracleTypeOK ==
    /\ window \in Windows
    /\ obs \in Seq(Observation) /\ Len(obs) \in 1 .. window
    /\ current \in Prices /\ clock \in 0 .. MaxBlock
    /\ accepted \in Seq(Prices)

(* Both oracles implement the abstract feed: every reading lies within the *)
(* prices that may still count, the last `window` for the TWAP and the     *)
(* very last for the exogenous oracle.  So a price that held for a whole   *)
(* window is reported, and behind a falling market the TWAP reads high.    *)
TwapFeed == INSTANCE OracleFeed WITH fed <- accepted, reading <- ReadTwap(obs)
MirrorFeed == INSTANCE OracleFeed
                WITH fed <- accepted, window <- 1, reading <- ReadExogenous
ImplementFeed == TwapFeed!Spec /\ MirrorFeed!Spec

(* While the market only falls the TWAP comes down monotonically, however  *)
(* irregular the updates.                                                  *)
Falling(s) == \A i \in 2 .. Len(s) : s[i] <= s[i - 1]
TwapFallsMonotonically ==
    [][Falling(accepted') => ReadTwap(obs') <= ReadTwap(obs)]_oracleVars
=============================================================================
