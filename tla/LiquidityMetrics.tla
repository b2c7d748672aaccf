-------------------------- MODULE LiquidityMetrics --------------------------
(***************************************************************************)
(* backtest/liquidity_metrics.py: what liquidating every position at a     *)
(* stress price would recover, the on-chain liquidity coverage ratio       *)
(* (LCR v0.3), and the outflow a price path is calibrated to.              *)
(*                                                                         *)
(* Fractions (drawdowns, alpha) are in thousandths; the LCR is kept as its *)
(* numerator and denominator.                                              *)
(***************************************************************************)
EXTENDS MarketAccounting, SequencesExt

CONSTANTS LoanUnit,     \* 1.0 of the loan asset
          Window        \* observations of a day (window_blocks = 24)

ASSUME MetricsAssumption == LoanUnit \in Nat \ {0} /\ Window \in Nat \ {0}

(* Mutant: the proceeds without slippage.                                  *)
RecoveryAtMid(p, m, price) ==
    LET debt     == BorrowAssets(p.shares, m)
        seized   == IF price = 0 THEN 0
                    ELSE Least((debt * LifNum) \div (LifDen * price), p.coll)
        proceeds == seized * price
    IN  [recovery |-> Least(proceeds, debt), badDebt |-> AtLeastZero(debt - proceeds)]

(* position_recovery_value: the pool gets the proceeds of what would be    *)
(* seized at that price, up to the debt.                                   *)
Recovery(p, m, price) ==
    LET debt     == BorrowAssets(p.shares, m)
        seized   == IF price = 0 THEN 0
                    ELSE Least((debt * LifNum) \div (LifDen * price), p.coll)
        proceeds == Proceeds(seized, price)
    IN  [recovery |-> Least(proceeds, debt), badDebt |-> AtLeastZero(debt - proceeds)]

(* hqla_v03 and lcr_onchain_v03: the liquidity at hand and what would be   *)
(* recovered, over the outflow net of that inflow (at most three quarters  *)
(* of it), which is never taken below one unit.                            *)
Coverage(m, open, price, alpha) ==
    LET of(part) == SumFunction([b \in DOMAIN open |->
                                    Recovery(open[b], m, price)[part]])
        outflow == (alpha * m.supply) \div 1000
        inflow  == Least(of("recovery"), (3 * outflow) \div 4)
    IN  [hqla |-> Liquidity(m) + of("recovery"), badDebt |-> of("badDebt"),
         outflow |-> outflow, net |-> Max({outflow - inflow, LoanUnit})]

(* The fall from each observation to the lowest of the day it starts, in   *)
(* thousandths.                                                            *)
WindowDrawdowns(path) ==
    [i \in 1 .. AtLeastZero(Len(path) - Window) |->
        LET trough == Min({path[j] : j \in i .. i + Window - 1})
        IN  ((path[i] - trough) * 1000) \div path[i]]

(* The value at a rank of a sequence, smallest first.                       *)
AtRank(s, rank) ==
    Min({v \in ToSet(s) : Cardinality({i \in DOMAIN s : s[i] <= v}) >= rank})

(* np.quantile at 99 %, interpolated between the two observations next to  *)
(* that rank.                                                              *)
Quantile99(s) ==
    LET rank  == 99 * (Len(s) - 1)
        at    == 1 + rank \div 100
        below == AtRank(s, at)
        above == AtRank(s, Least(at + 1, Len(s)))
    IN  below + ((above - below) * (rank % 100)) \div 100

(* calibrated_outflow_alpha: one and a half times the 99 % drawdown, plus  *)
(* the whales if it exceeds 5 %, within 5 % and 60 %.                      *)
OutflowAlpha(path) ==
    IF Len(path) <= Window THEN 100
    ELSE LET p99 == Quantile99(WindowDrawdowns(path))
         IN  Max({50, Least(600, (3 * p99) \div 2 + IF p99 > 50 THEN 300 ELSE 0)})
=============================================================================
