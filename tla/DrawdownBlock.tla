---------------------------- MODULE DrawdownBlock ----------------------------
(***************************************************************************)
(* One block of scenario S3 at once, with no order of liquidations and no  *)
(* oracle state: interest accrues, the oracle reports the mean of the last *)
(* prices of the path, and every position that is then liquidatable is     *)
(* liquidated, each against the same market.  The totals move by the sums  *)
(* of what the liquidations do.                                            *)
(***************************************************************************)
EXTENDS MarketAccounting, DrawdownScenario

Total(outcome, part) == SumFunction([b \in DOMAIN outcome |-> outcome[b][part]])

(* The oracle price at block k of a path that started at p0.               *)
OraclePriceAt(c, p0, k) ==
    LET first == Max({0, k + 1 - OracleWindow(c)})
    IN  ReadTwap([i \in 1 .. k - first + 1 |->
            Observed(first + i - 1, MarketPriceAt(c, p0, first + i - 1))])

(* One block at once, from the snapshot `last`.                            *)
AfterBlock(c, p0, k, last, growth) ==
    LET m == [Accrue(last.market, growth * last.market.shares)
                EXCEPT !.price = OraclePriceAt(c, p0, k)]
        open     == last.open
        eligible == {b \in DOMAIN open : Liquidatable(open[b], m)}
        outcome  == [b \in eligible |->
                        Outcome(open[b], m, MarketPriceAt(c, p0, k))]
    IN  [market |-> [m EXCEPT
            !.borrow  = @ - Total(outcome, "repaid"),
            !.shares  = @ - SumFunction([b \in eligible |-> open[b].shares]),
            !.coll    = @ - Total(outcome, "seized"),
            !.supply  = AtLeastZero(@ - Total(outcome, "badDebt")),
            !.badDebt = @ + Total(outcome, "badDebt")],
         open |-> Restrict(open, DOMAIN open \ eligible)]
=============================================================================
