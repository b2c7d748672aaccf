-------------------------- MODULE MarketAccounting --------------------------
(***************************************************************************)
(* The arithmetic every stress scenario applies to a market: interest      *)
(* accrual, conversion of borrow shares to assets, the loan-to-value test  *)
(* and the liquidation of one position.  The scenarios                     *)
(* (StressS1, StressS3) are the state machines that use it.                *)
(*                                                                         *)
(* Amounts are naturals in a unit as small as the caller likes.  A ratio   *)
(* of the code (lltv, fee, the liquidation incentive) is a pair of         *)
(* naturals; a quotient is rounded down to the unit.                       *)
(***************************************************************************)
EXTENDS Integers

CONSTANTS LltvNum, LltvDen,     \* params.lltv as a fraction
          FeeDen,               \* params.fee is a numerator over FeeDen
          SlipNum, SlipDen,     \* percent lost per unit sold (a, with b = 1)
          MaxSlip,              \* SlippageCurve.max_slippage, in percent
          MinVolume             \* SlippageCurve.min_volume_native

ASSUME AccountingAssumption ==
    /\ LltvDen \in Nat \ {0} /\ LltvNum \in 1 .. LltvDen
    /\ FeeDen \in Nat \ {0}
    /\ SlipNum \in Nat /\ SlipDen \in Nat \ {0}
    /\ MaxSlip \in 0 .. 100 /\ MinVolume \in Nat

Least(a, b) == IF a <= b THEN a ELSE b
AtLeastZero(a) == IF a >= 0 THEN a ELSE 0

(* A market: the totals of MarketState that the scenarios read or change,  *)
(* and the fee, which they do not change.                                  *)
Market == [supply: Nat, borrow: Nat, shares: Nat, coll: Nat, price: Nat,
           queued: Nat, badDebt: Nat, fee: 0 .. FeeDen]

(* MarketState.liquidity: the difference, hidden below zero.               *)
Liquidity(m) == AtLeastZero(m.supply - m.borrow)

(* Mutant: the fee taken as the whole interest.                            *)
SupplierPartLost(interest, fee) == 0

(* What accrue() leaves of the interest to the suppliers.  The fee is      *)
(* credited to nobody the model (or the code) tracks.                      *)
SupplierPart(interest, fee) == interest - (interest * fee) \div FeeDen

(* accrue(): an empty pool accrues nothing; otherwise the whole interest   *)
(* is added to the debt and the interest net of the fee to the supply.     *)
Accrue(m, interest) ==
    IF m.supply = 0 THEN m
    ELSE [m EXCEPT !.supply = @ + SupplierPart(interest, m.fee),
                   !.borrow = @ + interest]

(* Position.borrow_assets: shares at the current borrow index.             *)
BorrowAssets(shares, m) ==
    IF m.shares = 0 THEN 0 ELSE (shares * m.borrow) \div m.shares

(* Mutant: the comparison the wrong way round.                             *)
LiquidatableReversed(p, m) ==
    BorrowAssets(p.shares, m) * LltvDen < LltvNum * p.coll * m.price

(* Position.ltv > lltv, multiplied out; collateral worth nothing makes     *)
(* any debt liquidatable (the +inf branch) and no debt safe.               *)
Liquidatable(p, m) ==
    BorrowAssets(p.shares, m) * LltvDen > LltvNum * p.coll * m.price

(* liquidation_incentive_factor: min(1.15, 1 / (0.3 lltv + 0.7)).          *)
LifCapped == 1000 * LltvDen >= 115 * (3 * LltvNum + 7 * LltvDen)
LifNum == IF LifCapped THEN 115 ELSE 10 * LltvDen
LifDen == IF LifCapped THEN 100 ELSE 3 * LltvNum + 7 * LltvDen

(* SlippageCurve.slippage and realized_price, in percent: nothing below    *)
(* the minimum volume, then growing with the volume up to the cap.         *)
Slippage(volume) ==
    IF volume <= MinVolume THEN 0 ELSE Least((SlipNum * volume) \div SlipDen, MaxSlip)

Proceeds(volume, marketPrice) ==
    (volume * marketPrice * (100 - Slippage(volume))) \div 100

(* liquidate_position: what it repays, seizes, realises and loses.  The    *)
(* seizure is sized at the oracle price, the sale is at the market price.  *)
Outcome(p, m, marketPrice) ==
    LET repaid == BorrowAssets(p.shares, m)
        seized == IF repaid = 0 THEN 0
                  ELSE Least((repaid * LifNum) \div (LifDen * m.price), p.coll)
        realized == Proceeds(seized, marketPrice)
    IN  [repaid |-> repaid, seized |-> seized, realized |-> realized,
         badDebt |-> AtLeastZero(repaid - realized)]

(* Mutants of the next definition: the bad debt left in the borrow; the    *)
(* shares left in their total; the last bad debt for the sum of them; the  *)
(* whole collateral taken off the total.                                   *)
AfterLiquidationDebtKept(p, m, marketPrice) ==
    LET o == Outcome(p, m, marketPrice)
    IN  [m EXCEPT !.borrow = @ - (o.repaid - o.badDebt),
                  !.shares = @ - p.shares, !.coll = @ - o.seized,
                  !.supply = @ - o.badDebt, !.badDebt = @ + o.badDebt]

AfterLiquidationSharesKept(p, m, marketPrice) ==
    LET o == Outcome(p, m, marketPrice)
    IN  [m EXCEPT !.borrow = @ - o.repaid, !.coll = @ - o.seized,
                  !.supply = @ - o.badDebt, !.badDebt = @ + o.badDebt]

AfterLiquidationLastLoss(p, m, marketPrice) ==
    LET o == Outcome(p, m, marketPrice)
    IN  [m EXCEPT !.borrow = @ - o.repaid, !.shares = @ - p.shares,
                  !.coll = @ - o.seized, !.supply = @ - o.badDebt,
                  !.badDebt = o.badDebt]

AfterLiquidationWholeColl(p, m, marketPrice) ==
    LET o == Outcome(p, m, marketPrice)
    IN  [m EXCEPT !.borrow = @ - o.repaid, !.shares = @ - p.shares,
                  !.coll = @ - p.coll, !.supply = @ - o.badDebt,
                  !.badDebt = @ + o.badDebt]

(* liquidate_position: the totals after it.  A position without debt is    *)
(* dropped and no total moves; every subtraction is clamped at zero.       *)
AfterLiquidation(p, m, marketPrice) ==
    LET o == Outcome(p, m, marketPrice)
    IN  IF o.repaid = 0 THEN m
        ELSE [m EXCEPT !.borrow = AtLeastZero(@ - o.repaid),
                       !.shares = AtLeastZero(@ - p.shares),
                       !.coll = AtLeastZero(@ - o.seized),
                       !.supply = AtLeastZero(@ - o.badDebt),
                       !.badDebt = @ + o.badDebt]
=============================================================================
