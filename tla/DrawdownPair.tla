---------------------------- MODULE DrawdownPair ----------------------------
(***************************************************************************)
(* Two runs of scenario S3 on the same market, one under a milder and one  *)
(* under a more severe drawdown, block by block.  Each block is that of    *)
(* BlockwiseS3, which StressS3 implements.                                 *)
(*                                                                         *)
(* Each run accrues the interest of its own utilisation and rate.  Both    *)
(* follow from the totals of its blocks so far, so the two accrue alike    *)
(* until a liquidation sets them apart, and then each at any rate.         *)
(***************************************************************************)
EXTENDS DrawdownBlock

CONSTANTS Borrowers, Holdings, Index, Reserves, InitialPrices, Fees, Growths

ASSUME PairAssumption ==
    /\ IsFiniteSet(Borrowers) /\ Holdings \subseteq [coll: Nat, shares: Nat]
    /\ Index \in Nat \ {0} /\ Reserves \subseteq Nat
    /\ InitialPrices \subseteq Prices
    /\ Fees \subseteq 0 .. FeeDen /\ Growths \subseteq Nat

VARIABLES mild, severe,             \* the two S3Configs
          mildTraj, severeTraj,     \* the two trajectories
          interest                  \* history: per block, what a borrow share
                                    \* has accrued so far in either run

pairVars == <<mild, severe, mildTraj, severeTraj, interest>>

(* The market both start from: its totals are those of its positions.      *)
MarketOf(positions, reserve, price, fee) ==
    LET shares == SumFunction([b \in DOMAIN positions |-> positions[b].shares])
    IN  [supply |-> Index * shares + reserve, borrow |-> Index * shares,
         shares |-> shares, price |-> price, queued |-> 0, badDebt |-> 0,
         fee |-> fee,
         coll |-> SumFunction([b \in DOMAIN positions |-> positions[b].coll])]

PairInit ==
    /\ mild \in {c \in S3Config : ValidConfig(c)}
    /\ severe \in {[mild EXCEPT !.drawdown = d] :
                     d \in {x \in Drawdowns : mild.drawdown <= x /\ x < DrawdownDen}}
    /\ \E positions \in [Borrowers -> Holdings], r \in Reserves,
          p \in InitialPrices, fee \in Fees :
         mildTraj = <<[market |-> MarketOf(positions, r, p, fee),
                       open |-> positions]>>
    /\ severeTraj = mildTraj
    /\ interest = <<[mild |-> 0, severe |-> 0]>>

P0 == mildTraj[1].market.price
MildLast == mildTraj[Len(mildTraj)]
SevereLast == severeTraj[Len(severeTraj)]

(* At a block both runs have the same positions, and totals that give the  *)
(* same utilisation and the same interest per share.                       *)
SameAt(j) ==
    /\ mildTraj[j].open = severeTraj[j].open
    /\ \A part \in {"supply", "borrow", "shares"} :
         mildTraj[j].market[part] = severeTraj[j].market[part]

(* Mutant: a rate_at_target left over from another run.                    *)
AccrueFreely(mildGrowth, severeGrowth) == TRUE

(* accrue() is called with the same arguments as long as nothing differs:  *)
(* rate_at_target follows the utilisation of the blocks before.            *)
AccrueAlike(mildGrowth, severeGrowth) ==
    (\A j \in DOMAIN mildTraj : SameAt(j)) => mildGrowth = severeGrowth

PairNext ==
    /\ Len(mildTraj) <= mild.horizon
    /\ \E mildGrowth, severeGrowth \in Growths :
         /\ AccrueAlike(mildGrowth, severeGrowth)
         /\ mildTraj' = Append(mildTraj,
                AfterBlock(mild, P0, Len(mildTraj), MildLast, mildGrowth))
         /\ severeTraj' = Append(severeTraj,
                AfterBlock(severe, P0, Len(mildTraj), SevereLast, severeGrowth))
         /\ interest' = Append(interest,
                [mild   |-> interest[Len(interest)].mild + mildGrowth,
                 severe |-> interest[Len(interest)].severe + severeGrowth])
    /\ UNCHANGED <<mild, severe>>

PairSpec == PairInit /\ [][PairNext]_pairVars

(* The milder run liquidates nothing first: at the first block at which    *)
(* the runs differ the more severe one closes all that the milder closes,  *)
(* whatever the oracle, the shape, the fee and the interest until then.    *)
SevereLiquidatesFirst ==
    \A k \in DOMAIN mildTraj :
      (\A j \in 1 .. k - 1 : SameAt(j)) =>
        DOMAIN severeTraj[k].open \subseteq DOMAIN mildTraj[k].open

(* Later the milder run may close a position that the more severe one      *)
(* keeps, but only for interest, never for the price: without a fee its    *)
(* shares must by then have accrued more at some block.  (They do when its *)
(* utilisation stays higher for what it has not liquidated.  With a fee    *)
(* bad debt may empty the more severe market, where nothing accrues.)      *)
OnlyInterestOvertakes ==
    mildTraj[1].market.fee = 0 =>
      \A k \in DOMAIN mildTraj :
        \/ DOMAIN severeTraj[k].open \subseteq DOMAIN mildTraj[k].open
        \/ \E j \in 1 .. k : interest[j].mild > interest[j].severe

(* A larger drawdown never ends with less bad debt (test_properties.py).   *)
BadDebtMonotone ==
    Len(mildTraj) = mild.horizon + 1 =>
        MildLast.market.badDebt <= SevereLast.market.badDebt

(* That is so when the price falls at once, the oracle mirrors it and no   *)
(* interest has accrued (any but a fee of all of it adds to the supply):   *)
(* whatever is sold is sold at the floor, at once.  Seizures are whole     *)
(* units: at the higher price each may leave out up to one of them.        *)
NoInterestSoFar ==
    /\ mildTraj[1].market.fee < FeeDen
    /\ \A last \in {MildLast, SevereLast} :
         last.market.supply + last.market.badDebt = mildTraj[1].market.supply
Sold == DOMAIN mildTraj[1].open \ DOMAIN MildLast.open
BadDebtMonotoneAtFloor ==
    mild.shape = "instant" /\ mild.kind = "chainlink" /\ NoInterestSoFar =>
        MildLast.market.badDebt
            <= SevereLast.market.badDebt + Cardinality(Sold) * MarketPriceAt(mild, P0, 1)
=============================================================================
