------------------------------ MODULE StressS3 ------------------------------
(***************************************************************************)
(* Scenario S3, the oracle deviation: stress_s3 drives the market price    *)
(* down, feeds it to the oracle, and at every block liquidates, one after  *)
(* the other, the positions found liquidatable at the oracle price.        *)
(*                                                                         *)
(* A position is closed by its own action, so that what one liquidation    *)
(* does to the positions still waiting is visible.  The positions come in  *)
(* any order.  Interest is a whole number per borrow share, which keeps    *)
(* the borrow index exact.                                                 *)
(***************************************************************************)
EXTENDS MarketAccounting, DrawdownScenario

CONSTANTS Borrowers,        \* the borrowers of the market
          Holdings,         \* positions: [coll, shares]
          Index,            \* initial debt per borrow share
          Reserves,         \* initial liquidity
          InitialPrices,    \* initial oracle price
          Fees,             \* fees, as numerators over FeeDen
          Growths           \* interest of a block, per borrow share

Position == [coll: Nat, shares: Nat]

(* state.positions: some of the borrowers, each with a position.           *)
Portfolio == UNION {[D -> Holdings] : D \in SUBSET Borrowers}

ASSUME S3Assumption ==
    /\ Holdings \subseteq Position /\ Index \in Nat \ {0}
    /\ Reserves \subseteq Nat /\ InitialPrices \subseteq Prices
    /\ Growths \subseteq Nat /\ Fees \subseteq 0 .. FeeDen
    /\ IsFiniteSet(Borrowers)

VARIABLES
    cfg,            \* the S3Config, with the market's oracle kind
    phase,          \* "configured", "block", "liquidating", "done", "rejected"
    market,         \* the totals of the state; price is the oracle's
    open,           \* state.positions, by borrower
    eligible,       \* liquidatable_positions() of this block still to close
    marketPrice,    \* the price liquidators sell at
    obs,            \* the oracle's observations
    traj,           \* Trajectory.states: [market, open] per block
    events,         \* Trajectory.events
    credited        \* history: the interest credited to suppliers

vars == <<cfg, phase, market, open, eligible, marketPrice, obs, traj, events,
          credited>>

Event == [block: Nat, borrower: Borrowers, repaid: Nat, seized: Nat,
          realized: Nat, badDebt: Nat]

SharesOf(positions) ==
    SumFunction([b \in DOMAIN positions |-> positions[b].shares])
CollOf(positions) ==
    SumFunction([b \in DOMAIN positions |-> positions[b].coll])

(* A market whose totals are those of its positions, with `reserve` not    *)
(* lent out.                                                               *)
MarketOf(positions, reserve, price, fee) ==
    LET debt == Index * SharesOf(positions)
    IN  [supply |-> debt + reserve, borrow |-> debt,
         shares |-> SharesOf(positions), coll |-> CollOf(positions),
         price |-> price, queued |-> 0, badDebt |-> 0, fee |-> fee]

BlockOffset == Len(traj)
InitialPrice == traj[1].market.price

(* The positions left once b's is removed.                                 *)
Without(positions, b) == Restrict(positions, DOMAIN positions \ {b})

(* liquidatable_positions.                                                 *)
Eligible(m, positions) ==
    {b \in DOMAIN positions : Liquidatable(positions[b], m)}

-----------------------------------------------------------------------------
Init ==
    /\ cfg \in S3Config
    /\ \E positions \in [Borrowers -> Holdings], r \in Reserves,
          p \in InitialPrices, fee \in Fees :
         /\ open = positions /\ market = MarketOf(positions, r, p, fee)
         /\ marketPrice = p
    /\ phase = "configured" /\ eligible = {}
    /\ obs = << >> /\ traj = << >> /\ events = << >> /\ credited = 0

Reject ==
    /\ phase = "configured" /\ ~ValidConfig(cfg)
    /\ phase' = "rejected"
    /\ UNCHANGED <<cfg, market, open, eligible, marketPrice, obs, traj, events,
                   credited>>

(* The oracle is built at the initial price and the trajectory begins.     *)
Begin ==
    /\ phase = "configured" /\ ValidConfig(cfg)
    /\ obs' = <<Observed(0, market.price)>>
    /\ traj' = <<[market |-> market, open |-> open]>>
    /\ phase' = "block"
    /\ UNCHANGED <<cfg, market, open, eligible, marketPrice, events, credited>>

(* Interest, market price, oracle, and the snapshot of who is liquidated.  *)
BeginBlock(growth) ==
    /\ phase = "block" /\ BlockOffset <= cfg.horizon
    /\ marketPrice' = MarketPriceAt(cfg, InitialPrice, BlockOffset)
    /\ obs' = Push(obs, Observed(BlockOffset, marketPrice'), OracleWindow(cfg))
    /\ LET accrued == Accrue(market, growth * market.shares)
       IN  /\ market' = [accrued EXCEPT !.price = ReadTwap(obs')]
           /\ credited' = credited + (accrued.supply - market.supply)
    /\ eligible' = Eligible(market', open)
    /\ phase' = "liquidating"
    /\ UNCHANGED <<cfg, open, traj, events>>

(* One position of the snapshot is liquidated on the running totals.       *)
Liquidate(b) ==
    /\ phase = "liquidating" /\ b \in eligible
    /\ market' = AfterLiquidation(open[b], market, marketPrice)
    /\ LET o == Outcome(open[b], market, marketPrice)
       IN  events' = Append(events,
               [block |-> BlockOffset, borrower |-> b, repaid |-> o.repaid,
                seized |-> o.seized, realized |-> o.realized,
                badDebt |-> o.badDebt])
    /\ open' = Without(open, b)
    /\ eligible' = eligible \ {b}
    /\ UNCHANGED <<cfg, phase, marketPrice, obs, traj, credited>>

EndBlock ==
    /\ phase = "liquidating" /\ eligible = {}
    /\ traj' = Append(traj, [market |-> market, open |-> open])
    /\ phase' = "block"
    /\ UNCHANGED <<cfg, market, open, eligible, marketPrice, obs, events,
                   credited>>

Finish ==
    /\ phase = "block" /\ BlockOffset > cfg.horizon
    /\ phase' = "done"
    /\ UNCHANGED <<cfg, market, open, eligible, marketPrice, obs, traj, events,
                   credited>>

Next ==
    \/ Reject \/ Begin \/ EndBlock \/ Finish
    \/ \E growth \in Growths : BeginBlock(growth)
    \/ \E b \in Borrowers : Liquidate(b)

Spec == Init /\ [][Next]_vars

-----------------------------------------------------------------------------
(* The metrics read off the trajectory.                                    *)
SumOfEvents(part) ==
    SumFunction([i \in DOMAIN events |-> events[i][part]])
TotalBadDebt == market.badDebt

-----------------------------------------------------------------------------
(* The variables have their types.                                         *)
TypeOK ==
    /\ cfg \in S3Config
    /\ phase \in {"configured", "block", "liquidating", "done", "rejected"}
    /\ market \in Market /\ market.price \in Prices /\ marketPrice \in Prices
    /\ open \in Portfolio
    /\ eligible \subseteq DOMAIN open
    /\ obs \in Seq(Observation)
    /\ events \in Seq(Event) /\ credited \in Nat
    /\ traj \in Seq([market: Market, open: Portfolio])

(* Without a fee the pool is never over-borrowed: bad debt takes from the  *)
(* supply no more than the liquidation takes from the debt.                *)
NoOverBorrowWithoutFee == market.fee = 0 => market.borrow <= market.supply

(* Share conservation (assert_invariants): the total is that of the open   *)
(* positions, and their debts make up the whole borrow.                    *)
SharesMatchPositions ==
    /\ market.shares = SharesOf(open)
    /\ market.borrow =
         SumFunction([b \in DOMAIN open |-> BorrowAssets(open[b].shares, market)])

(* Without a fee suppliers lose exactly the bad debt: no clamp at zero     *)
(* ever swallows a loss.                                                   *)
SupplyAccounted ==
    market.fee = 0 /\ traj # << >> =>
        market.supply + market.badDebt = traj[1].market.supply + credited

(* The snapshot taken before the loop is never stale: whatever has been    *)
(* liquidated, testing again would find the same positions still to do.    *)
SnapshotNeverStale ==
    phase = "liquidating" => eligible = Eligible(market, open)

(* A position is liquidated at most once, and is open until then.          *)
LiquidatedOnceAndForAll ==
    /\ \A i, j \in DOMAIN events :
         events[i].borrower = events[j].borrower => i = j
    /\ DOMAIN open = Borrowers \ {events[i].borrower : i \in DOMAIN events}

(* The events account for what the state has lost: its bad debt is the sum *)
(* of theirs, and no collateral leaves the total but what they seized.     *)
EventsExplainLosses ==
    /\ TotalBadDebt = SumOfEvents("badDebt")
    /\ traj # << >> => market.coll = traj[1].market.coll - SumOfEvents("seized")

(* Liquidating one position changes the debt of no other.                  *)
DebtOfOthersUntouched ==
    [][\A b \in DOMAIN open' :
         phase = "liquidating" =>
           BorrowAssets(open[b].shares, market') = BorrowAssets(open[b].shares, market)]_vars

(* A block of the code is a block of the order-free specification, whose   *)
(* oracle has no state and whose liquidations all see the same market.     *)
Blockwise == INSTANCE BlockwiseS3
ImplementsBlockwise == Blockwise!Spec

-----------------------------------------------------------------------------
(* assert_invariants (state.py): the total of collateral is that of the    *)
(* positions.  Seizures are whole units here: each may leave one behind.   *)
CollateralMatchesPositions == market.coll <= CollOf(open) + Len(events)
=============================================================================
