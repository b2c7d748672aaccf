# Verification of the Morpho Blue liquidity stress tests

This directory holds TLA+ models of the simulator in `src/morpho_stress`
and of the acquisition scripts in `scripts`, the TLC configurations that
check them on small instances, and theorems about them whose proofs the TLA+
proof system checks. Paths of the code are relative to the repository.

Contents: [the system](#1-the-system-and-its-parts),
[the modules](#2-modules-and-what-they-model), [abstractions and
bounds](#3-abstractions-and-bounds), [the runs](#4-what-the-runs-check),
[fairness](#5-fairness-and-deadlock), [the proofs](#6-what-is-proved),
[where code and documents differ](#7-where-code-and-documents-differ),
[what is not modelled](#8-what-is-not-modelled), [the plan](#9-plan).

## 1. The system and its parts

The repository simulates what happens to one isolated lending market under
stress and grades it. Data flows one way: scripts fetch and record files;
fixtures and profiles become an initial `MarketState`; a scenario turns it
into a `Trajectory`, block by block; the evaluation runs scenarios and turns
their metrics into criteria and a severity.

| Part | State it keeps | Operations | Talks to |
|---|---|---|---|
| Market accounting: `scenarios/state.py`, `scenarios/liquidation.py`, `models/irm.py`, `models/slippage.py` | an immutable `MarketState`: supply S, borrow B, borrow shares, collateral, oracle price, queue, bad debt, positions | `accrue`, `liquidate_position`, `liquidate_all_eligible`, share conversion, LTV test | called by both scenarios |
| S1 withdrawal run: `scenarios/s1_withdrawal.py` | the loop's state, the schedule, the trajectory and its events | `_withdrawal_schedule`, the block loop of `stress_s1`, `time_to_illiquid` | accounting |
| Oracles: `models/oracle.py` | the last price, or a deque of (block, tick) | `update`, `read` | fed by S3 |
| S3 oracle deviation: `scenarios/s3_oracle.py`, `trajectory.py` | the price path, the oracle, the loop's state, the trajectory | `_drawdown_path`, the block loop of `stress_s3`, the metrics | accounting, oracles |
| Monte Carlo: `scenarios/montecarlo.py` | one seeded generator, the samples of each parameter | `run_monte_carlo`, `joint_mc`, iid and block bootstrap | runs a scenario per path |
| Evaluation: `backtest/runner.py`, `liquidity_metrics.py`, `forward_looking.py` | criteria and severities | `run_backtest`, `assess_market` | S1, S3, Monte Carlo, fixtures |
| Acquisition: `scripts/fetch_*.py`, `scripts/select_markets.py`, `data/storage.py`, `data/manifest.py` | the configuration, Parquet files, `data/manifest.json` | `write_parquet`, `Manifest()`, `append_run`, the rewrite of the configuration | each other, through files only |
| Paging: `data/subgraph.py`, `scripts/fetch_events.py` | offset or cursor of a fetch, attempts | `_post`, `paginate`, the loop of a market's events | a service whose data move meanwhile |
| Sampling: `data/rpc.py`, `data/rpc_helpers.py`, `scripts/fetch_market_state.py`, `scripts/fetch_oracle_prices.py` | the range of blocks, the sample reached, attempts | `safe_block`, `get_block`, one call per market and sample | two endpoints and a chain that grows and reorganises |
| What the files say: `fetch_markets.py`, `fetch_uniswap_quotes.py`, and the scripts above | rows per market, scaled by recorded decimals | one read of the inputs and one rewrite of a file per script | each other, through the rows |

Nothing in the simulator runs concurrently. What is hard there is
arithmetic carried over many blocks (clamps at zero that could swallow an
error, totals that must stay the sums of their parts), a list of positions
made before a loop that changes what the list was made from, an oracle that
is read a window late, and thresholds computed in several places. What is
hard in the acquisition is shared files written in place by separate
processes, partial failures that are swallowed where they happen, defaults
that stand for a failed read, and services whose data move while they are read
for hours.

What makes each part correct:

* accounting: debt and shares stay the sums over the positions; the suppliers
  lose the bad debt and nothing else; no more is lent than was supplied;
* S1: a request is paid or queued, once; the time to illiquidity is when the
  requests exceed the liquidity;
* oracles: a reading is among the prices that may still count, converges,
  and does not move against the market;
* S3: the order of liquidations does not matter, a snapshot of positions is
  still right when it is used, a worse shock liquidates first;
* evaluation: the three criteria are consistent with each other, with the
  paths they summarise and with the verdict;
* acquisition: the manifest is an append-only log of the runs that returned,
  and says what is on disk unless a run failed;
* paging: no event of the window is lost; repetitions only come from arrivals;
  a cursor repeats nothing and skips only entities that share its value;
* sampling: a recorded row stays true of the canonical chain, a hole is a
  failed call, the window is covered, a primary that is down stops nothing;
* the files: an error in one of them that others share cancels where they are
  compared, and where every read answered nothing is missing or wrong;
* Monte Carlo: a path can be generated again as far as the one generator allows.

`PROJECT.json` lists under "hazards" where in the code each of these could go
wrong, and which property would show it.

## 2. Modules and what they model

```
MarketAccounting <- StressS1 <------------------- MCStressS1
       ^   ^------- StressS3 --refines--> BlockwiseS3
OraclePricing <- DrawdownScenario <- StressS3, DrawdownBlock, Backtest
       ^------- PriceOracle --refines--> OracleFeed
DrawdownBlock <- BlockwiseS3 (one run), DrawdownPair (two runs)
BlockwiseS3 <-- one per path --- Backtest --> LiquidityMetrics
FetchPipeline --refines--> ManifestLog
FetchPipeline, MarketData <-- MCAcquisition
PriceOracle, MonteCarloStream <-- MCScenarioInputs
EventPaging, CursorPaging <-- MCEventPaging
BlockSampling
```

* **MarketAccounting** has no state: `Accrue` is `accrue`, `BorrowAssets` and
  `Liquidatable` are `Position.borrow_assets` and the test `ltv > lltv`,
  `Outcome` and `AfterLiquidation` are `liquidate_position`, `Slippage` and
  `Proceeds` are the `SlippageCurve`. A market is a record of the totals.
* **StressS1**: `Begin` builds the schedule (or `Reject` raises), `Block` is one
  turn of the loop (accrual, request, event, trajectory), `Finish` the return.
  `traj` and `events` are the `Trajectory`; `requested` and `credited` are
  history variables that nothing reads but properties.
* **OraclePricing**, **PriceOracle**: the deque of observations and its
  time-weighted mean; both oracles fed the same updates, at irregular blocks,
  invalid prices included. **OracleFeed** is the promise both implement: a
  reading between the lowest and the highest of the last `window` prices.
* **DrawdownScenario**: `S3Config`, the price path and the choice of oracle.
* **StressS3**: `BeginBlock` is steps 1-3 of the loop of `stress_s3` (interest,
  market price, oracle) and the call of `liquidatable_positions`; `Liquidate(b)`
  is one turn of `for pos in eligible` on the running totals; `EndBlock` appends
  to the trajectory. The tuple of positions is any order of them, so every
  order of liquidation is explored.
* **DrawdownBlock** is what a block promises, with no order and no oracle
  state: every eligible position is liquidated against the same market and
  the totals move by the sums. **BlockwiseS3** is a run of such blocks; StressS3
  implements it, with `cfg` and `traj` mapped to themselves. **DrawdownPair**
  steps through two runs of such blocks, from the same market, under different
  drawdowns and each with the interest of its own: `accrue` derives the growth
  from the run's utilisation and `rate_at_target`, so the two are equal as long
  as positions and totals are (`AccrueAlike`) and free of each other afterwards.
  `interest` is a history variable: what a share has accrued in either run.
* **LiquidityMetrics**: `position_recovery_value`, `hqla_v03`,
  `lcr_onchain_v03` and `calibrated_outflow_alpha` as operators.
* **Backtest**: one action per call of `run_backtest` and `assess_market`:
  `EvaluateLcr`, `EvaluateTti`, then `run_monte_carlo` as `Sample` and
  `StartPath` / `PathBlock` / `EndPath` (an instance of BlockwiseS3 per
  path), and `Conclude`. `Init` chooses between the two sources of inputs, a
  price path or a profile. From S1 it takes only the time to illiquidity, in
  the form that StressS1 checks (`TimeToIlliquidIsExact`). `MarketOf` has no fee
  and totals that are the sums over the positions; the fixtures' loader reads
  both from JSON, and the three fixtures shipped satisfy it.
* **FetchPipeline**: processes, one per invocation of a script: inputs read,
  each file opened, completed and hashed, the manifest loaded, appended to in
  memory and written back. An interrupt that still flushes the beginning of a
  file, when that beginning can be loaded as YAML, is outside the model: a torn
  configuration is one that cannot be read. `Outputs` and `Inputs` are tables of the files each
  script writes and reads. `select_markets` is one of the scripts: it rewrites
  the configuration in place and ends without a record (`EndUnrecorded`).
  `Fail` may happen between any two steps: a source that gives up, an empty
  result, a kill. **ManifestLog** is the abstract log; it can be lost as a
  whole, and then for good, because that is what the code can do to it.
* **EventPaging**: `_fetch_event_type_for_market` over `SubgraphClient._post`
  (`Answer`, `PostFails`), while `Arrive` adds events to the market, some of
  them without a timestamp. `Page` and `Arrive` model the Morpho API, which is
  external: newest first, by offset.
* **CursorPaging**: `SubgraphClient.paginate` over the same `_post`, against
  entities that are indexed anywhere in the order while it pages, and that may
  share a value of the cursor field. `MCEventPaging` composes the two: either
  fetch may be the one that takes place.
* **BlockSampling**: one run of `fetch_market_state` or `fetch_oracle_prices`.
  `ReadLatest` is `safe_block` on the head; `AnchorArrives` computes the range
  of blocks; then, per market and sample, `CallAnswers` or `CallFails` and,
  after an answer, `Stamp`, which is `get_block_timestamp`. An attempt of
  `get_block` is one step with an outcome per endpoint: answered, failed in one
  of the three classes that are caught, or otherwise (`AttemptFails` is tried
  again, `AttemptRaises` is not). `Grow` and `Reorganise` are the chain, which
  may move between any two steps: a block is a branch and a timestamp, and what
  a market's state was there is a function of it.
* **MarketData**: the rows that the scripts leave in their files, per market:
  which decimals were read (or replaced by 18), and the powers of ten by which
  prices, events and quotes are therefore off. One action per script, which
  takes its inputs and rewrites its file; the order and the number of re-runs
  are free. `trusted` is a history variable: the markets all of whose reads
  answered.
* **MonteCarloStream**: `run_monte_carlo` and `joint_mc` with their one
  generator: `Sample` draws a whole array for the next parameter of the
  dictionary, `RunPath` runs one path, `Edit` is a second study with the same
  seed. `Drawn` is `Generator.integers`, with the words it rejects.

Proofs are in modules of their own, one per part of the system:
**StressS1_proofs**, **StressS3_proofs**, **Backtest_proofs**,
**BlockSampling_proofs**; **ScenarioInputs_proofs** for what goes into the
scenarios and how it orders what comes out (MonteCarloStream, PriceOracle,
DrawdownPair); **Acquisition_proofs** for the scripts (FetchPipeline,
MarketData, EventPaging, CursorPaging). They stand on **ScenarioTheorems** (the
arithmetic of MarketAccounting and OraclePricing) and **SumTheorems** (sums
over finite sets). Where two specifications meet in one proof module, their
`Init`, `Next`, `Spec` and `TypeOK` carry the name of the part (`PagingInit`,
`DataSpec`, `OracleTypeOK`).
`MC*` modules give the constants of a run their values. Operators commented
as mutants are plausible bugs of the definition next to them; no
specification uses them. Each is there to show that some property fails when
the code is wrong in that way.

## 3. Abstractions and bounds

* **Numbers.** The code computes in floating point. The models use naturals
  and round every quotient down to the unit. In S3 the borrow index (debt per
  share) is a whole number and interest is whole per share, so share
  conversion is exact and the sums can be compared with `=`, where the code's
  own assertions allow a drift. Rounding of floats is not modelled.
* **Prices** are a grid with a table of ticks in place of `log`; the way back
  rounds down. Only the order of ticks matters to the proofs.
* **Rates.** The adaptive curve is not tracked: a block may cost any interest
  of a set. What is shown of a single run therefore holds for any rate path.
  Where two runs are compared, each takes its own, the same only as long as
  nothing that `accrue` is given differs.
* **Slippage** has an exponent of one (`MCBacktest` and the S3 runs give it a
  slope, a free volume and a cap).
* **Exponential schedules** are all non-increasing splits of the total.
* **Files** hold, in FetchPipeline, the identity of the invocation that wrote
  them, which is all that a digest tells apart; in MarketData, per market, the
  decimals and exponents that the rows were made with.
* **Amounts** in MarketData are powers of ten written as exponents, so that
  scaling is addition and an error of the decimals a difference.
* **Random numbers** are the words of a stream, the same after the same seed.

Bounds, all named in the `.cfg` or `MC` module of a run:

| Run | Bounds | Distinct states | Why enough |
|---|---|---|---|
| s1 | supplies 0, 3, 6 and every borrow below; up to 4 blocks, 3 of them with requests; alpha over 4 from -1/4 to 5/4 | 50,856 | empty, drained and liquid pools, invalid configurations, requests ending before and after the horizon |
| scenario_inputs | oracles: windows 1-3, prices 0, 2, 5, 8, blocks up to 5 with gaps of 1 or 2; studies: three parameters (one of a single observation, one with blocks), streams of three words out of 1-3 and then 0, up to 3 paths | 355,941 | the window overflows twice, ignored updates, uneven weights; rejected words, ranges that take no word, a cut last block, every pair of studies |
| s3 | two borrowers, four kinds of position, 1-3 blocks, both oracles, windows 2 and 3 | 114,844 | two positions suffice for one to be liquidated while another waits; the TWAP lags, then catches up |
| drawdown_pair | drawdowns of 0 to 6 eighths, paths of 1-3 blocks, no fee or a fee of half, interest of 0 or a tenth of the initial debt in either run | 702,224 | every pair of drawdowns of the grid; runs that stay the same, runs that differ at any block, and interest that overtakes |
| acquisition | files: five invocations, one at a time: select_markets twice, fetch_markets, fetch_events twice with two files each; rows: a market whose tokens have 6 and 8 decimals and whose loan asset is no dollar, and an idle one | 332,699 | a re-run over older files, a failed run before and after a good one, a torn manifest, a torn configuration found by its own writer; every combination of reads that fail, all orders and any number of re-runs |
| event_paging | pages of 2, at most 8 events, one of them without a timestamp, offset limit 6, 2 attempts; by cursor: 4 values of the field, 2 entities for each | 177,295 | several pages, arrivals between any two, the limit reached; ties across the end of a page |
| block_sampling | heads 1 and 6, gaps of 2 or 3 at a `BLOCK_TIME` of 2, a sample every 2 blocks, buffer 2, reorganisations of up to 2 blocks, one change of the chain, 3 attempts, two markets of which one is created halfway, three windows | 429,516 | the change may fall between any two steps, the two reads of a row included; windows that begin before the chain, end before its head, or begin after it |
| backtest | a day of 3 blocks, 5 paths, 5 price paths and 2 profiles | 1,152,576 | with 5 paths one loss is exactly 20 %, the edge between yellow and red; all severities of each criterion occur |

The bounds on what the environment may do are named: `MaxBlock` (oracles),
`MaxEvents` and `MaxUnstamped` (paging), `MaxGrowth` (the chain); `MaxPaths`
bounds a study. Everything else ends by itself, or is finite. `MCBacktest` declares the
borrowers symmetric: nothing distinguishes them there, and no temporal
property is checked in that run.

## 4. What the runs check

**s1.** `NoOverBorrowWithoutFee`: B <= S survives withdrawals and accrual.
`RequestsConserved`: supply + requested = initial supply + interest + queue.
`IlliquidOnceQueued`: once something is queued the pool is empty in every later
block, so the code's `queued > 0` and the documented `L = 0 and queued > 0` mean
the same. `TimeToIlliquidIsExact`: without a fee that time is the first block
at which the requests exceed the *initial* liquidity, whatever the interest;
with a fee it can only be earlier.

**scenario_inputs.** `ImplementFeed`: both oracles implement `OracleFeed`, through
windows that overflow and updates that are dropped. `TwapFallsMonotonically`:
in a falling market the TWAP only falls, however irregular the updates.
`PathsReproduced`: which paths a changed study shares with the study before:
those of the leading parameters, and of the first parameter only if the number
of paths changed. `BlocksContiguous`: within a block every sample follows the
one before, and none is beyond the last observation.

**s3.** `SharesMatchPositions`, `SupplyAccounted`, `NoOverBorrowWithoutFee`: the
totals stay the sums of their parts. `SnapshotNeverStale`: in the middle of the
loop a fresh test would select exactly the positions still in the list.
`DebtOfOthersUntouched`. `ImplementsBlockwise`: the result of a block does not
depend on the order. `EventsExplainLosses`: the bad debt of the state is the sum
over the events, and no collateral leaves the total but what they seized.

**drawdown_pair.** `SevereLiquidatesFirst`: up to the first block at which the
two runs differ, the more severe one has closed every position that the milder
one has, for both shapes and both oracles, with a fee or without. From there on
their interest differs too, and the milder run, whose utilisation stays higher
for what it has not liquidated, may accrue more and close a position that the
other keeps. `OnlyInterestOvertakes`: without a fee that is the only way: its
shares had accrued more by some block. With a fee of all the interest there is
another, on larger numbers than the run's: bad debt may empty the market of the
more severe run, where no interest accrues from then on, while the milder run
goes on and its interest carries another position over the limit. (Drawdowns of
1 and 3 eighths, holdings of 300 and 600 units of collateral against 3 and 1
shares, a reserve of 5000 and an interest of 3000 per share.)
`BadDebtMonotoneAtFloor`, with a fee or without: at every block before any
interest accrues in either run, an instant, more severe drawdown with a
mirroring oracle has cost no less, but for one unit of collateral for each
position the milder run has sold (seizures are whole units here, fractions in
the code; in the run a position owes 1000 or more and a unit of collateral is
worth at most 16). At a positive rate that is the first block. The linear case
is a finding (section 7).

**acquisition.** Of the files: `RecordsEverySuccess`: as long as the manifest can be read it
lists the fetches that returned, each once. `DriftMeansAFailedRun`: a file that
differs from its last record is torn or was left by an invocation that failed.
`ImplementsLog`. `LostConfigStopsAll`: a configuration torn by a kill in
`select_markets` stays torn, since the script that would rewrite it loads it
first. `EveryRunEnds`, even when the manifest is unreadable. Of the
rows in them: `RatiosSurviveWrongDecimals`: a price, a quote and a
liquidation scaled under the same wrong decimals agree with each other.
`VolumeOffByLoanAsset`: the size of a quoted trade is where it does not cancel:
the loan asset's decimals, and its price in dollars, move it.
`TrustedIsComplete`: a market all of whose reads answered has its rows, and
they are right, whatever was re-run in between.

**event_paging.** `NothingMissed`: a fetch that ends normally has every event
of the window that existed when it began, except those at or before an event
without a timestamp, which ends the loop. `MissesTheOldest`: one that gives up
at the offset limit misses only events older than all it has.
`RepeatsBoundedByArrivals`. `Terminates`, of the fetch by offset. `YieldsEachOnce`:
by cursor, which no script uses yet, rows come in order and once, and a missed
entity shares its value of the cursor field with the end of some page.

**block_sampling.** `RowsStayCanonical`: state and timestamp of every row, read
one after the other, are those of the canonical block, then and ever after.
`HoleMeansAFailedCall`: of the samples visited, those at which the market
existed have a row unless their own call failed (which the script cannot tell
from a market that did not exist, so a hole proves neither).
`WindowCovered`: missed slots stretch the range but never uncover the start of
the window, and the end is overrun by less than a block.
`AbortsOnlyWhenAllFail`: what an endpoint must do to end a script.
`SamplingEnds`.

**backtest.** `ShortCoverageComesLast`: a coverage ratio below one implies that S1
is illiquid by the end of the day and that the market expects to lose over two
fifths of its supply. (At exactly 24 hours the criterion of the time to
illiquidity is not triggered, so the ratio may be alone in warning then.)
`SuppliersKeepHqla`: on every path that stays above the stress price, with an
oracle that follows, suppliers keep at least the liquid assets counted.
`FlaggedUnlessGreen`: the flag and the severity, computed from thresholds of
their own, agree.

The four runs expected to be violated are in section 7. The type invariants
(`TypeOK`, or `DataTypeOK` and so on) are not runs' properties: those of
StressS1, StressS3, Backtest, FetchPipeline, MarketData, EventPaging,
PriceOracle and MonteCarloStream are proved, and the others hold on the
instances above.

## 5. Fairness and deadlock

Three specifications state fairness. `FetchPipeline`: weak fairness of
`Proceed(r)` for each invocation, because it is an operating-system process
that waits for no other and whose requests have timeouts; `Fail` is not fair,
and `Start` is not, because nobody has to run a script. `EventPaging`: weak
fairness of `Answer \/ PostFails`: the HTTP client has a timeout, so a request
is answered or fails; neither alternative is promised. `BlockSampling`: weak
fairness of `ScriptStep` as a whole, for the same reason: that some endpoint
ever answers is not assumed. Fairness of arrivals and of the chain is not
assumed either; `Terminates` holds even when events arrive for ever (up to
`MaxEvents`), because the offset limit stops the loop.

Every `.cfg` says `CHECK_DEADLOCK FALSE`, because what is modelled really stops:
scenarios return, evaluations and studies conclude, scripts exit, a fetch ends. Only the
oracle is stopped by a bound, the end of its clock.

## 6. What is proved

All theorems hold for every value of the constants that satisfies the named
assumptions (`AccountingAssumption`, `S1Assumption`, `TickAssumption`,
`OracleAssumption`, `ScenarioAssumption`, `S3Assumption`, `PairAssumption`,
`StreamAssumption`, `BacktestAssumption`, `PipelineAssumption`,
`PagingAssumption`, `MCCursorAssumption`, `SamplingAssumption`,
`BufferAssumption`, `MarketDataAssumption`): any number of borrowers (finite),
positions, blocks, prices, profiles, paths, parameters, invocations, events,
entities, markets, samples and attempts. The
assumptions give constants their types and the code's own ranges (a drawdown is
a fraction of a thousand, the outflow rate of a profile lies between the
clips of `calibrated_outflow_alpha`, 50 and 600 thousandths). One of them
excludes something the code can reach: a profile may be clipped to a drawdown of
the whole price (`forward_looking.py:234`), which `_drawdown_path` refuses with
an exception; such an evaluation has no result for a theorem to be about.
`NoRowsAssumption` only says that the mark for a missing row is not a row.

An inductive invariant is needed every time: none of the properties below says
enough of the state before a step to be kept by it. Each was checked by TLC, on
the run's instance or a smaller one, before it was proved. By specification,
with the module that holds the proofs:

* **StressS1** (StressS1_proofs): `TypeCorrect`, `RequestsAreConserved`, `QueuedMeansIlliquid`,
  `NeverOverBorrowed`. The inductive invariant `IInv` is the type, the
  conservation of requests, the empty pool behind a queue, and `Started`, which
  ties the phase to the trajectory. The argument turns on two facts of a
  block: accrual never widens S - B, and a request is queued only after the
  whole liquidity has been paid out. B <= S joins it when there is no fee.
  `TimeToIlliquidIsWhenRequestsExceed` needs `Chronicle`, which says of every
  block of the trajectory so far, and not only of the last, what was requested,
  left and queued by then: without a fee the pool holds the initial liquidity
  less the requests until they exceed it, and nothing afterwards.
* **StressS3** (StressS3_proofs): `TypeCorrect`, `SharesAlwaysMatch`, `NeverOverBorrowed`,
  `LossesAccounted`, `OthersKeepTheirDebt`, `SnapshotStaysValid`,
  `OnceAndForAll`. `IInv` is type, set-up and *an index exists*: a natural `idx`
  such that the total debt is `idx` times the total of shares, and that total
  is the sum over the open positions. Accrual raises the index; a liquidation
  keeps it, and so keeps the debt of everybody else and the outcome of every
  test still to come. `LossesInv` adds, for markets without a fee, S >= B and
  the account of losses, from which no clamp is ever reached.
  `EventsExplain` (`EventsInv`) sums bad debt and seized collateral over the
  events, in the middle of a block as well: the market always has at least the
  collateral of the open positions, so no seizure meets the clamp at zero.
  `BlocksAreOrderFree` is the refinement of
  `BlockwiseS3`: `BlockInv` says that, within a block, the totals are those at its
  beginning less the sums over the positions already liquidated, each as it
  would have been against the market of the beginning; and that the oracle
  holds exactly the last prices of the path. The steps up to `EndBlock` stutter,
  and `EndBlock` is one step of `Blockwise`.
* **PriceOracle** (ScenarioInputs_proofs): `OracleTypeCorrect`,
  `OraclesImplementFeed`, `TwapFallsWithTheMarket`. `OracleInv` says that the
  deque holds the ticks of the last accepted prices, as many as the window
  allows. The refinement follows because a weighted mean lies between the
  extremes and the way back from ticks rounds down to a price of the grid. For
  the last, one update is taken apart: the newest observation comes in, the one
  before it gets the weight of the gap, the oldest may drop out; in a falling
  market each of the three lowers the mean, which is arithmetic of products.
* **DrawdownPair** (ScenarioInputs_proofs): `PairInvariant`,
  `SeverityOrdersLiquidations`, `SeverityActsFirst`, `FloorInvariant`,
  `SeverityOrdersBadDebt`. `PairInv`: the trajectories have one length and,
  without a fee, each market is at an index of its own, the initial one plus the
  interest of its blocks (`InStep`; accrual stops only for a market with no
  supply, which then has no shares either), with totals that are the sums over
  its positions and B <= S; and where the milder run has not accrued more
  (`NotAhead`), what is open in the more severe run is open, with the same
  holding, in the milder one (`Covers`). The market price of the more severe
  path is nowhere higher (`MarketPricesOrdered`), so neither is the TWAP over
  the same blocks (`TwapMonotone`), so a position that stays open at the lower
  price, owing no less, stays open at the higher. `SeverityActsFirst` needs no
  index: at the first block of difference both runs come from the same
  positions and totals (`SameTotals`), have accrued the same, and differ in the
  price only (`SameBookClosesMore`). `FloorInv`, with any fee: the totals are those
  of the positions (`Balanced`), and supply plus bad debt (`Worth`) never falls.
  So where it is what it was at the beginning nothing has accrued in between:
  any fee but all of the interest leaves the supply more, a market that covers
  its debt and has no supply has no debt either, and where the milder market
  has no shares to accrue on the other has none. Then both are still at the
  index they began with, and each has lost what its sold positions lose at its
  floor (`SoldAt`). `LossFallsWithPrice` compares one position at two prices: the
  seizure at the lower price is at least as large and slips at least as much,
  and what the higher price leaves out is worth less than a unit.
* **MonteCarloStream** (ScenarioInputs_proofs): `StreamTypeCorrect`,
  `BlocksAreContiguous`, `PathsAreReproduced`. `StreamInv` says where in the
  stream each parameter began (`Began`), for the study in progress and for the
  one remembered. Two studies that agree on the leading parameters, and on the
  number of paths wherever a word is taken, begin the next one at the same
  place (`BeginningsAgree`). The positions are a recursive function of the
  number of draws; what holds of it for every number is argued by the least
  number for which it would not.
* **Backtest** (Backtest_proofs): `TypeCorrect`, `CoverageFailsLast`,
  `FlagIsSeverity`. `IInv` has four parts. `InputInv`: the market evaluated is
  at the index its debts were made at, and lends no more than it has.
  `CriteriaInv`: coverage and time to illiquidity are those of that market.
  `PathsInv`: every snapshot of the path in progress is `Sound`, that is, its
  totals are the sums over its open positions at some index. `VerdictInv`. The
  lemma `CoverageFacts` splits the debt of every position into what is recovered
  and what is lost, so that liquid assets and expected losses are together the
  supply. `CoverageFailsLast` follows: outflows are at most 60 % of the supply,
  so liquid assets short of them leave losses of more than 40 %; and they are at
  least the pool, which the same outflow then drains in S1 before the day ends.
* **FetchPipeline** (Acquisition_proofs): `TypeCorrect`, and `SerialRunsImplementLog`: with one
  invocation at a time the manifest implements `ManifestLog` under every
  failure. It rests on `SoleWriter`: the invocation between loading and
  writing has in memory what the manifest holds. `LostConfigIsFinal`, serial or
  not: only a script that has loaded the configuration ever writes it.
  `SerialRunsAreAllRecorded` adds (`RecordInv`) that a writer has in memory the
  records of all that returned, and its own. For `SerialDriftMeansAFailedRun`,
  `HeldInv` says that what an invocation will record is its own, and is on disk
  as it left it, or torn, while it is in progress; and `DriftInv` that the
  manifest explains each file, and that what a writer holds is a list that
  does, with its own entry added.
* **EventPaging** (Acquisition_proofs): `PagingTypeCorrect`, `NothingIsMissed`,
  `RepeatsAreBounded`, `TruncationMissesTheOldest`. `PagingInv` rests on
  `Walked(low, known)`: there is an index `low` such that every event from
  there up to the newest known at the beginning has been seen, nothing fetched
  is below it, and it lies at most as far from the end of the chain as the
  offset; so an arrival moves the next page back over what was seen, never
  past it, and each repetition is paid for by an arrival. The third assumes
  that the window begins after the epoch (`StartTs > 0`): otherwise the 0 that
  stands for a missing timestamp is inside the window, and such an event is
  walked past and lost without ending the loop.
* **CursorPaging** (Acquisition_proofs): `YieldsInOrderOnce`. A page is first
  shown to be the least entities beyond the cursor, in order (`RanksInOrder`:
  a finite set under a strict total order has one element of every rank).
  `CursorInv`: while the fetch goes on the rows are whole pages, none beyond
  the cursor, and every entity known at the beginning and not beyond it has
  come or shares its value with the end of a page.
* **BlockSampling** (BlockSampling_proofs): `RecordedStaysCanonical`, from `BufferAssumption`: no
  reorganisation is deeper than the buffer of `safe_block`. `IInv` says that
  the end block lies a whole buffer below the head, that the rows are about
  blocks up to it, and that the block last read is still canonical; the chain
  only moves above. `HolesAreFailures` adds that nothing is recorded before the
  range is known. `OutageDoesNotAbort`: while a block is being tried, every
  endpoint in use has failed exactly `attempt` times. `SamplesCoverTheWindow`
  (`CoverInv`): blocks are at least `BLOCK_TIME` apart on the chain, however it
  changes, so a range computed as if there were no missed slots only reaches
  further back.
* **MarketData** (Acquisition_proofs): `DataTypeCorrect`, `WrongDecimalsCancel`, `VolumeIsOff`,
  `AnsweredMeansComplete`. A row depends on the market list it was scaled
  under, which may have been replaced since: `IInv` gives each number of each
  row in terms of the decimals it was scaled under, and says that a trusted row
  was scaled under the true ones.
* **ScenarioTheorems** and **SumTheorems** hold the lemmas. Sums are
  `SumFunction` of the community modules, a fold, of which nothing can be
  concluded by induction on data in this prover; SumTheorems characterises it
  by a relation and argues by a least counterexample among finite sets, and
  derives that a sum is natural, is additive, distributes over a factor and
  over a partition, and loses one term when one element is removed.

Only model-checked, and why:

* `EveryRunEnds`, `Terminates`, `SamplingEnds`: liveness under fairness is out of
  the prover's reach.
* `SuppliersKeepHqla`: it is not true of every value of the constants. A
  seizure is rounded down to the unit of collateral at the price of its block,
  the coverage at the stress price, so per position the inequality holds up to
  the value of a unit (`LossFallsWithPrice`); and interest raises the debt that
  is sold above the debt the coverage was computed from, so that on a steep
  slippage curve the larger volume may bring in less. The run shows it for units,
  interest and slippage of the size the scenarios use.

## 7. Where code and documents differ

Runs that TLC violates, each with one property that quotes the repository:

* **s1_fee_over_borrow**: with a fee and a fully lent pool, from the start or
  drained by withdrawals, the next accrual makes B > S, which
  `assert_invariants` (`scenarios/state.py:148-150`) excludes.
* **s3_collateral_drift**: `assert_invariants` (`state.py:154-160`) wants
  `total_collateral` to be the sum over the positions. A liquidation that does
  not need all of the collateral zeroes the position and takes only what was
  seized from the total (`liquidation.py:126`), so the unsold part stays in it.
* **backtest_hqla**: `docs/METHODOLOGY.md` 2.2 and the docstring of
  `liquidity_metrics.py` (:17-24) subtract the expected bad debt from the
  recoveries; `hqla_v03` does not, since a recovery is net of it already.
* **drawdown_pair_linear**: on a linear path a larger drawdown may end with less
  bad debt, against `tests/test_properties.py:210`.

Noticed while translating, and not run on their own:

* `docs/SCENARIOS.md` (S3, rule 4) computes the shortfall on the whole
  collateral; the code sells what it seizes at the oracle price, which may be
  less than the whole. Rule 3 announces a delay of two blocks before a
  liquidation; there is none.
* `docs/BACKTEST.md:21` applies the criteria at t0; the runner uses the lowest
  price and the drawdowns of the whole event window (`runner.py:95`, :168-180)
  and never reads `t0_index`.
* An empty market has a coverage ratio of 0 and is flagged red.
* The severity bands of `docs/SCENARIOS.md:509` are not those of the code, and
  `docs/BACKTEST.md:236` puts a bad debt of exactly 5 % in yellow, which the
  strict comparison of `forward_looking.py:308` leaves green.
* The TWAP window counts observations, not blocks (`oracle.py:116`, :128).
* `S3Config.oracle_lag_blocks` is ignored for exogenous oracles
  (`s3_oracle.py:53` against :102).
* `slippage_shortfall` is the bad debt under another name (repaid less realized);
  `docs/SCENARIOS.md:276-277` defines it by the value of the collateral at the
  oracle price less what it brings in.
* `data/manifest.py:3` says that the manifest describes the cache: a failed
  `fetch_events` leaves newer files than it lists, and `latest_run()` lists the
  files of the last script only.
* The checksum sidecar of `docs/DATA.md` 4.1 is not written, and validators
  said to run "on every Parquet write" (`validators.py:15-16`) have no caller.
* `data/manifest.py:5` calls the manifest append-only; two scripts run at the
  same time lose an entry (:60), and `scripts/README.md` draws the four fetches
  after `fetch_markets` side by side. `Serial` is the assumption under which the
  claim holds: with `Serial = FALSE`, TLC violates `RecordsEverySuccess`.
* `scripts/fetch_events.py:21-22` calls the loop "slow but correct"; an arrival
  between two pages makes an event come twice (`RepeatsBoundedByArrivals`), and
  an event without a timestamp ends the loop (:234).
* `fetch_market_state.py:97` returns None "if the call reverts"; it does so on
  any exception (:105), and says nothing.
* `RPCClient.call` logs that it falls back, then raises (`rpc.py:85-89`). It has
  no caller: the scripts call contracts on the primary directly. The HTTP
  library's own exceptions are not among the classes that `get_block` catches.
* `data/subgraph.py:3-5` speaks of a cursor on `block_number` + `id` and of never
  using offsets: `paginate` uses one field, nothing calls it, and `fetch_events`
  pages by offset.
* `fetch_oracle_prices` reads `start_ts` but not `end_ts` of the window (:116-119).
* `fetch_uniswap_quotes` quotes at the head but stamps the row with the time of
  the safe end block, and divides dollars by a price in the loan asset.
* `montecarlo.py` (:24-25, :173) speaks of a seed per path; one generator draws
  all shocks at once (:188-190). `PathsReproduced` says what is left of it.

## 8. What is not modelled

* Floating point, formatting, logging, wording of verdicts.
* The rates of the adaptive curve; the regression of slippage curves; the
  beta distribution and the noise of a profile: inputs of any value.
* The summary statistics of the Monte Carlo.
* `RPCClient.call`, which has no caller; the alternative slugs of `fetch_tvl`, which
  only decide whether it fails; market_state in `MarketData`, scaled as the
  supply events are; movements of pool prices between a quote and its stamp.
* Validators, schemas and ABIs: tables of names and types, and row checks that
  nothing calls. Configuration fields other than the list of markets.
* Mock data, notebooks and figures: no control of their own.

## 9. Plan

Done, in this order: accounting and S1; oracles; S3 with its refinement; the
pair of runs; the pipeline and paging; coverage and evaluation; proofs of S1,
S3 and the pipeline; block sampling with its proofs; what the files say; cursor
paging; the Monte Carlo stream; the selection of markets; proofs of the oracles
against their feed, of both ways of paging, of the stream and of the pair of
runs.

To prove next: a form of `SuppliersKeepHqla` without interest and with an
explicit rounding term, from the same lemmas as `SeverityOrdersBadDebt`.

To model, if it is found worth a run: `update_rate_at_target` on a grid, with
its clips, over many blocks of S1.

To run: `tlc -config MCStressS3.cfg MCStressS3` and likewise for the others;
`tlapm StressS3_proofs.tla` and likewise for the proofs, of which
Acquisition_proofs and ScenarioInputs_proofs take some minutes.
