------------------------------ MODULE Backtest ------------------------------
(***************************************************************************)
(* The risk evaluation of one market, as run_backtest makes it of a past   *)
(* event and assess_market of a market of today: the coverage ratio at a   *)
(* stress price, the time to illiquidity of a withdrawal run, and a Monte  *)
(* Carlo of scenario S3 over observed drawdowns; three criteria, a         *)
(* severity and a flag.                                                    *)
(*                                                                         *)
(* Each path of the Monte Carlo is a run of BlockwiseS3, which StressS3    *)
(* implements.  Of scenario S1 only the time to illiquidity is used, as    *)
(* StressS1 characterises it (TimeToIlliquidIsExact).                      *)
(***************************************************************************)
EXTENDS LiquidityMetrics, DrawdownScenario

CONSTANTS Borrowers, Holdings, Index, Reserves, InitialPrices, Growths,
          Day,          \* HOURS_24, in blocks
          PricePaths,   \* market_path of the fixtures
          Profiles,     \* of assess_market: [p99, alpha, drawdowns]
          Paths         \* n_mc_paths

(* Drawdowns that S3 accepts: short of the whole price.                    *)
Falls == 0 .. DrawdownDen - 1

ASSUME BacktestAssumption ==
    /\ Day \in Nat \ {0} /\ Paths \in Nat \ {0}
    /\ \A path \in PricePaths : path \in Seq(Prices) /\ path # << >>
    /\ \A profile \in Profiles :
         /\ profile.p99 \in Nat /\ profile.p99 <= 1000
         /\ profile.alpha \in Nat /\ 50 <= profile.alpha /\ profile.alpha <= 600
         /\ profile.drawdowns \subseteq Falls
    /\ DrawdownDen = 1000 /\ IsFiniteSet(Borrowers)
    /\ Holdings \subseteq [coll: Nat, shares: Nat]
    /\ Index \in Nat \ {0} /\ Reserves \subseteq Nat
    /\ InitialPrices \subseteq Prices /\ Growths \subseteq Nat

VARIABLES
    input,      \* what is evaluated: [market, open, kind, worst, alpha, drawdowns]
    stage,      \* "lcr", "tti", "sampling", "paths", "done"
    coverage,   \* what lcr_onchain_v03 returned
    tti,        \* time_to_illiquid in blocks, -1 for never
    shocks,     \* the drawdowns of the paths, sampled before the first runs
    traj,       \* Trajectory of the path being run
    samples,    \* total_bad_debt of the paths run
    verdict     \* [severity, flagged]

vars == <<input, stage, coverage, tti, shocks, traj, samples, verdict>>

Severities == {"green", "yellow", "red"}

(* A market as the fixtures and the profiles make it: no fee, and totals   *)
(* that are those of its positions.                                        *)
MarketOf(positions, reserve, price) ==
    LET shares == SumFunction([b \in DOMAIN positions |-> positions[b].shares])
    IN  [supply |-> Index * shares + reserve, borrow |-> Index * shares,
         shares |-> shares, price |-> price, queued |-> 0, badDebt |-> 0,
         fee |-> 0,
         coll |-> SumFunction([b \in DOMAIN positions |-> positions[b].coll])]

-----------------------------------------------------------------------------
(* The two sources of inputs.                                              *)

(* The drawdowns the bad-debt criterion draws from, its default if the     *)
(* path is too short for one.                                              *)
Observations(path) ==
    IF Len(path) <= Window THEN <<50, 100, 200, 300>> ELSE WindowDrawdowns(path)

(* run_backtest: everything is derived from the fixture's price path.      *)
EventInput(m, open, kind, path) ==
    [market |-> m, open |-> open, kind |-> kind,
     worst |-> Min(ToSet(path)), alpha |-> OutflowAlpha(path),
     drawdowns |-> ToSet(Observations(path))]

(* assess_market: from the profile's quantiles.  The path built to         *)
(* calibrate alpha and the beta distribution of drawdowns are random: any  *)
(* alpha and drawdowns of the profile.                                     *)
ProfileInput(m, open, kind, profile) ==
    [market |-> m, open |-> open, kind |-> kind,
     worst |-> m.price - (m.price * profile.p99) \div 1000,
     alpha |-> profile.alpha, drawdowns |-> profile.drawdowns]

-----------------------------------------------------------------------------
(* The criteria, their thresholds and their severities.                    *)

LcrTriggered(c) == c.hqla < c.net
LcrSeverity(c) ==
    IF 100 * c.hqla < 80 * c.net THEN "red"
    ELSE IF c.hqla < c.net THEN "yellow" ELSE "green"

TtiTriggered(k) == k # -1 /\ k < Day
(* Mutant: 24 hours to the block counted as within 24 hours.               *)
TtiSeverityInclusive(k) ==
    IF k = -1 \/ k > Day THEN "green" ELSE IF 2 * k < Day THEN "red" ELSE "yellow"
TtiSeverity(k) ==
    IF k = -1 \/ k >= Day THEN "green" ELSE IF 2 * k < Day THEN "red" ELSE "yellow"

LossMaking == Cardinality({i \in DOMAIN samples : samples[i] > 0})
BadDebtTriggered == 20 * LossMaking > Paths
BadDebtSeverity ==
    IF 5 * LossMaking > Paths THEN "red"
    ELSE IF 20 * LossMaking > Paths THEN "yellow" ELSE "green"

(* _composite_severity: the worst of the three.                            *)
Composite(severities) ==
    IF "red" \in severities THEN "red"
    ELSE IF "yellow" \in severities THEN "yellow" ELSE "green"

(* Mutant: the requests compared with the whole supply.                    *)
TimeToIlliquidOfSupply(m, alpha) ==
    LET total == (alpha * m.supply) \div 1000
        exhausting == {k \in 1 .. Day : (total * k) \div Day > m.supply}
    IN  IF exhausting = {} THEN -1 ELSE Min(exhausting)

(* stress_s1 with alpha spread evenly over the day, time_to_illiquid: the  *)
(* first block at which the requests exceed the liquidity.                 *)
TimeToIlliquid(m, alpha) ==
    LET total == (alpha * m.supply) \div 1000
        exhausting == {k \in 1 .. Day : (total * k) \div Day > Liquidity(m)}
    IN  IF exhausting = {} THEN -1 ELSE Min(exhausting)

-----------------------------------------------------------------------------
(* The evaluation, one step per call.                                      *)

Init ==
    /\ \E positions \in [Borrowers -> Holdings], r \in Reserves,
          p \in InitialPrices, kind \in Kinds :
         LET m == MarketOf(positions, r, p)
         IN  \/ \E path \in PricePaths :
                  input = EventInput(m, positions, kind, path)
             \/ \E profile \in Profiles :
                  input = ProfileInput(m, positions, kind, profile)
    /\ stage = "lcr" /\ coverage = << >> /\ tti = -1
    /\ shocks = << >> /\ traj = << >> /\ samples = << >> /\ verdict = << >>

(* Criterion 1, at the stress price.                                       *)
EvaluateLcr ==
    /\ stage = "lcr" /\ stage' = "tti"
    /\ coverage' = Coverage(input.market, input.open, input.worst, input.alpha)
    /\ UNCHANGED <<input, tti, shocks, traj, samples, verdict>>

(* Criterion 2.                                                            *)
EvaluateTti ==
    /\ stage = "tti" /\ stage' = "sampling"
    /\ tti' = TimeToIlliquid(input.market, input.alpha)
    /\ UNCHANGED <<input, coverage, shocks, traj, samples, verdict>>

(* Criterion 3: run_monte_carlo draws all shocks with replacement...       *)
Sample ==
    /\ stage = "sampling" /\ stage' = "paths"
    /\ shocks' \in [1 .. Paths -> input.drawdowns]
    /\ UNCHANGED <<input, coverage, tti, traj, samples, verdict>>

(* ... and runs the paths one after the other, each an instant drawdown    *)
(* from the same initial market.                                           *)
Shock == shocks[Len(samples) + 1]
PathConfig ==
    [drawdown |-> IF stage = "paths" /\ Len(samples) < Paths THEN Shock ELSE 0,
     dt |-> Day, horizon |-> Day, shape |-> "instant", kind |-> input.kind,
     lag |-> 0]
Path == INSTANCE BlockwiseS3 WITH cfg <- PathConfig, traj <- traj

StartPath ==
    /\ stage = "paths" /\ Len(samples) < Paths /\ traj = << >>
    /\ traj' = <<[market |-> input.market, open |-> input.open]>>
    /\ UNCHANGED <<input, stage, coverage, tti, shocks, samples, verdict>>

PathBlock ==
    /\ stage = "paths" /\ Path!Block
    /\ UNCHANGED <<input, stage, coverage, tti, shocks, samples, verdict>>

EndPath ==
    /\ stage = "paths" /\ Len(traj) = Day + 1
    /\ samples' = Append(samples, Last(traj).market.badDebt)
    /\ traj' = << >>
    /\ UNCHANGED <<input, stage, coverage, tti, shocks, verdict>>

Conclude ==
    /\ stage = "paths" /\ Len(samples) = Paths /\ stage' = "done"
    /\ verdict' =
         [severity |-> Composite({LcrSeverity(coverage), TtiSeverity(tti),
                                  BadDebtSeverity}),
          flagged |-> LcrTriggered(coverage) \/ TtiTriggered(tti)
                        \/ BadDebtTriggered]
    /\ UNCHANGED <<input, coverage, tti, shocks, traj, samples>>

Next == EvaluateLcr \/ EvaluateTti \/ Sample \/ StartPath \/ PathBlock
          \/ EndPath \/ Conclude

Spec == Init /\ [][Next]_vars

-----------------------------------------------------------------------------
(* The variables have their types.                                         *)
TypeOK ==
    /\ stage \in {"lcr", "tti", "sampling", "paths", "done"}
    /\ stage # "lcr" =>
         coverage \in [hqla: Nat, badDebt: Nat, outflow: Nat, net: Nat \ {0}]
    /\ tti \in {-1} \cup 1 .. Day
    /\ \A i \in DOMAIN shocks : shocks[i] \in Falls
    /\ samples \in Seq(Nat) /\ Len(samples) <= Paths
    /\ \A i \in DOMAIN traj : traj[i].market \in Market
    /\ stage = "done" => verdict \in [severity: Severities, flagged: BOOLEAN]

(* The liquid assets as the documents define them (METHODOLOGY.md 2.2):    *)
(* each recovery with the position's expected bad debt subtracted.         *)
HqlaAsDocumented ==
    stage # "lcr" =>
      LET of(part) == SumFunction([b \in DOMAIN input.open |->
                        Recovery(input.open[b], input.market, input.worst)[part]])
      IN  coverage.hqla = Liquidity(input.market) + of("recovery") - of("badDebt")

(* Failing the coverage test is the last sign to show: such a market       *)
(* expects to lose more than two fifths of its supply (alpha never exceeds *)
(* 60 %), and S1 already finds it illiquid within the day.  (A market with *)
(* less than a unit to pay out may fail the test on nothing.)              *)
ShortCoverageComesLast ==
    (stage \notin {"lcr", "tti"} /\ LcrTriggered(coverage)
        /\ coverage.outflow >= LoanUnit) =>
        tti # -1 /\ 5 * coverage.badDebt > 2 * input.market.supply

(* The coverage ratio is cautious: on a path that does not fall below its  *)
(* stress price, with an oracle that follows, what the suppliers are left  *)
(* with never is less than its liquid assets.                              *)
SuppliersKeepHqla ==
    (traj # << >> /\ input.kind = "chainlink"
        /\ MarketPriceAt(PathConfig, input.market.price, Day) >= input.worst) =>
        Last(traj).market.supply >= coverage.hqla

(* The flag and the severity, which are computed from thresholds of their  *)
(* own, agree: a market is flagged unless it is green.                     *)
FlaggedUnlessGreen ==
    stage = "done" => (verdict.flagged <=> verdict.severity # "green")
=============================================================================
