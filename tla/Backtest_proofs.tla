--------------------------- MODULE Backtest_proofs ---------------------------
(***************************************************************************)
(* Theorems about the risk evaluation, for every market, price path,       *)
(* profile, calibrated outflow and number of paths: what the coverage      *)
(* ratio counts, when it fails, and what the flag says.                    *)
(*                                                                         *)
(* The arithmetic rests on two facts.  A market whose debts are its shares *)
(* times an index splits, position by position, into what is recovered and *)
(* what is lost.  And every price the evaluation uses is one of the grid,  *)
(* so that every block of every path of the Monte Carlo is well typed.     *)
(***************************************************************************)
EXTENDS Backtest, ScenarioTheorems

Portfolio == UNION {[D -> Holdings] : D \in SUBSET Borrowers}
Snapshot == [market: Market, open: Portfolio]

SharesOf(positions) ==
    SumFunctionOnSet([b \in DOMAIN positions |-> positions[b].shares],
                     DOMAIN positions)
CollOf(positions) ==
    SumFunctionOnSet([b \in DOMAIN positions |-> positions[b].coll],
                     DOMAIN positions)

(* A snapshot whose totals are those of its positions, at some index.      *)
Sound(s) ==
    /\ s.market \in Market /\ s.market.price \in Prices /\ s.open \in Portfolio
    /\ s.market.shares = SharesOf(s.open) /\ CollOf(s.open) <= s.market.coll
    /\ \E idx \in Nat : s.market.borrow = idx * s.market.shares

(* Outflows within their limits.                                           *)
AlphaOK(alpha) == alpha \in Nat /\ 50 <= alpha /\ alpha <= 600

(* What is evaluated: a market at the initial index, without a fee, which  *)
(* lends no more than it has.                                              *)
InputInv ==
    /\ Sound([market |-> input.market, open |-> input.open])
    /\ input.market.borrow = Index * input.market.shares
    /\ input.market.borrow <= input.market.supply
    /\ input.worst \in Nat /\ AlphaOK(input.alpha)
    /\ input.drawdowns \subseteq Falls

(* What the criteria so far have found.                                    *)
CriteriaInv ==
    /\ stage \in {"lcr", "tti", "sampling", "paths", "done"}
    /\ stage # "lcr" =>
         coverage = Coverage(input.market, input.open, input.worst, input.alpha)
    /\ tti = IF stage \in {"lcr", "tti"} THEN -1
             ELSE TimeToIlliquid(input.market, input.alpha)

(* The paths of the Monte Carlo.                                           *)
PathsInv ==
    /\ shocks = << >> \/ shocks \in [1 .. Paths -> input.drawdowns]
    /\ stage = "paths" => shocks \in [1 .. Paths -> input.drawdowns]
    /\ samples \in Seq(Nat) /\ Len(samples) <= Paths
    /\ traj \in Seq(Snapshot) /\ \A i \in DOMAIN traj : Sound(traj[i])
    /\ traj # << >> => stage = "paths" /\ Len(samples) < Paths

VerdictInv ==
    stage = "done" => verdict =
        [severity |-> Composite({LcrSeverity(coverage), TtiSeverity(tti),
                                 BadDebtSeverity}),
         flagged |-> LcrTriggered(coverage) \/ TtiTriggered(tti)
                       \/ BadDebtTriggered]

-----------------------------------------------------------------------------
(* A drawdown is in thousandths, and not the whole price.                  *)
LEMMA FallsAre ==
    /\ DrawdownDen = 1000 /\ IsFiniteSet(Falls) /\ Falls \subseteq Int
    /\ \A x : x \in Falls <=> x \in Nat /\ x < 1000
<1>1. DrawdownDen = 1000
  BY BacktestAssumption
<1>2. DrawdownDen - 1 \in Int
  BY <1>1
<1>3. IsFiniteSet(Falls)
  BY <1>2, FS_Interval DEF Falls
<1>4. \A x : x \in Falls <=> x \in Nat /\ x < DrawdownDen
  BY <1>2, ScenarioAssumption DEF Falls
<1>5. \A x : x \in Falls <=> x \in Nat /\ x < 1000
  BY <1>1, <1>4
<1>6. Falls \subseteq Int
  BY <1>4
<1> QED
  BY <1>1, <1>3, <1>5, <1>6

-----------------------------------------------------------------------------
(* Sums over the positions of a portfolio.                                 *)
LEMMA PortfolioType ==
    ASSUME NEW q \in Portfolio
    PROVE  /\ DOMAIN q \subseteq Borrowers /\ IsFiniteSet(DOMAIN q)
           /\ \A b \in DOMAIN q : /\ q[b] \in Holdings
                                  /\ q[b].shares \in Nat /\ q[b].coll \in Nat
<1>1. PICK D \in SUBSET Borrowers : q \in [D -> Holdings]
  BY DEF Portfolio
<1>2. IsFiniteSet(Borrowers) /\ Holdings \subseteq [coll: Nat, shares: Nat]
  BY BacktestAssumption
<1>3. IsFiniteSet(D)
  BY <1>2, FS_Subset
<1>4. \A b \in DOMAIN q : q[b] \in Holdings
  BY <1>1
<1>5. \A h \in Holdings : h.shares \in Nat /\ h.coll \in Nat
  BY <1>2
<1> QED
  BY <1>1, <1>3, <1>4, <1>5

(* What a position recovers and what it loses make up its debt.            *)
LEMMA RecoverySplits ==
    ASSUME NEW m \in Market, NEW p, p.shares \in Nat, p.coll \in Nat,
           NEW price \in Nat
    PROVE  LET r == Recovery(p, m, price)
           IN  /\ r.recovery \in Nat /\ r.badDebt \in Nat
               /\ r.recovery + r.badDebt = BorrowAssets(p.shares, m)
<1> DEFINE debt == BorrowAssets(p.shares, m)
           x == debt * LifNum
           y == LifDen * price
           seized == IF price = 0 THEN 0 ELSE Least(x \div y, p.coll)
           proceeds == Proceeds(seized, price)
<1>1. debt \in Nat
  BY BorrowAssetsNat
<1>2. x \in Nat /\ (price # 0 => y \in Nat \ {0})
  BY <1>1, LifPositive
<1>3. Recovery(p, m, price)
        = [recovery |-> Least(proceeds, debt), badDebt |-> AtLeastZero(debt - proceeds)]
  BY DEF Recovery
<1> HIDE DEF debt, x, y
<1>4. seized \in Nat
  <2>1. price # 0 => x \div y \in Nat
    BY <1>2
  <2> QED
    BY <2>1 DEF Least
<1> HIDE DEF seized
<1>5. proceeds \in Nat
  BY <1>4, ProceedsNat
<1> HIDE DEF proceeds
<1>6. /\ Least(proceeds, debt) \in Nat /\ AtLeastZero(debt - proceeds) \in Nat
      /\ Least(proceeds, debt) + AtLeastZero(debt - proceeds) = debt
  BY <1>1, <1>5 DEF Least, AtLeastZero
<1> QED
  BY <1>3, <1>6 DEF debt

(* A position holds no more shares than its market, and owes the index for *)
(* each.                                                                   *)
LEMMA DebtOfPosition ==
    ASSUME NEW m \in Market, NEW q \in Portfolio, m.shares = SharesOf(q),
           NEW idx \in Nat, m.borrow = idx * m.shares, NEW b \in DOMAIN q
    PROVE  BorrowAssets(q[b].shares, m) = idx * q[b].shares
<1> DEFINE f == [c \in DOMAIN q |-> q[c].shares]
<1>1. IsFiniteSet(DOMAIN q) /\ \A c \in DOMAIN q : f[c] \in Nat
  BY PortfolioType
<1>2. SharesOf(q) = f[b] + SumFunctionOnSet(f, DOMAIN q \ {b})
  BY <1>1, SumRemove DEF SharesOf
<1>3. SumFunctionOnSet(f, DOMAIN q \ {b}) \in Nat
  BY <1>1, FS_RemoveElement, SumNat
<1>4. f[b] = q[b].shares /\ f[b] \in Nat
  BY <1>1
<1> HIDE DEF f
<1>5. q[b].shares \in 0 .. m.shares
  BY <1>2, <1>3, <1>4
<1> QED
  BY <1>5, DebtAtIndex

-----------------------------------------------------------------------------
(* The criteria.                                                           *)

(* What the coverage ratio is made of: liquid assets and expected losses   *)
(* make up the supply, the outflow is at most three fifths of it, and the  *)
(* denominator is at most the outflow or one unit.                         *)
LEMMA CoverageSplits ==
    ASSUME NEW m \in Market, NEW q \in Portfolio, m.shares = SharesOf(q),
           NEW idx \in Nat, m.borrow = idx * m.shares, m.borrow <= m.supply,
           NEW price \in Nat, NEW alpha, AlphaOK(alpha)
    PROVE  LET c == Coverage(m, q, price, alpha)
           IN  /\ c \in [hqla: Nat, badDebt: Nat, outflow: Nat, net: Nat \ {0}]
               /\ c.hqla + c.badDebt = m.supply /\ Liquidity(m) <= c.hqla
               /\ c.outflow = (alpha * m.supply) \div 1000
               /\ 5 * c.outflow <= 3 * m.supply
               /\ c.net <= c.outflow \/ c.net = LoanUnit
<1> DEFINE D == DOMAIN q
           rec == [b \in D |-> Recovery(q[b], m, price)["recovery"]]
           bad == [b \in D |-> Recovery(q[b], m, price)["badDebt"]]
           debts == [b \in D |-> BorrowAssets(q[b].shares, m)]
           held == [b \in D |-> q[b].shares]
           R == SumFunctionOnSet(rec, D)
           B == SumFunctionOnSet(bad, D)
           outflow == (alpha * m.supply) \div 1000
           inflow == Least(R, (3 * outflow) \div 4)
           net == Max({outflow - inflow, LoanUnit})
<1>1. IsFiniteSet(D) /\ \A b \in D : held[b] \in Nat
  BY PortfolioType
<1>2. \A b \in D : /\ rec[b] \in Nat /\ bad[b] \in Nat
                   /\ debts[b] = rec[b] + bad[b]
  <2> SUFFICES ASSUME NEW b \in D
               PROVE  /\ rec[b] \in Nat /\ bad[b] \in Nat
                      /\ debts[b] = rec[b] + bad[b]
    OBVIOUS
  <2>1. q[b].shares \in Nat /\ q[b].coll \in Nat
    BY PortfolioType
  <2>2. /\ Recovery(q[b], m, price).recovery \in Nat
        /\ Recovery(q[b], m, price).badDebt \in Nat
        /\ Recovery(q[b], m, price).recovery + Recovery(q[b], m, price).badDebt
             = BorrowAssets(q[b].shares, m)
    BY <2>1, RecoverySplits
  <2> QED
    BY <2>2
<1>3. R \in Nat /\ B \in Nat
  BY <1>1, <1>2, SumNat
<1>4. R + B = m.borrow
  <2>1. SumFunctionOnSet(debts, D) = R + B
    BY <1>1, <1>2, SumAdded
  <2>2. \A b \in D : held[b] \in Nat /\ debts[b] = idx * held[b]
    BY <1>1, DebtOfPosition
  <2>3. SumFunctionOnSet(debts, D) = idx * SumFunctionOnSet(held, D)
    BY <1>1, <2>2, SumScale
  <2>4. SumFunctionOnSet(held, D) = m.shares
    BY DEF SharesOf
  <2> QED
    BY <2>1, <2>3, <2>4
<1>5. m.supply \in Nat /\ m.borrow \in Nat
  BY DEF Market
<1> DEFINE S == m.supply
           x == alpha * S
<1>6. outflow \in Nat /\ 5 * outflow <= 3 * S
  <2>1. x \in Nat /\ x <= 600 * S
    BY <1>5 DEF AlphaOK
  <2> HIDE DEF x
  <2>2. x \div 1000 \in Nat /\ 1000 * (x \div 1000) <= x
    BY <2>1
  <2>3. outflow = x \div 1000
    BY DEF x
  <2> HIDE DEF outflow
  <2> QED
    BY <1>5, <2>1, <2>2, <2>3
<1>7. Coverage(m, q, price, alpha)
        = [hqla |-> Liquidity(m) + R, badDebt |-> B, outflow |-> outflow, net |-> net]
  BY DEF Coverage, SumFunction
<1> HIDE DEF R, B, outflow
<1>8. inflow \in Nat
  <2>1. (3 * outflow) \div 4 \in Nat
    BY <1>6
  <2> QED
    BY <1>3, <2>1 DEF Least
<1> HIDE DEF inflow
<1>9. net \in Nat \ {0} /\ (net <= outflow \/ net = LoanUnit)
  <2> DEFINE y == outflow - inflow
             T == {y, LoanUnit}
  <2>1. LoanUnit \in Nat \ {0}
    BY MetricsAssumption
  <2>2. y \in Int /\ y <= outflow
    BY <1>6, <1>8
  <2> HIDE DEF y
  <2>3. \E z \in T : \A u \in T : z >= u
    BY <2>1, <2>2
  <2>4. Max(T) \in T /\ \A u \in T : Max(T) >= u
    BY <2>3 DEF Max
  <2>5. net = Max(T)
    BY DEF y
  <2> QED
    BY <2>1, <2>2, <2>4, <2>5
<1> HIDE DEF net
<1>10. Liquidity(m) = m.supply - m.borrow
  BY <1>5 DEF Liquidity, AtLeastZero
<1>11. /\ Liquidity(m) + R \in Nat /\ Liquidity(m) + R + B = m.supply
       /\ Liquidity(m) <= Liquidity(m) + R
  BY <1>3, <1>4, <1>5, <1>10
<1> QED
  BY <1>3, <1>6, <1>7, <1>9, <1>11 DEF outflow

(* The time to illiquidity is a block of the day, or never; and never only *)
(* if all the day's requests can be paid.                                  *)
LEMMA TimeToIlliquidIs ==
    ASSUME NEW m \in Market, NEW alpha, AlphaOK(alpha)
    PROVE  /\ TimeToIlliquid(m, alpha) \in {-1} \cup 1 .. Day
           /\ (alpha * m.supply) \div 1000 > Liquidity(m)
                => TimeToIlliquid(m, alpha) # -1
<1> DEFINE x == alpha * m.supply
           total == x \div 1000
           L == Liquidity(m)
           E == {k \in 1 .. Day : (total * k) \div Day > L}
<1>1. Day \in Nat \ {0}
  BY BacktestAssumption
<1>2. TimeToIlliquid(m, alpha) = IF E = {} THEN -1 ELSE Min(E)
  BY DEF TimeToIlliquid
<1>3. E # {} => Min(E) \in E
  <2>1. IsFiniteSet(1 .. Day)
    BY <1>1, FS_Interval
  <2>2. IsFiniteSet(E) /\ E \subseteq Int
    BY <1>1, <2>1, FS_Subset
  <2> HIDE DEF E
  <2> QED
    BY <2>2, MinOfFinite
<1>4. E # {} => Min(E) \in 1 .. Day
  BY <1>3
<1>5. total > L => E # {}
  <2>1. m.supply \in Nat
    BY DEF Market
  <2>2. x \in Nat
    BY <2>1 DEF AlphaOK
  <2> HIDE DEF x
  <2>3. total \in Nat
    BY <2>2
  <2> HIDE DEF total
  <2>4. (total * Day) \div Day = total
    BY <1>1, <2>3, QuotientExact
  <2>5. total > L => Day \in E
    BY <1>1, <2>4
  <2> QED
    BY <2>5
<1> HIDE DEF E
<1>6. (IF E = {} THEN -1 ELSE Min(E)) \in {-1} \cup 1 .. Day
  BY <1>4
<1>7. total > L => (IF E = {} THEN -1 ELSE Min(E)) # -1
  BY <1>1, <1>4, <1>5
<1> QED
  BY <1>2, <1>6, <1>7 DEF total, x, L

-----------------------------------------------------------------------------
(* A block of a path.                                                      *)

(* The market of a block, the positions it closes and what it leaves.      *)
Begun(last, growth, price) ==
    [Accrue(last.market, growth * last.market.shares) EXCEPT !.price = price]
Closed(m, open) == {b \in DOMAIN open : Liquidatable(open[b], m)}
LostIn(m, open, price, part) ==
    SumFunction([b \in Closed(m, open) |-> Outcome(open[b], m, price)[part]])
BlockEnd(m, open, price) ==
    [market |-> [m EXCEPT
        !.borrow  = @ - LostIn(m, open, price, "repaid"),
        !.shares  = @ - SumFunction([b \in Closed(m, open) |-> open[b].shares]),
        !.coll    = @ - LostIn(m, open, price, "seized"),
        !.supply  = AtLeastZero(@ - LostIn(m, open, price, "badDebt")),
        !.badDebt = @ + LostIn(m, open, price, "badDebt")],
     open |-> Restrict(open, DOMAIN open \ Closed(m, open))]

(* The instance of BlockwiseS3 computes with the same operators.           *)
LEMMA SameSum ==
    ASSUME NEW f PROVE Path!SumFunction(f) = SumFunction(f)
  BY DEF Path!SumFunction, SumFunction, Path!SumFunctionOnSet, SumFunctionOnSet,
         Path!FoldFunctionOnSet, FoldFunctionOnSet,
         Path!MapThenFoldSet, MapThenFoldSet

(* The instance's oracle reading is the same operator.                     *)
LEMMA SameTwap ==
    ASSUME NEW o PROVE Path!ReadTwap(o) = ReadTwap(o)
<1>1. \A i : Path!Weight(o, i) = Weight(o, i)
  BY DEF Path!Weight, Weight, Path!Max, Max
<1>2. Path!TotalWeight(o) = TotalWeight(o)
  BY <1>1, SameSum DEF Path!TotalWeight, TotalWeight
<1>3. Path!TickSum(o) = TickSum(o)
  BY <1>1, SameSum DEF Path!TickSum, TickSum
<1> QED
  BY <1>2, <1>3
  DEF Path!ReadTwap, ReadTwap, Path!TickToPrice, TickToPrice,
      Path!Prices, Prices, Path!Max, Max

(* So is its liquidation.                                                  *)
LEMMA SameOutcome ==
    ASSUME NEW p, NEW m, NEW x
    PROVE  /\ Path!Liquidatable(p, m) = Liquidatable(p, m)
           /\ Path!Outcome(p, m, x) = Outcome(p, m, x)
<1>1. Path!BorrowAssets(p.shares, m) = BorrowAssets(p.shares, m)
  BY DEF Path!BorrowAssets, BorrowAssets
<1>2. \A v : Path!Proceeds(v, x) = Proceeds(v, x)
  BY DEF Path!Proceeds, Proceeds, Path!Slippage, Slippage, Path!Least, Least
<1>3. Path!LifNum = LifNum /\ Path!LifDen = LifDen
  BY DEF Path!LifNum, LifNum, Path!LifDen, LifDen, Path!LifCapped, LifCapped
<1> QED
  BY <1>1, <1>2, <1>3
  DEF Path!Liquidatable, Liquidatable, Path!Outcome, Outcome,
      Path!Least, Least, Path!AtLeastZero, AtLeastZero

(* So are its path and its choice of oracle.                               *)
LEMMA SameScenario ==
    ASSUME NEW c, NEW p0
    PROVE  /\ Path!OracleWindow(c) = OracleWindow(c)
           /\ \A k : Path!MarketPriceAt(c, p0, k) = MarketPriceAt(c, p0, k)
  BY DEF Path!OracleWindow, OracleWindow, Path!MarketPriceAt, MarketPriceAt,
         Path!Progress, Progress, Path!Min, Min

(* A block of the path, in those terms.                                    *)
LEMMA AfterBlockIs ==
    ASSUME NEW c, NEW p0, NEW k, NEW last, NEW growth
    PROVE  LET m == Begun(last, growth, Path!OraclePriceAt(c, p0, k))
           IN  Path!AfterBlock(c, p0, k, last, growth)
                 = BlockEnd(m, last.open, MarketPriceAt(c, p0, k))
<1> DEFINE m == Begun(last, growth, Path!OraclePriceAt(c, p0, k))
           price == MarketPriceAt(c, p0, k)
           open == last.open
           all == Closed(m, open)
           outcome == [b \in all |-> Outcome(open[b], m, price)]
           held == [b \in all |-> open[b].shares]
<1>1. Path!Accrue(last.market, growth * last.market.shares)
        = Accrue(last.market, growth * last.market.shares)
  BY DEF Path!Accrue, Accrue, Path!SupplierPart, SupplierPart
<1>2. [Path!Accrue(last.market, growth * last.market.shares)
         EXCEPT !.price = Path!OraclePriceAt(c, p0, k)] = m
  BY <1>1 DEF Begun
<1>3. Path!MarketPriceAt(c, p0, k) = price
  BY SameScenario
<1> HIDE DEF m, price
<1>4. {b \in DOMAIN open : Path!Liquidatable(open[b], m)} = all
  BY SameOutcome DEF Closed
<1>5. [b \in all |-> Path!Outcome(open[b], m, price)] = outcome
  BY SameOutcome
<1>6. \A part : Path!Total(outcome, part) = LostIn(m, open, price, part)
  <2> SUFFICES ASSUME NEW part
               PROVE  Path!Total(outcome, part) = LostIn(m, open, price, part)
    OBVIOUS
  <2> DEFINE f == [b \in DOMAIN outcome |-> outcome[b][part]]
  <2>1. f = [b \in all |-> Outcome(open[b], m, price)[part]]
    OBVIOUS
  <2>2. Path!Total(outcome, part) = Path!SumFunction(f)
    BY DEF Path!Total
  <2> HIDE DEF f
  <2>3. Path!SumFunction(f) = SumFunction(f)
    BY SameSum
  <2> QED
    BY <2>1, <2>2, <2>3 DEF LostIn
<1>7. Path!SumFunction(held) = SumFunction(held)
  BY SameSum
<1>8. \A T : Path!Restrict(open, T) = Restrict(open, T)
  BY DEF Path!Restrict, Restrict
<1> DEFINE end(mm, out, hh, elig) ==
             [market |-> [mm EXCEPT
                 !.borrow  = @ - Path!Total(out, "repaid"),
                 !.shares  = @ - Path!SumFunction(hh),
                 !.coll    = @ - Path!Total(out, "seized"),
                 !.supply  = Path!AtLeastZero(@ - Path!Total(out, "badDebt")),
                 !.badDebt = @ + Path!Total(out, "badDebt")],
              open |-> Path!Restrict(open, DOMAIN open \ elig)]
<1>9. Path!AfterBlock(c, p0, k, last, growth) = end(m, outcome, held, all)
  BY <1>2, <1>3, <1>4, <1>5, ZenonT(60) DEF Path!AfterBlock
<1>10. end(m, outcome, held, all) = BlockEnd(m, open, price)
  <2>1. \A x : Path!AtLeastZero(x) = AtLeastZero(x)
    BY DEF Path!AtLeastZero, AtLeastZero
  <2>2. SumFunction(held) = SumFunction([b \in Closed(m, open) |-> open[b].shares])
    OBVIOUS
  <2> DEFINE r == LostIn(m, open, price, "repaid")
             z == LostIn(m, open, price, "seized")
             d == LostIn(m, open, price, "badDebt")
             h == SumFunction([b \in Closed(m, open) |-> open[b].shares])
  <2>3. /\ Path!Total(outcome, "repaid") = r /\ Path!Total(outcome, "seized") = z
        /\ Path!Total(outcome, "badDebt") = d /\ Path!SumFunction(held) = h
    BY <1>6, <1>7, <2>2
  <2> HIDE DEF outcome, held, all, r, z, d, h
  <2>4. end(m, outcome, held, all)
          = [market |-> [m EXCEPT !.borrow = @ - r, !.shares = @ - h,
                                  !.coll = @ - z, !.supply = AtLeastZero(@ - d),
                                  !.badDebt = @ + d],
             open |-> Restrict(open, DOMAIN open \ all)]
    BY <1>8, <2>1, <2>3
  <2> QED
    BY <2>4 DEF BlockEnd, all, r, z, d, h
<1> QED
  BY <1>9, <1>10 DEF m, price

(* Interest changes neither the shares nor the collateral, and leaves the  *)
(* debt a multiple of the shares.                                          *)
LEMMA BegunIs ==
    ASSUME NEW s, Sound(s), NEW growth \in Nat, NEW p \in Prices
    PROVE  LET m == Begun(s, growth, p)
           IN  /\ m \in Market /\ m.price = p /\ p \in Nat \ {0}
               /\ m.shares = s.market.shares /\ m.coll = s.market.coll
               /\ \E j \in Nat : m.borrow = j * m.shares
<1> DEFINE m0 == s.market
           n == m0.shares
           i == growth * n
           a == Accrue(m0, i)
           m == Begun(s, growth, p)
<1>1. m0 \in Market /\ n \in Nat
  <2>1. m0 \in Market
    BY DEF Sound
  <2> HIDE DEF m0
  <2> QED
    BY <2>1 DEF Market
<1>2. PICK idx \in Nat : m0.borrow = idx * n
  BY DEF Sound
<1>3. i \in Nat
  BY <1>1
<1> HIDE DEF i
<1>4. /\ a \in Market /\ a.shares = n /\ a.coll = m0.coll
      /\ a = m0 \/ a.borrow = m0.borrow + i
  <2> HIDE DEF m0
  <2>1. /\ a \in Market /\ a.shares = m0.shares /\ a.coll = m0.coll
        /\ (a = m0 \/ a.borrow = m0.borrow + i)
    BY <1>1, <1>3, AccrueEffect
  <2> QED
    BY <2>1
<1>5. \E j \in Nat : a.borrow = j * n
  <2>1. CASE a = m0
    BY <1>2, <2>1
  <2>2. CASE a.borrow = m0.borrow + i
    <3>1. idx + growth \in Nat /\ (idx + growth) * n = idx * n + growth * n
      BY <1>1
    <3> QED
      BY <1>2, <2>2, <3>1 DEF i
  <2> QED
    BY <1>4, <2>1, <2>2
<1>6. p \in Nat \ {0}
  BY PricesInterval
<1>7. m = [a EXCEPT !.price = p]
  BY DEF Begun, i
<1> HIDE DEF a, m0, m
<1>8. /\ m \in Market /\ m.price = p /\ m.shares = a.shares
      /\ m.coll = a.coll /\ m.borrow = a.borrow
  BY <1>4, <1>6, <1>7 DEF Market
<1> QED
  BY <1>4, <1>5, <1>6, <1>8 DEF m, m0

(* Whatever a block liquidates, the totals it leaves are those of the      *)
(* positions it leaves.                                                    *)
LEMMA BlockKeepsSound ==
    ASSUME NEW s, Sound(s), NEW growth \in Nat, NEW p \in Prices,
           NEW price \in Nat
    PROVE  Sound(BlockEnd(Begun(s, growth, p), s.open, price))
<1> DEFINE m == Begun(s, growth, p)
           q == s.open
           D == DOMAIN q
           E == Closed(m, q)
           left == Restrict(q, D \ E)
           held == [b \in D |-> q[b].shares]
           pledged == [b \in D |-> q[b].coll]
           repaid == [b \in E |-> Outcome(q[b], m, price)["repaid"]]
           seized == [b \in E |-> Outcome(q[b], m, price)["seized"]]
           lost == [b \in E |-> Outcome(q[b], m, price)["badDebt"]]
           r == SumFunctionOnSet(repaid, E)
           z == SumFunctionOnSet(seized, E)
           d == SumFunctionOnSet(lost, E)
           h == SumFunctionOnSet(held, E)
           hl == SumFunctionOnSet(held, D \ E)
           k == SumFunctionOnSet(pledged, E)
           kl == SumFunctionOnSet(pledged, D \ E)
<1>1. /\ m \in Market /\ m.price = p /\ p \in Nat \ {0}
      /\ m.shares = s.market.shares /\ m.coll = s.market.coll
  BY BegunIs
<1>2. PICK j \in Nat : m.borrow = j * m.shares
  BY BegunIs
<1>3. q \in Portfolio /\ m.shares = SharesOf(q) /\ CollOf(q) <= m.coll
  BY <1>1 DEF Sound
<1> HIDE DEF m, q
<1>4. IsFiniteSet(D) /\ E \in SUBSET D /\ IsFiniteSet(E)
  <2>1. IsFiniteSet(D)
    BY <1>3, PortfolioType
  <2>2. E \in SUBSET D
    BY DEF Closed
  <2> QED
    BY <2>1, <2>2, FS_Subset
<1> HIDE DEF E
<1>5. \A b \in D : held[b] \in Nat /\ pledged[b] \in Nat
  BY <1>3, PortfolioType
<1>6. /\ h \in Nat /\ hl \in Nat /\ SharesOf(q) = h + hl
      /\ k \in Nat /\ kl \in Nat /\ CollOf(q) = k + kl
  <2>1. /\ h \in Nat /\ hl \in Nat /\ SumFunctionOnSet(held, D) = h + hl
    BY <1>4, <1>5, SumSplit
  <2>2. /\ k \in Nat /\ kl \in Nat /\ SumFunctionOnSet(pledged, D) = k + kl
    BY <1>4, <1>5, SumSplit
  <2> QED
    BY <2>1, <2>2 DEF SharesOf, CollOf
<1>7. \A b \in E : /\ repaid[b] = j * held[b] /\ lost[b] \in Nat
                   /\ seized[b] \in Nat /\ pledged[b] >= 1 * seized[b]
  <2> SUFFICES ASSUME NEW b \in E
               PROVE  /\ repaid[b] = j * held[b] /\ lost[b] \in Nat
                      /\ seized[b] \in Nat /\ pledged[b] >= 1 * seized[b]
    OBVIOUS
  <2>1. b \in D /\ q[b].shares \in Nat /\ q[b].coll \in Nat
    BY <1>3, <1>4, PortfolioType
  <2> DEFINE o == Outcome(q[b], m, price)
  <2>2. /\ o.repaid = BorrowAssets(q[b].shares, m) /\ o.repaid \in Nat
        /\ o.seized \in 0 .. q[b].coll /\ o.badDebt \in 0 .. o.repaid
    BY <1>1, <2>1, OutcomeBounds
  <2>3. BorrowAssets(q[b].shares, m) = j * q[b].shares
    BY <1>1, <1>2, <1>3, <2>1, DebtOfPosition
  <2>4. repaid[b] = o.repaid /\ seized[b] = o.seized /\ lost[b] = o.badDebt
        /\ held[b] = q[b].shares /\ pledged[b] = q[b].coll
    BY <2>1
  <2> HIDE DEF o, repaid, seized, lost, held, pledged
  <2> QED
    BY <2>1, <2>2, <2>3, <2>4
<1>8. r = j * h
  <2>1. \A b \in E : held[b] \in Nat /\ repaid[b] = j * held[b]
    BY <1>4, <1>5, <1>7
  <2> HIDE DEF held, repaid
  <2> QED
    BY <1>4, <2>1, SumScale
<1>9. z \in Nat /\ d \in Nat
  BY <1>4, <1>7, SumNat
<1>10. z <= k
  <2>1. \A b \in E : pledged[b] \in Nat /\ seized[b] \in Nat
                     /\ pledged[b] >= 1 * seized[b]
    BY <1>4, <1>5, <1>7
  <2>2. k >= 1 * z
    BY <1>4, <2>1, SumAtLeast
  <2> HIDE DEF k, z
  <2> QED
    BY <1>6, <1>9, <2>2
<1>11. /\ LostIn(m, q, price, "repaid") = r /\ LostIn(m, q, price, "seized") = z
       /\ LostIn(m, q, price, "badDebt") = d
  BY DEF LostIn, SumFunction, E
<1>12. SumFunction([b \in E |-> q[b].shares]) = h
  <2> DEFINE f == [b \in E |-> q[b].shares]
  <2>1. SumFunction(f) = SumFunctionOnSet(f, E)
    BY DEF SumFunction
  <2>2. \A b \in E : f[b] = held[b]
    BY <1>4
  <2> HIDE DEF f, held
  <2>3. SumFunctionOnSet(f, E) = SumFunctionOnSet(held, E)
    BY <1>4, <2>2, SumAgree
  <2> QED
    BY <2>1, <2>3 DEF f
<1> DEFINE n == [m EXCEPT !.borrow = @ - r, !.shares = @ - h, !.coll = @ - z,
                          !.supply = AtLeastZero(@ - d), !.badDebt = @ + d]
<1>13. BlockEnd(m, q, price) = [market |-> n, open |-> left]
  BY <1>11, <1>12 DEF BlockEnd, E
<1>14. /\ left \in Portfolio /\ DOMAIN left = D \ E
       /\ \A b \in D \ E : left[b] = q[b]
  <2>1. DOMAIN left = D \ E /\ \A b \in D \ E : left[b] = q[b]
    BY DEF Restrict
  <2>2. left = [b \in D \ E |-> q[b]]
    BY DEF Restrict
  <2>3. \A b \in D : q[b] \in Holdings
    BY <1>3, PortfolioType
  <2>4. D \subseteq Borrowers
    BY <1>3, PortfolioType
  <2>5. left \in [D \ E -> Holdings] /\ D \ E \in SUBSET Borrowers
    BY <2>2, <2>3, <2>4
  <2> QED
    BY <2>1, <2>5 DEF Portfolio
<1> HIDE DEF left, D
<1>15. SharesOf(left) = hl /\ CollOf(left) = kl
  <2> DEFINE f == [b \in DOMAIN left |-> left[b].shares]
             g == [b \in DOMAIN left |-> left[b].coll]
  <2>1. \A b \in D \ E : f[b] = held[b] /\ g[b] = pledged[b]
    BY <1>14
  <2>2. IsFiniteSet(D \ E)
    BY <1>4, FS_Subset
  <2>3. SumFunctionOnSet(f, D \ E) = hl /\ SumFunctionOnSet(g, D \ E) = kl
    <3> HIDE DEF f, g, held, pledged
    <3> QED
      BY <2>1, <2>2, SumAgree
  <2> QED
    BY <1>14, <2>3 DEF SharesOf, CollOf
<1>16. /\ m.supply \in Nat /\ m.borrow \in Nat /\ m.shares \in Nat
       /\ m.coll \in Nat /\ m.badDebt \in Nat
  BY <1>1 DEF Market
<1> HIDE DEF r, z, d, h, hl, k, kl
<1>17. /\ m.shares = h + hl /\ m.borrow - r = j * hl /\ j * hl \in Nat
       /\ m.coll - z >= kl
  <2>1. j * (h + hl) = j * h + j * hl /\ j * h \in Nat /\ j * hl \in Nat
    BY <1>6
  <2>2. m.shares = h + hl
    BY <1>3, <1>6
  <2>3. m.coll - z >= kl
    BY <1>3, <1>6, <1>9, <1>10, <1>16
  <2> QED
    BY <1>2, <1>8, <2>1, <2>2, <2>3
<1>18. /\ m.borrow - r \in Nat /\ m.shares - h = hl /\ m.coll - z \in Nat
       /\ AtLeastZero(m.supply - d) \in Nat /\ m.badDebt + d \in Nat
  BY <1>6, <1>9, <1>16, <1>17 DEF AtLeastZero
<1>19. /\ n \in Market /\ n.price = m.price /\ n.shares = hl
       /\ n.borrow = m.borrow - r /\ n.coll = m.coll - z
  BY <1>1, <1>6, <1>18 DEF Market
<1> HIDE DEF n
<1>20. /\ n \in Market /\ n.price \in Prices /\ left \in Portfolio
       /\ n.shares = SharesOf(left) /\ CollOf(left) <= n.coll
       /\ \E idx \in Nat : n.borrow = idx * n.shares
  BY <1>1, <1>14, <1>15, <1>17, <1>19
<1> QED
  BY <1>13, <1>20 DEF Sound, m, q

(* The market and the oracle of a path stay on the grid of prices.         *)
LEMMA PathOnGrid ==
    ASSUME NEW c, c.shape = "instant", c.dt \in Nat \ {0},
           c.drawdown \in Falls, c.lag \in Nat,
           NEW p0 \in Prices, NEW k \in Nat
    PROVE  /\ MarketPriceAt(c, p0, k) \in Prices
           /\ Path!OraclePriceAt(c, p0, k) \in Prices
<1>1. \A n \in Nat : MarketPriceAt(c, p0, n) \in Prices
  <2> SUFFICES ASSUME NEW n \in Nat PROVE MarketPriceAt(c, p0, n) \in Prices
    OBVIOUS
  <2> DEFINE g == Progress(c, n)
             d == c.drawdown
  <2>1. g \in 0 .. c.dt
    BY DEF Progress
  <2>2. DrawdownDen = 1000 /\ Prices = 1 .. Cardinality(Prices)
        /\ Cardinality(Prices) \in Nat /\ p0 \in Nat \ {0}
    BY BacktestAssumption, TickAssumption, FS_CardinalityType, PricesInterval
  <2>3. d \in Nat /\ d < DrawdownDen
    BY <2>2, FallsAre
  <2> HIDE DEF g, d
  <2> DEFINE t == c.dt
  <2>4. DrawdownDen \in Nat \ {0} /\ p0 \in Nat \ {0} /\ t \in Nat \ {0} /\ g \in 0 .. t
    BY <2>1, <2>2
  <2> HIDE DEF t
  <2>5. p0 - (p0 * d * g) \div (DrawdownDen * t) \in 1 .. p0
    BY <2>3, <2>4, FallLeavesPrice
  <2>6. MarketPriceAt(c, p0, n) \in 1 .. p0
    BY <2>5 DEF MarketPriceAt, g, d, t
  <2> HIDE DEF Prices
  <2> QED
    BY <2>2, <2>6
<1> DEFINE w == OracleWindow(c)
           S == {0, k + 1 - w}
           first == Max(S)
           O(j) == Observed(j, MarketPriceAt(c, p0, j))
           seen == [i \in 1 .. k - first + 1 |-> O(first + i - 1)]
<1>2. w \in Nat \ {0}
  BY ScenarioAssumption DEF OracleWindow
<1>3. first \in 0 .. k
  <2> HIDE DEF w
  <2>1. \E y \in S : \A u \in S : y >= u
    BY <1>2
  <2>2. Max(S) \in S /\ \A u \in S : Max(S) >= u
    BY <2>1 DEF Max
  <2> QED
    BY <1>2, <2>2
<1>4. \A j \in Nat : O(j) \in Observation /\ O(j).tick >= PriceTick[1]
  <2> SUFFICES ASSUME NEW j \in Nat
               PROVE  O(j) \in Observation /\ O(j).tick >= PriceTick[1]
    OBVIOUS
  <2> DEFINE p == MarketPriceAt(c, p0, j)
  <2>1. p \in Prices
    BY <1>1
  <2> HIDE DEF p
  <2>2. PriceTick[p] \in Nat /\ 1 \in Prices /\ p \in Nat \ {0}
    BY <2>1, PricesInterval
  <2>3. PriceTick[p] >= PriceTick[1]
    <3>1. CASE p = 1
      BY <2>2, <3>1
    <3>2. CASE 1 < p
      <4>1. PriceTick[1] < PriceTick[p]
        BY <2>1, <2>2, <3>2, TickAssumption
      <4> QED
        BY <2>2, <4>1, PricesInterval
    <3> QED
      BY <2>2, <3>1, <3>2
  <2>4. O(j) = [block |-> j, tick |-> PriceTick[p]]
    BY DEF Observed, p
  <2> QED
    BY <2>2, <2>3, <2>4 DEF Observation
<1>5. Path!OraclePriceAt(c, p0, k) = ReadTwap(seen)
  <2>1. Path!Max({0, k + 1 - Path!OracleWindow(c)}) = first
    BY SameScenario DEF Path!Max, Max
  <2>2. \A j : Path!Observed(j, Path!MarketPriceAt(c, p0, j)) = O(j)
    BY SameScenario DEF Path!Observed, Observed
  <2> HIDE DEF first, O
  <2>3. Path!OraclePriceAt(c, p0, k)
          = Path!ReadTwap([i \in 1 .. k - first + 1 |->
              Path!Observed(first + i - 1, Path!MarketPriceAt(c, p0, first + i - 1))])
    BY <2>1 DEF Path!OraclePriceAt
  <2>4. [i \in 1 .. k - first + 1 |->
           Path!Observed(first + i - 1, Path!MarketPriceAt(c, p0, first + i - 1))]
          = seen
    BY <2>2
  <2> HIDE DEF seen
  <2> QED
    BY <2>3, <2>4, SameTwap
<1> HIDE DEF first, O
<1>6. seen \in Seq(Observation) /\ \A i \in DOMAIN seen : seen[i].tick >= PriceTick[1]
  <2>1. k - first + 1 \in Nat
    BY <1>3
  <2>2. \A i \in 1 .. k - first + 1 : first + i - 1 \in Nat
    BY <1>3
  <2>3. \A i \in 1 .. k - first + 1 : /\ O(first + i - 1) \in Observation
                                      /\ O(first + i - 1).tick >= PriceTick[1]
    BY <1>4, <2>2
  <2> QED
    BY <2>1, <2>3
<1> HIDE DEF seen
<1>7. ReadTwap(seen) \in Prices
  BY <1>6, PricesInterval, TwapReads
<1> QED
  BY <1>1, <1>5, <1>7

-----------------------------------------------------------------------------
(* What the evaluation is made from.                                       *)

(* A fall from a price to the lowest of its day is less than all of it.    *)
LEMMA DrawdownsBounded ==
    ASSUME NEW path \in Seq(Prices)
    PROVE  /\ WindowDrawdowns(path) \in Seq(Falls)
           /\ Len(path) > Window => WindowDrawdowns(path) # << >>
<1> DEFINE n == AtLeastZero(Len(path) - Window)
           Day0(i) == {path[j] : j \in i .. i + Window - 1}
           fall(i) == ((path[i] - Min(Day0(i))) * 1000) \div path[i]
<1>1. Window \in Nat \ {0}
  BY MetricsAssumption
<1>2. Len(path) \in Nat
  OBVIOUS
<1>3. n \in Nat /\ n <= Len(path) /\ (Len(path) > Window => n > 0)
      /\ \A i \in 1 .. n : i + Window <= Len(path)
  BY <1>1, <1>2 DEF AtLeastZero
<1>4. \A i \in 1 .. n : fall(i) \in Falls
  <2> SUFFICES ASSUME NEW i \in 1 .. n PROVE fall(i) \in Falls
    OBVIOUS
  <2>1. /\ i .. i + Window - 1 \subseteq 1 .. Len(path)
        /\ i \in i .. i + Window - 1 /\ i \in 1 .. Len(path)
    BY <1>1, <1>2, <1>3
  <2>2. \A j \in 1 .. Len(path) : path[j] \in Prices
    OBVIOUS
  <2>3. Prices \subseteq Nat \ {0} /\ IsFiniteSet(Prices)
    BY PricesInterval
  <2> HIDE DEF Prices
  <2>4. path[i] \in Day0(i) /\ Day0(i) \subseteq Prices
    BY <2>1, <2>2
  <2> DEFINE v == path[i]
             low == Min(Day0(i))
             y == (v - low) * 1000
  <2>5. v \in Nat \ {0} /\ low \in Nat \ {0} /\ low <= v
    <3> DEFINE Z == Day0(i)
    <3> HIDE DEF Day0
    <3>0. Z \subseteq Prices /\ path[i] \in Z
      BY <2>4
    <3> HIDE DEF Z
    <3>1. IsFiniteSet(Z) /\ Z # {} /\ Z \subseteq Int
      <4>1. Z \in SUBSET Prices
        BY <3>0
      <4>2. IsFiniteSet(Z)
        BY <2>3, <4>1, FS_Subset
      <4> QED
        BY <2>3, <3>0, <4>2
    <3>2. Min(Z) \in Z /\ \A z \in Z : Min(Z) <= z
      BY <3>1, MinOfFinite
    <3>3. low = Min(Z)
      BY DEF Z
    <3> QED
      BY <2>3, <3>0, <3>2, <3>3
  <2>6. fall(i) = y \div v
    OBVIOUS
  <2> HIDE DEF v, low, fall
  <2>7. y \in Nat /\ y < 1000 * v
    BY <2>5
  <2> HIDE DEF y
  <2>8. y \div v \in Nat /\ v * (y \div v) <= y
    BY <2>5, <2>7
  <2> DEFINE f == y \div v
  <2>9. f < 1000
    <3>1. f \in Nat /\ v * f <= y
      BY <2>8
    <3> HIDE DEF f
    <3> SUFFICES ASSUME f >= 1000 PROVE FALSE
      BY <3>1
    <3>2. v * f >= v * 1000 /\ v * f \in Nat
      BY <2>5, <3>1
    <3> QED
      BY <2>5, <2>7, <3>1, <3>2
  <2> QED
    BY <2>6, <2>8, <2>9, FallsAre
<1>5. WindowDrawdowns(path) = [i \in 1 .. n |-> fall(i)]
  BY DEF WindowDrawdowns
<1> HIDE DEF n, fall
<1>6. /\ [i \in 1 .. n |-> fall(i)] \in Seq(Falls)
      /\ Len([i \in 1 .. n |-> fall(i)]) = n
  BY <1>3, <1>4
<1>7. n > 0 => [i \in 1 .. n |-> fall(i)] # << >>
  BY <1>3, <1>6
<1> QED
  BY <1>3, <1>5, <1>6, <1>7

(* Every rank of a sequence has a value of the sequence.                   *)
LEMMA AtRankIs ==
    ASSUME NEW s \in Seq(Falls), NEW rank \in 1 .. Len(s)
    PROVE  AtRank(s, rank) \in Falls
<1> DEFINE T == ToSet(s)
           n == Len(s)
           upTo(v) == {i \in DOMAIN s : s[i] <= v}
           R == {v \in T : Cardinality(upTo(v)) >= rank}
<1>1. n \in Nat /\ DOMAIN s = 1 .. n /\ \A i \in 1 .. n : s[i] \in Falls
  OBVIOUS
<1>2. T \subseteq Falls /\ \A i \in 1 .. n : s[i] \in T
  BY <1>1 DEF ToSet
<1>3. IsFiniteSet(T) /\ T \subseteq Int /\ T # {}
  <2>1. IsFiniteSet(Falls)
    BY FallsAre
  <2>2. 1 \in 1 .. n
    BY <1>1
  <2>3. T \in SUBSET Falls /\ T # {}
    BY <1>2, <2>2
  <2> HIDE DEF T
  <2>4. IsFiniteSet(T)
    BY <2>1, <2>3, FS_Subset
  <2> QED
    BY <2>3, <2>4, FallsAre
<1> HIDE DEF T
<1>4. Max(T) \in T /\ \A y \in T : Max(T) >= y
  BY <1>3, MaxOfFinite
<1>5. Max(T) \in R
  <2>1. upTo(Max(T)) = 1 .. n
    <3>1. \A i \in 1 .. n : s[i] <= Max(T)
      BY <1>1, <1>2, <1>4
    <3> QED
      BY <1>1, <3>1
  <2>2. Cardinality(1 .. n) = n
    <3> HIDE DEF n
    <3>1. n \in Int /\ 1 \in Int /\ n \in Nat
      BY <1>1
    <3>2. Cardinality(1 .. n) = IF 1 > n THEN 0 ELSE n - 1 + 1
      BY <3>1, FS_Interval
    <3> QED
      BY <3>1, <3>2
  <2> HIDE DEF upTo
  <2> QED
    BY <1>1, <1>4, <2>1, <2>2
<1>6. IsFiniteSet(R) /\ R # {} /\ R \subseteq Int /\ R \subseteq T
  BY <1>3, <1>5, FS_Subset
<1>7. AtRank(s, rank) = Min(R)
  BY DEF AtRank, T
<1> HIDE DEF R
<1>8. Min(R) \in R
  BY <1>6, MinOfFinite
<1> QED
  BY <1>2, <1>6, <1>7, <1>8

(* The calibrated outflow is within its floor and its cap.                 *)
LEMMA OutflowAlphaBounded ==
    ASSUME NEW path \in Seq(Prices) PROVE AlphaOK(OutflowAlpha(path))
<1>1. CASE Len(path) <= Window
  BY <1>1 DEF OutflowAlpha, AlphaOK
<1>2. CASE ~(Len(path) <= Window)
  <2> DEFINE s == WindowDrawdowns(path)
             n == Len(s)
             p99 == Quantile99(s)
             x == (3 * p99) \div 2 + IF p99 > 50 THEN 300 ELSE 0
             T == {50, Least(600, x)}
  <2>1. Len(path) > Window
    BY <1>2, MetricsAssumption
  <2>2. s \in Seq(Falls) /\ s # << >>
    BY <2>1, DrawdownsBounded
  <2>3. OutflowAlpha(path) = Max(T)
    BY <1>2 DEF OutflowAlpha
  <2> HIDE DEF s
  <2>4. n \in Nat \ {0}
    BY <2>2
  <2>5. p99 \in Int
    <3> DEFINE rank == 99 * (n - 1)
               at == 1 + rank \div 100
               next == Least(at + 1, n)
               below == AtRank(s, at)
               above == AtRank(s, next)
    <3>1. rank \in Nat /\ rank \div 100 \in 0 .. n - 1 /\ rank % 100 \in Nat
      BY <2>4
    <3>2. p99 = below + ((above - below) * (rank % 100)) \div 100
      BY DEF Quantile99
    <3>3. at \in 1 .. n /\ next \in 1 .. n
      <4> HIDE DEF rank
      <4> QED
        BY <2>4, <3>1 DEF Least
    <3>4. below \in Int /\ above \in Int
      <4>1. below \in Falls
        BY <2>2, <3>3, AtRankIs
      <4>2. above \in Falls
        <5> HIDE DEF next
        <5> QED
          BY <2>2, <3>3, AtRankIs
      <4> QED
        BY <4>1, <4>2, FallsAre
    <3> DEFINE e == (above - below) * (rank % 100)
    <3>5. e \in Int
      <4> HIDE DEF above, below, rank
      <4> QED
        BY <3>1, <3>4
    <3> HIDE DEF e
    <3>6. e \div 100 \in Int
      BY <3>5
    <3>7. p99 = below + e \div 100
      BY <3>2 DEF e
    <3> HIDE DEF p99, below
    <3> QED
      BY <3>4, <3>6, <3>7
  <2> HIDE DEF p99
  <2>6. x \in Int
    BY <2>5
  <2> HIDE DEF x
  <2>7. Least(600, x) \in Int /\ Least(600, x) <= 600
    BY <2>6 DEF Least
  <2>8. \E y \in T : \A z \in T : y >= z
    BY <2>7
  <2>9. Max(T) \in T /\ \A z \in T : Max(T) >= z
    BY <2>8 DEF Max
  <2> QED
    BY <2>3, <2>7, <2>9 DEF AlphaOK
<1> QED
  BY <1>1, <1>2

(* The markets of the fixtures and the profiles.                           *)
LEMMA MarketOfSound ==
    ASSUME NEW q \in [Borrowers -> Holdings], NEW r \in Reserves,
           NEW p \in InitialPrices
    PROVE  LET m == MarketOf(q, r, p)
           IN  /\ Sound([market |-> m, open |-> q])
               /\ m.borrow = Index * m.shares /\ m.borrow <= m.supply
               /\ m.price = p /\ p \in Prices
<1> DEFINE held == [b \in DOMAIN q |-> q[b].shares]
           pledged == [b \in DOMAIN q |-> q[b].coll]
           n == SumFunction(held)
           k == SumFunction(pledged)
           m == MarketOf(q, r, p)
<1>1. q \in Portfolio
  BY DEF Portfolio
<1>2. /\ IsFiniteSet(DOMAIN q)
      /\ \A b \in DOMAIN q : held[b] \in Nat /\ pledged[b] \in Nat
  BY <1>1, PortfolioType
<1>3. n = SharesOf(q) /\ k = CollOf(q)
  BY DEF SharesOf, CollOf, SumFunction
<1>4. n \in Nat /\ k \in Nat
  <2>1. SharesOf(q) \in Nat
    BY <1>2, SumNat DEF SharesOf
  <2>2. CollOf(q) \in Nat
    BY <1>2, SumNat DEF CollOf
  <2> QED
    BY <1>3, <2>1, <2>2
<1>5. m = [supply |-> Index * n + r, borrow |-> Index * n, shares |-> n,
           price |-> p, queued |-> 0, badDebt |-> 0, fee |-> 0, coll |-> k]
  BY DEF MarketOf
<1>6. /\ Index \in Nat /\ r \in Nat /\ p \in Prices /\ p \in Nat
      /\ FeeDen \in Nat
  <2>1. Index \in Nat /\ r \in Nat
    BY BacktestAssumption
  <2>2. FeeDen \in Nat
    BY AccountingAssumption
  <2>3. p \in Prices /\ p \in Nat
    <3>1. Prices \subseteq Nat
      BY PricesInterval
    <3>2. p \in Prices
      BY BacktestAssumption
    <3> QED
      BY <3>1, <3>2
  <2> QED
    BY <2>1, <2>2, <2>3
<1>7. Index * n \in Nat
  BY <1>4, <1>6
<1> HIDE DEF n, k, m
<1>8. m \in Market
  BY <1>4, <1>5, <1>6, <1>7 DEF Market
<1>9. /\ m.shares = n /\ m.coll = k /\ m.borrow = Index * n /\ m.price = p
      /\ m.supply = Index * n + r
  BY <1>5
<1>10. /\ CollOf(q) <= m.coll /\ m.borrow <= m.supply
  BY <1>3, <1>4, <1>6, <1>7, <1>9
<1>11. \E idx \in Nat : m.borrow = idx * m.shares
  BY <1>6, <1>9
<1> DEFINE s == [market |-> m, open |-> q]
<1>12. s.market = m /\ s.open = q
  OBVIOUS
<1> HIDE DEF s
<1>13. Sound(s)
  BY <1>1, <1>3, <1>6, <1>8, <1>9, <1>10, <1>11, <1>12 DEF Sound
<1> QED
  BY <1>6, <1>9, <1>10, <1>13 DEF s, m

(* Both sources give prices, an outflow and drawdowns within their bounds. *)
LEMMA EventInputIs ==
    ASSUME NEW m, NEW q, NEW kind, NEW path \in PricePaths
    PROVE  LET i == EventInput(m, q, kind, path)
           IN  /\ i.market = m /\ i.open = q /\ i.worst \in Nat
               /\ AlphaOK(i.alpha) /\ i.drawdowns \subseteq Falls
<1>1. path \in Seq(Prices) /\ path # << >>
  BY BacktestAssumption
<1>2. AlphaOK(OutflowAlpha(path))
  BY <1>1, OutflowAlphaBounded
<1>3. Min(ToSet(path)) \in Nat
  <2> DEFINE T == ToSet(path)
  <2>1. T \in SUBSET Prices /\ T # {}
    <3> DEFINE n == Len(path)
    <3>1. n \in Nat \ {0} /\ DOMAIN path = 1 .. n
          /\ \A i \in 1 .. n : path[i] \in Prices
      BY <1>1
    <3>2. 1 \in DOMAIN path
      BY <3>1
    <3> QED
      BY <3>1, <3>2 DEF ToSet
  <2> HIDE DEF T
  <2>2. Prices \subseteq Nat \ {0} /\ IsFiniteSet(Prices)
    BY PricesInterval
  <2>3. IsFiniteSet(T)
    BY <2>1, <2>2, FS_Subset
  <2>4. T # {} /\ T \subseteq Int
    BY <2>1, <2>2
  <2>5. Min(T) \in T
    BY <2>3, <2>4, MinOfFinite
  <2> QED
    BY <2>1, <2>2, <2>5 DEF T
<1>4. ToSet(Observations(path)) \subseteq Falls
  <2> DEFINE s == Observations(path)
  <2>1. s \in Seq(Falls)
    <3>1. CASE Len(path) <= Window
      <4>1. 50 \in Falls /\ 100 \in Falls /\ 200 \in Falls /\ 300 \in Falls
        BY FallsAre
      <4>2. s = <<50, 100, 200, 300>>
        BY <3>1 DEF Observations
      <4> QED
        BY <4>1, <4>2
    <3>2. CASE ~(Len(path) <= Window)
      BY <1>1, <3>2, DrawdownsBounded DEF Observations
    <3> QED
      BY <3>1, <3>2
  <2> HIDE DEF s
  <2>2. \A i \in DOMAIN s : s[i] \in Falls
    BY <2>1
  <2> QED
    BY <2>2 DEF ToSet, s
<1>5. /\ EventInput(m, q, kind, path).market = m
      /\ EventInput(m, q, kind, path).open = q
      /\ EventInput(m, q, kind, path).worst = Min(ToSet(path))
      /\ EventInput(m, q, kind, path).alpha = OutflowAlpha(path)
      /\ EventInput(m, q, kind, path).drawdowns = ToSet(Observations(path))
  BY DEF EventInput
<1> QED
  BY <1>2, <1>3, <1>4, <1>5

(* What a profile gives to the evaluation has its type.                    *)
LEMMA ProfileInputIs ==
    ASSUME NEW m, m.price \in Prices, NEW q, NEW kind, NEW profile \in Profiles
    PROVE  LET i == ProfileInput(m, q, kind, profile)
           IN  /\ i.market = m /\ i.open = q /\ i.worst \in Nat
               /\ AlphaOK(i.alpha) /\ i.drawdowns \subseteq Falls
<1>1. /\ profile.p99 \in Nat /\ profile.p99 <= 1000
      /\ AlphaOK(profile.alpha) /\ profile.drawdowns \subseteq Falls
  BY BacktestAssumption DEF AlphaOK
<1> DEFINE p == m.price
           x == p * profile.p99
<1>2. p \in Nat
  BY PricesInterval
<1> HIDE DEF p
<1>3. x \in Nat /\ x <= 1000 * p
  BY <1>1, <1>2
<1> HIDE DEF x
<1>4. p - x \div 1000 \in Nat
  BY <1>2, <1>3
<1>5. /\ ProfileInput(m, q, kind, profile).market = m
      /\ ProfileInput(m, q, kind, profile).open = q
      /\ ProfileInput(m, q, kind, profile).worst = p - x \div 1000
      /\ ProfileInput(m, q, kind, profile).alpha = profile.alpha
      /\ ProfileInput(m, q, kind, profile).drawdowns = profile.drawdowns
  BY DEF ProfileInput, p, x
<1> QED
  BY <1>1, <1>4, <1>5

-----------------------------------------------------------------------------
(* The invariant.                                                          *)
IInv == InputInv /\ CriteriaInv /\ PathsInv /\ VerdictInv

(* The invariant holds for either source of inputs.                        *)
LEMMA InitIInv == Init => IInv
<1> SUFFICES ASSUME Init PROVE IInv
  OBVIOUS
<1>1. InputInv
  <2>1. PICK q \in [Borrowers -> Holdings], r \in Reserves,
             p \in InitialPrices, kind \in Kinds :
          LET m == MarketOf(q, r, p)
          IN  \/ \E path \in PricePaths : input = EventInput(m, q, kind, path)
              \/ \E profile \in Profiles : input = ProfileInput(m, q, kind, profile)
    BY DEF Init
  <2> DEFINE m == MarketOf(q, r, p)
  <2>2. /\ Sound([market |-> m, open |-> q])
        /\ m.borrow = Index * m.shares /\ m.borrow <= m.supply
        /\ m.price \in Prices
    BY MarketOfSound
  <2> HIDE DEF m
  <2>3. /\ input.market = m /\ input.open = q /\ input.worst \in Nat
        /\ AlphaOK(input.alpha) /\ input.drawdowns \subseteq Falls
    <3>1. CASE \E path \in PricePaths : input = EventInput(m, q, kind, path)
      BY <3>1, EventInputIs
    <3>2. CASE \E profile \in Profiles : input = ProfileInput(m, q, kind, profile)
      BY <2>2, <3>2, ProfileInputIs
    <3> QED
      BY <2>1, <3>1, <3>2 DEF m
  <2> QED
    BY <2>2, <2>3 DEF InputInv
<1>2. CriteriaInv
  BY DEF Init, CriteriaInv
<1>3. PathsInv
  <2>1. << >> \in Seq(Nat) /\ Len(<< >>) = 0 /\ << >> \in Seq(Snapshot)
        /\ DOMAIN << >> = {}
    OBVIOUS
  <2>2. Paths \in Nat
    BY BacktestAssumption
  <2> QED
    BY <2>1, <2>2 DEF Init, PathsInv
<1>4. VerdictInv
  BY DEF Init, VerdictInv
<1> QED
  BY <1>1, <1>2, <1>3, <1>4 DEF IInv

(* A block of a path extends its trajectory with a sound snapshot.         *)
LEMMA PathBlockExtends ==
    ASSUME IInv, PathBlock
    PROVE  \E x \in Snapshot : Sound(x) /\ traj' = Append(traj, x)
<1>1. /\ stage = "paths" /\ traj # << >> /\ Len(samples) < Paths
      /\ traj \in Seq(Snapshot) /\ \A i \in DOMAIN traj : Sound(traj[i])
      /\ samples \in Seq(Nat)
      /\ shocks \in [1 .. Paths -> input.drawdowns]
      /\ input.drawdowns \subseteq Falls
  BY DEF IInv, PathsInv, InputInv, PathBlock, Path!Block
<1> DEFINE c == PathConfig
           p0 == traj[1].market.price
           k == Len(traj)
           last == traj[k]
<1>2. PICK growth \in Growths :
        traj' = Append(traj, Path!AfterBlock(c, p0, k, last, growth))
  BY DEF PathBlock, Path!Block
<1>3. k \in Nat \ {0} /\ 1 \in DOMAIN traj /\ k \in DOMAIN traj
  BY <1>1
<1>4. Sound(last) /\ p0 \in Prices /\ growth \in Nat
  BY <1>1, <1>3, BacktestAssumption DEF Sound
<1>5. /\ c.shape = "instant" /\ c.dt \in Nat \ {0} /\ c.drawdown \in Falls
      /\ c.lag \in Nat
  <2>1. Len(samples) + 1 \in 1 .. Paths
    BY <1>1, BacktestAssumption
  <2>2. Shock \in Falls
    BY <1>1, <2>1 DEF Shock
  <2>3. /\ c.shape = "instant" /\ c.dt = Day /\ c.drawdown = Shock /\ c.lag = 0
    BY <1>1 DEF PathConfig
  <2> HIDE DEF c
  <2> QED
    BY <2>2, <2>3, BacktestAssumption
<1> HIDE DEF c, p0, k
<1> DEFINE price == MarketPriceAt(c, p0, k)
           p == Path!OraclePriceAt(c, p0, k)
           m == Begun(last, growth, p)
           x == BlockEnd(m, last.open, price)
<1>6. price \in Prices /\ p \in Prices
  BY <1>3, <1>4, <1>5, PathOnGrid
<1>7. Path!AfterBlock(c, p0, k, last, growth) = x
  BY AfterBlockIs
<1>8. price \in Nat
  BY <1>6, PricesInterval
<1> HIDE DEF last, p, price
<1>9. Sound(x)
  BY <1>4, <1>6, <1>8, BlockKeepsSound
<1>10. x \in Snapshot
  <2>1. x.market \in Market /\ x.open \in Portfolio
    BY <1>9 DEF Sound
  <2>2. x = [market |-> x.market, open |-> x.open]
    BY DEF BlockEnd
  <2> HIDE DEF x
  <2> QED
    BY <2>1, <2>2 DEF Snapshot
<1> QED
  BY <1>2, <1>7, <1>9, <1>10 DEF last

(* Every step of the evaluation keeps it.                                  *)
LEMMA NextIInv == IInv /\ [Next]_vars => IInv'
<1> SUFFICES ASSUME IInv, [Next]_vars PROVE IInv'
  OBVIOUS
<1> USE DEF IInv
<1>1. Paths \in Nat \ {0}
  BY BacktestAssumption
<1>2. CASE EvaluateLcr
  <2>1. InputInv'
    BY <1>2 DEF EvaluateLcr, InputInv
  <2>2. CriteriaInv'
    BY <1>2 DEF EvaluateLcr, CriteriaInv
  <2>3. PathsInv' /\ VerdictInv'
    BY <1>2 DEF EvaluateLcr, PathsInv, VerdictInv
  <2> QED
    BY <2>1, <2>2, <2>3
<1>3. CASE EvaluateTti
  <2>1. InputInv'
    BY <1>3 DEF EvaluateTti, InputInv
  <2>2. CriteriaInv'
    BY <1>3 DEF EvaluateTti, CriteriaInv
  <2>3. PathsInv' /\ VerdictInv'
    BY <1>3 DEF EvaluateTti, PathsInv, VerdictInv
  <2> QED
    BY <2>1, <2>2, <2>3
<1>4. CASE Sample
  <2>1. InputInv'
    BY <1>4 DEF Sample, InputInv
  <2>2. CriteriaInv'
    BY <1>4 DEF Sample, CriteriaInv
  <2>3. PathsInv' /\ VerdictInv'
    BY <1>4 DEF Sample, PathsInv, VerdictInv
  <2> QED
    BY <2>1, <2>2, <2>3
<1>5. CASE StartPath
  <2>1. InputInv' /\ CriteriaInv' /\ VerdictInv'
    BY <1>5 DEF StartPath, InputInv, CriteriaInv, VerdictInv
  <2> DEFINE x == [market |-> input.market, open |-> input.open]
  <2>2. Sound(x)
    BY DEF InputInv
  <2>3. x \in Snapshot
    BY <2>2 DEF Sound, Snapshot
  <2>4. traj' = <<x>>
    BY <1>5 DEF StartPath
  <2> HIDE DEF x
  <2>5. traj' \in Seq(Snapshot) /\ \A i \in DOMAIN traj' : Sound(traj'[i])
    BY <2>2, <2>3, <2>4
  <2>6. PathsInv'
    BY <1>5, <2>5 DEF StartPath, PathsInv
  <2> QED
    BY <2>1, <2>6
<1>6. CASE PathBlock
  <2>1. InputInv' /\ CriteriaInv' /\ VerdictInv'
    BY <1>6 DEF PathBlock, InputInv, CriteriaInv, VerdictInv
  <2>2. PICK x \in Snapshot : Sound(x) /\ traj' = Append(traj, x)
    BY <1>6, PathBlockExtends
  <2>3. /\ traj \in Seq(Snapshot) /\ \A i \in DOMAIN traj : Sound(traj[i])
        /\ traj # << >>
    BY <1>6 DEF PathsInv, PathBlock, Path!Block
  <2>4. traj' \in Seq(Snapshot) /\ \A i \in DOMAIN traj' : Sound(traj'[i])
    BY <2>2, <2>3
  <2>5. PathsInv'
    BY <1>6, <2>3, <2>4 DEF PathBlock, PathsInv
  <2> QED
    BY <2>1, <2>5
<1>7. CASE EndPath
  <2>1. InputInv' /\ CriteriaInv' /\ VerdictInv'
    BY <1>7 DEF EndPath, InputInv, CriteriaInv, VerdictInv
  <2>2. /\ stage = "paths" /\ Len(traj) = Day + 1 /\ traj \in Seq(Snapshot)
        /\ samples \in Seq(Nat) /\ Day \in Nat
        /\ samples' = Append(samples, Last(traj).market.badDebt)
        /\ traj' = << >>
    BY <1>7, BacktestAssumption DEF EndPath, PathsInv
  <2>3. traj # << >> /\ Len(traj) \in DOMAIN traj
    BY <2>2
  <2>4. Last(traj).market.badDebt \in Nat
    <3>1. traj[Len(traj)] \in Snapshot
      BY <2>2, <2>3
    <3> QED
      BY <3>1 DEF Last, Snapshot, Market
  <2>5. samples' \in Seq(Nat) /\ Len(samples') <= Paths
    <3>1. Len(samples) < Paths
      BY <2>3 DEF PathsInv
    <3> QED
      BY <1>1, <2>2, <2>4, <3>1
  <2>6. traj' \in Seq(Snapshot) /\ DOMAIN traj' = {}
    BY <2>2
  <2>7. PathsInv'
    BY <1>7, <2>2, <2>5, <2>6 DEF EndPath, PathsInv
  <2> QED
    BY <2>1, <2>7
<1>8. CASE Conclude
  <2>1. InputInv' /\ CriteriaInv'
    BY <1>8 DEF Conclude, InputInv, CriteriaInv
  <2>2. samples \in Seq(Nat) /\ Len(samples) = Paths
    BY <1>8 DEF Conclude, PathsInv
  <2>3. traj = << >>
    BY <1>1, <2>2 DEF PathsInv
  <2>4. PathsInv'
    BY <1>8, <2>3 DEF Conclude, PathsInv
  <2>5. VerdictInv'
    BY <1>8 DEF Conclude, VerdictInv, BadDebtSeverity, BadDebtTriggered, LossMaking
  <2> QED
    BY <2>1, <2>4, <2>5
<1>9. CASE UNCHANGED vars
  BY <1>9 DEF vars, InputInv, CriteriaInv, PathsInv, VerdictInv,
              BadDebtSeverity, BadDebtTriggered, LossMaking
<1> QED
  BY <1>2, <1>3, <1>4, <1>5, <1>6, <1>7, <1>8, <1>9 DEF Next

(* So it always holds.                                                     *)
LEMMA IInvInvariant == Spec => []IInv
  BY InitIInv, NextIInv, PTL DEF Spec

-----------------------------------------------------------------------------
(* What the invariant says.                                                *)

(* The market under evaluation, as the criteria see it.                    *)
LEMMA InputFacts ==
    ASSUME IInv
    PROVE  /\ input.market \in Market /\ input.open \in Portfolio
           /\ input.market.shares = SharesOf(input.open)
           /\ Index \in Nat /\ input.market.borrow = Index * input.market.shares
           /\ input.market.borrow <= input.market.supply
           /\ input.worst \in Nat /\ AlphaOK(input.alpha)
<1> DEFINE s == [market |-> input.market, open |-> input.open]
<1>1. Sound(s) /\ s.market = input.market /\ s.open = input.open
  BY DEF IInv, InputInv
<1> HIDE DEF s
<1>2. /\ input.market \in Market /\ input.open \in Portfolio
      /\ input.market.shares = SharesOf(input.open)
  BY <1>1 DEF Sound
<1> QED
  BY <1>2, BacktestAssumption DEF IInv, InputInv

(* What the coverage ratio returned.                                       *)
LEMMA CoverageFacts ==
    ASSUME IInv, stage # "lcr"
    PROVE  /\ coverage \in [hqla: Nat, badDebt: Nat, outflow: Nat, net: Nat \ {0}]
           /\ coverage.hqla + coverage.badDebt = input.market.supply
           /\ Liquidity(input.market) <= coverage.hqla
           /\ coverage.outflow = (input.alpha * input.market.supply) \div 1000
           /\ 5 * coverage.outflow <= 3 * input.market.supply
           /\ coverage.net <= coverage.outflow \/ coverage.net = LoanUnit
<1>1. coverage = Coverage(input.market, input.open, input.worst, input.alpha)
  BY DEF IInv, CriteriaInv
<1> DEFINE m == input.market
           q == input.open
           w == input.worst
           a == input.alpha
<1>2. /\ m \in Market /\ q \in Portfolio /\ m.shares = SharesOf(q)
      /\ Index \in Nat /\ m.borrow = Index * m.shares /\ m.borrow <= m.supply
      /\ w \in Nat /\ AlphaOK(a)
  BY InputFacts
<1> HIDE DEF m, q, w, a
<1> DEFINE c == Coverage(m, q, w, a)
<1>3. /\ c \in [hqla: Nat, badDebt: Nat, outflow: Nat, net: Nat \ {0}]
      /\ c.hqla + c.badDebt = m.supply /\ Liquidity(m) <= c.hqla
      /\ c.outflow = (a * m.supply) \div 1000
      /\ 5 * c.outflow <= 3 * m.supply
      /\ c.net <= c.outflow \/ c.net = LoanUnit
  BY <1>2, CoverageSplits
<1>4. c = coverage
  BY <1>1 DEF m, q, w, a
<1> HIDE DEF c
<1> QED
  BY <1>3, <1>4 DEF m, a

(* What the invariant says of the time to illiquidity once it is known.    *)
LEMMA TtiFacts ==
    ASSUME IInv
    PROVE  /\ tti \in {-1} \cup 1 .. Day
           /\ stage \notin {"lcr", "tti"}
                /\ (input.alpha * input.market.supply) \div 1000
                     > Liquidity(input.market)
                => tti # -1
<1>1. input.market \in Market /\ AlphaOK(input.alpha)
  BY InputFacts
<1> DEFINE t == TimeToIlliquid(input.market, input.alpha)
<1>2. /\ t \in {-1} \cup 1 .. Day
      /\ (input.alpha * input.market.supply) \div 1000 > Liquidity(input.market)
           => t # -1
  BY <1>1, TimeToIlliquidIs
<1>3. tti = IF stage \in {"lcr", "tti"} THEN -1 ELSE t
  BY DEF IInv, CriteriaInv
<1> HIDE DEF t
<1> QED
  BY <1>2, <1>3

(* run_backtest and assess_market keep their values well typed: every      *)
(* market of every path has totals that are natural numbers, the           *)
(* denominator of the ratio is positive, a time to illiquidity is a block. *)
THEOREM TypeCorrect == Spec => []TypeOK
<1>1. IInv => TypeOK
  <2> SUFFICES ASSUME IInv PROVE TypeOK
    OBVIOUS
  <2>1. stage \in {"lcr", "tti", "sampling", "paths", "done"}
    BY DEF IInv, CriteriaInv
  <2>2. stage # "lcr" =>
          coverage \in [hqla: Nat, badDebt: Nat, outflow: Nat, net: Nat \ {0}]
    BY CoverageFacts
  <2>3. tti \in {-1} \cup 1 .. Day
    BY TtiFacts
  <2>4. \A i \in DOMAIN shocks : shocks[i] \in Falls
    <3>1. CASE shocks = << >>
      BY <3>1
    <3>2. CASE shocks \in [1 .. Paths -> input.drawdowns]
      <4>1. input.drawdowns \subseteq Falls
        BY DEF IInv, InputInv
      <4>2. \A i \in DOMAIN shocks : shocks[i] \in Falls
        BY <3>2, <4>1
      <4> QED
        BY <4>2
    <3> QED
      BY <3>1, <3>2 DEF IInv, PathsInv
  <2>5. samples \in Seq(Nat) /\ Len(samples) <= Paths
    BY DEF IInv, PathsInv
  <2>6. \A i \in DOMAIN traj : traj[i].market \in Market
    BY DEF IInv, PathsInv, Sound
  <2>7. stage = "done" => verdict \in [severity: Severities, flagged: BOOLEAN]
    <3> SUFFICES ASSUME stage = "done"
                 PROVE  verdict \in [severity: Severities, flagged: BOOLEAN]
      OBVIOUS
    <3>1. \A x : Composite(x) \in Severities
      BY DEF Composite, Severities
    <3>2. (LcrTriggered(coverage) \/ TtiTriggered(tti) \/ BadDebtTriggered) \in BOOLEAN
      BY Zenon DEF LcrTriggered, TtiTriggered, BadDebtTriggered
    <3>3. verdict =
            [severity |-> Composite({LcrSeverity(coverage), TtiSeverity(tti),
                                     BadDebtSeverity}),
             flagged |-> LcrTriggered(coverage) \/ TtiTriggered(tti)
                           \/ BadDebtTriggered]
      BY DEF IInv, VerdictInv
    <3> QED
      BY <3>1, <3>2, <3>3
  <2> QED
    BY <2>1, <2>2, <2>3, <2>4, <2>5, <2>6, <2>7 DEF TypeOK
<1> QED
  BY <1>1, IInvInvariant, PTL

(* A market that fails the coverage test on an outflow of a unit or more   *)
(* expects to lose more than two fifths of its supply, and scenario S1     *)
(* already finds it illiquid within the day.                               *)
THEOREM CoverageFailsLast == Spec => []ShortCoverageComesLast
<1>1. IInv => ShortCoverageComesLast
  <2> SUFFICES ASSUME IInv, stage \notin {"lcr", "tti"}, LcrTriggered(coverage),
                      coverage.outflow >= LoanUnit
               PROVE  tti # -1 /\ 5 * coverage.badDebt > 2 * input.market.supply
    BY DEF ShortCoverageComesLast
  <2> DEFINE hqla == coverage.hqla
             net == coverage.net
             out == coverage.outflow
             bad == coverage.badDebt
             S == input.market.supply
             L == Liquidity(input.market)
  <2>1. /\ hqla \in Nat /\ bad \in Nat /\ out \in Nat /\ net \in Nat
        /\ hqla + bad = S /\ L <= hqla /\ 5 * out <= 3 * S
        /\ out = (input.alpha * S) \div 1000
        /\ (net <= out \/ net = LoanUnit)
    BY CoverageFacts
  <2>2. hqla < net
    BY DEF LcrTriggered
  <2>3. out >= LoanUnit /\ LoanUnit \in Nat
    BY MetricsAssumption
  <2>4. L \in Nat /\ S \in Nat
    <3>1. input.market \in Market
      BY InputFacts
    <3>2. input.market.supply \in Nat /\ input.market.borrow \in Nat
      BY <3>1 DEF Market
    <3> QED
      BY <3>2 DEF Liquidity, AtLeastZero
  <2> HIDE DEF hqla, net, out, bad, S, L
  <2>5. hqla < out
    BY <2>1, <2>2, <2>3
  <2>6. 5 * bad > 2 * S
    BY <2>1, <2>4, <2>5
  <2>7. (input.alpha * S) \div 1000 > L
    BY <2>1, <2>4, <2>5
  <2>8. tti # -1
    BY <2>7, TtiFacts DEF S, L
  <2> QED
    BY <2>6, <2>8 DEF bad, S
<1> QED
  BY <1>1, IInvInvariant, PTL

(* The flag, from one set of thresholds, and the severity, from another,   *)
(* agree: a market is flagged unless it is green.                          *)
THEOREM FlagIsSeverity == Spec => []FlaggedUnlessGreen
<1>1. IInv => FlaggedUnlessGreen
  <2> SUFFICES ASSUME IInv, stage = "done"
               PROVE  verdict.flagged <=> verdict.severity # "green"
    BY DEF FlaggedUnlessGreen
  <2>1. LcrTriggered(coverage) <=> LcrSeverity(coverage) # "green"
    <3> DEFINE h == coverage.hqla
               n == coverage.net
    <3>1. h \in Nat /\ n \in Nat
      BY CoverageFacts
    <3>2. LcrTriggered(coverage) <=> h < n
      BY DEF LcrTriggered
    <3>3. LcrSeverity(coverage)
            = IF 100 * h < 80 * n THEN "red" ELSE IF h < n THEN "yellow" ELSE "green"
      BY DEF LcrSeverity
    <3> HIDE DEF h, n
    <3>4. 100 * h < 80 * n => h < n
      BY <3>1
    <3> QED
      BY <3>2, <3>3, <3>4
  <2>2. TtiTriggered(tti) <=> TtiSeverity(tti) # "green"
    <3>1. tti \in Int /\ Day \in Nat
      BY TtiFacts, BacktestAssumption
    <3> QED
      BY <3>1 DEF TtiTriggered, TtiSeverity
  <2>3. BadDebtTriggered <=> BadDebtSeverity # "green"
    <3>1. samples \in Seq(Nat) /\ Paths \in Nat
      BY BacktestAssumption DEF IInv, PathsInv
    <3>2. IsFiniteSet(DOMAIN samples)
      <4>1. DOMAIN samples = 1 .. Len(samples) /\ Len(samples) \in Int /\ 1 \in Int
        BY <3>1
      <4> QED
        BY <4>1, FS_Interval
    <3>3. IsFiniteSet({i \in DOMAIN samples : samples[i] > 0})
      BY <3>2, FS_Subset
    <3>4. LossMaking \in Nat
      BY <3>3, FS_CardinalityType DEF LossMaking
    <3>5. 5 * LossMaking > Paths => 20 * LossMaking > Paths
      BY <3>1, <3>4
    <3> QED
      BY <3>5 DEF BadDebtTriggered, BadDebtSeverity
  <2>4. \A a, b, c \in Severities :
          Composite({a, b, c}) # "green" <=> a # "green" \/ b # "green" \/ c # "green"
    BY DEF Composite, Severities
  <2>5. /\ LcrSeverity(coverage) \in Severities /\ TtiSeverity(tti) \in Severities
        /\ BadDebtSeverity \in Severities
    BY DEF LcrSeverity, TtiSeverity, BadDebtSeverity, Severities
  <2>6. /\ verdict.severity = Composite({LcrSeverity(coverage), TtiSeverity(tti),
                                         BadDebtSeverity})
        /\ verdict.flagged <=> LcrTriggered(coverage) \/ TtiTriggered(tti)
                                 \/ BadDebtTriggered
    <3>1. verdict =
            [severity |-> Composite({LcrSeverity(coverage), TtiSeverity(tti),
                                     BadDebtSeverity}),
             flagged |-> LcrTriggered(coverage) \/ TtiTriggered(tti)
                           \/ BadDebtTriggered]
      BY DEF IInv, VerdictInv
    <3> QED
      BY <3>1, Zenon
  <2> QED
    BY <2>1, <2>2, <2>3, <2>4, <2>5, <2>6
<1> QED
  BY <1>1, IInvInvariant, PTL

=============================================================================
