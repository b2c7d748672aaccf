--------------------------- MODULE StressS3_proofs ---------------------------
(***************************************************************************)
(* Theorems about scenario S3, for every number of borrowers, every        *)
(* holding, price, window, interest and fee.                               *)
(*                                                                         *)
(* The argument rests on the borrow index: a natural number idx such that  *)
(* the total debt is idx times the total of shares, which is the sum of    *)
(* the shares of the open positions.  Accrual raises it; a liquidation     *)
(* takes idx times the shares of one position off the debt and leaves it.  *)
(***************************************************************************)
EXTENDS StressS3, ScenarioTheorems

-----------------------------------------------------------------------------
(* The path and the oracle stay on the grid of prices.                     *)

(* What a configuration the code accepts is made of.                       *)
LEMMA ConfigBounds ==
    ASSUME NEW c \in S3Config
    PROVE  /\ c.horizon \in Nat /\ c.lag \in Nat
           /\ DrawdownDen \in Nat \ {0} /\ DefaultWindow \in Nat \ {0}
           /\ ValidConfig(c) => /\ c.dt \in Nat \ {0} /\ c.drawdown \in Nat
                                /\ c.drawdown < DrawdownDen
<1>1. /\ c.horizon \in Horizons /\ c.lag \in Lags /\ c.dt \in DtBlocks
      /\ c.drawdown \in Drawdowns
  BY DEF S3Config
<1>2. /\ c.horizon \in Nat /\ c.lag \in Nat /\ c.dt \in Int
      /\ c.drawdown \in Int
  BY <1>1, ScenarioAssumption
<1>3. DrawdownDen \in Nat \ {0} /\ DefaultWindow \in Nat \ {0}
  BY ScenarioAssumption
<1>4. ValidConfig(c) => c.dt >= 1 /\ c.drawdown \in 0 .. DrawdownDen - 1
  BY DEF ValidConfig
<1> QED
  BY <1>2, <1>3, <1>4

(* The progress of the path is between nothing and all of it.              *)
LEMMA ProgressBounds ==
    ASSUME NEW c \in S3Config, ValidConfig(c), NEW k \in Nat
    PROVE  Progress(c, k) \in 0 .. c.dt
<1>1. c.dt \in Nat \ {0}
  BY ConfigBounds
<1>2. CASE k = 0 \/ c.shape = "instant"
  BY <1>1, <1>2 DEF Progress
<1>3. CASE ~(k = 0 \/ c.shape = "instant")
  <2> DEFINE S == {k, c.dt}
  <2>1. \E x \in S : \A y \in S : x <= y
    BY <1>1
  <2>2. Min(S) \in S /\ \A y \in S : Min(S) <= y
    BY <2>1 DEF Min
  <2>3. Progress(c, k) = Min(S)
    BY <1>3 DEF Progress
  <2> QED
    BY <1>1, <2>2, <2>3
<1> QED
  BY <1>2, <1>3

(* A drawdown short of the whole price leaves a price of the grid.         *)
LEMMA MarketPriceOnGrid ==
    ASSUME NEW c \in S3Config, ValidConfig(c), NEW p0 \in Prices, NEW k \in Nat
    PROVE  MarketPriceAt(c, p0, k) \in Prices
<1> DEFINE g == Progress(c, k)
           d == c.drawdown
<1>1. /\ c.dt \in Nat \ {0} /\ DrawdownDen \in Nat \ {0}
      /\ d \in Nat /\ d < DrawdownDen
  BY ConfigBounds
<1>2. g \in 0 .. c.dt
  BY ProgressBounds
<1>3. Prices = 1 .. Cardinality(Prices) /\ Cardinality(Prices) \in Nat
  BY TickAssumption, FS_CardinalityType
<1>4. p0 \in Nat \ {0}
  BY <1>3
<1> HIDE DEF g, d
<1>5. p0 - (p0 * d * g) \div (DrawdownDen * c.dt) \in 1 .. p0
  BY <1>1, <1>2, <1>4, FallLeavesPrice
<1>6. MarketPriceAt(c, p0, k) \in 1 .. p0
  BY <1>5 DEF MarketPriceAt, g, d
<1> HIDE DEF Prices
<1> QED
  BY <1>3, <1>6

(* The oracle always looks at one observation at least.                    *)
LEMMA WindowPositive ==
    ASSUME NEW c \in S3Config PROVE OracleWindow(c) \in Nat \ {0}
  BY ConfigBounds DEF OracleWindow

(* Pushing an observation keeps the window a sequence of them, none below  *)
(* the bound of all of them.                                               *)
LEMMA PushEffect ==
    ASSUME NEW s \in Seq(Observation), NEW o \in Observation,
           NEW w \in Nat \ {0}, NEW t \in Nat, o.tick >= t,
           \A i \in DOMAIN s : s[i].tick >= t
    PROVE  /\ Push(s, o, w) \in Seq(Observation)
           /\ \A i \in DOMAIN Push(s, o, w) : Push(s, o, w)[i].tick >= t
<1> DEFINE all == Append(s, o)
<1>1. /\ all \in Seq(Observation) /\ Len(all) = Len(s) + 1 /\ all # << >>
  OBVIOUS
<1>2. \A i \in 1 .. Len(all) : all[i].tick >= t
  <2> SUFFICES ASSUME NEW i \in 1 .. Len(all) PROVE all[i].tick >= t
    OBVIOUS
  <2>1. CASE i = Len(s) + 1
    <3>1. all[i] = o
      BY <2>1
    <3> QED
      BY <3>1
  <2>2. CASE i # Len(s) + 1
    <3>1. i \in DOMAIN s /\ all[i] = s[i]
      BY <1>1, <2>2
    <3> QED
      BY <3>1
  <2> QED
    BY <2>1, <2>2
<1> HIDE DEF all
<1>3. Tail(all) \in Seq(Observation)
  BY <1>1
<1>4. \A i \in 1 .. Len(Tail(all)) : Tail(all)[i].tick >= t
  <2> SUFFICES ASSUME NEW i \in 1 .. Len(Tail(all))
               PROVE  Tail(all)[i].tick >= t
    OBVIOUS
  <2>1. i + 1 \in 1 .. Len(all) /\ Tail(all)[i] = all[i + 1]
    BY <1>1
  <2> QED
    BY <1>2, <2>1
<1>5. Push(s, o, w) = all \/ Push(s, o, w) = Tail(all)
  BY DEF Push, all
<1>6. CASE Push(s, o, w) = all
  BY <1>1, <1>2, <1>6
<1>7. CASE Push(s, o, w) = Tail(all)
  BY <1>3, <1>4, <1>7
<1> QED
  BY <1>5, <1>6, <1>7

-----------------------------------------------------------------------------
(* Positions and their shares.                                             *)

(* What a portfolio is made of.                                            *)
LEMMA PortfolioType ==
    ASSUME NEW q \in Portfolio
    PROVE  /\ DOMAIN q \subseteq Borrowers /\ IsFiniteSet(DOMAIN q)
           /\ \A b \in DOMAIN q : /\ q[b] \in Holdings
                                  /\ q[b].shares \in Nat /\ q[b].coll \in Nat
<1>1. PICK D \in SUBSET Borrowers : q \in [D -> Holdings]
  BY DEF Portfolio
<1>2. DOMAIN q = D
  BY <1>1
<1>3. IsFiniteSet(D)
  BY S3Assumption, FS_Subset
<1>4. \A h \in Holdings : h.shares \in Nat /\ h.coll \in Nat
  BY S3Assumption DEF Position
<1> QED
  BY <1>1, <1>2, <1>3, <1>4

(* Closing a position leaves the others as they are.                       *)
LEMMA WithoutEffect ==
    ASSUME NEW q \in Portfolio, NEW b \in DOMAIN q
    PROVE  /\ Without(q, b) \in Portfolio
           /\ DOMAIN Without(q, b) = DOMAIN q \ {b}
           /\ \A c \in DOMAIN q \ {b} : Without(q, b)[c] = q[c]
<1> DEFINE D == DOMAIN q \ {b}
<1>1. Without(q, b) = [c \in D |-> q[c]]
  BY DEF Without, Restrict
<1>2. D \subseteq Borrowers /\ \A c \in D : q[c] \in Holdings
  BY PortfolioType
<1>3. Without(q, b) \in [D -> Holdings]
  BY <1>1, <1>2
<1>4. Without(q, b) \in Portfolio
  BY <1>2, <1>3 DEF Portfolio
<1> QED
  BY <1>1, <1>4

(* The shares of a portfolio are those of one position and of the rest.    *)
LEMMA SharesWithout ==
    ASSUME NEW q \in Portfolio
    PROVE  /\ SharesOf(q) \in Nat
           /\ \A b \in DOMAIN q :
                /\ SharesOf(Without(q, b)) \in Nat
                /\ SharesOf(q) = q[b].shares + SharesOf(Without(q, b))
<1> DEFINE S == DOMAIN q
           f == [c \in S |-> q[c].shares]
<1>1. IsFiniteSet(S) /\ \A c \in S : f[c] \in Nat
  BY PortfolioType
<1>2. SharesOf(q) = SumFunctionOnSet(f, S)
  BY DEF SharesOf, SumFunction
<1> HIDE DEF f
<1>3. SharesOf(q) \in Nat
  BY <1>1, <1>2, SumNat
<1>4. ASSUME NEW b \in S
      PROVE  /\ SharesOf(Without(q, b)) \in Nat
             /\ SharesOf(q) = q[b].shares + SharesOf(Without(q, b))
  <2> DEFINE R == S \ {b}
             g == [c \in R |-> Without(q, b)[c].shares]
  <2>1. DOMAIN Without(q, b) = R
    BY WithoutEffect
  <2>2. SharesOf(Without(q, b)) = SumFunctionOnSet(g, R)
    BY <2>1 DEF SharesOf, SumFunction
  <2>3. IsFiniteSet(R)
    BY <1>1, FS_Subset
  <2>4. \A c \in R : g[c] = f[c] /\ g[c] \in Nat
    <3> SUFFICES ASSUME NEW c \in R PROVE g[c] = f[c] /\ g[c] \in Nat
      OBVIOUS
    <3>1. Without(q, b)[c] = q[c]
      BY WithoutEffect
    <3>2. g[c] = q[c].shares
      BY <3>1
    <3>3. f[c] = q[c].shares
      BY DEF f
    <3> QED
      BY <1>1, <3>2, <3>3
  <2> HIDE DEF g
  <2>5. SumFunctionOnSet(g, R) = SumFunctionOnSet(f, R)
    BY <2>3, <2>4, SumAgree
  <2>6. SumFunctionOnSet(f, S) = f[b] + SumFunctionOnSet(f, R)
    BY <1>1, SumRemove
  <2>7. SumFunctionOnSet(g, R) \in Nat
    BY <2>3, <2>4, SumNat
  <2>8. f[b] = q[b].shares
    BY DEF f
  <2> QED
    BY <1>2, <2>2, <2>5, <2>6, <2>7, <2>8
<1> QED
  BY <1>3, <1>4

-----------------------------------------------------------------------------
(* The borrow index.                                                       *)

(* The debt of a market is idx per share, and its shares are the           *)
(* positions'.                                                             *)
Indexed(m, q, idx) == m.shares = SharesOf(q) /\ m.borrow = idx * m.shares

(* A position's debt at the index is part of the whole.                    *)
LEMMA DebtOfPosition ==
    ASSUME NEW m \in Market, NEW q \in Portfolio, NEW idx \in Nat,
           Indexed(m, q, idx), NEW b \in DOMAIN q
    PROVE  /\ q[b].shares \in 0 .. m.shares
           /\ BorrowAssets(q[b].shares, m) = idx * q[b].shares
           /\ idx * q[b].shares \in Nat
<1>1. /\ q[b].shares \in Nat /\ SharesOf(Without(q, b)) \in Nat
      /\ m.shares = q[b].shares + SharesOf(Without(q, b))
  BY PortfolioType, SharesWithout DEF Indexed
<1>2. q[b].shares \in 0 .. m.shares
  BY <1>1
<1>3. BorrowAssets(q[b].shares, m) = idx * q[b].shares
  BY <1>2, DebtAtIndex DEF Indexed
<1> QED
  BY <1>1, <1>2, <1>3

(* A liquidation takes its own debt, whole, and leaves the index.          *)
LEMMA LiquidationIndexed ==
    ASSUME NEW m \in Market, m.price > 0, NEW price \in Nat,
           NEW q \in Portfolio, NEW idx \in Nat \ {0}, Indexed(m, q, idx),
           NEW b \in DOMAIN q
    PROVE  LET n == AfterLiquidation(q[b], m, price)
               o == Outcome(q[b], m, price)
           IN  /\ Indexed(n, Without(q, b), idx)
               /\ o.repaid <= m.borrow
<1> DEFINE n == AfterLiquidation(q[b], m, price)
           o == Outcome(q[b], m, price)
           s == q[b].shares
           r == SharesOf(Without(q, b))
<1>1. s \in Nat /\ r \in Nat /\ m.shares = s + r /\ m.borrow = idx * (s + r)
  BY PortfolioType, SharesWithout DEF Indexed
<1>2. o.repaid = idx * s
  BY PortfolioType, OutcomeBounds, DebtOfPosition
<1>3. /\ n.borrow = AtLeastZero(m.borrow - o.repaid)
      /\ n.shares = IF o.repaid = 0 THEN m.shares ELSE AtLeastZero(m.shares - s)
  BY PortfolioType, LiquidationEffect
<1> HIDE DEF n, o, s, r
<1>4. idx * (s + r) = idx * s + idx * r /\ idx * s \in Nat /\ idx * r \in Nat
  BY <1>1
<1>5. n.borrow = idx * r /\ o.repaid <= m.borrow
  BY <1>1, <1>2, <1>3, <1>4 DEF AtLeastZero
<1>6. idx * s = 0 => s = 0
  BY <1>1
<1>7. n.shares = r
  BY <1>1, <1>2, <1>3, <1>6 DEF AtLeastZero
<1> QED
  BY <1>5, <1>7 DEF Indexed, n, o, r

-----------------------------------------------------------------------------
(* The inductive invariant.                                                *)

(* What has been set up by the time of each phase; no observation is below *)
(* the lowest tick.                                                        *)
Setup ==
    /\ phase \in {"configured", "rejected"} =>
         traj = << >> /\ credited = 0 /\ market.badDebt = 0
    /\ phase \in {"block", "liquidating"} =>
         ValidConfig(cfg) /\ traj # << >> /\ traj[1].market.price \in Prices
    /\ \A i \in DOMAIN obs : obs[i].tick >= PriceTick[1]

HasIndex == \E idx \in Nat \ {0} : Indexed(market, open, idx)

IInv == TypeOK /\ Setup /\ HasIndex

Snapshot == [market: Market, open: Portfolio]

(* The initial states satisfy it.                                          *)
LEMMA InitIInv == Init => IInv
<1> SUFFICES ASSUME Init PROVE IInv
  OBVIOUS
<1>1. PICK positions \in [Borrowers -> Holdings], r \in Reserves,
           p \in InitialPrices, fee \in Fees :
        /\ open = positions /\ market = MarketOf(positions, r, p, fee)
        /\ marketPrice = p
  BY DEF Init
<1>2. open \in Portfolio
  BY <1>1 DEF Portfolio
<1>3. SharesOf(open) \in Nat
  BY <1>2, SharesWithout
<1>4. CollOf(open) \in Nat
  <2> DEFINE f == [b \in DOMAIN open |-> open[b].coll]
  <2>1. IsFiniteSet(DOMAIN open) /\ \A b \in DOMAIN open : f[b] \in Nat
    BY <1>2, PortfolioType
  <2>2. CollOf(open) = SumFunctionOnSet(f, DOMAIN open)
    BY DEF CollOf, SumFunction
  <2> HIDE DEF f
  <2> QED
    BY <2>1, <2>2, SumNat
<1>5. /\ r \in Nat /\ p \in Prices /\ fee \in 0 .. FeeDen
      /\ Index \in Nat \ {0}
  BY S3Assumption
<1>6. p \in Nat
  BY <1>5, PricesInterval
<1> DEFINE debt == Index * SharesOf(open)
           cash == debt + r
<1>7. debt \in Nat /\ cash \in Nat
  BY <1>3, <1>5
<1>8. market = [supply |-> cash, borrow |-> debt, shares |-> SharesOf(open),
                coll |-> CollOf(open), price |-> p, queued |-> 0,
                badDebt |-> 0, fee |-> fee]
  BY <1>1 DEF MarketOf
<1>9. Indexed(market, open, Index)
  BY <1>8 DEF Indexed
<1> HIDE DEF debt, cash
<1>10. market \in Market /\ market.price \in Prices /\ market.badDebt = 0
  BY <1>3, <1>4, <1>5, <1>6, <1>7, <1>8 DEF Market
<1>11. TypeOK
  <2>1. traj \in Seq([market: Market, open: Portfolio])
        /\ obs \in Seq(Observation) /\ events \in Seq(Event)
    BY DEF Init
  <2> QED
    BY <1>1, <1>2, <1>5, <1>10, <2>1 DEF Init, TypeOK
<1>12. Setup
  BY <1>10 DEF Init, Setup
<1>13. HasIndex
  BY <1>5, <1>9 DEF HasIndex
<1> QED
  BY <1>11, <1>12, <1>13 DEF IInv

(* The trajectory keeps its first state as it grows.                       *)
LEMMA FirstStays ==
    ASSUME NEW t \in Seq(Snapshot), NEW x \in Snapshot, t # << >>
    PROVE  /\ Append(t, x) \in Seq(Snapshot) /\ Append(t, x) # << >>
           /\ Append(t, x)[1] = t[1]
  OBVIOUS

(* Accrual keeps the index, or raises it by the interest of a share.       *)
LEMMA AccrueIndexed ==
    ASSUME NEW m \in Market, NEW growth \in Nat, NEW q, NEW idx \in Nat \ {0},
           Indexed(m, q, idx)
    PROVE  \E j \in Nat \ {0} : Indexed(Accrue(m, growth * m.shares), q, j)
<1> DEFINE i == growth * m.shares
           n == Accrue(m, i)
<1>1. m.shares \in Nat /\ m.borrow = idx * m.shares /\ i \in Nat
  BY DEF Indexed, Market
<1>2. n.shares = m.shares /\ (n = m \/ n.borrow = m.borrow + i)
  BY <1>1, AccrueEffect
<1>3. CASE n = m
  BY <1>3
<1>4. CASE n.borrow = m.borrow + i
  <2> DEFINE j == idx + growth
             s == m.shares
  <2> HIDE DEF n
  <2>1. j \in Nat \ {0} /\ j * s = idx * s + growth * s
    BY <1>1
  <2>2. n.borrow = j * n.shares
    BY <1>1, <1>2, <1>4, <2>1
  <2>3. Indexed(n, q, j)
    BY <1>2, <2>2 DEF Indexed
  <2> QED
    BY <2>1, <2>3 DEF n
<1> QED
  BY <1>2, <1>3, <1>4

(* The market as a block begins: interest, then the oracle's price.        *)
LEMMA BeginBlockEffect ==
    ASSUME IInv, NEW growth \in Growths, BeginBlock(growth)
    PROVE  /\ marketPrice' \in Prices
           /\ obs' \in Seq(Observation)
           /\ \A i \in DOMAIN obs' : obs'[i].tick >= PriceTick[1]
           /\ market' = [Accrue(market, growth * market.shares)
                           EXCEPT !.price = ReadTwap(obs')]
           /\ ReadTwap(obs') \in Prices
           /\ growth \in Nat /\ growth * market.shares \in Nat
<1>1. /\ ValidConfig(cfg) /\ traj[1].market.price \in Prices
      /\ cfg \in S3Config
      /\ obs \in Seq(Observation)
      /\ \A i \in DOMAIN obs : obs[i].tick >= PriceTick[1]
  BY DEF IInv, TypeOK, Setup, BeginBlock
<1>2. BlockOffset \in Nat
  BY DEF BlockOffset, IInv, TypeOK
<1>3. marketPrice' \in Prices
  BY <1>1, <1>2, MarketPriceOnGrid DEF BeginBlock, InitialPrice
<1> DEFINE o == Observed(BlockOffset, marketPrice')
<1>4. o \in Observation /\ o.tick >= PriceTick[1]
  BY <1>2, <1>3, ObservedOnGrid
<1>5. PriceTick[1] \in Nat /\ 1 \in Prices
  BY PricesInterval
<1>6. obs' = Push(obs, o, OracleWindow(cfg))
  BY DEF BeginBlock
<1> HIDE DEF o
<1>7. /\ obs' \in Seq(Observation)
      /\ \A i \in DOMAIN obs' : obs'[i].tick >= PriceTick[1]
  BY <1>1, <1>4, <1>5, <1>6, WindowPositive, PushEffect
<1>8. ReadTwap(obs') \in Prices
  BY <1>5, <1>7, TwapReads
<1>9. growth \in Nat /\ market.shares \in Nat
  BY S3Assumption DEF IInv, TypeOK, Market
<1> QED
  BY <1>3, <1>7, <1>8, <1>9 DEF BeginBlock

(* A new price leaves the totals alone.                                    *)
LEMMA PriceSet ==
    ASSUME NEW m \in Market, NEW p \in Nat
    PROVE  LET n == [m EXCEPT !.price = p]
           IN  /\ n \in Market /\ n.price = p
               /\ n.supply = m.supply /\ n.borrow = m.borrow
               /\ n.shares = m.shares /\ n.badDebt = m.badDebt
               /\ n.coll = m.coll /\ n.fee = m.fee
  BY DEF Market

(* Beginning a block keeps the invariant.                                  *)
LEMMA BeginBlockIInv ==
    ASSUME IInv, NEW growth \in Growths, BeginBlock(growth)
    PROVE  IInv'
<1> DEFINE i == growth * market.shares
           acc == Accrue(market, i)
           p == ReadTwap(obs')
<1>1. /\ marketPrice' \in Prices /\ obs' \in Seq(Observation)
      /\ \A k \in DOMAIN obs' : obs'[k].tick >= PriceTick[1]
      /\ market' = [acc EXCEPT !.price = p] /\ p \in Prices
      /\ growth \in Nat /\ i \in Nat
  BY BeginBlockEffect
<1>2. market \in Market /\ credited \in Nat
  BY DEF IInv, TypeOK
<1>3. acc \in Market /\ acc.supply >= market.supply /\ acc.badDebt = market.badDebt
  BY <1>1, <1>2, AccrueEffect
<1>4. p \in Nat
  BY <1>1, PricesInterval
<1>5. /\ eligible' = Eligible(market', open) /\ phase' = "liquidating"
      /\ phase = "block"
      /\ credited' = credited + (acc.supply - market.supply)
      /\ UNCHANGED <<cfg, open, traj, events>>
  BY DEF BeginBlock
<1>6. HasIndex'
  <2>1. PICK idx \in Nat \ {0} : Indexed(market, open, idx)
    BY DEF IInv, HasIndex
  <2>2. PICK j \in Nat \ {0} : Indexed(acc, open, j)
    BY <1>1, <1>2, <2>1, AccrueIndexed
  <2> HIDE DEF acc, p
  <2>3. market'.shares = acc.shares /\ market'.borrow = acc.borrow
    BY <1>1, <1>3, <1>4, PriceSet
  <2>4. Indexed(market', open', j)
    BY <1>5, <2>2, <2>3 DEF Indexed
  <2> QED
    BY <2>4 DEF HasIndex
<1> HIDE DEF acc, p
<1>7. market' \in Market /\ market'.price \in Prices
  BY <1>1, <1>3, <1>4, PriceSet
<1>8. credited' \in Nat
  <2>1. acc.supply \in Nat /\ market.supply \in Nat
    BY <1>2, <1>3 DEF Market
  <2> QED
    BY <1>2, <1>3, <1>5, <2>1
<1>9. eligible' \subseteq DOMAIN open'
  BY <1>5 DEF Eligible
<1>10. TypeOK'
  BY <1>1, <1>5, <1>7, <1>8, <1>9 DEF IInv, TypeOK
<1>11. Setup'
  BY <1>1, <1>5 DEF IInv, Setup
<1> QED
  BY <1>6, <1>10, <1>11 DEF IInv

(* What a liquidation does to the state.                                   *)
LEMMA LiquidateEffect ==
    ASSUME IInv, NEW b \in Borrowers, Liquidate(b)
    PROVE  LET o == Outcome(open[b], market, marketPrice)
           IN  /\ b \in DOMAIN open /\ open \in Portfolio
               /\ open' = Without(open, b) /\ open' \in Portfolio
               /\ DOMAIN open' = DOMAIN open \ {b}
               /\ \A c \in DOMAIN open' : open'[c] = open[c]
               /\ market \in Market /\ market.price > 0 /\ marketPrice \in Nat
               /\ market' \in Market
               /\ market' = AfterLiquidation(open[b], market, marketPrice)
               /\ market'.price = market.price /\ market'.fee = market.fee
               /\ o.repaid \in Nat /\ o.badDebt \in 0 .. o.repaid
               /\ market'.supply = AtLeastZero(market.supply - o.badDebt)
               /\ market'.borrow = AtLeastZero(market.borrow - o.repaid)
               /\ market'.badDebt = market.badDebt + o.badDebt
               /\ o.repaid <= market.borrow
               /\ \A idx \in Nat \ {0} :
                    Indexed(market, open, idx) => Indexed(market', open', idx)
<1>1. b \in DOMAIN open /\ open \in Portfolio
  BY DEF Liquidate, IInv, TypeOK
<1>2. open' = Without(open, b)
  BY DEF Liquidate
<1>3. market \in Market /\ market.price \in Prices /\ marketPrice \in Prices
  BY DEF IInv, TypeOK
<1>4. market.price > 0 /\ marketPrice \in Nat
  BY <1>3, PricePositive
<1>5. open[b].shares \in Nat /\ open[b].coll \in Nat
  BY <1>1, PortfolioType
<1>6. market' = AfterLiquidation(open[b], market, marketPrice)
  BY DEF Liquidate
<1>7. /\ open' \in Portfolio /\ DOMAIN open' = DOMAIN open \ {b}
      /\ \A c \in DOMAIN open' : open'[c] = open[c]
  BY <1>1, <1>2, WithoutEffect
<1> DEFINE o == Outcome(open[b], market, marketPrice)
<1>8. o.repaid \in Nat /\ o.badDebt \in 0 .. o.repaid
  BY <1>3, <1>4, <1>5, OutcomeBounds
<1>9. /\ market' \in Market
      /\ market'.price = market.price /\ market'.fee = market.fee
      /\ market'.supply = AtLeastZero(market.supply - o.badDebt)
      /\ market'.borrow = AtLeastZero(market.borrow - o.repaid)
      /\ market'.badDebt = market.badDebt + o.badDebt
  <2> DEFINE n == AfterLiquidation(open[b], market, marketPrice)
  <2>1. /\ n \in Market /\ n.price = market.price /\ n.fee = market.fee
        /\ n.supply = AtLeastZero(market.supply - o.badDebt)
        /\ n.borrow = AtLeastZero(market.borrow - o.repaid)
        /\ n.badDebt = market.badDebt + o.badDebt
    BY <1>3, <1>4, <1>5, LiquidationEffect
  <2> HIDE DEF n, o
  <2>2. market' = n
    BY <1>6 DEF n
  <2> QED
    BY <2>1, <2>2
<1>10. ASSUME NEW idx \in Nat \ {0}, Indexed(market, open, idx)
       PROVE  Indexed(market', open', idx) /\ o.repaid <= market.borrow
  BY <1>1, <1>2, <1>3, <1>4, <1>6, <1>10, LiquidationIndexed
<1>11. o.repaid <= market.borrow
  BY <1>10 DEF IInv, HasIndex
<1> HIDE DEF o
<1> QED
  BY <1>1, <1>2, <1>3, <1>4, <1>6, <1>7, <1>8, <1>9, <1>10, <1>11 DEF o

(* A liquidation keeps the invariant.                                      *)
LEMMA LiquidateIInv ==
    ASSUME IInv, NEW b \in Borrowers, Liquidate(b)
    PROVE  IInv'
<1>1. /\ open' \in Portfolio /\ DOMAIN open' = DOMAIN open \ {b}
      /\ market' \in Market /\ market'.price = market.price
  BY LiquidateEffect
<1>2. /\ phase = "liquidating" /\ eligible' = eligible \ {b}
      /\ UNCHANGED <<cfg, phase, marketPrice, obs, traj, credited>>
  BY DEF Liquidate
<1>3. HasIndex'
  <2>1. PICK idx \in Nat \ {0} : Indexed(market, open, idx)
    BY DEF IInv, HasIndex
  <2>2. Indexed(market', open', idx)
    BY <2>1, LiquidateEffect
  <2> QED
    BY <2>2 DEF HasIndex
<1>4. events' \in Seq(Event)
  <2> DEFINE o == Outcome(open[b], market, marketPrice)
             e == [block |-> BlockOffset, borrower |-> b, repaid |-> o.repaid,
                   seized |-> o.seized, realized |-> o.realized,
                   badDebt |-> o.badDebt]
  <2>1. open[b].shares \in Nat /\ open[b].coll \in Nat
    BY LiquidateEffect, PortfolioType
  <2>2. /\ o.repaid \in Nat /\ o.seized \in Nat /\ o.realized \in Nat
        /\ o.badDebt \in Nat
    <3>1. /\ o.repaid \in Nat /\ o.seized \in 0 .. open[b].coll
          /\ o.realized \in Nat /\ o.badDebt \in 0 .. o.repaid
      BY <2>1, LiquidateEffect, OutcomeBounds
    <3> HIDE DEF o
    <3> QED
      BY <2>1, <3>1
  <2>3. BlockOffset \in Nat
    BY DEF BlockOffset, IInv, TypeOK
  <2>4. events' = Append(events, e)
    BY DEF Liquidate
  <2> HIDE DEF o
  <2>5. e \in Event
    BY <2>2, <2>3 DEF Event
  <2> HIDE DEF e
  <2> QED
    BY <2>4, <2>5 DEF IInv, TypeOK
<1>5. eligible' \subseteq DOMAIN open'
  BY <1>1, <1>2 DEF IInv, TypeOK
<1>6. TypeOK'
  BY <1>1, <1>2, <1>4, <1>5 DEF IInv, TypeOK
<1>7. Setup'
  BY <1>2 DEF IInv, Setup
<1> QED
  BY <1>3, <1>6, <1>7 DEF IInv

(* Every step keeps it.                                                    *)
LEMMA NextIInv == IInv /\ [Next]_vars => IInv'
<1> SUFFICES ASSUME IInv, [Next]_vars PROVE IInv'
  OBVIOUS
<1>1. CASE Reject
  BY <1>1 DEF Reject, IInv, TypeOK, Setup, HasIndex, Indexed
<1>2. CASE Begin
  <2> DEFINE x == [market |-> market, open |-> open]
             o == Observed(0, market.price)
  <2>1. market \in Market /\ open \in Portfolio /\ market.price \in Prices
    BY DEF IInv, TypeOK
  <2>2. traj' = <<x>> /\ x \in Snapshot /\ x.market = market
    BY <1>2, <2>1 DEF Begin, Snapshot
  <2> HIDE DEF x
  <2>3. /\ traj' \in Seq(Snapshot) /\ traj' # << >>
        /\ traj'[1].market.price \in Prices
    BY <2>1, <2>2
  <2>4. o \in Observation /\ o.tick >= PriceTick[1] /\ obs' = <<o>>
    BY <1>2, <2>1, ObservedOnGrid DEF Begin
  <2> HIDE DEF o
  <2>5. /\ obs' \in Seq(Observation)
        /\ \A i \in DOMAIN obs' : obs'[i].tick >= PriceTick[1]
    BY <2>4
  <2>6. /\ phase' = "block" /\ ValidConfig(cfg)
        /\ UNCHANGED <<cfg, market, open, eligible, marketPrice, events, credited>>
    BY <1>2 DEF Begin
  <2>7. TypeOK'
    BY <2>3, <2>5, <2>6 DEF IInv, TypeOK, Snapshot
  <2>8. ValidConfig(cfg')
    BY <2>6
  <2>9. Setup'
    BY <2>3, <2>5, <2>6, <2>8 DEF Setup
  <2>10. HasIndex'
    BY <2>6 DEF IInv, HasIndex, Indexed
  <2> QED
    BY <2>7, <2>9, <2>10 DEF IInv
<1>3. CASE EndBlock
  <2> DEFINE x == [market |-> market, open |-> open]
  <2>1. x \in Snapshot /\ traj \in Seq(Snapshot) /\ traj # << >>
    BY <1>3 DEF EndBlock, IInv, TypeOK, Setup, Snapshot
  <2>2. traj' = Append(traj, x)
    BY <1>3 DEF EndBlock
  <2> HIDE DEF x
  <2>3. /\ traj' \in Seq(Snapshot) /\ traj' # << >> /\ traj'[1] = traj[1]
    BY <2>1, <2>2, FirstStays
  <2>4. /\ phase = "liquidating" /\ phase' = "block"
        /\ UNCHANGED <<cfg, market, open, eligible, marketPrice, obs, events,
                       credited>>
    BY <1>3 DEF EndBlock
  <2>5. TypeOK'
    BY <2>3, <2>4 DEF IInv, TypeOK, Snapshot
  <2>6. Setup'
    BY <2>3, <2>4 DEF IInv, Setup
  <2>7. HasIndex'
    BY <2>4 DEF IInv, HasIndex, Indexed
  <2> QED
    BY <2>5, <2>6, <2>7 DEF IInv
<1>4. CASE Finish
  BY <1>4 DEF Finish, IInv, TypeOK, Setup, HasIndex, Indexed
<1>5. CASE \E growth \in Growths : BeginBlock(growth)
  BY <1>5, BeginBlockIInv
<1>6. CASE \E b \in Borrowers : Liquidate(b)
  BY <1>6, LiquidateIInv
<1>7. CASE UNCHANGED vars
  BY <1>7 DEF vars, IInv, TypeOK, Setup, HasIndex, Indexed
<1> QED
  BY <1>1, <1>2, <1>3, <1>4, <1>5, <1>6, <1>7 DEF Next

(* The inductive invariant holds in every reachable state.                 *)
LEMMA IInvInvariant == Spec => []IInv
  BY InitIInv, NextIInv, PTL DEF Spec

-----------------------------------------------------------------------------
(* stress_s3 keeps its variables well typed: no total goes below zero, and *)
(* market and oracle prices stay positive.                                 *)
THEOREM TypeCorrect == Spec => []TypeOK
<1>1. IInv => TypeOK
  BY DEF IInv
<1> QED
  BY <1>1, IInvInvariant, PTL

(* The index makes the open debts add up to the whole.                     *)
LEMMA DebtsAddUp == IInv => SharesMatchPositions
<1> SUFFICES ASSUME IInv PROVE SharesMatchPositions
  OBVIOUS
<1>1. PICK idx \in Nat \ {0} : Indexed(market, open, idx)
  BY DEF IInv, HasIndex
<1>2. market \in Market /\ open \in Portfolio
  BY DEF IInv, TypeOK
<1> DEFINE S == DOMAIN open
           f == [b \in S |-> BorrowAssets(open[b].shares, market)]
           g == [b \in S |-> open[b].shares]
<1>3. IsFiniteSet(S)
  BY <1>2, PortfolioType
<1>4. \A b \in S : g[b] \in Nat /\ f[b] = idx * g[b]
  BY <1>1, <1>2, PortfolioType, DebtOfPosition
<1>5. /\ SharesOf(open) = SumFunctionOnSet(g, S)
      /\ SumFunction(f) = SumFunctionOnSet(f, S)
  BY DEF SharesOf, SumFunction
<1> HIDE DEF f, g
<1>6. SumFunctionOnSet(f, S) = idx * SumFunctionOnSet(g, S)
  BY <1>3, <1>4, SumScale
<1>7. market.borrow = SumFunction(f)
  BY <1>1, <1>5, <1>6 DEF Indexed
<1> QED
  BY <1>1, <1>7 DEF SharesMatchPositions, Indexed, f

(* Share conservation, for every sequence of liquidations and any          *)
(* interest: total_borrow_shares is the sum of the open positions', and    *)
(* their debts make up total_borrow_assets.                                *)
THEOREM SharesAlwaysMatch == Spec => []SharesMatchPositions
  BY DebtsAddUp, IInvInvariant, PTL

-----------------------------------------------------------------------------
(* Beginning a block without a fee adds the same to supply and debt.       *)
LEMMA BeginBlockWithoutFee ==
    ASSUME IInv, NEW growth \in Growths, BeginBlock(growth)
    PROVE  /\ market'.fee = market.fee /\ market'.badDebt = market.badDebt
           /\ credited' = credited + (market'.supply - market.supply)
           /\ market'.supply \in Nat /\ market'.borrow \in Nat
           /\ market.fee = 0 => market'.supply - market'.borrow
                                  = market.supply - market.borrow
<1> DEFINE i == growth * market.shares
           acc == Accrue(market, i)
           p == ReadTwap(obs')
<1>1. market \in Market /\ i \in Nat /\ p \in Nat
      /\ market' = [acc EXCEPT !.price = p]
  BY BeginBlockEffect, PricePositive DEF IInv, TypeOK
<1>2. /\ acc \in Market /\ acc.fee = market.fee /\ acc.badDebt = market.badDebt
      /\ acc = market \/ ( /\ acc.supply = market.supply + SupplierPart(i, market.fee)
                           /\ acc.borrow = market.borrow + i )
  BY <1>1, AccrueEffect
<1>3. market.fee = 0 => SupplierPart(i, market.fee) = i
  BY <1>1, NoFeeWholeInterest
<1>4. credited' = credited + (acc.supply - market.supply)
  BY DEF BeginBlock
<1> HIDE DEF i, acc, p
<1>5. /\ market'.supply = acc.supply /\ market'.borrow = acc.borrow
      /\ market'.fee = acc.fee /\ market'.badDebt = acc.badDebt
  BY <1>1, <1>2, PriceSet
<1>6. /\ market.supply \in Nat /\ market.borrow \in Nat
      /\ acc.supply \in Nat /\ acc.borrow \in Nat
  BY <1>1, <1>2 DEF Market
<1> QED
  BY <1>1, <1>2, <1>3, <1>4, <1>5, <1>6

(* Without a fee the pool is never over-borrowed and no loss is swallowed  *)
(* by the clamp at zero; each needs the other.                             *)
LossesInv == NoOverBorrowWithoutFee /\ SupplyAccounted

(* Every step keeps the account of losses.                                 *)
LEMMA NextLosses == IInv /\ LossesInv /\ [Next]_vars => LossesInv'
<1> SUFFICES ASSUME IInv, LossesInv, [Next]_vars PROVE LossesInv'
  OBVIOUS
<1>1. CASE Reject \/ EndBlock \/ Finish \/ UNCHANGED vars
  <2>1. /\ UNCHANGED <<market, credited>>
        /\ traj' = traj \/ EndBlock
    BY <1>1 DEF Reject, EndBlock, Finish, vars
  <2>2. traj' # << >> => traj # << >> /\ traj'[1] = traj[1]
    <3>1. CASE traj' = traj
      BY <3>1
    <3>2. CASE EndBlock
      <4> DEFINE x == [market |-> market, open |-> open]
      <4>1. x \in Snapshot /\ traj \in Seq(Snapshot) /\ traj # << >>
        BY <3>2 DEF EndBlock, IInv, TypeOK, Setup, Snapshot
      <4>2. traj' = Append(traj, x)
        BY <3>2 DEF EndBlock
      <4> HIDE DEF x
      <4> QED
        BY <4>1, <4>2, FirstStays
    <3> QED
      BY <2>1, <3>1, <3>2
  <2> QED
    BY <2>1, <2>2 DEF LossesInv, NoOverBorrowWithoutFee, SupplyAccounted
<1>2. CASE Begin
  <2>1. /\ UNCHANGED <<market, credited>> /\ phase = "configured"
        /\ traj' = <<[market |-> market, open |-> open]>>
    BY <1>2 DEF Begin
  <2>2. credited = 0 /\ market.badDebt = 0 /\ market \in Market
    BY <2>1 DEF IInv, Setup, TypeOK
  <2>3. traj'[1].market = market
    BY <2>1
  <2>4. market.supply \in Nat
    BY <2>2 DEF Market
  <2> QED
    BY <2>1, <2>2, <2>3, <2>4
    DEF LossesInv, NoOverBorrowWithoutFee, SupplyAccounted
<1>3. ASSUME NEW growth \in Growths, BeginBlock(growth) PROVE LossesInv'
  <2>1. UNCHANGED traj /\ market \in Market /\ credited \in Nat
        /\ traj # << >> /\ traj \in Seq(Snapshot)
    BY <1>3 DEF BeginBlock, IInv, TypeOK, Setup, Snapshot
  <2>2. traj[1].market \in Market
    <3>1. traj[1] \in Snapshot
      BY <2>1
    <3> QED
      BY <3>1 DEF Snapshot
  <2>3. /\ market.supply \in Nat /\ market.borrow \in Nat
        /\ market.badDebt \in Nat /\ traj[1].market.supply \in Nat
    BY <2>1, <2>2 DEF Market
  <2>4. /\ market'.fee = market.fee /\ market'.badDebt = market.badDebt
        /\ credited' = credited + (market'.supply - market.supply)
        /\ market'.supply \in Nat /\ market'.borrow \in Nat
        /\ market.fee = 0 => market'.supply - market'.borrow
                                = market.supply - market.borrow
    BY <1>3, BeginBlockWithoutFee
  <2>5. market.fee = 0 =>
          /\ market.borrow <= market.supply
          /\ market.supply + market.badDebt = traj[1].market.supply + credited
    BY <2>1 DEF LossesInv, NoOverBorrowWithoutFee, SupplyAccounted
  <2>6. market.fee = 0 =>
          /\ market'.borrow <= market'.supply
          /\ market'.supply + market'.badDebt
               = traj[1].market.supply + credited'
    <3> SUFFICES ASSUME market.fee = 0
                 PROVE  /\ market'.borrow <= market'.supply
                        /\ market'.supply + market'.badDebt
                             = traj[1].market.supply + credited'
      OBVIOUS
    <3>1. credited \in Nat
      BY <2>1
    <3> DEFINE s == market'.supply
               d == market'.borrow
               t == traj[1].market.supply
    <3>2. /\ s \in Nat /\ d \in Nat /\ t \in Nat
          /\ s - d = market.supply - market.borrow
          /\ credited' = credited + (s - market.supply)
          /\ market'.badDebt = market.badDebt
      BY <2>3, <2>4
    <3>3. /\ market.borrow <= market.supply
          /\ market.supply + market.badDebt = t + credited
      BY <2>5
    <3> HIDE DEF s, d, t
    <3>4. d <= s /\ s + market.badDebt = t + (credited + (s - market.supply))
      BY <2>3, <3>1, <3>2, <3>3
    <3> QED
      BY <3>2, <3>4 DEF s, d, t
  <2>7. traj' = traj /\ market'.fee = market.fee
    BY <2>1, <2>4
  <2>8. NoOverBorrowWithoutFee'
    BY <2>6, <2>7 DEF NoOverBorrowWithoutFee
  <2>9. SupplyAccounted'
    BY <2>6, <2>7 DEF SupplyAccounted
  <2> QED
    BY <2>8, <2>9 DEF LossesInv
<1>4. ASSUME NEW b \in Borrowers, Liquidate(b) PROVE LossesInv'
  <2> DEFINE o == Outcome(open[b], market, marketPrice)
  <2>1. /\ market \in Market /\ market'.fee = market.fee
        /\ o.repaid \in Nat /\ o.badDebt \in 0 .. o.repaid
        /\ market'.supply = AtLeastZero(market.supply - o.badDebt)
        /\ market'.borrow = AtLeastZero(market.borrow - o.repaid)
        /\ market'.badDebt = market.badDebt + o.badDebt
        /\ o.repaid <= market.borrow
    BY <1>4, LiquidateEffect
  <2>2. UNCHANGED <<traj, credited>>
    BY <1>4 DEF Liquidate
  <2>3. /\ market.supply \in Nat /\ market.borrow \in Nat
        /\ market.badDebt \in Nat
    BY <2>1 DEF Market
  <2> HIDE DEF o
  <2>4. market.fee = 0 => /\ market'.supply = market.supply - o.badDebt
                          /\ market'.borrow = market.borrow - o.repaid
                          /\ market'.borrow <= market'.supply
    BY <2>1, <2>3 DEF LossesInv, NoOverBorrowWithoutFee, AtLeastZero
  <2>5. market.fee = 0 =>
          market'.supply + market'.badDebt = market.supply + market.badDebt
    BY <2>1, <2>3, <2>4
  <2> QED
    BY <2>1, <2>2, <2>4, <2>5
    DEF LossesInv, NoOverBorrowWithoutFee, SupplyAccounted
<1> QED
  BY <1>1, <1>2, <1>3, <1>4 DEF Next

(* It holds at the beginning.                                              *)
LEMMA InitLosses == Init => LossesInv
<1> SUFFICES ASSUME Init PROVE LossesInv
  OBVIOUS
<1>1. PICK positions \in [Borrowers -> Holdings], r \in Reserves,
           p \in InitialPrices, fee \in Fees :
        open = positions /\ market = MarketOf(positions, r, p, fee)
  BY DEF Init
<1> DEFINE debt == Index * SharesOf(open)
<1>2. market.borrow = debt /\ market.supply = debt + r
  BY <1>1 DEF MarketOf
<1>3. debt \in Nat /\ r \in Nat
  <2>1. open \in Portfolio
    BY <1>1 DEF Portfolio
  <2> QED
    BY <2>1, SharesWithout, S3Assumption
<1> HIDE DEF debt
<1>4. market.borrow <= market.supply
  BY <1>2, <1>3
<1>5. traj = << >>
  BY DEF Init
<1> QED
  BY <1>4, <1>5 DEF LossesInv, NoOverBorrowWithoutFee, SupplyAccounted

(* So it always holds.                                                     *)
LEMMA LossesInvariant == Spec => []LossesInv
  BY InitLosses, NextLosses, IInvInvariant, PTL DEF Spec

(* Without a fee the pool is never over-borrowed, however much bad debt    *)
(* the liquidations book.                                                  *)
THEOREM NeverOverBorrowed == Spec => []NoOverBorrowWithoutFee
<1>1. LossesInv => NoOverBorrowWithoutFee
  BY DEF LossesInv
<1> QED
  BY <1>1, LossesInvariant, PTL

(* Without a fee every loss reaches the suppliers: what they have and the  *)
(* bad debt make up what they had and their interest.                      *)
THEOREM LossesAccounted == Spec => []SupplyAccounted
<1>1. LossesInv => SupplyAccounted
  BY DEF LossesInv
<1> QED
  BY <1>1, LossesInvariant, PTL

-----------------------------------------------------------------------------
(* A liquidation changes the debt of no position left.                     *)
LEMMA OthersDebt ==
    ASSUME IInv, NEW b \in Borrowers, Liquidate(b), NEW c \in DOMAIN open'
    PROVE  /\ c \in DOMAIN open /\ open'[c] = open[c]
           /\ BorrowAssets(open[c].shares, market')
                = BorrowAssets(open[c].shares, market)
<1>1. PICK idx \in Nat \ {0} : Indexed(market, open, idx)
  BY DEF IInv, HasIndex
<1>2. /\ open \in Portfolio /\ open' \in Portfolio
      /\ DOMAIN open' = DOMAIN open \ {b} /\ open'[c] = open[c]
      /\ market \in Market /\ market' \in Market
      /\ Indexed(market', open', idx)
  BY <1>1, LiquidateEffect
<1>3. BorrowAssets(open[c].shares, market) = idx * open[c].shares
  BY <1>1, <1>2, DebtOfPosition
<1>4. BorrowAssets(open'[c].shares, market') = idx * open'[c].shares
  BY <1>2, DebtOfPosition
<1> QED
  BY <1>2, <1>3, <1>4

(* liquidate_all_eligible closes the positions of a snapshot, one by one,  *)
(* on running totals; the debts of those waiting never change.             *)
THEOREM OthersKeepTheirDebt == Spec => DebtOfOthersUntouched
<1>1. IInv /\ [Next]_vars =>
        [\A b \in DOMAIN open' :
           phase = "liquidating" =>
             BorrowAssets(open[b].shares, market') = BorrowAssets(open[b].shares, market)]_vars
  <2> SUFFICES ASSUME IInv, Next, NEW c \in DOMAIN open', phase = "liquidating"
               PROVE  BorrowAssets(open[c].shares, market')
                        = BorrowAssets(open[c].shares, market)
    OBVIOUS
  <2>1. CASE \E b \in Borrowers : Liquidate(b)
    BY <2>1, OthersDebt
  <2>2. CASE EndBlock
    BY <2>2 DEF EndBlock
  <2> QED
    BY <2>1, <2>2 DEF Next, Reject, Begin, Finish, BeginBlock
<1> QED
  BY <1>1, IInvInvariant, PTL DEF Spec, DebtOfOthersUntouched

(* The snapshot of the eligible positions never goes stale: what is left   *)
(* of it is what a fresh test would find.                                  *)
THEOREM SnapshotStaysValid == Spec => []SnapshotNeverStale
<1>1. Init => SnapshotNeverStale
  BY DEF Init, SnapshotNeverStale
<1>2. IInv /\ SnapshotNeverStale /\ [Next]_vars => SnapshotNeverStale'
  <2> SUFFICES ASSUME IInv, SnapshotNeverStale, [Next]_vars
               PROVE  SnapshotNeverStale'
    OBVIOUS
  <2>1. CASE Reject \/ Begin \/ EndBlock \/ Finish
    BY <2>1 DEF Reject, Begin, EndBlock, Finish, SnapshotNeverStale
  <2>2. CASE UNCHANGED vars
    BY <2>2 DEF vars, SnapshotNeverStale, Eligible
  <2>3. CASE \E growth \in Growths : BeginBlock(growth)
    BY <2>3 DEF BeginBlock, SnapshotNeverStale, Eligible
  <2>4. ASSUME NEW b \in Borrowers, Liquidate(b) PROVE SnapshotNeverStale'
    <3>1. /\ eligible' = eligible \ {b} /\ phase = "liquidating"
          /\ eligible = Eligible(market, open)
      BY <2>4 DEF Liquidate, SnapshotNeverStale
    <3>2. DOMAIN open' = DOMAIN open \ {b} /\ market'.price = market.price
      BY <2>4, LiquidateEffect
    <3>3. ASSUME NEW c \in DOMAIN open'
          PROVE  Liquidatable(open'[c], market') <=> Liquidatable(open[c], market)
      <4>1. /\ open'[c] = open[c]
            /\ BorrowAssets(open[c].shares, market')
                 = BorrowAssets(open[c].shares, market)
        BY <2>4, OthersDebt
      <4> QED
        BY <3>2, <4>1 DEF Liquidatable
    <3>4. eligible' = Eligible(market', open')
      BY <3>1, <3>2, <3>3 DEF Eligible
    <3> QED
      BY <3>4 DEF SnapshotNeverStale, Eligible
  <2> QED
    BY <2>1, <2>2, <2>3, <2>4 DEF Next
<1> QED
  BY <1>1, <1>2, IInvInvariant, PTL DEF Spec

(* A position is liquidated at most once, and is open until then.          *)
THEOREM OnceAndForAll == Spec => []LiquidatedOnceAndForAll
<1>1. Init => LiquidatedOnceAndForAll
  BY DEF Init, LiquidatedOnceAndForAll
<1>2. IInv /\ LiquidatedOnceAndForAll /\ [Next]_vars => LiquidatedOnceAndForAll'
  <2> SUFFICES ASSUME IInv, LiquidatedOnceAndForAll, [Next]_vars
               PROVE  LiquidatedOnceAndForAll'
    OBVIOUS
  <2>1. ASSUME UNCHANGED <<open, events>> PROVE LiquidatedOnceAndForAll'
    BY <2>1 DEF LiquidatedOnceAndForAll
  <2>2. CASE \/ Reject \/ Begin \/ EndBlock \/ Finish \/ UNCHANGED vars
             \/ \E growth \in Growths : BeginBlock(growth)
    BY <2>1, <2>2 DEF Reject, Begin, EndBlock, Finish, BeginBlock, vars
  <2>3. ASSUME NEW b \in Borrowers, Liquidate(b)
        PROVE  LiquidatedOnceAndForAll'
    <3>1. PICK e : events' = Append(events, e) /\ e.borrower = b
      BY <2>3 DEF Liquidate
    <3>2. b \in DOMAIN open /\ DOMAIN open' = DOMAIN open \ {b}
      BY <2>3, LiquidateEffect
    <3>3. /\ events \in Seq(Event) /\ Len(events) \in Nat
          /\ DOMAIN events = 1 .. Len(events)
      BY DEF IInv, TypeOK
    <3> DEFINE n == Len(events)
    <3>4. /\ DOMAIN events' = 1 .. n + 1 /\ events'[n + 1] = e
          /\ \A i \in 1 .. n : events'[i] = events[i]
      BY <3>1, <3>3
    <3>5. /\ \A i, j \in 1 .. n : events[i].borrower = events[j].borrower => i = j
          /\ DOMAIN open = Borrowers \ {events[i].borrower : i \in 1 .. n}
      BY <3>3 DEF LiquidatedOnceAndForAll
    <3>6. \A i \in 1 .. n : events[i].borrower # b
      BY <3>2, <3>5
    <3> HIDE DEF n
    <3>7. 1 .. n + 1 = (1 .. n) \cup {n + 1}
      BY <3>3 DEF n
    <3>8. \A i, j \in DOMAIN events' :
             events'[i].borrower = events'[j].borrower => i = j
      BY <3>1, <3>4, <3>5, <3>6, <3>7
    <3>9. {events'[i].borrower : i \in DOMAIN events'}
            = {events[i].borrower : i \in 1 .. n} \cup {b}
      BY <3>1, <3>4, <3>7
    <3> QED
      BY <3>2, <3>5, <3>8, <3>9 DEF LiquidatedOnceAndForAll
  <2> QED
    BY <2>2, <2>3 DEF Next
<1> QED
  BY <1>1, <1>2, IInvInvariant, PTL DEF Spec

-----------------------------------------------------------------------------
(* Collateral: no clamp at zero ever hides a seizure.                      *)

(* The collateral of a portfolio is that of one position and of the rest.  *)
LEMMA CollWithout ==
    ASSUME NEW q \in Portfolio
    PROVE  \A b \in DOMAIN q :
             /\ CollOf(Without(q, b)) \in Nat
             /\ CollOf(q) = q[b].coll + CollOf(Without(q, b))
<1> SUFFICES ASSUME NEW b \in DOMAIN q
             PROVE  /\ CollOf(Without(q, b)) \in Nat
                    /\ CollOf(q) = q[b].coll + CollOf(Without(q, b))
  OBVIOUS
<1> DEFINE f == [c \in DOMAIN q |-> q[c].coll]
           g == [c \in DOMAIN Without(q, b) |-> Without(q, b)[c].coll]
<1>1. /\ DOMAIN Without(q, b) = DOMAIN q \ {b}
      /\ \A c \in DOMAIN q \ {b} : Without(q, b)[c] = q[c]
  BY WithoutEffect
<1>2. /\ IsFiniteSet(DOMAIN f) /\ \A c \in DOMAIN f : f[c] \in Nat
      /\ b \in DOMAIN f /\ DOMAIN g = DOMAIN f \ {b}
      /\ \A c \in DOMAIN g : g[c] = f[c]
  BY <1>1, PortfolioType
<1>3. CollOf(q) = SumFunction(f) /\ CollOf(Without(q, b)) = SumFunction(g)
  BY DEF CollOf
<1>4. f[b] = q[b].coll
  OBVIOUS
<1> HIDE DEF f, g
<1>5. SumFunction(g) \in Nat /\ SumFunction(f) = f[b] + SumFunction(g)
  BY <1>2, SumOneMore
<1> QED
  BY <1>3, <1>4, <1>5

(* What a liquidation does to the collateral, and what its event says.     *)
LEMMA LiquidateColl ==
    ASSUME IInv, NEW b \in Borrowers, Liquidate(b)
    PROVE  LET o == Outcome(open[b], market, marketPrice)
           IN  /\ market'.coll = AtLeastZero(market.coll - o.seized)
               /\ open[b].coll \in Nat /\ o.seized \in 0 .. open[b].coll
               /\ events' = Append(events,
                    [block |-> BlockOffset, borrower |-> b,
                     repaid |-> o.repaid, seized |-> o.seized,
                     realized |-> o.realized, badDebt |-> o.badDebt])
<1>1. /\ market \in Market /\ market.price > 0 /\ marketPrice \in Nat
      /\ open[b].shares \in Nat /\ open[b].coll \in Nat
      /\ market' = AfterLiquidation(open[b], market, marketPrice)
  BY LiquidateEffect, PortfolioType
<1> DEFINE o == Outcome(open[b], market, marketPrice)
           n == AfterLiquidation(open[b], market, marketPrice)
<1>2. n.coll = AtLeastZero(market.coll - o.seized)
  BY <1>1, LiquidationEffect
<1>3. o.seized \in 0 .. open[b].coll
  BY <1>1, OutcomeBounds
<1>4. events' = Append(events,
        [block |-> BlockOffset, borrower |-> b, repaid |-> o.repaid,
         seized |-> o.seized, realized |-> o.realized, badDebt |-> o.badDebt])
  BY DEF Liquidate
<1>5. market' = n
  BY <1>1
<1> HIDE DEF n, o
<1> QED
  BY <1>1, <1>2, <1>3, <1>4, <1>5 DEF o

(* The books of the events, with what keeps them: the market has at least  *)
(* the collateral of the open positions, so that no seizure is clamped.    *)
EventsInv ==
    /\ EventsExplainLosses
    /\ market.coll >= CollOf(open)
    /\ traj = << >> => events = << >>

(* The sum of a part of the events as one is appended.                     *)
LEMMA SumOfEventsAppended ==
    ASSUME events \in Seq(Event), NEW e \in Event, events' = Append(events, e),
           NEW part \in {"badDebt", "seized"}
    PROVE  /\ SumOfEvents(part) \in Nat
           /\ SumOfEvents(part)' = SumOfEvents(part) + e[part]
<1> DEFINE n == Len(events)
           g == [i \in DOMAIN events |-> events[i][part]]
           f == [i \in DOMAIN events' |-> events'[i][part]]
<1>1. /\ n \in Nat /\ DOMAIN events = 1 .. n /\ DOMAIN events' = 1 .. n + 1
      /\ events'[n + 1] = e /\ \A i \in 1 .. n : events'[i] = events[i]
      /\ \A i \in 1 .. n : events[i] \in Event
  OBVIOUS
<1>2. \A x \in Event : x[part] \in Nat
  BY DEF Event
<1>3. /\ DOMAIN f = 1 .. n + 1 /\ DOMAIN g = 1 .. n
      /\ \A i \in 1 .. n : g[i] = f[i] /\ f[i] \in Nat
      /\ f[n + 1] = e[part] /\ f[n + 1] \in Nat
  BY <1>1, <1>2
<1>4. SumOfEvents(part) = SumFunction(g) /\ SumOfEvents(part)' = SumFunction(f)
  BY DEF SumOfEvents
<1> HIDE DEF f, g, n
<1>5. \A i \in 1 .. n + 1 : f[i] \in Nat
  BY <1>1, <1>3
<1> QED
  BY <1>1, <1>3, <1>4, <1>5, SumAppended, SMTT(30)

(* Beginning a block touches neither collateral nor bad debt.              *)
LEMMA BeginBlockColl ==
    ASSUME IInv, NEW growth \in Growths, BeginBlock(growth)
    PROVE  market'.coll = market.coll /\ market'.badDebt = market.badDebt
<1> DEFINE acc == Accrue(market, growth * market.shares)
           p == ReadTwap(obs')
<1>1. /\ market \in Market /\ growth * market.shares \in Nat /\ p \in Nat
      /\ market' = [acc EXCEPT !.price = p]
  BY BeginBlockEffect, PricePositive DEF IInv, TypeOK
<1>2. acc \in Market /\ acc.coll = market.coll /\ acc.badDebt = market.badDebt
  BY <1>1, AccrueEffect
<1> HIDE DEF acc, p
<1> QED
  BY <1>1, <1>2, PriceSet

(* No events, no losses.                                                   *)
LEMMA NoEvents ==
    ASSUME events = << >>, NEW part PROVE SumOfEvents(part) = 0
<1> DEFINE g == [i \in DOMAIN events |-> events[i][part]]
<1>1. DOMAIN g = {}
  OBVIOUS
<1>2. SumOfEvents(part) = SumFunctionOnSet(g, {})
  BY <1>1 DEF SumOfEvents, SumFunction
<1> HIDE DEF g
<1>3. IsFiniteSet({})
  BY FS_EmptySet
<1> QED
  BY <1>2, <1>3, SumStep

(* Steps that leave the market's losses, the open positions and the events *)
(* alone, and keep the first state of the trajectory, keep the books.      *)
LEMMA BooksUntouched ==
    ASSUME EventsInv, UNCHANGED <<open, events>>,
           market'.coll = market.coll, market'.badDebt = market.badDebt,
           traj' # << >> => traj # << >> /\ traj'[1] = traj[1],
           traj' = << >> => traj = << >>
    PROVE  EventsInv'
<1>1. /\ \A part \in {"badDebt", "seized"} : SumOfEvents(part)' = SumOfEvents(part)
      /\ CollOf(open') = CollOf(open)
  BY DEF SumOfEvents
<1> QED
  BY <1>1 DEF EventsInv, EventsExplainLosses, TotalBadDebt

(* One liquidation keeps the books.                                        *)
LEMMA LiquidateBooks ==
    ASSUME IInv, EventsInv, NEW b \in Borrowers, Liquidate(b)
    PROVE  EventsInv'
<1> DEFINE o == Outcome(open[b], market, marketPrice)
           e == [block |-> BlockOffset, borrower |-> b, repaid |-> o.repaid,
                 seized |-> o.seized, realized |-> o.realized,
                 badDebt |-> o.badDebt]
<1>1. /\ b \in DOMAIN open /\ open \in Portfolio /\ open' = Without(open, b)
      /\ market \in Market /\ o.repaid \in Nat /\ o.badDebt \in 0 .. o.repaid
      /\ market'.badDebt = market.badDebt + o.badDebt
  BY LiquidateEffect
<1>2. /\ market'.coll = AtLeastZero(market.coll - o.seized)
      /\ open[b].coll \in Nat /\ o.seized \in 0 .. open[b].coll
      /\ events' = Append(events, e)
  BY LiquidateColl
<1>3. o.realized \in Nat
  BY LiquidateEffect, PortfolioType, OutcomeBounds
<1>4. events \in Seq(Event) /\ UNCHANGED traj /\ traj # << >>
  BY DEF IInv, TypeOK, Setup, Liquidate
<1>5. BlockOffset \in Nat
  BY DEF BlockOffset, IInv, TypeOK
<1> HIDE DEF o
<1>6. e \in Event
  BY <1>1, <1>2, <1>3, <1>5 DEF Event
<1>7. /\ e.badDebt = o.badDebt /\ e.seized = o.seized
      /\ e["badDebt"] = o.badDebt /\ e["seized"] = o.seized
  OBVIOUS
<1> HIDE DEF e
<1>8. /\ SumOfEvents("badDebt") \in Nat /\ SumOfEvents("seized") \in Nat
      /\ SumOfEvents("badDebt")' = SumOfEvents("badDebt") + o.badDebt
      /\ SumOfEvents("seized")' = SumOfEvents("seized") + o.seized
  BY <1>2, <1>4, <1>6, <1>7, SumOfEventsAppended
<1>9. /\ CollOf(open') \in Nat /\ CollOf(open) = open[b].coll + CollOf(open')
      /\ market.coll >= CollOf(open) /\ market.coll \in Nat
  BY <1>1, CollWithout DEF EventsInv, Market
<1>10. market'.coll = market.coll - o.seized /\ market'.coll >= CollOf(open')
  BY <1>2, <1>9 DEF AtLeastZero
<1>11. /\ market.badDebt = SumOfEvents("badDebt")
       /\ market.coll = traj[1].market.coll - SumOfEvents("seized")
       /\ traj' = traj
  BY <1>4 DEF EventsInv, EventsExplainLosses, TotalBadDebt
<1>12. traj[1].market.coll \in Nat
  <2>1. traj \in Seq(Snapshot)
    BY DEF IInv, TypeOK, Snapshot
  <2>2. traj[1] \in Snapshot
    BY <1>4, <2>1
  <2> QED
    BY <2>2 DEF Snapshot, Market
<1>13. market'.badDebt = SumOfEvents("badDebt")'
  BY <1>1, <1>8, <1>11
<1>14. market'.coll = traj[1].market.coll - SumOfEvents("seized")'
  <2> DEFINE t == traj[1].market.coll
             s == SumOfEvents("seized")
             q == o.seized
             c == market.coll
  <2>1. t \in Nat /\ s \in Nat /\ q \in Nat /\ c = t - s
    BY <1>2, <1>8, <1>11, <1>12
  <2>2. market'.coll = c - q /\ SumOfEvents("seized")' = s + q
    BY <1>8, <1>10
  <2> HIDE DEF t, s, q, c
  <2>3. c - q = t - (s + q)
    BY <2>1
  <2> QED
    BY <2>2, <2>3 DEF t
<1> QED
  BY <1>4, <1>10, <1>11, <1>13, <1>14
  DEF EventsInv, EventsExplainLosses, TotalBadDebt

(* The trajectory's first state once the trajectory has begun.             *)
LEMMA FirstKept ==
    ASSUME IInv, [Next]_vars, ~Begin
    PROVE  /\ traj' # << >> => traj # << >> /\ traj'[1] = traj[1]
           /\ traj' = << >> => traj = << >>
<1>1. CASE traj' = traj
  BY <1>1
<1>2. CASE EndBlock
  <2> DEFINE x == [market |-> market, open |-> open]
  <2>1. x \in Snapshot /\ traj \in Seq(Snapshot) /\ traj # << >>
    BY <1>2 DEF EndBlock, IInv, TypeOK, Setup, Snapshot
  <2>2. traj' = Append(traj, x)
    BY <1>2 DEF EndBlock
  <2> HIDE DEF x
  <2> QED
    BY <2>1, <2>2, FirstStays
<1> QED
  BY <1>1, <1>2 DEF Next, Reject, Finish, BeginBlock, Liquidate, vars

(* Every step keeps the sums over the events.                              *)
LEMMA NextEvents == IInv /\ EventsInv /\ [Next]_vars => EventsInv'
<1> SUFFICES ASSUME IInv, EventsInv, [Next]_vars PROVE EventsInv'
  OBVIOUS
<1>1. CASE Reject \/ EndBlock \/ Finish \/ UNCHANGED vars
  <2>1. (UNCHANGED <<market, open, events>> /\ ~Begin) \/ UNCHANGED vars
    BY <1>1 DEF Reject, EndBlock, Finish, Begin
  <2>2. CASE UNCHANGED vars
    BY <2>2, BooksUntouched DEF vars
  <2>3. CASE UNCHANGED <<market, open, events>> /\ ~Begin
    BY <2>3, FirstKept, BooksUntouched
  <2> QED
    BY <2>1, <2>2, <2>3
<1>2. CASE Begin
  <2>1. /\ UNCHANGED <<market, open, events>> /\ events = << >>
        /\ traj' = <<[market |-> market, open |-> open]>>
    BY <1>2 DEF Begin, IInv, Setup, EventsInv
  <2>2. traj' # << >> /\ traj'[1].market = market
    BY <2>1
  <2>3. SumOfEvents("seized") = 0 /\ market.coll \in Nat
    BY <2>1, NoEvents DEF IInv, TypeOK, Market
  <2>4. /\ SumOfEvents("badDebt")' = SumOfEvents("badDebt")
        /\ SumOfEvents("seized")' = SumOfEvents("seized")
        /\ CollOf(open') = CollOf(open)
    BY <2>1 DEF SumOfEvents
  <2>5. market.coll = traj'[1].market.coll - SumOfEvents("seized")
    BY <2>2, <2>3
  <2> QED
    BY <2>1, <2>2, <2>4, <2>5 DEF EventsInv, EventsExplainLosses, TotalBadDebt
<1>3. ASSUME NEW growth \in Growths, BeginBlock(growth) PROVE EventsInv'
  <2>1. UNCHANGED <<open, events, traj>>
    BY <1>3 DEF BeginBlock
  <2>2. market'.coll = market.coll /\ market'.badDebt = market.badDebt
    BY <1>3, BeginBlockColl
  <2> QED
    BY <2>1, <2>2, BooksUntouched
<1>4. ASSUME NEW b \in Borrowers, Liquidate(b) PROVE EventsInv'
  BY <1>4, LiquidateBooks
<1> QED
  BY <1>1, <1>2, <1>3, <1>4 DEF Next

(* They hold at the beginning.                                             *)
LEMMA InitEvents == Init => EventsInv
<1> SUFFICES ASSUME Init PROVE EventsInv
  OBVIOUS
<1>1. PICK positions \in [Borrowers -> Holdings], r \in Reserves,
           p \in InitialPrices, fee \in Fees :
        open = positions /\ market = MarketOf(positions, r, p, fee)
  BY DEF Init
<1>2. market.coll = CollOf(open) /\ market.badDebt = 0 /\ market.coll \in Nat
  <2>1. market.coll = CollOf(open) /\ market.badDebt = 0
    BY <1>1 DEF MarketOf
  <2>2. market \in Market
    BY InitIInv DEF IInv, TypeOK
  <2> QED
    BY <2>1, <2>2 DEF Market
<1>3. events = << >> /\ traj = << >>
  BY DEF Init
<1>4. SumOfEvents("badDebt") = 0
  BY <1>3, NoEvents
<1> QED
  BY <1>2, <1>3, <1>4 DEF EventsInv, EventsExplainLosses, TotalBadDebt

(* The events account for what the state has lost: the total bad debt is   *)
(* the sum over the liquidations, and what the market has lost in          *)
(* collateral is what they seized.                                         *)
THEOREM EventsExplain == Spec => []EventsExplainLosses
<1>1. EventsInv => EventsExplainLosses
  BY DEF EventsInv
<1> QED
  BY <1>1, InitEvents, NextEvents, IInvInvariant, PTL DEF Spec

-----------------------------------------------------------------------------
(* The order-free specification of a block.                                *)

(* The arithmetic of BlockwiseS3 is that of this module.                   *)
LEMMA SameSum ==
    ASSUME NEW f PROVE Blockwise!SumFunction(f) = SumFunction(f)
  BY DEF Blockwise!SumFunction, SumFunction,
         Blockwise!SumFunctionOnSet, SumFunctionOnSet,
         Blockwise!FoldFunctionOnSet, FoldFunctionOnSet,
         Blockwise!MapThenFoldSet, MapThenFoldSet

(* The instance's oracle reading is the same operator.                     *)
LEMMA SameTwap ==
    ASSUME NEW o PROVE Blockwise!ReadTwap(o) = ReadTwap(o)
<1>1. \A i : Blockwise!Weight(o, i) = Weight(o, i)
  BY DEF Blockwise!Weight, Weight, Blockwise!Max, Max
<1>2. Blockwise!TotalWeight(o) = TotalWeight(o)
  BY <1>1, SameSum DEF Blockwise!TotalWeight, TotalWeight
<1>3. Blockwise!TickSum(o) = TickSum(o)
  BY <1>1, SameSum DEF Blockwise!TickSum, TickSum
<1> QED
  BY <1>2, <1>3
  DEF Blockwise!ReadTwap, ReadTwap, Blockwise!TickToPrice, TickToPrice,
      Blockwise!Prices, Prices, Blockwise!Max, Max

(* So is its liquidation.                                                  *)
LEMMA SameOutcome ==
    ASSUME NEW p, NEW m, NEW x
    PROVE  /\ Blockwise!Liquidatable(p, m) = Liquidatable(p, m)
           /\ Blockwise!Outcome(p, m, x) = Outcome(p, m, x)
<1>1. Blockwise!BorrowAssets(p.shares, m) = BorrowAssets(p.shares, m)
  BY DEF Blockwise!BorrowAssets, BorrowAssets
<1>2. \A v : Blockwise!Proceeds(v, x) = Proceeds(v, x)
  BY DEF Blockwise!Proceeds, Proceeds, Blockwise!Slippage, Slippage,
         Blockwise!Least, Least
<1>3. Blockwise!LifNum = LifNum /\ Blockwise!LifDen = LifDen
  BY DEF Blockwise!LifNum, LifNum, Blockwise!LifDen, LifDen,
         Blockwise!LifCapped, LifCapped
<1> QED
  BY <1>1, <1>2, <1>3
  DEF Blockwise!Liquidatable, Liquidatable, Blockwise!Outcome, Outcome,
      Blockwise!Least, Least, Blockwise!AtLeastZero, AtLeastZero

(* So are its path and its choice of oracle.                               *)
LEMMA SameScenario ==
    ASSUME NEW c, NEW p0
    PROVE  /\ Blockwise!ValidConfig(c) <=> ValidConfig(c)
           /\ Blockwise!OracleWindow(c) = OracleWindow(c)
           /\ \A k : Blockwise!MarketPriceAt(c, p0, k) = MarketPriceAt(c, p0, k)
  BY DEF Blockwise!ValidConfig, ValidConfig, Blockwise!OracleWindow, OracleWindow,
         Blockwise!MarketPriceAt, MarketPriceAt, Blockwise!Progress, Progress,
         Blockwise!Min, Min

(* What the oracle has observed by block k of a path that starts at p0.    *)
FirstSeen(c, k) == Max({0, k + 1 - OracleWindow(c)})
ObservedPath(c, p0, k) ==
    [i \in 1 .. k - FirstSeen(c, k) + 1 |->
        Observed(FirstSeen(c, k) + i - 1,
                 MarketPriceAt(c, p0, FirstSeen(c, k) + i - 1))]

(* The market of a block that begins after `last`, with its interest and   *)
(* the price read off the observations, before any liquidation.            *)
Accrued(last, growth, seen) ==
    [Accrue(last.market, growth * last.market.shares)
       EXCEPT !.price = ReadTwap(seen)]

(* The liquidations of a block, all against the market it began with.      *)
OutcomesOf(last, m, price) ==
    [b \in Eligible(m, last.open) |-> Outcome(last.open[b], m, price)]

SumOver(outcome, part, S) ==
    SumFunctionOnSet([b \in DOMAIN outcome |-> outcome[b][part]], S)

(* In the middle of a block that began with market m: the positions        *)
(* liquidated so far are those of the snapshot that no longer wait, the    *)
(* totals have moved by the sums of what their liquidations did, and who   *)
(* waits owes what it owed.                                                *)
MidBlock(last, m, price, mkt, left, waiting) ==
    LET all     == Eligible(m, last.open)
        done    == all \ waiting
        outcome == OutcomesOf(last, m, price)
    IN  /\ m \in Market /\ m.price > 0 /\ waiting \subseteq all
        /\ DOMAIN left = DOMAIN last.open \ done
        /\ \A b \in DOMAIN left : left[b] = last.open[b]
        /\ \A b \in waiting : BorrowAssets(left[b].shares, mkt)
                                = BorrowAssets(left[b].shares, m)
        /\ mkt.price = m.price /\ mkt.fee = m.fee /\ mkt.queued = m.queued
        /\ mkt.borrow = m.borrow - SumOver(outcome, "repaid", done)
        /\ mkt.shares = m.shares - SumOver(last.open, "shares", done)
        /\ mkt.coll = m.coll - SumOver(outcome, "seized", done)
        /\ mkt.supply = AtLeastZero(m.supply - SumOver(outcome, "badDebt", done))
        /\ mkt.badDebt = m.badDebt + SumOver(outcome, "badDebt", done)

(* The oracle has seen the path, the trajectory ends with the state a      *)
(* block begins with, and in a block the totals are those of MidBlock.     *)
BlockInv ==
    /\ phase = "block" =>
         /\ obs = ObservedPath(cfg, InitialPrice, Len(traj) - 1)
         /\ traj[Len(traj)] = [market |-> market, open |-> open]
    /\ phase = "liquidating" =>
         /\ obs = ObservedPath(cfg, InitialPrice, Len(traj))
         /\ marketPrice = MarketPriceAt(cfg, InitialPrice, Len(traj))
         /\ Len(traj) <= cfg.horizon
         /\ \E growth \in Growths :
              MidBlock(traj[Len(traj)], Accrued(traj[Len(traj)], growth, obs),
                       marketPrice, market, open, eligible)

(* The first block the window still holds.                                 *)
LEMMA FirstSeenIs ==
    ASSUME NEW c \in S3Config, NEW k \in Nat
    PROVE  LET w == OracleWindow(c)
           IN  FirstSeen(c, k) = IF k + 1 <= w THEN 0 ELSE k + 1 - w
<1> DEFINE w == OracleWindow(c)
           x == k + 1 - w
           S == {0, x}
<1>1. w \in Nat \ {0}
  BY WindowPositive
<1> HIDE DEF w
<1>2. x \in Int
  BY <1>1
<1>3. \E y \in S : \A z \in S : y >= z
  BY <1>2
<1>4. Max(S) \in S /\ \A z \in S : Max(S) >= z
  BY <1>3 DEF Max
<1>5. FirstSeen(c, k) = Max(S)
  BY DEF FirstSeen, w
<1> QED
  BY <1>1, <1>2, <1>4, <1>5 DEF w

(* Pushing the observation of the next block moves the window along.       *)
LEMMA PathPushed ==
    ASSUME NEW c \in S3Config, ValidConfig(c), NEW p0 \in Prices, NEW k \in Nat
    PROVE  Push(ObservedPath(c, p0, k),
                Observed(k + 1, MarketPriceAt(c, p0, k + 1)), OracleWindow(c))
             = ObservedPath(c, p0, k + 1)
<1> DEFINE w == OracleWindow(c)
           f == FirstSeen(c, k)
           g == FirstSeen(c, k + 1)
           O(j) == Observed(j, MarketPriceAt(c, p0, j))
           s == ObservedPath(c, p0, k)
           all == Append(s, O(k + 1))
<1>1. w \in Nat \ {0}
  BY WindowPositive
<1>2. /\ f = (IF k + 1 <= w THEN 0 ELSE k + 1 - w)
      /\ g = (IF k + 2 <= w THEN 0 ELSE k + 2 - w)
  <2>1. f = IF k + 1 <= w THEN 0 ELSE k + 1 - w
    BY FirstSeenIs
  <2>2. g = IF (k + 1) + 1 <= w THEN 0 ELSE (k + 1) + 1 - w
    BY FirstSeenIs
  <2> HIDE DEF f, g, w
  <2> QED
    BY <1>1, <2>1, <2>2
<1>3. s = [i \in 1 .. k - f + 1 |-> O(f + i - 1)]
  BY DEF ObservedPath
<1>4. ObservedPath(c, p0, k + 1) = [i \in 1 .. (k + 1) - g + 1 |-> O(g + i - 1)]
  BY DEF ObservedPath
<1>5. \A j \in Nat : O(j) \in Observation
  BY MarketPriceOnGrid, ObservedOnGrid
<1> HIDE DEF w, f, g, O, s
<1>6. f \in 0 .. k /\ g \in 0 .. k + 1
  BY <1>1, <1>2
<1>7. s \in Seq(Observation) /\ Len(s) = k - f + 1
  <2>1. \A i \in 1 .. k - f + 1 : O(f + i - 1) \in Observation
    BY <1>5, <1>6
  <2>2. k - f + 1 \in Nat
    BY <1>6
  <2> QED
    BY <1>3, <2>1, <2>2
<1>8. /\ all \in Seq(Observation) /\ Len(all) = k - f + 2
      /\ \A i \in 1 .. k - f + 2 : all[i] = O(f + i - 1)
  <2>1. O(k + 1) \in Observation
    BY <1>5
  <2>2. all \in Seq(Observation) /\ Len(all) = k - f + 2
    BY <1>6, <1>7, <2>1
  <2>3. \A i \in 1 .. k - f + 1 : all[i] = O(f + i - 1)
    BY <1>3, <1>6, <1>7, <2>1
  <2>4. all[k - f + 2] = O(k + 1) /\ f + (k - f + 2) - 1 = k + 1
    BY <1>6, <1>7, <2>1
  <2> QED
    BY <1>6, <2>2, <2>3, <2>4, SMTT(30)
<1> HIDE DEF all
<1>9. CASE k + 2 <= w
  <2>1. f = 0 /\ g = 0
    BY <1>2, <1>9, <1>1
  <2>2. ~(Len(all) > w)
    BY <1>1, <1>8, <1>9, <2>1
  <2>3. all = [i \in 1 .. (k + 1) - g + 1 |-> O(g + i - 1)]
    <3>1. DOMAIN all = 1 .. k + 2 /\ (k + 1) - g + 1 = k + 2
      BY <1>8, <2>1
    <3>2. \A i \in 1 .. k + 2 : all[i] = O(g + i - 1)
      BY <1>8, <2>1
    <3> QED
      BY <1>8, <3>1, <3>2
  <2> QED
    BY <1>4, <2>2, <2>3 DEF Push, all, s, O, w
<1>10. CASE k + 2 > w
  <2>1. g = f + 1 /\ k - f + 2 = w + 1
    BY <1>1, <1>2, <1>10
  <2>2. Len(all) > w
    BY <1>1, <1>8, <2>1
  <2>3. Tail(all) = [i \in 1 .. (k + 1) - g + 1 |-> O(g + i - 1)]
    <3>1. (k + 1) - g + 1 = w
      BY <1>1, <1>6, <2>1
    <3>2. /\ Tail(all) \in Seq(Observation) /\ Len(Tail(all)) = w
          /\ \A i \in 1 .. w : Tail(all)[i] = all[i + 1]
      BY <1>1, <1>8, <2>1
    <3>3. \A i \in 1 .. w : all[i + 1] = O(g + i - 1)
      <4> SUFFICES ASSUME NEW i \in 1 .. w PROVE all[i + 1] = O(g + i - 1)
        OBVIOUS
      <4>1. i + 1 \in 1 .. k - f + 2 /\ f + (i + 1) - 1 = g + i - 1
        BY <1>1, <1>6, <2>1
      <4> QED
        BY <1>8, <4>1
    <3>4. Tail(all) = [i \in 1 .. w |-> Tail(all)[i]]
      <4> DEFINE t == Tail(all)
      <4>1. t \in Seq(Observation) /\ Len(t) = w
        BY <3>2
      <4> HIDE DEF t
      <4>2. t = [i \in 1 .. w |-> t[i]]
        BY <4>1
      <4> QED
        BY <4>2 DEF t
    <3>5. \A i \in 1 .. w : Tail(all)[i] = O(g + i - 1)
      BY <3>2, <3>3
    <3> QED
      BY <3>1, <3>4, <3>5
  <2> QED
    BY <1>4, <2>2, <2>3 DEF Push, all, s, O, w
<1> QED
  BY <1>1, <1>9, <1>10

(* A total over the positions of a block, as one more is liquidated.       *)
LEMMA SumOverStep ==
    ASSUME NEW outcome, NEW part, IsFiniteSet(DOMAIN outcome),
           \A b \in DOMAIN outcome : outcome[b][part] \in Nat
    PROVE  /\ SumOver(outcome, part, {}) = 0
           /\ \A S \in SUBSET DOMAIN outcome : SumOver(outcome, part, S) \in Nat
           /\ \A S \in SUBSET DOMAIN outcome : \A b \in DOMAIN outcome \ S :
                SumOver(outcome, part, S \cup {b})
                  = SumOver(outcome, part, S) + outcome[b][part]
<1> DEFINE f == [b \in DOMAIN outcome |-> outcome[b][part]]
<1>1. \A S : SumOver(outcome, part, S) = SumFunctionOnSet(f, S)
  BY DEF SumOver
<1>2. \A b \in DOMAIN outcome : f[b] \in Nat /\ f[b] = outcome[b][part]
  OBVIOUS
<1> HIDE DEF f
<1>3. SumFunctionOnSet(f, {}) = 0
  BY FS_EmptySet, SumStep
<1>4. ASSUME NEW S \in SUBSET DOMAIN outcome
      PROVE  SumFunctionOnSet(f, S) \in Nat
  BY <1>2, FS_Subset, SumNat
<1>5. ASSUME NEW S \in SUBSET DOMAIN outcome, NEW b \in DOMAIN outcome \ S
      PROVE  SumFunctionOnSet(f, S \cup {b}) = SumFunctionOnSet(f, S) + f[b]
  <2> DEFINE T == S \cup {b}
  <2>1. T \in SUBSET DOMAIN outcome /\ b \in T /\ T \ {b} = S
    OBVIOUS
  <2>2. IsFiniteSet(T) /\ \A x \in T : f[x] \in Nat
    BY <1>2, <2>1, FS_Subset
  <2> HIDE DEF T
  <2>3. SumFunctionOnSet(f, T) = f[b] + SumFunctionOnSet(f, T \ {b})
    BY <2>1, <2>2, SumRemove
  <2>4. SumFunctionOnSet(f, S) \in Nat /\ f[b] \in Nat
    BY <1>2, <1>4
  <2> QED
    BY <2>1, <2>3, <2>4 DEF T
<1> QED
  BY <1>1, <1>2, <1>3, <1>4, <1>5

(* The outcomes of a block and the positions they are those of.            *)
LEMMA OutcomesType ==
    ASSUME NEW last \in Snapshot, NEW m \in Market, m.price > 0,
           NEW price \in Nat
    PROVE  LET all     == Eligible(m, last.open)
               outcome == OutcomesOf(last, m, price)
           IN  /\ DOMAIN outcome = all /\ IsFiniteSet(all)
               /\ all \subseteq DOMAIN last.open
               /\ IsFiniteSet(DOMAIN last.open)
               /\ \A b \in DOMAIN last.open : last.open[b].shares \in Nat
               /\ \A b \in all :
                    /\ outcome[b] = Outcome(last.open[b], m, price)
                    /\ outcome[b].repaid \in Nat /\ outcome[b].seized \in Nat
                    /\ outcome[b].badDebt \in Nat
<1> DEFINE all == Eligible(m, last.open)
           outcome == OutcomesOf(last, m, price)
<1>1. last.open \in Portfolio
  BY DEF Snapshot
<1>2. /\ IsFiniteSet(DOMAIN last.open)
      /\ \A b \in DOMAIN last.open :
           last.open[b].shares \in Nat /\ last.open[b].coll \in Nat
  BY <1>1, PortfolioType
<1>3. all \subseteq DOMAIN last.open
  BY DEF Eligible
<1>4. IsFiniteSet(all)
  BY <1>2, <1>3, FS_Subset
<1>5. DOMAIN outcome = all /\ \A b \in all : outcome[b] = Outcome(last.open[b], m, price)
  BY DEF OutcomesOf
<1>6. ASSUME NEW b \in all
      PROVE  /\ outcome[b].repaid \in Nat /\ outcome[b].seized \in Nat
             /\ outcome[b].badDebt \in Nat
  <2> DEFINE o == Outcome(last.open[b], m, price)
  <2>1. last.open[b].shares \in Nat /\ last.open[b].coll \in Nat
    BY <1>2, <1>3
  <2>2. /\ o.repaid \in Nat /\ o.seized \in 0 .. last.open[b].coll
        /\ o.badDebt \in 0 .. o.repaid
    BY <2>1, OutcomeBounds
  <2>3. outcome[b] = o
    BY <1>5
  <2> HIDE DEF o, outcome
  <2> QED
    BY <2>1, <2>2, <2>3
<1> QED
  BY <1>2, <1>3, <1>4, <1>5, <1>6

(* A block begins with nothing liquidated.                                 *)
LEMMA MidBlockBegins ==
    ASSUME NEW last \in Snapshot, NEW m \in Market, m.price > 0,
           NEW price \in Nat
    PROVE  MidBlock(last, m, price, m, last.open, Eligible(m, last.open))
<1> DEFINE all == Eligible(m, last.open)
           outcome == OutcomesOf(last, m, price)
<1>1. /\ DOMAIN outcome = all /\ IsFiniteSet(all)
      /\ IsFiniteSet(DOMAIN last.open)
      /\ \A b \in DOMAIN last.open : last.open[b].shares \in Nat
      /\ \A b \in all : /\ outcome[b].repaid \in Nat /\ outcome[b].seized \in Nat
                        /\ outcome[b].badDebt \in Nat
  BY OutcomesType
<1> HIDE DEF outcome
<1>2. /\ SumOver(outcome, "repaid", {}) = 0 /\ SumOver(outcome, "seized", {}) = 0
      /\ SumOver(outcome, "badDebt", {}) = 0
      /\ SumOver(last.open, "shares", {}) = 0
  BY <1>1, SumOverStep
<1>3. /\ m.borrow \in Nat /\ m.shares \in Nat /\ m.coll \in Nat
      /\ m.supply \in Nat /\ m.badDebt \in Nat
  BY DEF Market
<1>4. all \ all = {} /\ DOMAIN last.open \ {} = DOMAIN last.open
  OBVIOUS
<1>5. /\ m.borrow = m.borrow - 0 /\ m.shares = m.shares - 0
      /\ m.coll = m.coll - 0 /\ m.badDebt = m.badDebt + 0
      /\ m.supply = AtLeastZero(m.supply - 0)
  BY <1>3 DEF AtLeastZero
<1> HIDE DEF all
<1> QED
  BY <1>2, <1>4, <1>5 DEF MidBlock, outcome, all

(* One liquidation in the middle of a block.                               *)
LEMMA MidBlockStep ==
    ASSUME NEW last \in Snapshot, NEW m, NEW price \in Nat, NEW mkt \in Market,
           NEW left \in Portfolio, NEW waiting, NEW b \in waiting,
           b \in DOMAIN left,
           MidBlock(last, m, price, mkt, left, waiting),
           NEW n, n = AfterLiquidation(left[b], mkt, price),
           Outcome(left[b], mkt, price).repaid <= mkt.borrow,
           Outcome(left[b], mkt, price).seized <= mkt.coll,
           n.shares = mkt.shares - left[b].shares,
           \A c \in DOMAIN left \ {b} :
             BorrowAssets(left[c].shares, n) = BorrowAssets(left[c].shares, mkt),
           waiting \subseteq DOMAIN left
    PROVE  MidBlock(last, m, price, n, Without(left, b), waiting \ {b})
<1> DEFINE all == Eligible(m, last.open)
           done == all \ waiting
           outcome == OutcomesOf(last, m, price)
           now == done \cup {b}
           o == Outcome(left[b], mkt, price)
<1>1. /\ m \in Market /\ m.price > 0 /\ waiting \subseteq all
      /\ DOMAIN left = DOMAIN last.open \ done
      /\ \A c \in DOMAIN left : left[c] = last.open[c]
      /\ \A c \in waiting : BorrowAssets(left[c].shares, mkt)
                              = BorrowAssets(left[c].shares, m)
      /\ mkt.price = m.price /\ mkt.fee = m.fee /\ mkt.queued = m.queued
      /\ mkt.borrow = m.borrow - SumOver(outcome, "repaid", done)
      /\ mkt.shares = m.shares - SumOver(last.open, "shares", done)
      /\ mkt.coll = m.coll - SumOver(outcome, "seized", done)
      /\ mkt.supply = AtLeastZero(m.supply - SumOver(outcome, "badDebt", done))
      /\ mkt.badDebt = m.badDebt + SumOver(outcome, "badDebt", done)
  BY DEF MidBlock
<1>2. /\ DOMAIN outcome = all /\ IsFiniteSet(all)
      /\ all \subseteq DOMAIN last.open /\ IsFiniteSet(DOMAIN last.open)
      /\ \A c \in DOMAIN last.open : last.open[c].shares \in Nat
      /\ \A c \in all : /\ outcome[c] = Outcome(last.open[c], m, price)
                        /\ outcome[c].repaid \in Nat /\ outcome[c].seized \in Nat
                        /\ outcome[c].badDebt \in Nat
  BY <1>1, OutcomesType
<1>3. outcome[b] = o
  <2>1. /\ left[b] = last.open[b] /\ mkt.price = m.price /\ b \in all
        /\ BorrowAssets(left[b].shares, mkt) = BorrowAssets(left[b].shares, m)
    BY <1>1
  <2>2. Outcome(left[b], mkt, price) = Outcome(left[b], m, price)
    BY <2>1 DEF Outcome
  <2> HIDE DEF outcome, all
  <2> QED
    BY <1>2, <2>1, <2>2
<1>4. left[b].shares \in Nat /\ left[b].coll \in Nat /\ mkt.price > 0
  BY <1>1, PortfolioType
<1>5. /\ n.fee = mkt.fee /\ n.price = mkt.price /\ n.queued = mkt.queued
      /\ n.supply = AtLeastZero(mkt.supply - o.badDebt)
      /\ n.borrow = AtLeastZero(mkt.borrow - o.repaid)
      /\ n.coll = AtLeastZero(mkt.coll - o.seized)
      /\ n.badDebt = mkt.badDebt + o.badDebt
  <2> DEFINE x == AfterLiquidation(left[b], mkt, price)
  <2>1. /\ x.fee = mkt.fee /\ x.price = mkt.price /\ x.queued = mkt.queued
        /\ x.supply = AtLeastZero(mkt.supply - o.badDebt)
        /\ x.borrow = AtLeastZero(mkt.borrow - o.repaid)
        /\ x.coll = AtLeastZero(mkt.coll - o.seized)
        /\ x.badDebt = mkt.badDebt + o.badDebt
    BY <1>4, LiquidationEffect
  <2> HIDE DEF x, o
  <2> QED
    BY <2>1 DEF x
<1>6. /\ b \in all \ done /\ done \in SUBSET all
      /\ b \in DOMAIN last.open \ done /\ done \in SUBSET DOMAIN last.open
      /\ all \ (waiting \ {b}) = now
      /\ left[b].shares = last.open[b].shares
  BY <1>1, <1>2
<1> HIDE DEF outcome, all, done, o
<1>7. \A part \in {"repaid", "seized", "badDebt"} :
        /\ SumOver(outcome, part, done) \in Nat
        /\ SumOver(outcome, part, now) = SumOver(outcome, part, done) + o[part]
  <2> SUFFICES ASSUME NEW part \in {"repaid", "seized", "badDebt"}
               PROVE  /\ SumOver(outcome, part, done) \in Nat
                      /\ SumOver(outcome, part, now)
                           = SumOver(outcome, part, done) + o[part]
    OBVIOUS
  <2>1. \A c \in DOMAIN outcome : outcome[c][part] \in Nat
    BY <1>2
  <2>2. /\ \A S \in SUBSET DOMAIN outcome : SumOver(outcome, part, S) \in Nat
        /\ \A S \in SUBSET DOMAIN outcome : \A c \in DOMAIN outcome \ S :
             SumOver(outcome, part, S \cup {c})
               = SumOver(outcome, part, S) + outcome[c][part]
    BY <1>2, <2>1, SumOverStep
  <2>3. done \in SUBSET DOMAIN outcome /\ b \in DOMAIN outcome \ done
    BY <1>2, <1>6
  <2> QED
    BY <1>3, <2>2, <2>3
<1>8. /\ SumOver(last.open, "shares", done) \in Nat
      /\ SumOver(last.open, "shares", now)
           = SumOver(last.open, "shares", done) + left[b].shares
  <2>1. \A c \in DOMAIN last.open : last.open[c]["shares"] \in Nat
    BY <1>2
  <2> DEFINE q == last.open
  <2>2. IsFiniteSet(DOMAIN q) /\ \A c \in DOMAIN q : q[c]["shares"] \in Nat
    BY <1>2, <2>1
  <2> HIDE DEF q
  <2>3. /\ \A S \in SUBSET DOMAIN q : SumOver(q, "shares", S) \in Nat
        /\ \A S \in SUBSET DOMAIN q : \A c \in DOMAIN q \ S :
             SumOver(q, "shares", S \cup {c})
               = SumOver(q, "shares", S) + q[c]["shares"]
    BY <2>2, SumOverStep
  <2>4. done \in SUBSET DOMAIN q /\ b \in DOMAIN q \ done
    BY <1>6 DEF q
  <2>5. /\ SumOver(q, "shares", done) \in Nat
        /\ SumOver(q, "shares", now)
             = SumOver(q, "shares", done) + q[b]["shares"]
    BY <2>3, <2>4
  <2> QED
    BY <1>6, <2>5 DEF q
<1> DEFINE r == SumOver(outcome, "repaid", done)
           z == SumOver(outcome, "seized", done)
           d == SumOver(outcome, "badDebt", done)
           h == SumOver(last.open, "shares", done)
<1>9. /\ r \in Nat /\ z \in Nat /\ d \in Nat /\ h \in Nat
      /\ SumOver(outcome, "repaid", now) = r + o.repaid
      /\ SumOver(outcome, "seized", now) = z + o.seized
      /\ SumOver(outcome, "badDebt", now) = d + o.badDebt
      /\ SumOver(last.open, "shares", now) = h + left[b].shares
  BY <1>7, <1>8
<1>10. /\ mkt.borrow = m.borrow - r /\ mkt.coll = m.coll - z
       /\ mkt.shares = m.shares - h /\ mkt.badDebt = m.badDebt + d
       /\ mkt.supply = AtLeastZero(m.supply - d)
  BY <1>1 DEF done, all, outcome
<1>11. /\ m.borrow \in Nat /\ m.shares \in Nat /\ m.coll \in Nat
       /\ m.supply \in Nat /\ m.badDebt \in Nat
       /\ mkt.borrow \in Nat /\ mkt.coll \in Nat
  BY <1>1 DEF Market
<1>12. o.repaid \in Nat /\ o.seized \in Nat /\ o.badDebt \in Nat
  BY <1>2, <1>3, <1>6
<1>13. o.repaid <= mkt.borrow /\ o.seized <= mkt.coll
  BY DEF o
<1> HIDE DEF r, z, d, h
<1>14. n.borrow = m.borrow - (r + o.repaid) /\ n.coll = m.coll - (z + o.seized)
  BY <1>5, <1>9, <1>10, <1>11, <1>12, <1>13 DEF AtLeastZero
<1>15. /\ n.badDebt = m.badDebt + (d + o.badDebt)
       /\ n.supply = AtLeastZero(m.supply - (d + o.badDebt))
       /\ n.shares = m.shares - (h + left[b].shares)
  BY <1>4, <1>5, <1>9, <1>10, <1>11, <1>12 DEF AtLeastZero
<1>16. /\ DOMAIN Without(left, b) = DOMAIN last.open \ now
       /\ \A c \in DOMAIN Without(left, b) : /\ Without(left, b)[c] = left[c]
                                             /\ left[c] = last.open[c]
       /\ \A c \in waiting \ {b} : Without(left, b)[c] = left[c]
  <2>1. /\ DOMAIN Without(left, b) = DOMAIN left \ {b}
        /\ \A c \in DOMAIN left \ {b} : Without(left, b)[c] = left[c]
    BY WithoutEffect
  <2>2. DOMAIN left = DOMAIN last.open \ done
    BY <1>1 DEF done, all
  <2> QED
    BY <1>1, <2>1, <2>2
<1>17. \A c \in waiting \ {b} : BorrowAssets(Without(left, b)[c].shares, n)
                                  = BorrowAssets(Without(left, b)[c].shares, m)
  BY <1>1, <1>16
<1>18. waiting \ {b} \subseteq all /\ m \in Market /\ m.price > 0
  BY <1>1 DEF all
<1>19. n.price = m.price /\ n.fee = m.fee /\ n.queued = m.queued
  BY <1>1, <1>5
<1> QED
  BY <1>6, <1>9, <1>14, <1>15, <1>16, <1>17, <1>18, <1>19
  DEF MidBlock, all, outcome

(* The price the oracle of BlockwiseS3 reports is the one read off the     *)
(* observations of the path.                                               *)
LEMMA OracleReadsPath ==
    ASSUME NEW c, NEW p0, NEW k
    PROVE  Blockwise!OraclePriceAt(c, p0, k) = ReadTwap(ObservedPath(c, p0, k))
<1>1. Blockwise!Max({0, k + 1 - Blockwise!OracleWindow(c)}) = FirstSeen(c, k)
  BY SameScenario DEF FirstSeen, Blockwise!Max, Max
<1>2. \A j : Blockwise!Observed(j, Blockwise!MarketPriceAt(c, p0, j))
               = Observed(j, MarketPriceAt(c, p0, j))
  BY SameScenario DEF Blockwise!Observed, Observed
<1> DEFINE f == FirstSeen(c, k)
<1>3. Blockwise!OraclePriceAt(c, p0, k)
        = Blockwise!ReadTwap([i \in 1 .. k - f + 1 |->
            Blockwise!Observed(f + i - 1, Blockwise!MarketPriceAt(c, p0, f + i - 1))])
  BY <1>1 DEF Blockwise!OraclePriceAt
<1> HIDE DEF f
<1>4. [i \in 1 .. k - f + 1 |->
         Blockwise!Observed(f + i - 1, Blockwise!MarketPriceAt(c, p0, f + i - 1))]
        = [i \in 1 .. k - f + 1 |->
             Observed(f + i - 1, MarketPriceAt(c, p0, f + i - 1))]
  BY <1>2
<1> QED
  BY <1>3, <1>4, SameTwap DEF ObservedPath, f

(* The market of BlockwiseS3 before the liquidations of a block.           *)
LEMMA BlockBegins ==
    ASSUME NEW c, NEW p0, NEW k, NEW last, NEW growth
    PROVE  [Blockwise!Accrue(last.market, growth * last.market.shares)
              EXCEPT !.price = Blockwise!OraclePriceAt(c, p0, k)]
             = Accrued(last, growth, ObservedPath(c, p0, k))
<1>1. \A m, i : Blockwise!Accrue(m, i) = Accrue(m, i)
  BY DEF Blockwise!Accrue, Accrue, Blockwise!SupplierPart, SupplierPart
<1> QED
  BY <1>1, OracleReadsPath DEF Accrued

(* The state a block ends with when all its liquidations see market m.     *)
EndOf(last, m, price) ==
    LET all     == Eligible(m, last.open)
        outcome == OutcomesOf(last, m, price)
    IN  [market |-> [m EXCEPT
            !.borrow  = @ - SumOver(outcome, "repaid", all),
            !.shares  = @ - SumOver(last.open, "shares", all),
            !.coll    = @ - SumOver(outcome, "seized", all),
            !.supply  = AtLeastZero(@ - SumOver(outcome, "badDebt", all)),
            !.badDebt = @ + SumOver(outcome, "badDebt", all)],
         open |-> Restrict(last.open, DOMAIN last.open \ all)]

(* A block of BlockwiseS3 in the terms of MidBlock.                        *)
LEMMA AfterBlockIs ==
    ASSUME NEW c, NEW p0, NEW k, NEW last \in Snapshot, NEW growth,
           NEW price \in Nat, price = MarketPriceAt(c, p0, k),
           NEW m \in Market, m.price > 0,
           m = Accrued(last, growth, ObservedPath(c, p0, k))
    PROVE  Blockwise!AfterBlock(c, p0, k, last, growth) = EndOf(last, m, price)
<1> DEFINE all     == Eligible(m, last.open)
           outcome == OutcomesOf(last, m, price)
           shares  == [b \in all |-> last.open[b].shares]
<1>1. [Blockwise!Accrue(last.market, growth * last.market.shares)
         EXCEPT !.price = Blockwise!OraclePriceAt(c, p0, k)] = m
  BY BlockBegins
<1>2. {b \in DOMAIN last.open : Blockwise!Liquidatable(last.open[b], m)} = all
  BY SameOutcome DEF Eligible
<1>3. [b \in all |-> Blockwise!Outcome(last.open[b], m,
                                       Blockwise!MarketPriceAt(c, p0, k))]
        = outcome
  BY SameOutcome, SameScenario DEF OutcomesOf
<1>4. /\ DOMAIN outcome = all /\ IsFiniteSet(all)
      /\ all \subseteq DOMAIN last.open
  BY OutcomesType
<1>5. \A part : Blockwise!Total(outcome, part) = SumOver(outcome, part, all)
  <2> SUFFICES ASSUME NEW part
               PROVE  Blockwise!Total(outcome, part) = SumOver(outcome, part, all)
    OBVIOUS
  <2> DEFINE f == [b \in DOMAIN outcome |-> outcome[b][part]]
  <2>1. Blockwise!Total(outcome, part) = SumFunction(f)
    BY SameSum DEF Blockwise!Total
  <2>2. DOMAIN f = all
    BY <1>4
  <2>3. SumOver(outcome, part, all) = SumFunctionOnSet(f, all)
    BY DEF SumOver
  <2> HIDE DEF f, outcome, all
  <2> QED
    BY <2>1, <2>2, <2>3 DEF SumFunction
<1>6. Blockwise!SumFunction(shares) = SumOver(last.open, "shares", all)
  <2> DEFINE g == [b \in DOMAIN last.open |-> last.open[b]["shares"]]
  <2>1. Blockwise!SumFunction(shares) = SumFunctionOnSet(shares, all)
    BY SameSum DEF SumFunction
  <2>2. SumOver(last.open, "shares", all) = SumFunctionOnSet(g, all)
    BY DEF SumOver
  <2>3. \A b \in all : shares[b] = g[b]
    BY <1>4
  <2> HIDE DEF shares, g, all
  <2> QED
    BY <1>4, <2>1, <2>2, <2>3, SumAgree
<1>7. \A f, D : Blockwise!Restrict(f, D) = Restrict(f, D)
  BY DEF Blockwise!Restrict, Restrict
<1>8. \A a : Blockwise!AtLeastZero(a) = AtLeastZero(a)
  BY DEF Blockwise!AtLeastZero, AtLeastZero
<1> DEFINE bm == [Blockwise!Accrue(last.market, growth * last.market.shares)
                    EXCEPT !.price = Blockwise!OraclePriceAt(c, p0, k)]
           be == {b \in DOMAIN last.open : Blockwise!Liquidatable(last.open[b], bm)}
           bo == [b \in be |-> Blockwise!Outcome(last.open[b], bm,
                                    Blockwise!MarketPriceAt(c, p0, k))]
           bs == [b \in be |-> last.open[b].shares]
<1>9. Blockwise!AfterBlock(c, p0, k, last, growth) =
        [market |-> [bm EXCEPT
            !.borrow  = @ - Blockwise!Total(bo, "repaid"),
            !.shares  = @ - Blockwise!SumFunction(bs),
            !.coll    = @ - Blockwise!Total(bo, "seized"),
            !.supply  = Blockwise!AtLeastZero(@ - Blockwise!Total(bo, "badDebt")),
            !.badDebt = @ + Blockwise!Total(bo, "badDebt")],
         open |-> Blockwise!Restrict(last.open, DOMAIN last.open \ be)]
  BY DEF Blockwise!AfterBlock
<1>10. bm = m
  BY <1>1
<1> HIDE DEF bm
<1>11. be = all
  BY <1>2, <1>10
<1> HIDE DEF be, all, outcome
<1>12. bo = outcome
  BY <1>3, <1>10, <1>11
<1>13. Blockwise!SumFunction(bs) = SumOver(last.open, "shares", all)
  BY <1>6, <1>11
<1> HIDE DEF bo, bs
<1> DEFINE r == SumOver(outcome, "repaid", all)
           z == SumOver(outcome, "seized", all)
           d == SumOver(outcome, "badDebt", all)
           h == SumOver(last.open, "shares", all)
<1>14. /\ Blockwise!Total(bo, "repaid") = r /\ Blockwise!Total(bo, "seized") = z
       /\ Blockwise!Total(bo, "badDebt") = d /\ Blockwise!SumFunction(bs) = h
  BY <1>5, <1>12, <1>13
<1> HIDE DEF r, z, d, h
<1>15. Blockwise!AfterBlock(c, p0, k, last, growth) =
         [market |-> [m EXCEPT !.borrow = @ - r, !.shares = @ - h,
                               !.coll = @ - z, !.supply = AtLeastZero(@ - d),
                               !.badDebt = @ + d],
          open |-> Restrict(last.open, DOMAIN last.open \ all)]
  BY <1>7, <1>8, <1>9, <1>10, <1>11, <1>14
<1> QED
  BY <1>15 DEF EndOf, all, outcome, r, z, d, h

(* Once nobody waits, the middle of a block is its end.                    *)
LEMMA MidBlockEnds ==
    ASSUME NEW last \in Snapshot, NEW m, NEW price \in Nat, NEW mkt \in Market,
           NEW left \in Portfolio, MidBlock(last, m, price, mkt, left, {})
    PROVE  [market |-> mkt, open |-> left] = EndOf(last, m, price)
<1> DEFINE all     == Eligible(m, last.open)
           outcome == OutcomesOf(last, m, price)
           r == SumOver(outcome, "repaid", all)
           z == SumOver(outcome, "seized", all)
           d == SumOver(outcome, "badDebt", all)
           h == SumOver(last.open, "shares", all)
<1>1. all \ {} = all
  OBVIOUS
<1>2. /\ m \in Market /\ DOMAIN left = DOMAIN last.open \ all
      /\ \A b \in DOMAIN left : left[b] = last.open[b]
      /\ mkt.price = m.price /\ mkt.fee = m.fee /\ mkt.queued = m.queued
      /\ mkt.borrow = m.borrow - r /\ mkt.shares = m.shares - h
      /\ mkt.coll = m.coll - z /\ mkt.supply = AtLeastZero(m.supply - d)
      /\ mkt.badDebt = m.badDebt + d
  BY <1>1 DEF MidBlock
<1> HIDE DEF r, z, d, h, all
<1>3. mkt = [supply |-> mkt.supply, borrow |-> mkt.borrow,
             shares |-> mkt.shares, coll |-> mkt.coll, price |-> mkt.price,
             queued |-> mkt.queued, badDebt |-> mkt.badDebt, fee |-> mkt.fee]
  BY DEF Market
<1>4. [m EXCEPT !.borrow = @ - r, !.shares = @ - h, !.coll = @ - z,
                !.supply = AtLeastZero(@ - d), !.badDebt = @ + d]
        = [supply |-> AtLeastZero(m.supply - d), borrow |-> m.borrow - r,
           shares |-> m.shares - h, coll |-> m.coll - z, price |-> m.price,
           queued |-> m.queued, badDebt |-> m.badDebt + d, fee |-> m.fee]
  BY <1>2 DEF Market
<1>5. left = [b \in DOMAIN left |-> left[b]]
  <2>1. PICK D \in SUBSET Borrowers : left \in [D -> Holdings]
    BY DEF Portfolio
  <2> QED
    BY <2>1
<1>6. left = [b \in DOMAIN last.open \ all |-> last.open[b]]
  BY <1>2, <1>5
<1>7. [market |-> mkt, open |-> left]
        = [market |-> [m EXCEPT !.borrow = @ - r, !.shares = @ - h,
                                !.coll = @ - z, !.supply = AtLeastZero(@ - d),
                                !.badDebt = @ + d],
           open |-> [b \in DOMAIN last.open \ all |-> last.open[b]]]
  BY <1>2, <1>3, <1>4, <1>6
<1> QED
  BY <1>7 DEF EndOf, Restrict, r, z, d, h, all

(* The snapshot a trajectory ends with.                                    *)
LEMMA LastSnapshot ==
    ASSUME IInv, phase \in {"block", "liquidating"}
    PROVE  /\ traj \in Seq(Snapshot) /\ Len(traj) \in Nat \ {0}
           /\ traj[Len(traj)] \in Snapshot /\ traj[1] \in Snapshot
           /\ InitialPrice \in Prices /\ cfg \in S3Config /\ ValidConfig(cfg)
<1>1. /\ traj \in Seq(Snapshot) /\ traj # << >> /\ traj[1].market.price \in Prices
      /\ cfg \in S3Config /\ ValidConfig(cfg)
  BY DEF IInv, TypeOK, Setup, Snapshot
<1> HIDE DEF Snapshot
<1>2. Len(traj) \in Nat \ {0} /\ traj[Len(traj)] \in Snapshot /\ traj[1] \in Snapshot
  BY <1>1
<1> QED
  BY <1>1, <1>2 DEF InitialPrice

(* The oracle and the trajectory as the run begins.                        *)
LEMMA BeginBlockInv ==
    ASSUME IInv, Begin PROVE BlockInv'
<1> DEFINE p == market.price
           x == [market |-> market, open |-> open]
<1>1. /\ phase' = "block" /\ cfg' = cfg /\ market' = market /\ open' = open
      /\ obs' = <<Observed(0, p)>> /\ traj' = <<x>>
      /\ cfg \in S3Config /\ ValidConfig(cfg) /\ p \in Prices
  BY DEF Begin, IInv, TypeOK
<1>2. /\ traj'[Len(traj')] = x /\ Len(traj') = 1 /\ traj'[1] = x
  BY <1>1
<1>3. FirstSeen(cfg, 0) = 0
  <2>1. FirstSeen(cfg, 0) = IF 0 + 1 <= OracleWindow(cfg) THEN 0
                            ELSE 0 + 1 - OracleWindow(cfg)
    BY <1>1, FirstSeenIs
  <2>2. OracleWindow(cfg) \in Nat \ {0}
    BY <1>1, WindowPositive
  <2> QED
    BY <2>1, <2>2
<1>4. MarketPriceAt(cfg, p, 0) = p
  <2>1. /\ cfg.dt \in Nat \ {0} /\ cfg.drawdown \in Nat /\ DrawdownDen \in Nat \ {0}
        /\ p \in Nat
    BY <1>1, ConfigBounds, PricePositive
  <2>2. Progress(cfg, 0) = 0
    BY DEF Progress
  <2> DEFINE y == DrawdownDen * cfg.dt
             e == p * cfg.drawdown
  <2>3. y \in Nat \ {0} /\ e \in Nat
    BY <2>1
  <2>4. MarketPriceAt(cfg, p, 0) = p - (e * 0) \div y
    BY <2>2 DEF MarketPriceAt
  <2> HIDE DEF y, e
  <2>5. e * 0 = 0 /\ 0 \div y = 0
    BY <2>3
  <2> HIDE DEF p
  <2> QED
    BY <2>1, <2>4, <2>5
<1>5. ObservedPath(cfg, p, 0) = <<Observed(0, p)>>
  <2> DEFINE O(j) == Observed(j, MarketPriceAt(cfg, p, j))
  <2>1. ObservedPath(cfg, p, 0) = [i \in 1 .. 0 - 0 + 1 |-> O(0 + i - 1)]
    BY <1>3 DEF ObservedPath
  <2>2. O(0) = Observed(0, p)
    BY <1>4
  <2> HIDE DEF O
  <2>3. [i \in 1 .. 0 - 0 + 1 |-> O(0 + i - 1)] = [i \in 1 .. 1 |-> O(0)]
    <3>1. 1 .. 0 - 0 + 1 = 1 .. 1 /\ \A i \in 1 .. 1 : 0 + i - 1 = 0
      OBVIOUS
    <3> QED
      BY <3>1
  <2> DEFINE v == O(0)
  <2>4. [i \in 1 .. 1 |-> v] = <<v>>
    OBVIOUS
  <2> QED
    BY <2>1, <2>2, <2>3, <2>4
<1>6. x.market.price = p
  OBVIOUS
<1>7. /\ traj'[1].market.price = p /\ Len(traj') - 1 = 0
      /\ obs' = ObservedPath(cfg, p, 0)
  BY <1>1, <1>2, <1>5, <1>6
<1>8. /\ obs' = ObservedPath(cfg', traj'[1].market.price, Len(traj') - 1)
      /\ traj'[Len(traj')] = [market |-> market', open |-> open']
  BY <1>1, <1>2, <1>7
<1> QED
  BY <1>1, <1>8 DEF BlockInv, InitialPrice

(* A block begins: the oracle sees the next price of the path.             *)
LEMMA BeginMidBlock ==
    ASSUME IInv, BlockInv, NEW growth \in Growths, BeginBlock(growth)
    PROVE  BlockInv'
<1> DEFINE last == traj[Len(traj)]
           k == Len(traj)
           p == InitialPrice
<1>1. /\ phase = "block" /\ phase' = "liquidating" /\ k <= cfg.horizon
      /\ marketPrice' = MarketPriceAt(cfg, p, k)
      /\ obs' = Push(obs, Observed(k, marketPrice'), OracleWindow(cfg))
      /\ eligible' = Eligible(market', open)
      /\ cfg' = cfg /\ open' = open /\ traj' = traj
  BY DEF BeginBlock, BlockOffset
<1>2. /\ k \in Nat \ {0} /\ last \in Snapshot
      /\ p \in Prices /\ cfg \in S3Config /\ ValidConfig(cfg)
  BY <1>1, LastSnapshot
<1>3. /\ obs = ObservedPath(cfg, p, k - 1)
      /\ last = [market |-> market, open |-> open]
  BY <1>1 DEF BlockInv
<1>4. obs' = ObservedPath(cfg, p, k)
  <2> DEFINE j == k - 1
  <2>1. j \in Nat /\ j + 1 = k
    BY <1>2
  <2> HIDE DEF j, k, p
  <2>2. Push(ObservedPath(cfg, p, j), Observed(j + 1, MarketPriceAt(cfg, p, j + 1)),
             OracleWindow(cfg)) = ObservedPath(cfg, p, j + 1)
    BY <1>2, <2>1, PathPushed
  <2> QED
    BY <1>1, <1>3, <2>1, <2>2 DEF j
<1>5. /\ marketPrice' \in Prices /\ ReadTwap(obs') \in Prices
      /\ market' = [Accrue(market, growth * market.shares)
                      EXCEPT !.price = ReadTwap(obs')]
      /\ growth * market.shares \in Nat
  BY BeginBlockEffect
<1>6. market' \in Market /\ market'.price > 0 /\ marketPrice' \in Nat
  <2>1. Accrue(market, growth * market.shares) \in Market
    BY <1>5, AccrueEffect DEF IInv, TypeOK
  <2>2. ReadTwap(obs') \in Nat /\ ReadTwap(obs') > 0 /\ marketPrice' \in Nat
    BY <1>5, PricePositive
  <2> DEFINE a == Accrue(market, growth * market.shares)
             t == ReadTwap(obs')
  <2> HIDE DEF a, t
  <2>3. market' = [a EXCEPT !.price = t] /\ a \in Market /\ t \in Nat /\ t > 0
    BY <1>5, <2>1, <2>2 DEF a, t
  <2>4. market' \in Market /\ market'.price = t
    BY <2>3, PriceSet
  <2> QED
    BY <2>2, <2>3, <2>4
<1>7. last.market = market /\ last.open = open
  BY <1>3
<1>8. Accrued(last, growth, obs') = market'
  BY <1>5, <1>7 DEF Accrued
<1> HIDE DEF last, k, p
<1>9. MidBlock(last, market', marketPrice', market', last.open,
               Eligible(market', last.open))
  BY <1>2, <1>6, MidBlockBegins
<1>10. MidBlock(last, Accrued(last, growth, obs'), marketPrice', market', open',
                eligible')
  BY <1>1, <1>7, <1>8, <1>9
<1>11. last = traj'[Len(traj')] /\ k = Len(traj') /\ p = InitialPrice'
  BY <1>1 DEF last, k, p, InitialPrice
<1> QED
  BY <1>1, <1>4, <1>10, <1>11 DEF BlockInv

(* A liquidation stays in the middle of its block.                         *)
LEMMA LiquidateMidBlock ==
    ASSUME IInv, EventsInv, BlockInv, NEW b \in Borrowers, Liquidate(b)
    PROVE  BlockInv'
<1> DEFINE last == traj[Len(traj)]
           o == Outcome(open[b], market, marketPrice)
<1>1. /\ phase = "liquidating" /\ b \in eligible /\ eligible' = eligible \ {b}
      /\ UNCHANGED <<cfg, phase, marketPrice, obs, traj>>
      /\ eligible \subseteq DOMAIN open
  BY DEF Liquidate, IInv, TypeOK
<1>2. /\ obs = ObservedPath(cfg, InitialPrice, Len(traj))
      /\ marketPrice = MarketPriceAt(cfg, InitialPrice, Len(traj))
      /\ Len(traj) <= cfg.horizon
  BY <1>1 DEF BlockInv
<1>3. PICK growth \in Growths :
        MidBlock(last, Accrued(last, growth, obs), marketPrice, market, open,
                 eligible)
  BY <1>1 DEF BlockInv
<1>4. last \in Snapshot
  BY <1>1, LastSnapshot
<1>5. /\ b \in DOMAIN open /\ open \in Portfolio /\ open' = Without(open, b)
      /\ DOMAIN open' = DOMAIN open \ {b}
      /\ market \in Market /\ market.price > 0 /\ marketPrice \in Nat
      /\ market' = AfterLiquidation(open[b], market, marketPrice)
      /\ o.repaid <= market.borrow
  BY LiquidateEffect
<1>6. o.seized <= market.coll
  <2>1. open[b].coll \in Nat /\ o.seized \in 0 .. open[b].coll
    BY LiquidateColl
  <2>2. /\ CollOf(Without(open, b)) \in Nat
        /\ CollOf(open) = open[b].coll + CollOf(Without(open, b))
        /\ market.coll >= CollOf(open) /\ market.coll \in Nat
    BY <1>5, CollWithout DEF EventsInv, Market
  <2> HIDE DEF o
  <2> QED
    BY <2>1, <2>2
<1>7. market'.shares = market.shares - open[b].shares
  <2>1. PICK idx \in Nat \ {0} : Indexed(market, open, idx)
    BY DEF IInv, HasIndex
  <2>2. Indexed(market', open', idx)
    BY <2>1, LiquidateEffect
  <2>3. /\ SharesOf(open') \in Nat /\ open[b].shares \in Nat
        /\ SharesOf(open) = open[b].shares + SharesOf(open')
    BY <1>5, SharesWithout, PortfolioType
  <2> QED
    BY <2>1, <2>2, <2>3 DEF Indexed
<1>8. \A c \in DOMAIN open \ {b} :
        BorrowAssets(open[c].shares, market') = BorrowAssets(open[c].shares, market)
  BY <1>5, OthersDebt
<1> HIDE DEF last, o
<1>9. MidBlock(last, Accrued(last, growth, obs), marketPrice, market', open',
               eligible')
  <2> DEFINE m == Accrued(last, growth, obs)
  <2> HIDE DEF m
  <2>1. MidBlock(last, m, marketPrice, market, open, eligible)
    BY <1>3 DEF m
  <2>2. MidBlock(last, m, marketPrice, market', Without(open, b), eligible \ {b})
    BY <1>1, <1>4, <1>5, <1>6, <1>7, <1>8, <2>1, MidBlockStep DEF o
  <2> QED
    BY <1>1, <1>5, <2>2 DEF m
<1>10. last = traj'[Len(traj')] /\ InitialPrice' = InitialPrice
  BY <1>1 DEF last, InitialPrice
<1> QED
  BY <1>1, <1>2, <1>9, <1>10 DEF BlockInv

(* A block ends: the trajectory ends with the state the next begins with.  *)
LEMMA EndBlockInv ==
    ASSUME IInv, BlockInv, EndBlock
    PROVE  BlockInv'
<1> DEFINE x == [market |-> market, open |-> open]
<1>1. /\ phase = "liquidating" /\ phase' = "block" /\ traj' = Append(traj, x)
      /\ UNCHANGED <<cfg, market, open, obs>>
  BY DEF EndBlock
<1>2. /\ traj \in Seq(Snapshot) /\ Len(traj) \in Nat \ {0}
  BY <1>1, LastSnapshot
<1>3. obs = ObservedPath(cfg, InitialPrice, Len(traj))
  BY <1>1 DEF BlockInv
<1>4. x \in Snapshot
  BY DEF IInv, TypeOK, Snapshot
<1> HIDE DEF x
<1>5. /\ traj'[Len(traj')] = x /\ Len(traj') - 1 = Len(traj) /\ traj'[1] = traj[1]
  BY <1>1, <1>2, <1>4
<1>6. InitialPrice' = InitialPrice
  BY <1>5 DEF InitialPrice
<1>7. /\ obs' = ObservedPath(cfg', InitialPrice', Len(traj') - 1)
      /\ traj'[Len(traj')] = [market |-> market', open |-> open']
  BY <1>1, <1>3, <1>5, <1>6 DEF x
<1> QED
  BY <1>1, <1>7 DEF BlockInv

(* Every step keeps the invariant of a block in progress.                  *)
LEMMA NextBlockInv == IInv /\ EventsInv /\ BlockInv /\ [Next]_vars => BlockInv'
<1> SUFFICES ASSUME IInv, EventsInv, BlockInv, [Next]_vars PROVE BlockInv'
  OBVIOUS
<1>1. CASE Reject \/ Finish
  BY <1>1 DEF Reject, Finish, BlockInv
<1>2. CASE Begin
  BY <1>2, BeginBlockInv
<1>3. CASE EndBlock
  BY <1>3, EndBlockInv
<1>4. CASE \E growth \in Growths : BeginBlock(growth)
  BY <1>4, BeginMidBlock
<1>5. CASE \E b \in Borrowers : Liquidate(b)
  BY <1>5, LiquidateMidBlock
<1>6. CASE UNCHANGED vars
  BY <1>6 DEF vars, BlockInv, InitialPrice
<1> QED
  BY <1>1, <1>2, <1>3, <1>4, <1>5, <1>6 DEF Next

(* So it always holds.                                                     *)
LEMMA BlockInvInvariant == Spec => [](EventsInv /\ BlockInv)
<1>1. Init => BlockInv
  BY DEF Init, BlockInv
<1> QED
  BY <1>1, InitEvents, NextEvents, NextBlockInv, IInvInvariant, PTL DEF Spec

(* The end of a block is a block of the order-free specification.          *)
LEMMA EndBlockImplements ==
    ASSUME IInv, BlockInv, EndBlock
    PROVE  Blockwise!Block /\ cfg' = cfg
<1> DEFINE last == traj[Len(traj)]
           k == Len(traj)
           p == InitialPrice
<1>1. /\ phase = "liquidating" /\ eligible = {} /\ cfg' = cfg
      /\ traj' = Append(traj, [market |-> market, open |-> open])
      /\ market \in Market /\ open \in Portfolio /\ marketPrice \in Nat
  BY PricePositive DEF EndBlock, IInv, TypeOK
<1>2. /\ obs = ObservedPath(cfg, p, k)
      /\ marketPrice = MarketPriceAt(cfg, p, k) /\ k <= cfg.horizon
  BY <1>1 DEF BlockInv
<1>3. PICK growth \in Growths :
        MidBlock(last, Accrued(last, growth, obs), marketPrice, market, open, {})
  BY <1>1 DEF BlockInv
<1>4. last \in Snapshot /\ traj # << >>
  BY <1>1, LastSnapshot
<1> HIDE DEF last, k, p
<1> DEFINE m == Accrued(last, growth, obs)
<1>5. m \in Market /\ m.price > 0
  BY <1>3 DEF MidBlock
<1>6. [market |-> market, open |-> open] = EndOf(last, m, marketPrice)
  BY <1>1, <1>3, <1>4, MidBlockEnds
<1>7. Blockwise!AfterBlock(cfg, p, k, last, growth) = EndOf(last, m, marketPrice)
  BY <1>1, <1>2, <1>4, <1>5, AfterBlockIs
<1>8. traj' = Append(traj, Blockwise!AfterBlock(cfg, p, k, last, growth))
  BY <1>1, <1>6, <1>7
<1> QED
  BY <1>1, <1>2, <1>4, <1>8 DEF Blockwise!Block, last, k, p, InitialPrice

(* stress_s3 block by block implements BlockwiseS3: whatever the order in  *)
(* which liquidate_all_eligible closes the positions on running totals,    *)
(* and whatever the oracle remembers, a block of the trajectory is         *)
(* interest, the mean of the last prices of the path, and all liquidations *)
(* against one market.                                                     *)
THEOREM BlocksAreOrderFree == Spec => ImplementsBlockwise
<1>1. Init => Blockwise!Init
  BY DEF Init, Blockwise!Init
<1>2. IInv /\ EventsInv /\ BlockInv /\ [Next]_vars
        => [Blockwise!Next]_(Blockwise!vars)
  <2> SUFFICES ASSUME IInv, EventsInv, BlockInv, [Next]_vars
               PROVE  [Blockwise!Next]_(Blockwise!vars)
    OBVIOUS
  <2>1. CASE Begin
    <3>1. /\ traj = << >> /\ ValidConfig(cfg) /\ cfg' = cfg
          /\ traj' = <<[market |-> market, open |-> open]>>
      BY <2>1 DEF Begin, IInv, Setup
    <3>2. Len(traj') = 1
      BY <3>1
    <3> QED
      BY <3>1, <3>2, SameScenario DEF Blockwise!Next, Blockwise!Start
  <2>2. CASE EndBlock
    BY <2>2, EndBlockImplements DEF Blockwise!Next
  <2>3. CASE ~Begin /\ ~EndBlock
    <3>1. UNCHANGED <<cfg, traj>>
      BY <2>3 DEF Next, Reject, Finish, BeginBlock, Liquidate, vars
    <3> QED
      BY <3>1 DEF Blockwise!vars
  <2> QED
    BY <2>1, <2>2, <2>3
<1> QED
  BY <1>1, <1>2, IInvInvariant, BlockInvInvariant, PTL
  DEF Spec, ImplementsBlockwise, Blockwise!Spec
=============================================================================
