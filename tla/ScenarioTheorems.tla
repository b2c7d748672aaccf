-------------------------- MODULE ScenarioTheorems --------------------------
(***************************************************************************)
(* Lemmas about the arithmetic that the scenarios and the risk evaluation  *)
(* are built from, for all amounts, parameters, tables of ticks and        *)
(* windows: what accrual and liquidation do to the totals of a market, and *)
(* what the TWAP reads.                                                    *)
(***************************************************************************)
EXTENDS MarketAccounting, OraclePricing, SumTheorems, TLAPS

-----------------------------------------------------------------------------
(* MarketAccounting.                                                       *)

(* The supplier's part of an interest is a natural no larger than the      *)
(* interest (accrue credits interest * (1 - fee)).                         *)
LEMMA SupplierPartBounds ==
    ASSUME NEW i \in Nat, NEW fee \in 0 .. FeeDen
    PROVE  SupplierPart(i, fee) \in 0 .. i
<1> USE AccountingAssumption
<1> DEFINE cut == (i * fee) \div FeeDen
<1>1. i * fee \in Nat
  OBVIOUS
<1>2. i * fee <= i * FeeDen
  OBVIOUS
<1>3. cut \in Nat
  BY <1>1
<1>4. cut <= i
  BY <1>1, <1>2
<1> QED
  BY <1>3, <1>4 DEF SupplierPart

(* Accrual keeps a market well typed, and never raises S - B: it leaves    *)
(* the market alone or adds the interest to B and the net of it to S.      *)
LEMMA AccrueEffect ==
    ASSUME NEW m \in Market, NEW i \in Nat
    PROVE  /\ Accrue(m, i) \in Market
           /\ Accrue(m, i).queued = m.queued
           /\ Accrue(m, i).fee = m.fee
           /\ Accrue(m, i).shares = m.shares
           /\ Accrue(m, i).badDebt = m.badDebt
           /\ Accrue(m, i).coll = m.coll
           /\ Accrue(m, i).supply >= m.supply
           /\ Accrue(m, i).supply - Accrue(m, i).borrow <= m.supply - m.borrow
           /\ \/ Accrue(m, i) = m
              \/ /\ Accrue(m, i).supply = m.supply + SupplierPart(i, m.fee)
                 /\ Accrue(m, i).borrow = m.borrow + i
<1>1. SupplierPart(i, m.fee) \in 0 .. i
  BY SupplierPartBounds DEF Market
<1>2. /\ m.supply \in Nat /\ m.borrow \in Nat
      /\ m.supply + SupplierPart(i, m.fee) \in Nat /\ m.borrow + i \in Nat
  BY <1>1 DEF Market
<1>3. CASE m.supply = 0
  BY <1>2, <1>3 DEF Accrue
<1>4. CASE m.supply # 0
  <2> DEFINE s == m.supply + SupplierPart(i, m.fee)
             b == m.borrow + i
  <2>1. Accrue(m, i) = [m EXCEPT !.supply = s, !.borrow = b]
    BY <1>4 DEF Accrue
  <2>2. s \in Nat /\ b \in Nat
    BY <1>2
  <2> HIDE DEF s, b
  <2>3. /\ Accrue(m, i) \in Market
        /\ Accrue(m, i).queued = m.queued /\ Accrue(m, i).fee = m.fee
        /\ Accrue(m, i).shares = m.shares
        /\ Accrue(m, i).badDebt = m.badDebt
        /\ Accrue(m, i).coll = m.coll
        /\ Accrue(m, i).supply = s /\ Accrue(m, i).borrow = b
    BY <2>1, <2>2 DEF Market
  <2>4. s >= m.supply /\ s - b <= m.supply - m.borrow
    BY <1>1, <1>2 DEF s, b
  <2> QED
    BY <2>3, <2>4 DEF s, b
<1> QED
  BY <1>3, <1>4

(* Without a fee the whole interest reaches the suppliers.                 *)
LEMMA NoFeeWholeInterest ==
    ASSUME NEW i \in Nat PROVE SupplierPart(i, 0) = i
<1>1. i * 0 = 0 /\ 0 \div FeeDen = 0
  BY AccountingAssumption
<1> QED
  BY <1>1 DEF SupplierPart

-----------------------------------------------------------------------------
(* A sale brings in a natural amount: at most everything is lost.          *)
LEMMA ProceedsNat ==
    ASSUME NEW v \in Nat, NEW price \in Nat
    PROVE  Proceeds(v, price) \in Nat
<1> DEFINE slip == Slippage(v)
<1>1. slip \in 0 .. 100
  <2>1. SlipNum * v \in Nat
    BY AccountingAssumption
  <2>2. (SlipNum * v) \div SlipDen \in Nat
    BY <2>1, AccountingAssumption
  <2> QED
    BY <2>2, AccountingAssumption DEF Slippage, Least
<1> HIDE DEF slip
<1>2. 100 - slip \in Nat
  BY <1>1
<1>3. v * price * (100 - slip) \in Nat
  BY <1>2
<1> QED
  BY <1>3 DEF Proceeds, slip

(* The debt of a position is a natural amount.                             *)
LEMMA BorrowAssetsNat ==
    ASSUME NEW m \in Market, NEW s \in Nat
    PROVE  BorrowAssets(s, m) \in Nat
<1>1. m.shares \in Nat /\ s * m.borrow \in Nat
  BY DEF Market
<1> QED
  BY <1>1 DEF BorrowAssets

(* The liquidation incentive is a positive ratio.                          *)
LEMMA LifPositive == LifNum \in Nat \ {0} /\ LifDen \in Nat \ {0}
  BY AccountingAssumption DEF LifNum, LifDen

(* A liquidation repays, seizes and realises natural amounts; it seizes no *)
(* more than the collateral and loses no more than the debt.               *)
LEMMA OutcomeBounds ==
    ASSUME NEW m \in Market, m.price > 0, NEW price \in Nat,
           NEW p, p.coll \in Nat, p.shares \in Nat
    PROVE  LET o == Outcome(p, m, price)
           IN  /\ o.repaid = BorrowAssets(p.shares, m) /\ o.repaid \in Nat
               /\ o.seized \in 0 .. p.coll /\ o.realized \in Nat
               /\ o.badDebt \in 0 .. o.repaid
               /\ o.badDebt = AtLeastZero(o.repaid - o.realized)
<1> DEFINE repaid == BorrowAssets(p.shares, m)
           dear   == LifDen * m.price
           worth  == (repaid * LifNum) \div dear
           seized == IF repaid = 0 THEN 0 ELSE Least(worth, p.coll)
           got    == Proceeds(seized, price)
<1>1. repaid \in Nat
  BY BorrowAssetsNat
<1>2. dear \in Nat \ {0}
  BY LifPositive DEF Market
<1>3. repaid * LifNum \in Nat
  BY <1>1, LifPositive
<1> HIDE DEF repaid, dear
<1>4. worth \in Nat
  BY <1>2, <1>3
<1> HIDE DEF worth
<1>5. seized \in 0 .. p.coll
  BY <1>4 DEF Least
<1>6. got \in Nat
  <2> HIDE DEF seized
  <2>1. seized \in Nat
    BY <1>5
  <2> QED
    BY <2>1, ProceedsNat
<1>7. Outcome(p, m, price) =
        [repaid |-> repaid, seized |-> seized, realized |-> got,
         badDebt |-> AtLeastZero(repaid - got)]
  BY DEF Outcome, repaid, worth, dear
<1> HIDE DEF seized, got
<1>8. AtLeastZero(repaid - got) \in 0 .. repaid
  BY <1>1, <1>6 DEF AtLeastZero
<1> QED
  BY <1>1, <1>5, <1>6, <1>7, <1>8 DEF repaid

(* The totals after a liquidation, in integers.                            *)
LEMMA LiquidationEffect ==
    ASSUME NEW m \in Market, m.price > 0, NEW price \in Nat,
           NEW p, p.coll \in Nat, p.shares \in Nat
    PROVE  LET o == Outcome(p, m, price)
               n == AfterLiquidation(p, m, price)
           IN  /\ n \in Market
               /\ n.fee = m.fee /\ n.price = m.price /\ n.queued = m.queued
               /\ n.supply = AtLeastZero(m.supply - o.badDebt)
               /\ n.borrow = AtLeastZero(m.borrow - o.repaid)
               /\ n.coll = AtLeastZero(m.coll - o.seized)
               /\ n.badDebt = m.badDebt + o.badDebt
               /\ n.shares = IF o.repaid = 0 THEN m.shares
                             ELSE AtLeastZero(m.shares - p.shares)
<1> DEFINE o == Outcome(p, m, price)
           n == AfterLiquidation(p, m, price)
           borrow == AtLeastZero(m.borrow - o.repaid)
           shares == AtLeastZero(m.shares - p.shares)
           coll   == AtLeastZero(m.coll - o.seized)
           supply == AtLeastZero(m.supply - o.badDebt)
           bad    == m.badDebt + o.badDebt
<1>1. /\ o.repaid \in Nat /\ o.seized \in Nat /\ o.badDebt \in 0 .. o.repaid
      /\ o.repaid = 0 => o.seized = 0 /\ o.badDebt = 0
  <2>1. /\ o.repaid \in Nat /\ o.seized \in 0 .. p.coll
        /\ o.badDebt \in 0 .. o.repaid
    BY OutcomeBounds
  <2>2. o.repaid = 0 => o.seized = 0
    BY DEF Outcome
  <2> HIDE DEF o
  <2> QED
    BY <2>1, <2>2
<1> HIDE DEF o
<1>2. /\ m.supply \in Nat /\ m.borrow \in Nat /\ m.shares \in Nat
      /\ m.coll \in Nat /\ m.badDebt \in Nat
  BY DEF Market
<1>3. /\ borrow \in Nat /\ shares \in Nat /\ coll \in Nat /\ supply \in Nat
      /\ bad \in Nat
  BY <1>1, <1>2 DEF AtLeastZero
<1>4. CASE o.repaid = 0
  <2>1. n = m
    BY <1>4 DEF AfterLiquidation, o
  <2>2. supply = m.supply /\ borrow = m.borrow /\ coll = m.coll /\ bad = m.badDebt
    BY <1>1, <1>2, <1>4 DEF AtLeastZero
  <2> HIDE DEF n, supply, borrow, coll, bad
  <2> QED
    BY <1>4, <2>1, <2>2 DEF o, n, supply, borrow, coll, bad
<1>5. CASE o.repaid # 0
  <2>1. n = [m EXCEPT !.borrow = borrow, !.shares = shares, !.coll = coll,
                      !.supply = supply, !.badDebt = bad]
    BY <1>5 DEF AfterLiquidation, o
  <2> HIDE DEF n, supply, borrow, coll, bad, shares
  <2>2. /\ n \in Market /\ n.fee = m.fee /\ n.price = m.price
        /\ n.queued = m.queued /\ n.supply = supply /\ n.borrow = borrow
        /\ n.coll = coll /\ n.badDebt = bad /\ n.shares = shares
    BY <1>3, <2>1 DEF Market
  <2> QED
    BY <1>5, <2>2 DEF o, n, supply, borrow, coll, bad, shares
<1> QED
  BY <1>4, <1>5

(* Of a smaller factor the product is no larger.                           *)
LEMMA ProductMonotone ==
    ASSUME NEW a \in Nat, NEW b \in Nat, NEW c \in Nat, a <= b
    PROVE  a * c \in Nat /\ b * c \in Nat /\ a * c <= b * c
<1>1. PICK d \in Nat : b = a + d
  <2>1. b - a \in Nat /\ b = a + (b - a)
    OBVIOUS
  <2> QED
    BY <2>1
<1>2. b * c = a * c + d * c /\ d * c \in Nat /\ a * c \in Nat
  BY <1>1
<1> QED
  BY <1>2

(* A quotient and its remainder.                                           *)
LEMMA Division ==
    ASSUME NEW b \in Nat \ {0}, NEW x \in Nat
    PROVE  /\ x \div b \in Nat /\ x % b \in 0 .. b - 1
           /\ x = b * (x \div b) + (x % b)
  OBVIOUS

(* A larger dividend has no smaller a quotient.                            *)
LEMMA DivisionMonotone ==
    ASSUME NEW b \in Nat \ {0}, NEW x \in Nat, NEW y \in Nat, x <= y
    PROVE  x \div b <= y \div b
<1> DEFINE p == x \div b
           q == y \div b
<1>1. p \in Nat /\ x % b \in 0 .. b - 1 /\ x = b * p + (x % b)
  BY Division
<1>2. q \in Nat /\ y % b \in 0 .. b - 1 /\ y = b * q + (y % b)
  BY Division
<1> HIDE DEF p, q
<1>3. ASSUME q < p PROVE FALSE
  <2>1. PICK d \in Nat : p = q + 1 + d
    <3>1. p - q - 1 \in Nat /\ p = q + 1 + (p - q - 1)
      BY <1>1, <1>2, <1>3
    <3> QED
      BY <3>1
  <2>2. b * p = b * q + b + b * d /\ b * d \in Nat /\ b * q \in Nat
    BY <1>2, <2>1
  <2> QED
    BY <1>1, <1>2, <2>2
<1>4. p <= q
  BY <1>1, <1>2, <1>3
<1> QED
  BY <1>4 DEF p, q

(* A drawdown d of D, of which g of t has unfolded, leaves a positive part *)
(* of the price and no more than all of it.                                *)
LEMMA FallLeavesPrice ==
    ASSUME NEW p0 \in Nat \ {0}, NEW D \in Nat \ {0}, NEW d \in Nat, d < D,
           NEW t \in Nat \ {0}, NEW g \in 0 .. t
    PROVE  p0 - (p0 * d * g) \div (D * t) \in 1 .. p0
<1> DEFINE e == d * g
           y == D * t
           x == p0 * d * g
           q == x \div y
<1>1. e \in Nat /\ y \in Nat \ {0}
  OBVIOUS
<1>2. e < y
  <2>1. d * g <= d * t /\ d * g \in Nat /\ d * t \in Nat
    BY ProductMonotone
  <2>2. (d + 1) * t <= D * t /\ (d + 1) * t = d * t + t
    BY ProductMonotone
  <2> QED
    BY <1>1, <2>1, <2>2
<1>3. x = p0 * e
  OBVIOUS
<1> HIDE DEF e, x, y
<1>4. x \in Nat /\ x < y * p0
  <2>1. (e + 1) * p0 <= y * p0 /\ (e + 1) * p0 = p0 * e + p0
    BY <1>1, <1>2, ProductMonotone
  <2> QED
    BY <1>1, <1>3, <2>1
<1>5. q \in Nat /\ y * q <= x
  BY <1>1, <1>4
<1> HIDE DEF q
<1>6. ASSUME p0 <= q PROVE FALSE
  <2>1. p0 * y <= q * y
    BY <1>1, <1>5, <1>6, ProductMonotone
  <2>2. p0 * y = y * p0 /\ q * y = y * q /\ y * p0 \in Nat /\ y * q \in Nat
    BY <1>1, <1>5
  <2> QED
    BY <1>4, <1>5, <2>1, <2>2
<1>7. p0 - q \in 1 .. p0
  BY <1>5, <1>6
<1> QED
  BY <1>7 DEF q, x, y

(* A larger drawdown leaves no more.                                       *)
LEMMA FallMonotone ==
    ASSUME NEW p0 \in Nat \ {0}, NEW D \in Nat \ {0}, NEW c \in Nat, NEW d \in Nat,
           c <= d, NEW t \in Nat \ {0}, NEW g \in Nat
    PROVE  p0 - (p0 * d * g) \div (D * t) <= p0 - (p0 * c * g) \div (D * t)
<1> DEFINE x == p0 * c * g
           z == p0 * d * g
           y == D * t
<1>1. y \in Nat \ {0}
  OBVIOUS
<1>2. x \in Nat /\ z \in Nat /\ x <= z
  <2>1. c * p0 <= d * p0 /\ c * p0 \in Nat /\ d * p0 \in Nat
    BY ProductMonotone
  <2>2. (c * p0) * g <= (d * p0) * g
    BY <2>1, ProductMonotone
  <2>3. x = (c * p0) * g /\ z = (d * p0) * g /\ x \in Nat /\ z \in Nat
    OBVIOUS
  <2> QED
    BY <2>2, <2>3
<1> HIDE DEF x, y, z
<1>3. x \div y <= z \div y /\ x \div y \in Nat /\ z \div y \in Nat
  BY <1>1, <1>2, Division, DivisionMonotone
<1>4. p0 - z \div y <= p0 - x \div y
  BY <1>3
<1> QED
  BY <1>4 DEF x, y, z

(* Division undoes multiplication.                                         *)
LEMMA QuotientExact ==
    ASSUME NEW k \in Nat, NEW n \in Nat \ {0} PROVE (k * n) \div n = k
<1> DEFINE x == k * n
           q == x \div n
<1>1. x \in Nat
  OBVIOUS
<1> HIDE DEF x
<1>2. q \in Nat /\ n * q <= x /\ x < n * q + n
  BY <1>1
<1> HIDE DEF q
<1>3. n * q \in Nat /\ n * k = x /\ n * (q + 1) = n * q + n
  BY <1>2 DEF x
<1>4. ~(q < k)
  <2> SUFFICES ASSUME q + 1 <= k PROVE FALSE
    BY <1>2
  <2>1. n * (q + 1) <= n * k
    BY <1>2
  <2> QED
    BY <1>1, <1>2, <1>3, <2>1
<1>5. ~(k < q)
  <2> SUFFICES ASSUME k + 1 <= q PROVE FALSE
    BY <1>2
  <2>1. n * (k + 1) <= n * q /\ n * (k + 1) = n * k + n
    BY <1>2
  <2> QED
    BY <1>1, <1>2, <1>3, <2>1
<1> QED
  BY <1>2, <1>4, <1>5 DEF q, x

(* A debt in shares is worth the index.                                    *)
LEMMA DebtAtIndex ==
    ASSUME NEW m \in Market, NEW idx \in Nat, m.borrow = idx * m.shares,
           NEW s \in 0 .. m.shares
    PROVE  BorrowAssets(s, m) = idx * s
<1> DEFINE n == m.shares
<1>1. n \in Nat
  BY DEF Market
<1>2. CASE n = 0
  BY <1>2 DEF BorrowAssets
<1>3. CASE n # 0
  <2>1. BorrowAssets(s, m) = (s * (idx * n)) \div n
    BY <1>3 DEF BorrowAssets
  <2> DEFINE k == idx * s
  <2> HIDE DEF n
  <2>2. k \in Nat /\ s * (idx * n) = k * n
    BY <1>1
  <2> HIDE DEF k
  <2>3. (k * n) \div n = k
    BY <1>1, <1>3, <2>2, QuotientExact
  <2> QED
    BY <2>1, <2>2, <2>3 DEF k, n
<1> QED
  BY <1>2, <1>3

(* Of any interest, any fee but all of it leaves the suppliers something.  *)
LEMMA SupplierGains ==
    ASSUME NEW i \in Nat \ {0}, NEW fee \in 0 .. FeeDen, fee < FeeDen
    PROVE  SupplierPart(i, fee) >= 1
<1> DEFINE x == i * fee
           cut == x \div FeeDen
<1>1. FeeDen \in Nat \ {0} /\ fee \in Nat
  BY AccountingAssumption
<1>2. x \in Nat /\ x < FeeDen * i /\ FeeDen * i \in Nat
  <2>1. (fee + 1) * i <= FeeDen * i /\ (fee + 1) * i = fee * i + i /\ fee * i \in Nat
    BY <1>1, ProductMonotone
  <2>2. fee * i = x /\ FeeDen * i \in Nat
    BY <1>1
  <2> QED
    BY <2>1, <2>2
<1> HIDE DEF x
<1>3. cut \in Nat /\ FeeDen * cut <= x
  BY <1>1, <1>2
<1> HIDE DEF cut
<1>4. ASSUME i <= cut PROVE FALSE
  <2>1. i * FeeDen <= cut * FeeDen /\ i * FeeDen = FeeDen * i /\ cut * FeeDen = FeeDen * cut
        /\ FeeDen * cut \in Nat
    BY <1>1, <1>3, <1>4, ProductMonotone
  <2> QED
    BY <1>2, <1>3, <2>1
<1>5. i - cut >= 1
  BY <1>3, <1>4
<1> QED
  BY <1>5 DEF SupplierPart, cut, x

(* A larger volume does not slip less.                                     *)
LEMMA SlippageMonotone ==
    ASSUME NEW u \in Nat, NEW v \in Nat, u <= v
    PROVE  Slippage(u) \in 0 .. 100 /\ Slippage(v) \in 0 .. 100 /\ Slippage(u) <= Slippage(v)
<1> DEFINE a == (SlipNum * u) \div SlipDen
           b == (SlipNum * v) \div SlipDen
<1>1. a \in Nat /\ b \in Nat /\ a <= b
  <2>1. u * SlipNum <= v * SlipNum /\ u * SlipNum = SlipNum * u /\ v * SlipNum = SlipNum * v
        /\ SlipNum * u \in Nat /\ SlipNum * v \in Nat
    BY AccountingAssumption, ProductMonotone
  <2>2. SlipNum * u <= SlipNum * v
    BY <2>1
  <2> QED
    BY <2>1, <2>2, AccountingAssumption, Division, DivisionMonotone
<1>2. /\ Slippage(u) = IF u <= MinVolume THEN 0 ELSE Least(a, MaxSlip)
      /\ Slippage(v) = IF v <= MinVolume THEN 0 ELSE Least(b, MaxSlip)
  BY DEF Slippage
<1> HIDE DEF a, b
<1> QED
  BY <1>1, <1>2, AccountingAssumption DEF Least

(* What the liquidation of a position with this debt loses when it is      *)
(* seized and sold at one price.                                           *)
SeizedAt(debt, coll, price) ==
    IF debt = 0 THEN 0 ELSE Least((debt * LifNum) \div (LifDen * price), coll)
LossAt(debt, coll, price) ==
    AtLeastZero(debt - Proceeds(SeizedAt(debt, coll, price), price))

LEMMA OutcomeLoss ==
    ASSUME NEW p, NEW m
    PROVE  Outcome(p, m, m.price).badDebt
             = LossAt(BorrowAssets(p.shares, m), p.coll, m.price)
  BY DEF Outcome, LossAt, SeizedAt

(* A higher price seizes no more, but what it leaves out is worth less     *)
(* than a unit of collateral.                                              *)
LEMMA HigherPriceSeizes ==
    ASSUME NEW A \in Nat, NEW coll \in Nat, NEW l \in Nat \ {0},
           NEW w \in Nat \ {0}, NEW x \in Nat \ {0}, w <= x
    PROVE  LET u == Least(A \div (l * x), coll)
               v == Least(A \div (l * w), coll)
           IN  u \in Nat /\ v \in Nat /\ u <= v /\ v * w <= (u + 1) * x
<1> DEFINE u == Least(A \div (l * x), coll)
           v == Least(A \div (l * w), coll)
           X == l * x
           W == l * w
           p == A \div X
           q == A \div W
<1>1. X \in Nat \ {0} /\ W \in Nat \ {0} /\ W <= X
  <2>1. w * l <= x * l /\ w * l = W /\ x * l = X
    BY ProductMonotone
  <2> QED
    BY <2>1
<1>2. /\ p \in Nat /\ A % X \in 0 .. X - 1 /\ A = X * p + (A % X)
      /\ q \in Nat /\ A % W \in 0 .. W - 1 /\ A = W * q + (A % W)
  <2> HIDE DEF X, W
  <2> QED
    BY <1>1, Division
<1>3. u = Least(p, coll) /\ v = Least(q, coll)
  OBVIOUS
<1> HIDE DEF p, q, u, v
<1>4. p <= q
  <2> HIDE DEF X, W
  <2> SUFFICES ASSUME q < p PROVE FALSE
    BY <1>2
  <2>1. (q + 1) * W <= p * W /\ W * p \in Nat /\ p * W = W * p
        /\ (q + 1) * W = W * q + W /\ W * q \in Nat
    BY <1>1, <1>2, ProductMonotone
  <2>2. W * p <= X * p /\ X * p \in Nat
    BY <1>1, <1>2, ProductMonotone
  <2> QED
    BY <1>1, <1>2, <2>1, <2>2
<1>5. u \in Nat /\ v \in Nat /\ u <= v /\ v <= q
  BY <1>2, <1>3, <1>4 DEF Least
<1>6. ASSUME u = coll PROVE v * w <= (u + 1) * x
  <2>1. v <= u
    BY <1>2, <1>3, <1>5, <1>6 DEF Least
  <2>2. v * w <= v * x /\ v * x <= (u + 1) * x
    <3>1. w * v <= x * v /\ v * x <= (u + 1) * x
      BY <1>5, <2>1, ProductMonotone
    <3>2. w * v = v * w /\ x * v = v * x
      BY <1>5
    <3> QED
      BY <3>1, <3>2
  <2>3. v * w \in Nat /\ v * x \in Nat /\ (u + 1) * x \in Nat
    BY <1>5
  <2> QED
    BY <1>5, <2>2, <2>3
<1>7. ASSUME u # coll PROVE v * w <= (u + 1) * x
  <2>1. u = p
    BY <1>2, <1>3, <1>7 DEF Least
  <2>2. W * q <= A /\ A < X * (u + 1)
    <3> HIDE DEF X, W
    <3>1. X * (u + 1) = X * u + X /\ X * u \in Nat /\ W * q \in Nat
      BY <1>1, <1>2, <1>5
    <3> QED
      BY <1>1, <1>2, <2>1, <3>1
  <2>3. v * W <= q * W /\ v * W \in Nat /\ q * W \in Nat /\ q * W = W * q
    BY <1>1, <1>2, <1>5, ProductMonotone
  <2>4. v * W < X * (u + 1) /\ X * (u + 1) \in Nat
    <3>1. X * (u + 1) \in Nat
      BY <1>1, <1>5
    <3> HIDE DEF X, W
    <3> QED
      BY <2>2, <2>3, <3>1
  <2> DEFINE a == v * w
             b == (u + 1) * x
  <2>5. a \in Nat /\ b \in Nat /\ v * W = a * l /\ X * (u + 1) = b * l
    BY <1>5
  <2> HIDE DEF a, b, X, W
  <2>6. a <= b
    <3> SUFFICES ASSUME b < a PROVE FALSE
      BY <2>5
    <3>1. b * l <= a * l /\ a * l \in Nat /\ b * l \in Nat
      BY <2>5, ProductMonotone
    <3> QED
      BY <2>4, <2>5, <3>1
  <2> QED
    BY <1>5, <2>6 DEF a, b
<1> QED
  BY <1>5, <1>6, <1>7 DEF u, v

(* The worth of what is sold, in the same terms.                           *)
LEMMA ProceedsWithinAUnit ==
    ASSUME NEW u \in Nat, NEW v \in Nat, NEW w \in Nat, NEW x \in Nat,
           v * w <= (u + 1) * x, NEW s \in 0 .. 100, NEW t \in 0 .. 100, s <= t
    PROVE  (v * w * (100 - t)) \div 100 <= (u * x * (100 - s)) \div 100 + x
<1> DEFINE a == v * w
           b == (u + 1) * x
           c == u * x
           g == 100 - s
           h == 100 - t
           y == c * g
           z == a * h
<1>1. /\ a \in Nat /\ b \in Nat /\ c \in Nat /\ g \in 0 .. 100 /\ h \in 0 .. 100
      /\ h <= g /\ a <= b /\ b = c + x
  OBVIOUS
<1> HIDE DEF a, b, c, g, h
<1>2. /\ y \in Nat /\ z \in Nat
  BY <1>1
<1>3. z <= y + 100 * x
  <2>1. h * a <= g * a /\ h * a \in Nat /\ g * a \in Nat
    BY <1>1, ProductMonotone
  <2>2. a * g <= b * g /\ b * g = c * g + x * g /\ x * g \in Nat /\ a * g \in Nat
    <3>1. a * g <= b * g /\ a * g \in Nat
      BY <1>1, ProductMonotone
    <3>2. (c + x) * g = c * g + x * g /\ x * g \in Nat
      BY <1>1
    <3> QED
      BY <1>1, <3>1, <3>2
  <2>3. g * x <= 100 * x /\ g * x = x * g
    BY <1>1, ProductMonotone
  <2>4. h * a = z /\ g * a = a * g
    BY <1>1
  <2> HIDE DEF z
  <2> QED
    BY <1>2, <2>1, <2>2, <2>3, <2>4
<1> HIDE DEF y, z
<1>4. z \div 100 <= (y + 100 * x) \div 100
  BY <1>2, <1>3, DivisionMonotone
<1>5. (y + 100 * x) \div 100 = y \div 100 + x
  BY <1>2
<1>6. v * w * (100 - t) = z /\ u * x * (100 - s) = y
  BY DEF a, c, g, h, y, z
<1> QED
  BY <1>4, <1>5, <1>6

(* The lower the price, the more is lost, but for less than a unit of      *)
(* collateral at the higher price: seizures are whole units.               *)
LEMMA LossFallsWithPrice ==
    ASSUME NEW debt \in Nat, NEW coll \in Nat,
           NEW w \in Nat \ {0}, NEW x \in Nat \ {0}, w <= x
    PROVE  /\ LossAt(debt, coll, x) \in Nat /\ LossAt(debt, coll, w) \in Nat
           /\ LossAt(debt, coll, x) <= LossAt(debt, coll, w) + x
<1> DEFINE A == debt * LifNum
           u == SeizedAt(debt, coll, x)
           v == SeizedAt(debt, coll, w)
           P == Proceeds(u, x)
           Q == Proceeds(v, w)
<1>1. A \in Nat /\ LifDen \in Nat \ {0}
  BY LifPositive
<1>2. u \in Nat /\ v \in Nat /\ u <= v /\ v * w <= (u + 1) * x
  <2>1. CASE debt = 0
    BY <2>1 DEF SeizedAt
  <2>2. CASE debt # 0
    <3>1. u = Least(A \div (LifDen * x), coll) /\ v = Least(A \div (LifDen * w), coll)
      BY <2>2 DEF SeizedAt
    <3> HIDE DEF A, u, v
    <3> DEFINE U == Least(A \div (LifDen * x), coll)
               V == Least(A \div (LifDen * w), coll)
    <3>2. U \in Nat /\ V \in Nat /\ U <= V /\ V * w <= (U + 1) * x
      BY <1>1, HigherPriceSeizes
    <3> HIDE DEF U, V
    <3>3. u = U /\ v = V
      BY <3>1 DEF U, V
    <3> QED
      BY <3>2, <3>3
  <2> QED
    BY <2>1, <2>2
<1> HIDE DEF u, v
<1>3. P \in Nat /\ Q \in Nat
  BY <1>2, ProceedsNat
<1>4. Q <= P + x
  <2> DEFINE s == Slippage(u)
             t == Slippage(v)
  <2>1. s \in 0 .. 100 /\ t \in 0 .. 100 /\ s <= t
    BY <1>2, SlippageMonotone
  <2>2. Q = (v * w * (100 - t)) \div 100 /\ P = (u * x * (100 - s)) \div 100
    BY DEF Proceeds
  <2> HIDE DEF s, t, P, Q
  <2> QED
    BY <1>2, <2>1, <2>2, ProceedsWithinAUnit
<1>5. LossAt(debt, coll, x) = AtLeastZero(debt - P) /\ LossAt(debt, coll, w) = AtLeastZero(debt - Q)
  BY DEF LossAt, u, v
<1> HIDE DEF P, Q
<1> QED
  BY <1>3, <1>4, <1>5 DEF AtLeastZero

-----------------------------------------------------------------------------
(* OraclePricing.                                                          *)

(* The prices are 1 .. n for a positive n.                                 *)
LEMMA PricesInterval ==
    /\ IsFiniteSet(Prices) /\ Prices \subseteq Nat \ {0} /\ 1 \in Prices
    /\ \A p \in Prices : PriceTick[p] \in Nat
    /\ \A p, q \in Prices : PriceTick[p] <= PriceTick[q] => p <= q
<1>1. Cardinality(Prices) \in Nat /\ Prices # {}
      /\ Prices = 1 .. Cardinality(Prices) /\ IsFiniteSet(Prices)
  BY TickAssumption, FS_CardinalityType
<1> DEFINE n == Cardinality(Prices)
<1>2. n \in Nat /\ Prices = 1 .. n /\ Prices # {}
  BY <1>1
<1> HIDE DEF n
<1>3. Prices \subseteq Nat \ {0} /\ 1 \in Prices
  BY <1>2
<1>4. \A p, q \in Prices : PriceTick[p] <= PriceTick[q] => p <= q
  <2> SUFFICES ASSUME NEW p \in Prices, NEW q \in Prices,
                      PriceTick[p] <= PriceTick[q], ~(p <= q)
               PROVE  FALSE
    OBVIOUS
  <2>1. q < p
    BY <1>3
  <2>2. PriceTick[q] < PriceTick[p] /\ PriceTick[q] \in Nat /\ PriceTick[p] \in Nat
    BY <2>1, TickAssumption
  <2> QED
    BY <2>2
<1> QED
  BY <1>1, <1>3, <1>4, TickAssumption

(* Prices are positive.                                                    *)
LEMMA PricePositive == ASSUME NEW p \in Prices PROVE p \in Nat /\ p > 0
<1>1. p \in Nat \ {0}
  BY PricesInterval
<1> QED
  BY <1>1

(* An observation of a price of the grid is not below the lowest tick.     *)
LEMMA ObservedOnGrid ==
    ASSUME NEW k \in Nat, NEW p \in Prices
    PROVE  Observed(k, p) \in Observation /\ Observed(k, p).tick >= PriceTick[1]
<1>1. 1 \in Prices /\ PriceTick[p] \in Nat /\ PriceTick[1] \in Nat
  BY PricesInterval
<1>2. p \in Nat \ {0}
  BY PricesInterval
<1>3. PriceTick[p] >= PriceTick[1]
  <2>1. CASE p = 1
    BY <1>1, <2>1
  <2>2. CASE 1 < p
    BY <1>1, <2>2, TickAssumption
  <2> QED
    BY <1>2, <2>1, <2>2
<1> QED
  BY <1>1, <1>3 DEF Observed, Observation

(* Every observation counts for a positive number of blocks.               *)
LEMMA WeightPositive ==
    ASSUME NEW obs \in Seq(Observation), NEW i \in DOMAIN obs
    PROVE  Weight(obs, i) \in Nat \ {0}
<1>1. CASE i = Len(obs)
  BY <1>1 DEF Weight
<1>2. CASE i # Len(obs)
  <2> DEFINE d == obs[i + 1].block - obs[i].block
             S == {1} \cup {d}
  <2>1. obs[i + 1] \in Observation /\ obs[i] \in Observation
    BY <1>2
  <2>2. d \in Int
    BY <2>1 DEF Observation
  <2>3. S = {1, d}
    OBVIOUS
  <2> HIDE DEF d
  <2>4. IsFiniteSet(S)
    BY FS_Singleton, FS_AddElement
  <2>5. S # {} /\ S \subseteq Int /\ 1 \in S
    BY <2>2
  <2> HIDE DEF S
  <2>6. Max(S) \in S /\ \A y \in S : Max(S) >= y
    BY <2>4, <2>5, MaxOfFinite
  <2>7. Max(S) >= 1 /\ Max(S) \in Int
    BY <2>5, <2>6
  <2> QED
    BY <1>2, <2>3, <2>7 DEF Weight, d
<1> QED
  BY <1>1, <1>2

(* The price read is a price of the grid, and at least any price that none *)
(* of the observations is below.                                           *)
LEMMA TwapReads ==
    ASSUME NEW obs \in Seq(Observation), NEW p \in Prices,
           \A i \in DOMAIN obs : obs[i].tick >= PriceTick[p]
    PROVE  ReadTwap(obs) \in Prices /\ ReadTwap(obs) >= p
<1> DEFINE D == DOMAIN obs
           w == [i \in D |-> Weight(obs, i)]
           f == [i \in D |-> obs[i].tick * Weight(obs, i)]
           t == PriceTick[p]
           num == TickSum(obs)
           den == TotalWeight(obs)
           S == {q \in Prices : PriceTick[q] * den <= num}
<1>1. IsFiniteSet(D)
  <2>1. D = 1 .. Len(obs) /\ Len(obs) \in Nat
    OBVIOUS
  <2> QED
    BY <2>1, FS_Interval
<1>2. t \in Nat
  BY PricesInterval
<1>3. \A i \in D : f[i] \in Nat /\ w[i] \in Nat /\ f[i] >= t * w[i]
  <2> SUFFICES ASSUME NEW i \in D
               PROVE  f[i] \in Nat /\ w[i] \in Nat /\ f[i] >= t * w[i]
    OBVIOUS
  <2>1. Weight(obs, i) \in Nat
    BY WeightPositive
  <2>2. obs[i].tick \in Nat
    <3>1. \A o \in Observation : o.tick \in Nat
      BY DEF Observation
    <3>2. obs[i] \in Observation
      OBVIOUS
    <3> QED
      BY <3>1, <3>2
  <2>3. obs[i].tick >= t
    OBVIOUS
  <2> DEFINE x == obs[i].tick
             y == Weight(obs, i)
  <2>4. f[i] = x * y /\ w[i] = y
    OBVIOUS
  <2> HIDE DEF x, y, t, f, w, D
  <2>5. x \in Nat /\ y \in Nat /\ x >= t
    BY <2>1, <2>2, <2>3 DEF x, y
  <2>6. x * y \in Nat /\ x * y >= t * y
    BY <1>2, <2>5
  <2> QED
    BY <2>4, <2>5, <2>6
<1>4. num = SumFunctionOnSet(f, D) /\ den = SumFunctionOnSet(w, D)
  BY DEF TickSum, TotalWeight, SumFunction
<1> HIDE DEF f, w, t, num, den
<1>5. num >= t * den
  BY <1>1, <1>2, <1>3, <1>4, SumAtLeast
<1>6. num \in Nat /\ den \in Nat
  BY <1>1, <1>3, <1>4, SumNat
<1>7. p \in S
  BY <1>2, <1>5, <1>6 DEF t
<1>8. S \subseteq Prices /\ IsFiniteSet(S) /\ S \subseteq Int
  BY PricesInterval, FS_Subset
<1>9. ReadTwap(obs) = Max(S)
  BY DEF ReadTwap, TickToPrice, num, den
<1> HIDE DEF S
<1> QED
  BY <1>7, <1>8, <1>9, MaxOfFinite

(* The positions of a deque are finitely many.                             *)
LEMMA ObservationsFinite ==
    ASSUME NEW obs \in Seq(Observation)
    PROVE  IsFiniteSet(DOMAIN obs) /\ DOMAIN obs = 1 .. Len(obs)
<1>1. DOMAIN obs = 1 .. Len(obs) /\ Len(obs) \in Nat
  OBVIOUS
<1> QED
  BY <1>1, FS_Interval

(* Ticks, weights and their sums are naturals.                             *)
LEMMA TwapSums ==
    ASSUME NEW obs \in Seq(Observation)
    PROVE  /\ \A i \in 1 .. Len(obs) : obs[i].tick \in Nat /\ Weight(obs, i) \in Nat \ {0}
           /\ TickSum(obs) \in Nat /\ TotalWeight(obs) \in Nat
           /\ obs # << >> => TotalWeight(obs) > 0
<1> DEFINE D == DOMAIN obs
           w == [i \in D |-> Weight(obs, i)]
           f == [i \in D |-> obs[i].tick * Weight(obs, i)]
<1>1. IsFiniteSet(D) /\ D = 1 .. Len(obs)
  BY ObservationsFinite
<1>2. ASSUME NEW i \in D PROVE obs[i].tick \in Nat /\ Weight(obs, i) \in Nat \ {0}
  <2>1. \A o \in Observation : o.tick \in Nat
    BY DEF Observation
  <2>2. obs[i] \in Observation
    OBVIOUS
  <2> QED
    BY <2>1, <2>2, WeightPositive
<1>3. ASSUME NEW i \in D PROVE f[i] \in Nat /\ w[i] \in Nat \ {0}
  <2> DEFINE x == obs[i].tick
             y == Weight(obs, i)
  <2>1. x \in Nat /\ y \in Nat \ {0} /\ f[i] = x * y /\ w[i] = y
    BY <1>2
  <2> HIDE DEF x, y, f, w
  <2> QED
    BY <2>1
<1>4. TickSum(obs) = SumFunctionOnSet(f, D) /\ TotalWeight(obs) = SumFunctionOnSet(w, D)
  BY DEF TickSum, TotalWeight, SumFunction
<1> HIDE DEF f, w, D
<1>5. TickSum(obs) \in Nat /\ TotalWeight(obs) \in Nat
  BY <1>1, <1>3, <1>4, SumNat
<1>6. ASSUME obs # << >> PROVE TotalWeight(obs) > 0
  <2>1. 1 \in D
    BY <1>1, <1>6
  <2>2. \A i \in D : w[i] \in Nat
    BY <1>3
  <2>3. SumFunctionOnSet(w, D \ {1}) \in Nat
    BY <1>1, <2>2, SumSplit, D \ {1} \in SUBSET D, FS_Subset, SumNat
  <2>4. SumFunctionOnSet(w, D) = w[1] + SumFunctionOnSet(w, D \ {1})
    BY <1>1, <2>1, <2>2, SumRemove
  <2>5. w[1] \in Nat \ {0}
    BY <1>3, <2>1
  <2> QED
    BY <1>4, <2>3, <2>4, <2>5
<1> QED
  BY <1>1, <1>2, <1>5, <1>6

(* A weighted sum of ticks is at least, or at most, the total weight times *)
(* a bound of the ticks.                                                   *)
LEMMA TickSumAtLeast ==
    ASSUME NEW obs \in Seq(Observation), NEW t \in Nat,
           \A i \in DOMAIN obs : obs[i].tick >= t
    PROVE  TickSum(obs) >= t * TotalWeight(obs)
<1> DEFINE D == DOMAIN obs
           w == [i \in D |-> Weight(obs, i)]
           f == [i \in D |-> obs[i].tick * Weight(obs, i)]
<1>1. IsFiniteSet(D)
  BY ObservationsFinite
<1>2. ASSUME NEW i \in D PROVE f[i] \in Nat /\ w[i] \in Nat /\ f[i] >= t * w[i]
  <2>1. obs[i].tick \in Nat /\ Weight(obs, i) \in Nat /\ obs[i].tick >= t
    <3>1. i \in 1 .. Len(obs)
      OBVIOUS
    <3> QED
      BY <3>1, TwapSums
  <2> DEFINE x == obs[i].tick
             y == Weight(obs, i)
  <2>2. f[i] = x * y /\ w[i] = y /\ x \in Nat /\ y \in Nat /\ x >= t
    BY <2>1
  <2> HIDE DEF x, y, f, w
  <2>3. x * y \in Nat /\ x * y >= t * y
    BY <2>2, ProductMonotone
  <2> QED
    BY <2>2, <2>3
<1>3. TickSum(obs) = SumFunctionOnSet(f, D) /\ TotalWeight(obs) = SumFunctionOnSet(w, D)
  BY DEF TickSum, TotalWeight, SumFunction
<1> HIDE DEF f, w, D
<1> QED
  BY <1>1, <1>2, <1>3, SumAtLeast

(* Ticks of at most t have a weighted mean of at most t.                   *)
LEMMA TickSumAtMost ==
    ASSUME NEW obs \in Seq(Observation), NEW t \in Nat,
           \A i \in DOMAIN obs : obs[i].tick <= t
    PROVE  TickSum(obs) <= t * TotalWeight(obs)
<1> DEFINE D == DOMAIN obs
           w == [i \in D |-> Weight(obs, i)]
           f == [i \in D |-> obs[i].tick * Weight(obs, i)]
<1>1. IsFiniteSet(D)
  BY ObservationsFinite
<1>2. ASSUME NEW i \in D PROVE f[i] \in Nat /\ w[i] \in Nat /\ f[i] <= t * w[i]
  <2>1. obs[i].tick \in Nat /\ Weight(obs, i) \in Nat /\ obs[i].tick <= t
    <3>1. i \in 1 .. Len(obs)
      OBVIOUS
    <3> QED
      BY <3>1, TwapSums
  <2> DEFINE x == obs[i].tick
             y == Weight(obs, i)
  <2>2. f[i] = x * y /\ w[i] = y /\ x \in Nat /\ y \in Nat /\ x <= t
    BY <2>1
  <2> HIDE DEF x, y, f, w
  <2>3. x * y \in Nat /\ x * y <= t * y
    BY <2>2, ProductMonotone
  <2> QED
    BY <2>2, <2>3
<1>3. TickSum(obs) = SumFunctionOnSet(f, D) /\ TotalWeight(obs) = SumFunctionOnSet(w, D)
  BY DEF TickSum, TotalWeight, SumFunction
<1> HIDE DEF f, w, D
<1> QED
  BY <1>1, <1>2, <1>3, SumAtMost

(* Observations of prices of the grid: none is below the lowest tick.      *)
OnGrid(obs) ==
    obs \in Seq(Observation) /\ \A i \in DOMAIN obs : obs[i].tick >= PriceTick[1]

(* The price read is the greatest one whose tick is no more than the mean. *)
LEMMA TwapIs ==
    ASSUME NEW obs, OnGrid(obs)
    PROVE  /\ ReadTwap(obs) \in Prices
           /\ PriceTick[ReadTwap(obs)] * TotalWeight(obs) <= TickSum(obs)
           /\ \A q \in Prices : PriceTick[q] * TotalWeight(obs) <= TickSum(obs)
                                  => q <= ReadTwap(obs)
<1> DEFINE den == TotalWeight(obs)
           num == TickSum(obs)
           S == {q \in Prices : PriceTick[q] * den <= num}
<1>1. ReadTwap(obs) \in Prices
  BY PricesInterval, TwapReads DEF OnGrid
<1>2. ReadTwap(obs) = Max(S)
  BY DEF ReadTwap, TickToPrice
<1>3. S \subseteq Prices /\ IsFiniteSet(S) /\ S \subseteq Int
  <2>1. S \subseteq Prices
    OBVIOUS
  <2> HIDE DEF S
  <2>2. IsFiniteSet(Prices) /\ \A p \in Prices : p \in Int
    BY PricesInterval
  <2>3. IsFiniteSet(S)
    BY <2>1, <2>2, FS_Subset
  <2> QED
    BY <2>1, <2>2, <2>3
<1>4. 1 \in S
  <2>1. PriceTick[1] \in Nat /\ 1 \in Prices /\ obs \in Seq(Observation)
    BY PricesInterval DEF OnGrid
  <2>2. TickSum(obs) >= PriceTick[1] * TotalWeight(obs)
    BY <2>1, TickSumAtLeast DEF OnGrid
  <2>3. num \in Nat /\ den \in Nat
    BY <2>1, TwapSums
  <2> DEFINE t == PriceTick[1]
  <2>4. t \in Nat /\ num >= t * den
    BY <2>1, <2>2
  <2> HIDE DEF t, num, den
  <2>5. t * den <= num
    BY <2>3, <2>4
  <2> QED
    BY <2>1, <2>5 DEF t
<1>5. Max(S) \in S /\ \A y \in S : Max(S) >= y
  <2> HIDE DEF S
  <2> QED
    BY <1>3, <1>4, MaxOfFinite
<1>6. ASSUME NEW q \in Prices, PriceTick[q] * den <= num PROVE q <= ReadTwap(obs)
  <2>1. q \in S /\ q \in Int
    BY <1>3, <1>6
  <2>2. Max(S) >= q /\ Max(S) \in Int
    BY <1>3, <1>5, <2>1
  <2> QED
    BY <1>2, <2>1, <2>2
<1> QED
  BY <1>1, <1>2, <1>5, <1>6

(* A rate of one mean is one of any mean that is no smaller.               *)
LEMMA MeanTransitive ==
    ASSUME NEW t \in Nat, NEW ta \in Nat, NEW wa \in Nat, NEW tb \in Nat, NEW wb \in Nat,
           wa > 0, t * wa <= ta, ta * wb <= tb * wa
    PROVE  t * wb <= tb
<1>1. (t * wa) * wb <= ta * wb /\ ta * wb \in Nat /\ (t * wa) * wb \in Nat
  BY ProductMonotone
<1>2. (t * wb) * wa = (t * wa) * wb
  OBVIOUS
<1>3. t * wb \in Nat /\ tb * wa \in Nat
  OBVIOUS
<1> DEFINE x == t * wb
<1>4. x \in Nat /\ x * wa <= tb * wa
  BY <1>1, <1>2, <1>3
<1> HIDE DEF x
<1>5. ASSUME tb < x PROVE FALSE
  <2>1. (tb + 1) * wa <= x * wa /\ (tb + 1) * wa = tb * wa + wa
    BY <1>4, <1>5, ProductMonotone
  <2> QED
    BY <1>3, <1>4, <2>1
<1>6. x <= tb
  BY <1>4, <1>5
<1> QED
  BY <1>6 DEF x

(* A mean that is no larger is read as a price that is no larger.          *)
LEMMA TwapMonotone ==
    ASSUME NEW a, NEW b, OnGrid(a), OnGrid(b), a # << >>,
           TickSum(a) * TotalWeight(b) <= TickSum(b) * TotalWeight(a)
    PROVE  ReadTwap(a) <= ReadTwap(b)
<1> DEFINE r == ReadTwap(a)
           t == PriceTick[r]
           ta == TickSum(a)
           wa == TotalWeight(a)
           tb == TickSum(b)
           wb == TotalWeight(b)
<1>1. r \in Prices /\ t * wa <= ta
  BY TwapIs
<1>2. t \in Nat
  BY <1>1, PricesInterval
<1>3. ta \in Nat /\ wa \in Nat /\ tb \in Nat /\ wb \in Nat /\ wa > 0
  BY TwapSums DEF OnGrid
<1>4. ta * wb <= tb * wa
  OBVIOUS
<1> HIDE DEF r, t, ta, wa, tb, wb
<1>5. t * wb <= tb
  BY <1>1, <1>2, <1>3, <1>4, MeanTransitive
<1> QED
  BY <1>1, <1>5, TwapIs DEF r, t, tb, wb

(* Lower ticks in the same blocks are read as a price that is no larger.   *)
LEMMA LowerReadsLower ==
    ASSUME NEW a, NEW b, OnGrid(a), OnGrid(b), a # << >>, Len(a) = Len(b),
           \A i \in DOMAIN a : a[i].block = b[i].block /\ a[i].tick <= b[i].tick
    PROVE  ReadTwap(a) <= ReadTwap(b)
<1> DEFINE D == 1 .. Len(a)
           w(s) == [i \in DOMAIN s |-> Weight(s, i)]
           f(s) == [i \in DOMAIN s |-> s[i].tick * Weight(s, i)]
<1>1. /\ a \in Seq(Observation) /\ b \in Seq(Observation)
      /\ DOMAIN a = D /\ DOMAIN b = D /\ IsFiniteSet(D)
  BY ObservationsFinite DEF OnGrid
<1>2. ASSUME NEW i \in D PROVE Weight(a, i) = Weight(b, i)
  <2>1. CASE i = Len(a)
    BY <2>1 DEF Weight
  <2>2. CASE i # Len(a)
    <3>1. i + 1 \in D
      <4>1. Len(a) \in Nat
        BY <1>1
      <4>2. i \in 1 .. Len(a) /\ i # Len(a)
        BY <2>2
      <4> QED
        BY <4>1, <4>2
    <3>2. a[i + 1].block = b[i + 1].block /\ a[i].block = b[i].block
      BY <1>1, <3>1
    <3> QED
      BY <2>2, <3>2 DEF Weight
  <2> QED
    BY <2>1, <2>2
<1>3. ASSUME NEW i \in D
      PROVE  f(a)[i] \in Nat /\ f(b)[i] \in Nat /\ f(b)[i] >= 1 * f(a)[i]
  <2> DEFINE x == a[i].tick
             y == b[i].tick
             v == Weight(a, i)
  <2>1. x \in Nat /\ y \in Nat /\ v \in Nat /\ x <= y
    BY <1>1, TwapSums
  <2>2. f(a)[i] = x * v /\ f(b)[i] = y * v
    BY <1>1, <1>2
  <2> HIDE DEF x, y, v, f
  <2>3. x * v \in Nat /\ y * v \in Nat /\ x * v <= y * v
    BY <2>1, ProductMonotone
  <2> QED
    BY <2>2, <2>3
<1>4. /\ TickSum(a) = SumFunctionOnSet(f(a), D) /\ TickSum(b) = SumFunctionOnSet(f(b), D)
      /\ TotalWeight(a) = SumFunctionOnSet(w(a), D)
      /\ TotalWeight(b) = SumFunctionOnSet(w(b), D)
  BY <1>1 DEF TickSum, TotalWeight, SumFunction
<1>5. \A i \in D : w(a)[i] = w(b)[i]
  BY <1>1, <1>2
<1> DEFINE fa == f(a)
           fb == f(b)
           wa == w(a)
           wb == w(b)
           total == TotalWeight(a)
           sa == TickSum(a)
           sb == TickSum(b)
<1>6. \A i \in D : fb[i] \in Nat /\ fa[i] \in Nat /\ fb[i] >= 1 * fa[i]
  BY <1>3
<1>7. \A i \in D : wa[i] = wb[i]
  BY <1>5
<1>8. sb = SumFunctionOnSet(fb, D) /\ sa = SumFunctionOnSet(fa, D)
  BY <1>4
<1>9. total = SumFunctionOnSet(wa, D) /\ TotalWeight(b) = SumFunctionOnSet(wb, D)
  BY <1>4
<1>10. total \in Nat /\ sa \in Nat /\ sb \in Nat
  BY <1>1, TwapSums
<1> HIDE DEF D, f, w, fa, fb, wa, wb, total, sa, sb
<1>11. sa <= sb
  <2>1. SumFunctionOnSet(fb, D) >= 1 * SumFunctionOnSet(fa, D)
    BY <1>1, <1>6, SumAtLeast
  <2> QED
    BY <1>8, <1>10, <2>1
<1>12. TotalWeight(b) = total
  BY <1>1, <1>7, <1>9, SumAgree
<1>13. sa * total <= sb * total
  BY <1>10, <1>11, ProductMonotone
<1>14. TickSum(a) * TotalWeight(b) <= TickSum(b) * TotalWeight(a)
  BY <1>12, <1>13 DEF sa, sb, total
<1> QED
  BY <1>14, TwapMonotone

(* One more observation: the one before it now counts until it.            *)
LEMMA AppendSums ==
    ASSUME NEW obs \in Seq(Observation), obs # << >>, NEW o \in Observation
    PROVE  LET all == Append(obs, o)
               n == Len(obs)
               d == Weight(all, n)
           IN  /\ d \in Nat \ {0}
               /\ TotalWeight(all) = TotalWeight(obs) + d
               /\ TickSum(all) = TickSum(obs) + (d - 1) * obs[n].tick + o.tick
<1> DEFINE all == Append(obs, o)
           n == Len(obs)
           d == Weight(all, n)
           W(s) == [i \in DOMAIN s |-> Weight(s, i)]
           T(s) == [i \in DOMAIN s |-> s[i].tick * Weight(s, i)]
<1>1. PICK m \in Nat : n = m + 1
  <2>1. n \in Nat /\ n # 0
    OBVIOUS
  <2> HIDE DEF n
  <2>2. n - 1 \in Nat /\ n = (n - 1) + 1
    BY <2>1
  <2> QED
    BY <2>2
<1>2. /\ all \in Seq(Observation) /\ Len(all) = n + 1 /\ all[n + 1] = o
      /\ \A i \in 1 .. n : all[i] = obs[i]
      /\ DOMAIN all = 1 .. n + 1 /\ DOMAIN obs = 1 .. n /\ n \in 1 .. n /\ n \in Nat
  OBVIOUS
<1> HIDE DEF all
<1>3. \A i \in 1 .. m : Weight(all, i) = Weight(obs, i)
  <2> SUFFICES ASSUME NEW i \in 1 .. m PROVE Weight(all, i) = Weight(obs, i)
    OBVIOUS
  <2>1. all[i] = obs[i] /\ all[i + 1] = obs[i + 1]
    BY <1>1, <1>2
  <2>2. i # Len(all) /\ i # Len(obs)
    BY <1>1, <1>2
  <2> QED
    BY <2>1, <2>2 DEF Weight
<1>4. Weight(obs, n) = 1 /\ Weight(all, n + 1) = 1
  BY <1>2 DEF Weight
<1>5. \A i \in 1 .. n + 1 : all[i].tick \in Nat /\ Weight(all, i) \in Nat \ {0}
  BY <1>2, TwapSums
<1>6. \A i \in 1 .. n : obs[i].tick \in Nat /\ Weight(obs, i) \in Nat \ {0}
  BY TwapSums
<1>7. d \in Nat \ {0}
  BY <1>2, <1>5
<1> DEFINE x == obs[n].tick
           y == o.tick
<1>8. x \in Nat /\ y \in Nat /\ all[n].tick = x /\ all[n + 1].tick = y
  BY <1>2, <1>5, <1>6
<1>9. TotalWeight(all) = TotalWeight(obs) + d
  <2> DEFINE fa == W(all)
             fo == W(obs)
             gn == [i \in 1 .. n |-> fa[i]]
             gm == [i \in 1 .. m |-> fa[i]]
  <2>1. /\ DOMAIN fa = 1 .. n + 1 /\ DOMAIN gn = 1 .. n
        /\ \A i \in 1 .. n + 1 : fa[i] \in Nat
        /\ \A i \in 1 .. n : gn[i] = fa[i]
    BY <1>2, <1>5
  <2>2. /\ DOMAIN fo = 1 .. m + 1 /\ DOMAIN gm = 1 .. m /\ DOMAIN gn = 1 .. m + 1
        /\ \A i \in 1 .. m + 1 : fo[i] \in Nat
        /\ \A i \in 1 .. m + 1 : gn[i] \in Nat
        /\ \A i \in 1 .. m : gm[i] = fo[i]
        /\ \A i \in 1 .. m : gm[i] = gn[i]
    <3>1. \A i \in 1 .. m : i \in 1 .. n /\ i \in 1 .. n + 1
      BY <1>1
    <3> QED
      BY <1>1, <1>2, <1>3, <1>5, <1>6, <3>1
  <2>3. fa[n + 1] = 1 /\ fo[m + 1] = 1 /\ gn[m + 1] = d
    BY <1>1, <1>2, <1>4
  <2>4. TotalWeight(all) = SumFunction(fa) /\ TotalWeight(obs) = SumFunction(fo)
    BY DEF TotalWeight
  <2> HIDE DEF fa, fo, gn, gm, W, d
  <2>5. SumFunction(gn) \in Nat /\ SumFunction(fa) = SumFunction(gn) + fa[n + 1]
    BY <1>2, <2>1, SumAppended
  <2>6. SumFunction(gm) \in Nat /\ SumFunction(gn) = SumFunction(gm) + gn[m + 1]
    BY <2>2, SumAppended
  <2>7. SumFunction(fo) = SumFunction(gm) + fo[m + 1]
    BY <2>2, SumAppended
  <2> DEFINE sa == SumFunction(fa)
             so == SumFunction(fo)
             sn == SumFunction(gn)
             sm == SumFunction(gm)
  <2>8. sm \in Nat /\ sn \in Nat /\ sa = sn + 1 /\ sn = sm + d /\ so = sm + 1
    BY <2>3, <2>5, <2>6, <2>7
  <2> HIDE DEF sa, so, sn, sm
  <2>9. sa = so + d
    BY <1>7, <2>8
  <2> QED
    BY <2>4, <2>9 DEF sa, so
<1>10. TickSum(all) = TickSum(obs) + (d - 1) * x + y
  <2> DEFINE fa == T(all)
             fo == T(obs)
             gn == [i \in 1 .. n |-> fa[i]]
             gm == [i \in 1 .. m |-> fa[i]]
  <2>1. ASSUME NEW i \in 1 .. n + 1 PROVE fa[i] \in Nat
    <3> DEFINE u == all[i].tick
               v == Weight(all, i)
    <3>1. u \in Nat /\ v \in Nat /\ fa[i] = u * v
      BY <1>2, <1>5
    <3> HIDE DEF u, v, fa
    <3> QED
      BY <3>1
  <2>2. ASSUME NEW i \in 1 .. n PROVE fo[i] \in Nat
    <3> DEFINE u == obs[i].tick
               v == Weight(obs, i)
    <3>1. u \in Nat /\ v \in Nat /\ fo[i] = u * v
      BY <1>2, <1>6
    <3> HIDE DEF u, v, fo
    <3> QED
      BY <3>1
  <2>3. \A i \in 1 .. m : fa[i] = fo[i]
    <3>1. \A i \in 1 .. m : i \in 1 .. n /\ i \in 1 .. n + 1 /\ all[i] = obs[i]
      BY <1>1, <1>2
    <3> QED
      BY <1>2, <1>3, <3>1
  <2>4. fa[n + 1] = y /\ fo[n] = x /\ fa[n] = x * d
    <3>1. fa[n + 1] = y * 1 /\ fo[n] = x * 1
      BY <1>2, <1>4, <1>8
    <3>2. fa[n] = x * d
      BY <1>2, <1>8
    <3>3. y * 1 = y /\ x * 1 = x
      BY <1>8
    <3> QED
      BY <3>1, <3>2, <3>3
  <2>5. DOMAIN fa = 1 .. n + 1 /\ DOMAIN fo = 1 .. n
    BY <1>2
  <2>6. TickSum(all) = SumFunction(fa) /\ TickSum(obs) = SumFunction(fo)
    BY DEF TickSum
  <2> HIDE DEF fa, fo, T, d, x, y
  <2>7. /\ DOMAIN gn = 1 .. n
        /\ \A i \in 1 .. n + 1 : fa[i] \in Nat
        /\ \A i \in 1 .. n : gn[i] = fa[i]
    BY <2>1
  <2>8. /\ DOMAIN fo = 1 .. m + 1 /\ DOMAIN gm = 1 .. m /\ DOMAIN gn = 1 .. m + 1
        /\ \A i \in 1 .. m + 1 : fo[i] \in Nat
        /\ \A i \in 1 .. m + 1 : gn[i] \in Nat
        /\ \A i \in 1 .. m : gm[i] = fo[i]
        /\ \A i \in 1 .. m : gm[i] = gn[i]
    <3>1. \A i \in 1 .. m : i \in 1 .. n /\ i \in 1 .. n + 1
      BY <1>1
    <3> QED
      BY <1>1, <2>1, <2>2, <2>3, <2>5, <3>1
  <2> HIDE DEF gn, gm
  <2>9. SumFunction(gn) \in Nat /\ SumFunction(fa) = SumFunction(gn) + fa[n + 1]
    BY <1>2, <2>5, <2>7, SumAppended
  <2>10. SumFunction(gm) \in Nat /\ SumFunction(gn) = SumFunction(gm) + gn[m + 1]
    BY <2>8, SumAppended
  <2>11. SumFunction(fo) = SumFunction(gm) + fo[m + 1]
    BY <2>8, SumAppended
  <2>12. gn[m + 1] = x * d /\ fo[m + 1] = x
    BY <1>1, <1>2, <2>4, <2>7
  <2> DEFINE sa == SumFunction(fa)
             so == SumFunction(fo)
             sn == SumFunction(gn)
             sm == SumFunction(gm)
  <2>13. sm \in Nat /\ sn \in Nat /\ sa = sn + y /\ sn = sm + x * d /\ so = sm + x
    BY <2>4, <2>9, <2>10, <2>11, <2>12
  <2> HIDE DEF sa, so, sn, sm
  <2>14. x * d = (d - 1) * x + x /\ x * d \in Nat /\ (d - 1) * x \in Int
    BY <1>7, <1>8
  <2>15. sa = so + (d - 1) * x + y
    BY <1>8, <2>13, <2>14
  <2> QED
    BY <2>6, <2>15 DEF sa, so
<1> HIDE DEF d, x, y
<1> QED
  BY <1>7, <1>9, <1>10 DEF all, d, x, y

(* The oldest observation dropped: its weight goes.                        *)
LEMMA TailSums ==
    ASSUME NEW all \in Seq(Observation), NEW n \in Nat, Len(all) = n + 1
    PROVE  /\ Weight(all, 1) \in Nat \ {0} /\ all[1].tick \in Nat
           /\ TotalWeight(all) = Weight(all, 1) + TotalWeight(Tail(all))
           /\ TickSum(all) = all[1].tick * Weight(all, 1) + TickSum(Tail(all))
<1> DEFINE tl == Tail(all)
           W(s) == [i \in DOMAIN s |-> Weight(s, i)]
           T(s) == [i \in DOMAIN s |-> s[i].tick * Weight(s, i)]
<1>1. /\ tl \in Seq(Observation) /\ Len(tl) = n /\ DOMAIN tl = 1 .. n
      /\ DOMAIN all = 1 .. n + 1
      /\ \A i \in 1 .. n : tl[i] = all[i + 1]
  OBVIOUS
<1> HIDE DEF tl
<1>2. \A i \in 1 .. n : Weight(tl, i) = Weight(all, i + 1)
  <2> SUFFICES ASSUME NEW i \in 1 .. n PROVE Weight(tl, i) = Weight(all, i + 1)
    OBVIOUS
  <2>1. CASE i = n
    BY <1>1, <2>1 DEF Weight
  <2>2. CASE i # n
    <3>1. i + 1 \in 1 .. n /\ i # Len(tl) /\ i + 1 # Len(all)
      BY <1>1, <2>2
    <3>2. tl[i] = all[i + 1] /\ tl[i + 1] = all[(i + 1) + 1]
      BY <1>1, <3>1
    <3> QED
      BY <3>1, <3>2 DEF Weight
  <2> QED
    BY <2>1, <2>2
<1>3. \A i \in 1 .. n + 1 : all[i].tick \in Nat /\ Weight(all, i) \in Nat \ {0}
  BY TwapSums
<1>4. 1 \in 1 .. n + 1
  OBVIOUS
<1>5. TotalWeight(all) = Weight(all, 1) + TotalWeight(tl)
  <2> DEFINE fa == W(all)
             ft == W(tl)
  <2>1. DOMAIN fa = 1 .. n + 1 /\ \A i \in 1 .. n + 1 : fa[i] \in Nat
    BY <1>1, <1>3
  <2>2. ft = Rest(fa, n)
    <3>1. \A i \in 1 .. n : i + 1 \in 1 .. n + 1
      OBVIOUS
    <3> QED
      BY <1>1, <1>2, <3>1 DEF Rest
  <2>3. fa[1] = Weight(all, 1)
    BY <1>1, <1>4
  <2>4. TotalWeight(all) = SumFunction(fa) /\ TotalWeight(tl) = SumFunction(ft)
    BY DEF TotalWeight
  <2> HIDE DEF fa, ft
  <2>5. SumFunction(fa) = fa[1] + SumFunction(Rest(fa, n))
    BY <2>1, SumFirst
  <2> QED
    BY <2>2, <2>3, <2>4, <2>5
<1>6. TickSum(all) = all[1].tick * Weight(all, 1) + TickSum(tl)
  <2> DEFINE fa == T(all)
             ft == T(tl)
  <2>1. ASSUME NEW i \in 1 .. n + 1 PROVE fa[i] \in Nat
    <3> DEFINE u == all[i].tick
               v == Weight(all, i)
    <3>1. u \in Nat /\ v \in Nat /\ fa[i] = u * v
      BY <1>1, <1>3
    <3> HIDE DEF u, v, fa
    <3> QED
      BY <3>1
  <2>2. ft = Rest(fa, n)
    <3>1. \A i \in 1 .. n : i + 1 \in 1 .. n + 1
      OBVIOUS
    <3>2. \A i \in 1 .. n : ft[i] = fa[i + 1]
      BY <1>1, <1>2, <3>1
    <3>3. ft = [i \in 1 .. n |-> ft[i]]
      BY <1>1
    <3> HIDE DEF fa, ft
    <3> QED
      BY <3>2, <3>3 DEF Rest
  <2>3. fa[1] = all[1].tick * Weight(all, 1)
    BY <1>1, <1>4
  <2>4. TickSum(all) = SumFunction(fa) /\ TickSum(tl) = SumFunction(ft)
    BY DEF TickSum
  <2>5. DOMAIN fa = 1 .. n + 1
    BY <1>1
  <2> HIDE DEF fa, ft
  <2>6. SumFunction(fa) = fa[1] + SumFunction(Rest(fa, n))
    <3>1. \A i \in 1 .. n + 1 : fa[i] \in Nat
      BY <2>1
    <3> QED
      BY <2>5, <3>1, SumFirst
  <2> QED
    BY <2>2, <2>3, <2>4, <2>6
<1> QED
  BY <1>3, <1>4, <1>5, <1>6 DEF tl

=============================================================================
