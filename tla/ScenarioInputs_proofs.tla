------------------------ MODULE ScenarioInputs_proofs ------------------------
(***************************************************************************)
(* Proofs about what goes into the scenarios and how it orders what comes  *)
(* out of them, for all values of their constants: the shocks that a study *)
(* samples for its paths (MonteCarloStream); the oracle adapters against   *)
(* the windowed feed, and the TWAP of a falling market (PriceOracle); two  *)
(* runs of S3 that differ in the drawdown only (DrawdownPair).             *)
(***************************************************************************)
EXTENDS MonteCarloStream, PriceOracle, DrawdownPair, ScenarioTheorems

-----------------------------------------------------------------------------
(* A quotient and a remainder are determined by what they are of.          *)
LEMMA DivisionUnique ==
    ASSUME NEW b \in Nat \ {0}, NEW q \in Nat, NEW r \in 0 .. b - 1
    PROVE  (b * q + r) \div b = q /\ (b * q + r) % b = r
<1> DEFINE x == b * q + r
           p == x \div b
           s == x % b
<1>1. x \in Nat /\ b * q \in Nat
  OBVIOUS
<1>2. p \in Nat /\ s \in 0 .. b - 1 /\ x = b * p + s
  OBVIOUS
<1> HIDE DEF p, s
<1>3. b * p \in Nat
  BY <1>2
<1>4. ASSUME p < q PROVE FALSE
  <2>1. PICK d \in Nat : q = p + 1 + d
    <3>1. q - p - 1 \in Nat /\ q = p + 1 + (q - p - 1)
      BY <1>2, <1>4
    <3> QED
      BY <3>1
  <2>2. b * q = b * p + b + b * d /\ b * d \in Nat
    BY <1>2, <2>1
  <2> QED
    BY <1>1, <1>2, <1>3, <2>2
<1>5. ASSUME q < p PROVE FALSE
  <2>1. PICK d \in Nat : p = q + 1 + d
    <3>1. p - q - 1 \in Nat /\ p = q + 1 + (p - q - 1)
      BY <1>2, <1>5
    <3> QED
      BY <3>1
  <2>2. b * p = b * q + b + b * d /\ b * d \in Nat
    BY <1>2, <2>1
  <2> QED
    BY <1>1, <1>2, <1>3, <2>2
<1>6. p = q
  BY <1>2, <1>4, <1>5
<1>7. s = r
  BY <1>1, <1>2, <1>3, <1>6
<1> QED
  BY <1>6, <1>7 DEF p, s

(* Within a block the block stays and the place in it goes up by one.      *)
LEMMA NextInBlock ==
    ASSUME NEW b \in Nat \ {0}, NEW x \in Nat, (x + 1) % b # 0
    PROVE  (x + 1) \div b = x \div b /\ (x + 1) % b = (x % b) + 1
<1> DEFINE q == x \div b
           r == x % b
<1>1. q \in Nat /\ r \in 0 .. b - 1 /\ x = b * q + r
  BY Division
<1> HIDE DEF q, r
<1>2. CASE r = b - 1
  <2>1. x + 1 = b * (q + 1) + 0 /\ q + 1 \in Nat /\ 0 \in 0 .. b - 1
    BY <1>1, <1>2
  <2>2. (b * (q + 1) + 0) % b = 0
    BY <2>1, DivisionUnique, Zenon
  <2> QED
    BY <2>1, <2>2
<1>3. CASE r # b - 1
  <2>1. x + 1 = b * q + (r + 1) /\ r + 1 \in 0 .. b - 1
    BY <1>1, <1>3
  <2>2. (b * q + (r + 1)) \div b = q /\ (b * q + (r + 1)) % b = r + 1
    BY <1>1, <2>1, DivisionUnique, Zenon
  <2> QED
    BY <2>1, <2>2 DEF q, r
<1> QED
  BY <1>1, <1>2, <1>3

(* The number of blocks for a count of samples: the block of the last one, *)
(* and one for its number to start at zero.                                *)
LEMMA BlocksNeeded ==
    ASSUME NEW b \in Nat \ {0}, NEW count \in Nat \ {0}
    PROVE  /\ (count + b - 1) \div b \in Nat
           /\ \A i \in 1 .. count : /\ (i - 1) \div b \in Nat
                                    /\ (i - 1) \div b < (count + b - 1) \div b
<1> DEFINE q == (count - 1) \div b
           r == (count - 1) % b
<1>1. count - 1 \in Nat
  OBVIOUS
<1>2. q \in Nat /\ r \in 0 .. b - 1 /\ count - 1 = b * q + r
  BY <1>1, Division, Zenon
<1> HIDE DEF q, r
<1>3. count + b - 1 = b * (q + 1) + r /\ q + 1 \in Nat
  BY <1>2
<1>4. (b * (q + 1) + r) \div b = q + 1
  BY <1>2, <1>3, DivisionUnique, Zenon
<1>5. ASSUME NEW i \in 1 .. count
      PROVE  (i - 1) \div b \in Nat /\ (i - 1) \div b <= q
  <2>1. i - 1 \in Nat /\ i - 1 <= count - 1
    OBVIOUS
  <2>2. (i - 1) \div b \in Nat
    BY <2>1, Division, Zenon
  <2>3. (i - 1) \div b <= (count - 1) \div b
    BY <1>1, <2>1, DivisionMonotone, Zenon
  <2> QED
    BY <2>2, <2>3 DEF q
<1>6. ASSUME NEW i \in 1 .. count PROVE (i - 1) \div b < q + 1
  BY <1>2, <1>5
<1> QED
  BY <1>3, <1>4, <1>5, <1>6

-----------------------------------------------------------------------------
(* MonteCarloStream.                                                       *)
PositionsAre(g, from, n, count) ==
    g = [k \in 0 .. count |-> IF k = 0 THEN from ELSE AfterDraw(g[k - 1], n)]

(* The positions after more draws begin with those after fewer.            *)
LEMMA PositionsAgree ==
    ASSUME NEW from, NEW n, NEW c \in Nat, NEW d \in Nat, NEW g, NEW h,
           PositionsAre(g, from, n, c), PositionsAre(h, from, n, d),
           NEW k \in 0 .. c, k <= d
    PROVE  g[k] = h[k]
<1> DEFINE S == {i \in 0 .. c : i <= d /\ g[i] # h[i]}
<1>1. S # {} => \E m \in S : \A i \in S : m <= i
  <2>1. S \subseteq Nat
    OBVIOUS
  <2> HIDE DEF S
  <2> QED
    BY <2>1, LeastNatural
<1>2. ASSUME NEW m \in S, \A i \in S : m <= i PROVE FALSE
  <2>1. m \in 0 .. c /\ m \in 0 .. d /\ g[m] # h[m]
    OBVIOUS
  <2>2. /\ g[m] = IF m = 0 THEN from ELSE AfterDraw(g[m - 1], n)
        /\ h[m] = IF m = 0 THEN from ELSE AfterDraw(h[m - 1], n)
    BY <2>1 DEF PositionsAre
  <2>3. m # 0
    BY <2>1, <2>2
  <2>4. m - 1 \in 0 .. c /\ m - 1 <= d /\ ~(m <= m - 1)
    BY <2>1, <2>3
  <2>5. g[m - 1] = h[m - 1]
    BY <1>2, <2>4
  <2> QED
    BY <2>1, <2>2, <2>5
<1> QED
  BY <1>1, <1>2

(* There are such positions for any number of draws, by a least number     *)
(* without them.                                                           *)
LEMMA PositionsExist ==
    ASSUME NEW from, NEW n, NEW count \in Nat
    PROVE  \E g : PositionsAre(g, from, n, count)
<1> DEFINE S == {c \in Nat : ~\E g : PositionsAre(g, from, n, c)}
<1>1. S # {} => \E m \in S : \A i \in S : m <= i
  <2>1. S \subseteq Nat
    OBVIOUS
  <2> HIDE DEF S
  <2> QED
    BY <2>1, LeastNatural
<1>2. ASSUME NEW m \in S, \A i \in S : m <= i PROVE FALSE
  <2>1. m \in Nat /\ ~\E g : PositionsAre(g, from, n, m)
    OBVIOUS
  <2>2. CASE m = 0
    <3> DEFINE g == [k \in 0 .. 0 |-> from]
    <3>1. g = [k \in 0 .. 0 |-> IF k = 0 THEN from ELSE AfterDraw(g[k - 1], n)]
      OBVIOUS
    <3>2. PositionsAre(g, from, n, 0)
      BY <3>1 DEF PositionsAre
    <3> HIDE DEF g
    <3> QED
      BY <2>1, <2>2, <3>2
  <2>3. CASE m # 0
    <3>1. m - 1 \in Nat /\ ~(m <= m - 1)
      BY <2>1, <2>3
    <3>2. PICK f : PositionsAre(f, from, n, m - 1)
      BY <1>2, <3>1
    <3>3. \A k \in 0 .. m - 1 : f[k] = IF k = 0 THEN from ELSE AfterDraw(f[k - 1], n)
      BY <3>2 DEF PositionsAre
    <3> DEFINE g == [k \in 0 .. m |-> IF k = m THEN AfterDraw(f[m - 1], n) ELSE f[k]]
    <3>4. ASSUME NEW k \in 0 .. m
          PROVE  g[k] = IF k = 0 THEN from ELSE AfterDraw(g[k - 1], n)
      <4>1. CASE k = m
        <5>1. k # 0 /\ k - 1 \in 0 .. m /\ k - 1 # m /\ g[k - 1] = f[m - 1]
          BY <2>1, <2>3, <4>1
        <5> QED
          BY <4>1, <5>1
      <4>2. CASE k # m
        <5>1. k \in 0 .. m - 1 /\ g[k] = f[k]
          BY <2>1, <4>2
        <5>2. k # 0 => k - 1 \in 0 .. m /\ k - 1 # m /\ g[k - 1] = f[k - 1]
          BY <2>1, <4>2
        <5> HIDE DEF g
        <5> QED
          BY <3>3, <5>1, <5>2
      <4> QED
        BY <4>1, <4>2
    <3>5. g = [k \in 0 .. m |-> g[k]]
      OBVIOUS
    <3> HIDE DEF g
    <3>6. PositionsAre(g, from, n, m)
      BY <3>4, <3>5 DEF PositionsAre
    <3> QED
      BY <2>1, <3>6
  <2> QED
    BY <2>2, <2>3
<1>3. S = {}
  BY <1>1, <1>2
<1> QED
  BY <1>3

(* So the recursive function has the value that its definition says.       *)
LEMMA PositionsFixed ==
    ASSUME NEW from, NEW n, NEW count \in Nat
    PROVE  PositionsAre(Positions(from, n, count), from, n, count)
<1>1. PICK g : PositionsAre(g, from, n, count)
  BY PositionsExist
<1> DEFINE It == CHOOSE it :
                   it = [k \in 0 .. count |-> IF k = 0 THEN from ELSE AfterDraw(it[k - 1], n)]
<1>2. Positions(from, n, count) = It
  BY DEF Positions
<1>3. It = [k \in 0 .. count |-> IF k = 0 THEN from ELSE AfterDraw(It[k - 1], n)]
  BY <1>1 DEF PositionsAre
<1> HIDE DEF It
<1> QED
  BY <1>2, <1>3 DEF PositionsAre

(* A parameter that can start only at one observation takes no words.      *)
LEMMA ConstantTakesNone ==
    ASSUME NEW from, NEW count \in Nat, NEW k \in 0 .. count
    PROVE  Positions(from, 1, count)[k] = from
<1> DEFINE g == [i \in 0 .. count |-> from]
<1>1. g = [i \in 0 .. count |-> IF i = 0 THEN from ELSE AfterDraw(g[i - 1], 1)]
  BY DEF AfterDraw
<1>2. PositionsAre(g, from, 1, count)
  BY <1>1 DEF PositionsAre
<1> HIDE DEF g
<1>3. Positions(from, 1, count)[k] = g[k]
  BY <1>2, PositionsFixed, PositionsAgree
<1> QED
  BY <1>3 DEF g

-----------------------------------------------------------------------------
(* A draw is a number of the range.                                        *)
LEMMA DrawnInRange ==
    ASSUME stream \in Streams, NEW p, NEW n \in Nat \ {0}
    PROVE  Drawn(p, n) \in 0 .. n - 1
<1> DEFINE q == AfterDraw(p, n)
<1>1. Word(q) \in Nat
  BY StreamAssumption DEF Word
<1> HIDE DEF q
<1>2. Word(q) % n \in 0 .. n - 1
  BY <1>1
<1> QED
  BY <1>2 DEF Drawn, q

(* A parameter may be given blocks no longer than its observations.        *)
LEMMA ParameterBounds ==
    ASSUME NEW p \in Parameters
    PROVE  /\ p.size \in Nat \ {0} /\ p.block \in Nat \ {0} /\ p.block <= p.size
           /\ p.name \in STRING
           /\ StartRange(p) \in Nat \ {0} /\ StartRange(p) <= Words
<1>1. p \in Parameter /\ p.block <= p.size /\ p.size <= Words /\ Words \in Nat
  BY StreamAssumption
<1>2. p.size \in Nat \ {0} /\ p.block \in Nat \ {0} /\ p.name \in STRING
  BY <1>1 DEF Parameter
<1> QED
  BY <1>1, <1>2 DEF StartRange

(* How many starts are drawn is a natural number.                          *)
LEMMA StartsNat ==
    ASSUME NEW p \in Parameters, NEW count \in Nat \ {0}
    PROVE  Starts(p, count) \in Nat
  BY ParameterBounds, BlocksNeeded DEF Starts

(* Samples from any position: each is a draw and a place in its block.     *)
Blockwise(v, p, count) ==
    /\ DOMAIN v = 1 .. count /\ v \in Seq(Nat) /\ Len(v) = count
    /\ \A i \in 1 .. count :
         /\ v[i] \in Nat /\ v[i] < p.size
         /\ i % p.block # 0 /\ i < count => v[i + 1] = v[i] + 1

(* A sample is of that form.                                               *)
LEMMA SamplesAre ==
    ASSUME stream \in Streams, NEW p \in Parameters, NEW from, NEW count \in Nat \ {0}
    PROVE  Blockwise(SampleOf(p, from, count), p, count)
<1> DEFINE v == SampleOf(p, from, count)
<1> DEFINE R == StartRange(p)
           b == p.block
           after == Positions(from, R, Starts(p, count))
           D(i) == Drawn(after[(i - 1) \div b], R)
<1>1. /\ R \in Nat \ {0} /\ b \in Nat \ {0} /\ p.size \in Nat
      /\ R = p.size - b + 1
  BY ParameterBounds DEF StartRange
<1>2. v = [i \in 1 .. count |-> D(i) + ((i - 1) % b)]
  BY DEF SampleOf
<1> HIDE DEF v
<1>3. \A i \in 1 .. count : D(i) \in 0 .. R - 1
  BY <1>1, DrawnInRange
<1> HIDE DEF R, b, after
<1>4. ASSUME NEW i \in 1 .. count
      PROVE  /\ (i - 1) % b \in 0 .. b - 1
             /\ i % b # 0 => D(i + 1) = D(i) /\ (i + 1 - 1) % b = ((i - 1) % b) + 1
  <2> DEFINE x == i - 1
  <2>1. x \in Nat /\ i = x + 1 /\ (i + 1) - 1 = x + 1
    OBVIOUS
  <2> HIDE DEF x
  <2>2. x % b \in 0 .. b - 1
    BY <1>1, <2>1, Division, Zenon
  <2>3. (x + 1) % b # 0 => (x + 1) \div b = x \div b /\ (x + 1) % b = (x % b) + 1
    BY <1>1, <2>1, NextInBlock, Zenon
  <2>4. (i - 1) % b = x % b /\ (i - 1) \div b = x \div b
          /\ ((i + 1) - 1) \div b = (x + 1) \div b /\ (i + 1 - 1) % b = (x + 1) % b
    BY <2>1
  <2> QED
    BY <2>1, <2>2, <2>3, <2>4
<1> HIDE DEF D
<1>5. ASSUME NEW i \in 1 .. count PROVE v[i] \in Nat /\ v[i] < p.size
  <2>1. v[i] = D(i) + ((i - 1) % b) /\ D(i) \in 0 .. R - 1 /\ (i - 1) % b \in 0 .. b - 1
    BY <1>2, <1>3, <1>4
  <2> QED
    BY <1>1, <2>1 DEF b
<1>6. ASSUME NEW i \in 1 .. count, i % b # 0, i < count PROVE v[i + 1] = v[i] + 1
  <2>1. i + 1 \in 1 .. count
    BY <1>6
  <2>2. v[i] = D(i) + ((i - 1) % b) /\ v[i + 1] = D(i + 1) + ((i + 1 - 1) % b)
    BY <1>2, <2>1
  <2>3. D(i + 1) = D(i) /\ (i + 1 - 1) % b = ((i - 1) % b) + 1
    BY <1>4, <1>6
  <2>4. D(i) \in Nat /\ (i - 1) % b \in Nat
    BY <1>1, <1>3, <1>4
  <2> QED
    BY <2>2, <2>3, <2>4
<1>7. DOMAIN v = 1 .. count /\ v \in Seq(Nat) /\ Len(v) = count
  <2>1. DOMAIN v = 1 .. count /\ v = [i \in 1 .. count |-> v[i]]
    BY <1>2
  <2> QED
    BY <1>5, <2>1
<1>8. Blockwise(v, p, count)
  BY <1>5, <1>6, <1>7 DEF b, Blockwise
<1> QED
  BY <1>8 DEF v

(* Samples for different counts of paths begin alike.                      *)
LEMMA SamplesAgree ==
    ASSUME NEW p \in Parameters, NEW from, NEW c \in Nat \ {0}, NEW d \in Nat \ {0},
           NEW i \in 1 .. c, i <= d
    PROVE  SampleOf(p, from, c)[i] = SampleOf(p, from, d)[i]
<1> DEFINE R == StartRange(p)
           b == p.block
           k == (i - 1) \div b
           f == Positions(from, R, Starts(p, c))
           g == Positions(from, R, Starts(p, d))
<1>1. b \in Nat \ {0}
  BY ParameterBounds
<1>2. i \in 1 .. d
  OBVIOUS
<1>3. /\ SampleOf(p, from, c)[i] = Drawn(f[k], R) + ((i - 1) % b)
      /\ SampleOf(p, from, d)[i] = Drawn(g[k], R) + ((i - 1) % b)
  BY <1>2 DEF SampleOf
<1>4. /\ Starts(p, c) \in Nat /\ Starts(p, d) \in Nat
      /\ k \in 0 .. Starts(p, c) /\ k <= Starts(p, d)
  <2>1. Starts(p, c) = (c + b - 1) \div b /\ Starts(p, d) = (d + b - 1) \div b
    BY DEF Starts
  <2>2. (c + b - 1) \div b \in Nat /\ k \in Nat /\ k < (c + b - 1) \div b
    BY <1>1, BlocksNeeded
  <2>3. (d + b - 1) \div b \in Nat /\ k < (d + b - 1) \div b
    BY <1>1, <1>2, BlocksNeeded
  <2> HIDE DEF b, k
  <2> QED
    BY <2>1, <2>2, <2>3
<1>5. f[k] = g[k]
  <2>1. PositionsAre(f, from, R, Starts(p, c)) /\ PositionsAre(g, from, R, Starts(p, d))
    BY <1>4, PositionsFixed
  <2> HIDE DEF f, g, R, k
  <2> QED
    BY <1>4, <2>1, PositionsAgree
<1> QED
  BY <1>3, <1>5

(* A generator goes on to a later word, if the range takes any.            *)
LEMMA AfterDrawNat ==
    ASSUME stream \in Streams, NEW p \in Nat, NEW n \in Nat \ {0}, n <= Words
    PROVE  AfterDraw(p, n) \in Nat
<1> DEFINE last == p + Len(stream) + 1
           S == {q \in p + 1 .. last : Accepted(Word(q), n)}
<1>1. stream \in Seq(Nat) /\ Len(stream) \in Nat /\ Words \in Nat \ {0}
  <2>1. stream \in Seq(0 .. Words - 1) /\ Words \in Nat \ {0}
    BY StreamAssumption
  <2> QED
    BY <2>1
<1>2. last \in p + 1 .. last /\ last \notin DOMAIN stream
  BY <1>1
<1>3. 0 < n * (Words \div n)
  <2> DEFINE q == Words \div n
  <2>1. q \in Nat /\ Words % n \in 0 .. n - 1 /\ Words = n * q + (Words % n)
    BY <1>1, Division
  <2> HIDE DEF q
  <2>2. q # 0
    BY <2>1
  <2>3. PICK d \in Nat : q = d + 1
    <3>1. q - 1 \in Nat /\ q = (q - 1) + 1
      BY <2>1, <2>2
    <3> QED
      BY <3>1
  <2>4. n * q = n * d + n /\ n * d \in Nat
    BY <2>3
  <2> QED
    BY <2>4 DEF q
<1>4. last \in S
  BY <1>2, <1>3 DEF Accepted, Word
<1>5. S \subseteq Nat
  BY <1>1
<1> HIDE DEF S
<1>6. \E m \in S : \A q \in S : m <= q
  BY <1>4, <1>5, LeastNatural
<1>7. Min(S) \in Nat
  BY <1>5, <1>6 DEF Min
<1> QED
  BY <1>7 DEF AfterDraw, S

(* The generator always has a next position.                               *)
LEMMA PositionsNat ==
    ASSUME stream \in Streams, NEW from \in Nat, NEW n \in Nat \ {0}, n <= Words,
           NEW count \in Nat, NEW k \in 0 .. count
    PROVE  Positions(from, n, count)[k] \in Nat
<1> DEFINE f == Positions(from, n, count)
           S == {i \in 0 .. count : f[i] \notin Nat}
<1>1. \A i \in 0 .. count : f[i] = IF i = 0 THEN from ELSE AfterDraw(f[i - 1], n)
  BY PositionsFixed DEF PositionsAre
<1> HIDE DEF f
<1>2. S # {} => \E m \in S : \A i \in S : m <= i
  <2>1. S \subseteq Nat
    OBVIOUS
  <2> HIDE DEF S
  <2> QED
    BY <2>1, LeastNatural
<1>3. ASSUME NEW m \in S, \A i \in S : m <= i PROVE FALSE
  <2>1. m \in 0 .. count /\ f[m] \notin Nat
    OBVIOUS
  <2>2. m # 0
    BY <1>1, <2>1
  <2>3. m - 1 \in 0 .. count /\ ~(m <= m - 1)
    BY <2>1, <2>2
  <2>4. f[m - 1] \in Nat
    BY <1>3, <2>3
  <2>5. AfterDraw(f[m - 1], n) \in Nat
    BY <2>4, AfterDrawNat
  <2> QED
    BY <1>1, <2>1, <2>2, <2>5
<1> QED
  BY <1>2, <1>3 DEF f

(* The invariant: where in the stream each parameter of a study began, for *)
(* the study that is run and for the one before.                           *)
Began(at, ps, n, len) ==
    /\ at \in [0 .. len -> Nat] /\ at[0] = 0
    /\ \A k \in 1 .. len :
         at[k] = Positions(at[k - 1], StartRange(ps[k]), Starts(ps[k], n))[Starts(ps[k], n)]

SampledInv ==
    /\ stream \in Streams /\ study \in Studies /\ paths \in 1 .. MaxPaths
    /\ sampled \in Seq([name: STRING, values: Seq(Nat)]) /\ Len(sampled) <= Len(study)
    /\ \E at : /\ Began(at, study, paths, Len(sampled)) /\ position = at[Len(sampled)]
               /\ \A k \in 1 .. Len(sampled) :
                    sampled[k] = [name |-> study[k].name,
                                  values |-> SampleOf(study[k], at[k - 1], paths)]

Shocks == UNION {[names -> Nat] : names \in SUBSET STRING}

ResultsInv ==
    /\ pc \in {"sampling", "running", "done"}
    /\ results \in Seq(Shocks)
    /\ pc = "sampling" => results = << >>
    /\ pc # "sampling" => Len(sampled) = Len(study)
    /\ pc = "running" => Len(results) < paths
    /\ pc = "done" => Len(results) = paths
    /\ \A i \in 1 .. Len(results), k \in 1 .. Len(study) :
         results[i][study[k].name] = sampled[k].values[i]

Shocked(ps, n, paths1) ==
    \E at : /\ Began(at, ps, n, Len(ps))
           /\ \A i \in 1 .. n, k \in 1 .. Len(ps) :
                paths1[i][ps[k].name] = SampleOf(ps[k], at[k - 1], n)[i]

EarlierInv ==
    \/ earlier = << >>
    \/ \E ps \in Studies, res \in Seq(Shocks) :
         /\ earlier = <<[study |-> ps, results |-> res]>>
         /\ Len(res) \in 1 .. MaxPaths /\ Shocked(ps, Len(res), res)

StreamInv == SampledInv /\ ResultsInv /\ EarlierInv

(* The entries of a study are parameters, told apart by their names.       *)
LEMMA StudyIs ==
    ASSUME NEW ps \in Studies
    PROVE  /\ ps \in Seq(Parameters) /\ Len(ps) \in Nat \ {0} /\ DOMAIN ps = 1 .. Len(ps)
           /\ \A k \in 1 .. Len(ps) : ps[k] \in Parameters
           /\ \A k, j \in 1 .. Len(ps) : ps[k].name = ps[j].name => k = j
<1>1. Cardinality(Parameters) \in Nat
  BY StreamAssumption, FS_CardinalityType
<1>2. PICK n \in 1 .. Cardinality(Parameters) : ps \in [1 .. n -> Parameters]
  BY DEF Studies
<1>3. n \in Nat \ {0} /\ \A i, j \in DOMAIN ps : ps[i] = ps[j] => i = j
  BY <1>1, <1>2 DEF Studies
<1>4. ps \in Seq(Parameters) /\ Len(ps) = n /\ DOMAIN ps = 1 .. n
  BY <1>2, <1>3
<1> QED
  BY <1>2, <1>3, <1>4, StreamAssumption

(* Two lists of beginnings agree as long as the parameters do, and the     *)
(* number of paths or that none of them took a word.                       *)
Alike(ps, qs, n, m, k) ==
    /\ \A j \in 1 .. k : ps[j] = qs[j]
    /\ \A j \in 1 .. k : j < k /\ m # n => StartRange(ps[j]) = 1

(* Studies alike in their first parameters draw them from the same         *)
(* positions.                                                              *)
LEMMA BeginningsAgree ==
    ASSUME NEW ps \in Studies, NEW qs \in Studies,
           NEW n \in Nat \ {0}, NEW m \in Nat \ {0},
           NEW at, Began(at, ps, n, Len(ps)), NEW bt, Began(bt, qs, m, Len(qs)),
           NEW k \in 1 .. Len(ps), k <= Len(qs), Alike(ps, qs, n, m, k)
    PROVE  at[k - 1] = bt[k - 1]
<1> DEFINE S == {j \in 0 .. k - 1 : at[j] # bt[j]}
<1>1. Len(ps) \in Nat /\ Len(qs) \in Nat
  BY StudyIs
<1>2. S # {} => \E x \in S : \A y \in S : x <= y
  <2>1. S \subseteq Nat
    OBVIOUS
  <2> HIDE DEF S
  <2> QED
    BY <2>1, LeastNatural
<1>3. ASSUME NEW x \in S, \A y \in S : x <= y PROVE FALSE
  <2>1. x \in 0 .. k - 1 /\ at[x] # bt[x]
    OBVIOUS
  <2>2. x # 0
    BY <2>1 DEF Began
  <2>3. /\ x \in 1 .. Len(ps) /\ x \in 1 .. Len(qs) /\ x \in 1 .. k /\ x < k
        /\ x - 1 \in 0 .. k - 1 /\ ~(x <= x - 1)
    BY <1>1, <2>1, <2>2
  <2>4. at[x - 1] = bt[x - 1]
    BY <1>3, <2>3
  <2> DEFINE p == ps[x]
             R == StartRange(p)
             from == at[x - 1]
  <2>5. p = qs[x]
    BY <2>3 DEF Alike
  <2>6. /\ at[x] = Positions(from, R, Starts(p, n))[Starts(p, n)]
        /\ bt[x] = Positions(from, R, Starts(p, m))[Starts(p, m)]
    BY <2>3, <2>4, <2>5 DEF Began
  <2>7. CASE m = n
    BY <2>1, <2>6, <2>7
  <2>8. CASE m # n
    <3>1. R = 1
      BY <2>3, <2>8 DEF Alike
    <3>2. p \in Parameters
      BY <2>3, StudyIs
    <3>3. Starts(p, n) \in Nat /\ Starts(p, m) \in Nat
      <4> HIDE DEF p
      <4> QED
        BY <3>2, StartsNat
    <3>4. Starts(p, n) \in 0 .. Starts(p, n) /\ Starts(p, m) \in 0 .. Starts(p, m)
      BY <3>3
    <3>5. at[x] = from /\ bt[x] = from
      <4> HIDE DEF p, R, from
      <4> QED
        BY <2>6, <3>1, <3>3, <3>4, ConstantTakesNone
    <3> QED
      BY <2>1, <3>5
  <2> QED
    BY <2>7, <2>8
<1>4. k - 1 \in 0 .. k - 1
  BY <1>1
<1> QED
  BY <1>2, <1>3, <1>4

(* The results of a study that is done are its samples.                    *)
LEMMA DoneIsShocked ==
    ASSUME SampledInv, ResultsInv, pc = "done"
    PROVE  /\ Shocked(study, Len(results), results)
           /\ Len(results) = paths
<1> DEFINE n == paths
<1>1. Len(sampled) = Len(study) /\ Len(results) = n
  BY DEF ResultsInv
<1>2. PICK at : /\ Began(at, study, n, Len(study))
                /\ \A j \in 1 .. Len(study) :
                     sampled[j] = [name |-> study[j].name,
                                   values |-> SampleOf(study[j], at[j - 1], n)]
  BY <1>1 DEF SampledInv
<1>3. \A l \in 1 .. n, j \in 1 .. Len(study) :
         results[l][study[j].name] = sampled[j].values[l]
  BY <1>1 DEF ResultsInv
<1>4. ASSUME NEW l \in 1 .. n, NEW j \in 1 .. Len(study)
      PROVE  results[l][study[j].name] = SampleOf(study[j], at[j - 1], n)[l]
  <2>1. sampled[j] = [name |-> study[j].name, values |-> SampleOf(study[j], at[j - 1], n)]
    BY <1>2
  <2>2. sampled[j].values = SampleOf(study[j], at[j - 1], n)
    BY <2>1
  <2> QED
    BY <1>3, <2>2
<1> QED
  BY <1>1, <1>2, <1>4 DEF Shocked

(* What a finished study and an earlier one have in common.                *)
LEMMA StudiesShare ==
    ASSUME StreamInv PROVE PathsReproduced
<1> SUFFICES ASSUME pc = "done", earlier # << >>,
                    NEW k \in SharedPrefix(earlier[1]),
                    NEW i \in 1 .. Min({paths, Len(earlier[1].results)})
             PROVE  results[i][study[k].name] = earlier[1].results[i][study[k].name]
  BY DEF PathsReproduced
<1>1. PICK ps \in Studies, res \in Seq(Shocks) :
        /\ earlier = <<[study |-> ps, results |-> res]>>
        /\ Len(res) \in 1 .. MaxPaths /\ Shocked(ps, Len(res), res)
  BY DEF StreamInv, EarlierInv
<1> DEFINE n == paths
           m == Len(res)
<1>2. earlier[1].study = ps /\ earlier[1].results = res
  BY <1>1
<1>3. n \in Nat \ {0} /\ m \in Nat \ {0} /\ study \in Studies
  BY <1>1, StreamAssumption DEF StreamInv, SampledInv
<1>4. PICK bt : /\ Began(bt, ps, m, Len(ps))
                /\ \A l \in 1 .. m, j \in 1 .. Len(ps) :
                     res[l][ps[j].name] = SampleOf(ps[j], bt[j - 1], m)[l]
  BY <1>1 DEF Shocked
<1>5. PICK at : /\ Began(at, study, n, Len(study))
                /\ \A l \in 1 .. n, j \in 1 .. Len(study) :
                     results[l][study[j].name] = SampleOf(study[j], at[j - 1], n)[l]
  BY DoneIsShocked, SMTT(30) DEF StreamInv, Shocked
<1>6. /\ k \in 1 .. Len(study) /\ k \in 1 .. Len(ps)
      /\ \A j \in 1 .. k : study[j] = ps[j]
      /\ \A j \in 1 .. k : j < k /\ m # n => StartRange(study[j]) = 1
  <2>1. DOMAIN study = 1 .. Len(study) /\ DOMAIN ps = 1 .. Len(ps)
    BY <1>3, StudyIs
  <2> QED
    BY <1>2, <2>1 DEF SharedPrefix
<1>7. i \in 1 .. n /\ i \in 1 .. m
  <2> HIDE DEF n, m
  <2>1. \E x \in {n, m} : \A y \in {n, m} : x <= y
    BY <1>3
  <2>2. Min({n, m}) \in Nat /\ Min({n, m}) <= n /\ Min({n, m}) <= m
    BY <1>3, <2>1 DEF Min
  <2>3. i \in 1 .. Min({n, m})
    BY <1>2 DEF n, m
  <2> QED
    BY <1>3, <2>2, <2>3
<1> HIDE DEF n, m
<1>8. at[k - 1] = bt[k - 1]
  <2>1. k <= Len(ps) /\ k \in 1 .. Len(study)
    BY <1>3, <1>6, StudyIs
  <2>2. Alike(study, ps, n, m, k)
    BY <1>6 DEF Alike
  <2>3. Began(at, study, n, Len(study)) /\ Began(bt, ps, m, Len(ps))
    BY <1>4, <1>5
  <2> QED
    BY <1>3, <2>1, <2>2, <2>3, BeginningsAgree
<1>9. study[k] = ps[k] /\ study[k] \in Parameters
  <2>1. k \in 1 .. k
    BY <1>3, <1>6, StudyIs
  <2> QED
    BY <1>3, <1>6, <2>1, StudyIs
<1>10. SampleOf(study[k], at[k - 1], n)[i] = SampleOf(study[k], at[k - 1], m)[i]
  <2>1. i <= m
    BY <1>3, <1>7
  <2> QED
    BY <1>3, <1>7, <1>9, <2>1, SamplesAgree
<1>11. results[i][study[k].name] = SampleOf(study[k], at[k - 1], n)[i]
  BY <1>5, <1>6, <1>7
<1>12. res[i][ps[k].name] = SampleOf(ps[k], bt[k - 1], m)[i]
  BY <1>4, <1>6, <1>7
<1> QED
  BY <1>2, <1>8, <1>9, <1>10, <1>11, <1>12

(* Every block of every array is contiguous.                               *)
LEMMA BlocksStayTogether ==
    ASSUME StreamInv PROVE BlocksContiguous
<1>1. PICK at : \A k \in 1 .. Len(sampled) :
                  sampled[k] = [name |-> study[k].name,
                                values |-> SampleOf(study[k], at[k - 1], paths)]
  BY DEF StreamInv, SampledInv
<1>2. /\ stream \in Streams /\ study \in Studies /\ paths \in Nat \ {0}
      /\ sampled \in Seq([name: STRING, values: Seq(Nat)]) /\ Len(sampled) <= Len(study)
  BY StreamAssumption DEF StreamInv, SampledInv
<1> SUFFICES ASSUME NEW k \in DOMAIN sampled, NEW i \in DOMAIN sampled[k].values
             PROVE  /\ sampled[k].values[i] < study[k].size
                    /\ i % study[k].block # 0 /\ i < Len(sampled[k].values)
                         => sampled[k].values[i + 1] = sampled[k].values[i] + 1
  BY DEF BlocksContiguous
<1>3. k \in 1 .. Len(sampled) /\ k \in 1 .. Len(study) /\ study[k] \in Parameters
  <2>1. Len(study) \in Nat /\ Len(sampled) \in Nat /\ k \in 1 .. Len(sampled)
    BY <1>2, StudyIs
  <2>2. k \in 1 .. Len(study)
    BY <1>2, <2>1
  <2> QED
    BY <1>2, <2>1, <2>2, StudyIs
<1> DEFINE v == sampled[k].values
<1>4. v = SampleOf(study[k], at[k - 1], paths)
  <2>1. sampled[k] = [name |-> study[k].name, values |-> SampleOf(study[k], at[k - 1], paths)]
    BY <1>1, <1>3
  <2> QED
    BY <2>1
<1> HIDE DEF v
<1>5. /\ DOMAIN v = 1 .. paths /\ Len(v) = paths
      /\ \A l \in 1 .. paths :
           /\ v[l] < study[k].size
           /\ l % study[k].block # 0 /\ l < paths => v[l + 1] = v[l] + 1
  <2>1. Blockwise(SampleOf(study[k], at[k - 1], paths), study[k], paths)
    BY <1>2, <1>3, SamplesAre
  <2> QED
    BY <1>4, <2>1 DEF Blockwise
<1> QED
  BY <1>5 DEF v

(* What is drawn from a position depends on the stream alone.              *)
LEMMA SameDraws ==
    ASSUME stream' = stream, NEW p, NEW n
    PROVE  AfterDraw(p, n)' = AfterDraw(p, n) /\ Drawn(p, n)' = Drawn(p, n)
<1>1. \A q : Word(q)' = Word(q)
  BY DEF Word
<1> DEFINE S == {q \in p + 1 .. p + Len(stream) + 1 : Accepted(Word(q), n)}
           T == {q \in p + 1 .. p + Len(stream') + 1 : Accepted(Word(q)', n)}
<1>2. S = T
  BY <1>1
<1> HIDE DEF S, T
<1>3. AfterDraw(p, n) = IF n = 1 THEN p ELSE Min(S)
  BY DEF AfterDraw, S
<1>4. AfterDraw(p, n)' = IF n = 1 THEN p ELSE Min(T)
  BY DEF AfterDraw, T
<1>5. AfterDraw(p, n)' = AfterDraw(p, n)
  BY <1>2, <1>3, <1>4
<1>6. Drawn(p, n)' = Drawn(p, n)
  BY <1>1, <1>5 DEF Drawn
<1> QED
  BY <1>5, <1>6

(* The same facts about positions and samples, to be read of a next state. *)
PositionSteps(from, n, count) ==
    LET f == Positions(from, n, count)
    IN  /\ f = [k \in 0 .. count |-> f[k]] /\ f[0] = from
        /\ \A k \in 1 .. count : \A x : x = f[k - 1] => f[k] = AfterDraw(x, n)

AllPositionSteps == \A from, n : \A count \in Nat : PositionSteps(from, n, count)

(* The positions obey it, in any state.                                    *)
LEMMA PositionStepsAlways == AllPositionSteps
<1> SUFFICES ASSUME NEW from, NEW n, NEW count \in Nat PROVE PositionSteps(from, n, count)
  BY DEF AllPositionSteps
<1> DEFINE f == Positions(from, n, count)
<1>1. f = [k \in 0 .. count |-> IF k = 0 THEN from ELSE AfterDraw(f[k - 1], n)]
  BY PositionsFixed DEF PositionsAre
<1> HIDE DEF f
<1>2. f = [k \in 0 .. count |-> f[k]] /\ f[0] = from
  BY <1>1
<1>3. \A k \in 1 .. count : f[k] = AfterDraw(f[k - 1], n)
  BY <1>1
<1> QED
  BY <1>2, <1>3 DEF PositionSteps, f

SampleSteps(p, from, count) ==
    LET v == SampleOf(p, from, count)
        f == Positions(from, StartRange(p), Starts(p, count))
    IN  /\ v = [i \in 1 .. count |-> v[i]]
        /\ \A i \in 1 .. count : \A x :
             x = f[(i - 1) \div p.block] => v[i] = Drawn(x, StartRange(p)) + ((i - 1) % p.block)

AllSampleSteps == \A p, from, count : SampleSteps(p, from, count)

(* So do the samples.                                                      *)
LEMMA SampleStepsAlways == AllSampleSteps
  BY DEF AllSampleSteps, SampleSteps, SampleOf

(* The same stream gives the same positions.                               *)
LEMMA SamePositions ==
    ASSUME stream' = stream, NEW from, NEW n, NEW count \in Nat
    PROVE  Positions(from, n, count)' = Positions(from, n, count)
<1> DEFINE f == Positions(from, n, count)
           g == Positions(from, n, count)'
<1>1. f = [k \in 0 .. count |-> IF k = 0 THEN from ELSE AfterDraw(f[k - 1], n)]
  BY PositionsFixed DEF PositionsAre
<1>2. AllPositionSteps'
  BY PositionStepsAlways, PTL
<1>3. /\ g = [k \in 0 .. count |-> g[k]] /\ g[0] = from
      /\ \A k \in 1 .. count : \A x : x = g[k - 1] => g[k] = AfterDraw(x, n)'
  BY <1>2 DEF AllPositionSteps, PositionSteps
<1> HIDE DEF f, g
<1>4. \A k \in 1 .. count : g[k] = AfterDraw(g[k - 1], n)
  BY <1>3, SameDraws
<1>5. g = [k \in 0 .. count |-> IF k = 0 THEN from ELSE AfterDraw(g[k - 1], n)]
  BY <1>3, <1>4, SMTT(30)
<1>6. \A k \in 0 .. count : f[k] = g[k]
  <2>1. PositionsAre(f, from, n, count) /\ PositionsAre(g, from, n, count)
    BY <1>1, <1>5 DEF PositionsAre
  <2> QED
    BY <2>1, PositionsAgree
<1>7. f = g
  BY <1>1, <1>5, <1>6
<1> QED
  BY <1>7 DEF f, g

(* The same stream gives the same samples.                                 *)
LEMMA SameSamples ==
    ASSUME stream' = stream, NEW p \in Parameters, NEW from, NEW count \in Nat \ {0}
    PROVE  SampleOf(p, from, count)' = SampleOf(p, from, count)
<1> DEFINE f == Positions(from, StartRange(p), Starts(p, count))
           v == SampleOf(p, from, count)
           w == SampleOf(p, from, count)'
<1>1. Starts(p, count) \in Nat
  BY StartsNat
<1>2. f' = f
  BY <1>1, SamePositions
<1>3. AllSampleSteps'
  BY SampleStepsAlways, PTL
<1>4. /\ v = [i \in 1 .. count |-> v[i]]
      /\ \A i \in 1 .. count : \A x :
           x = f[(i - 1) \div p.block] => v[i] = Drawn(x, StartRange(p)) + ((i - 1) % p.block)
  BY SampleStepsAlways DEF AllSampleSteps, SampleSteps
<1>5. /\ w = [i \in 1 .. count |-> w[i]]
      /\ \A i \in 1 .. count : \A x :
           x = (f')[(i - 1) \div p.block]
             => w[i] = Drawn(x, StartRange(p))' + ((i - 1) % p.block)
  BY <1>3 DEF AllSampleSteps, SampleSteps
<1> HIDE DEF f, v, w
<1>6. ASSUME NEW i \in 1 .. count PROVE w[i] = v[i]
  <2>1. PICK x : x = f[(i - 1) \div p.block]
    OBVIOUS
  <2>2. w[i] = Drawn(x, StartRange(p))' + ((i - 1) % p.block)
    BY <1>2, <1>5, <2>1
  <2>3. v[i] = Drawn(x, StartRange(p)) + ((i - 1) % p.block)
    BY <1>4, <2>1
  <2>4. Drawn(x, StartRange(p))' = Drawn(x, StartRange(p))
    BY SameDraws
  <2> QED
    BY <2>2, <2>3, <2>4
<1> QED
  BY <1>4, <1>5, <1>6 DEF v, w

(* As long as the stream stays, so does what was drawn from it.            *)
LEMMA BeganStays ==
    ASSUME stream' = stream, NEW ps \in Studies, NEW n \in Nat \ {0},
           NEW len \in 0 .. Len(ps), NEW at, Began(at, ps, n, len)
    PROVE  Began(at, ps, n, len)'
<1>1. ASSUME NEW k \in 1 .. len
      PROVE  at[k] = Positions(at[k - 1], StartRange(ps[k]), Starts(ps[k], n))'[Starts(ps[k], n)]
  <2>1. k \in 1 .. Len(ps)
    BY StudyIs
  <2>2. Starts(ps[k], n) \in Nat
    BY <2>1, StudyIs, StartsNat
  <2>3. Positions(at[k - 1], StartRange(ps[k]), Starts(ps[k], n))'
          = Positions(at[k - 1], StartRange(ps[k]), Starts(ps[k], n))
    BY <2>2, SamePositions
  <2> QED
    BY <2>3 DEF Began
<1> QED
  BY <1>1 DEF Began

(* What a finished study was given does not change afterwards.             *)
LEMMA ShockedStays ==
    ASSUME stream' = stream, NEW ps \in Studies, NEW n \in Nat \ {0}, NEW res,
           Shocked(ps, n, res)
    PROVE  Shocked(ps, n, res)'
<1>1. PICK at : /\ Began(at, ps, n, Len(ps))
                /\ \A i \in 1 .. n, k \in 1 .. Len(ps) :
                     res[i][ps[k].name] = SampleOf(ps[k], at[k - 1], n)[i]
  BY DEF Shocked
<1>2. Len(ps) \in 0 .. Len(ps)
  BY StudyIs
<1>3. Began(at, ps, n, Len(ps))'
  BY <1>1, <1>2, BeganStays
<1>4. ASSUME NEW i \in 1 .. n, NEW k \in 1 .. Len(ps)
      PROVE  res[i][ps[k].name] = SampleOf(ps[k], at[k - 1], n)'[i]
  <2>1. SampleOf(ps[k], at[k - 1], n)' = SampleOf(ps[k], at[k - 1], n)
    BY StudyIs, SameSamples
  <2> QED
    BY <1>1, <2>1
<1> QED
  BY <1>3, <1>4 DEF Shocked

(* Neither does what is remembered of the study before.                    *)
LEMMA EarlierStays ==
    ASSUME EarlierInv, stream' = stream, earlier' = earlier
    PROVE  EarlierInv'
<1>1. ASSUME NEW ps \in Studies, NEW res \in Seq(Shocks),
             Len(res) \in 1 .. MaxPaths, Shocked(ps, Len(res), res)
      PROVE  Shocked(ps, Len(res), res)'
  BY <1>1, ShockedStays, StreamAssumption
<1> QED
  BY <1>1 DEF EarlierInv

(* What has been sampled stays sampled.                                    *)
LEMMA SampledStays ==
    ASSUME SampledInv, stream' = stream, study' = study, paths' = paths,
           position' = position, sampled' = sampled
    PROVE  SampledInv'
<1>1. PICK ps, m, lst : ps = study /\ m = paths /\ lst = Len(sampled)
  OBVIOUS
<1>2. ps \in Studies /\ m \in Nat \ {0} /\ lst \in 0 .. Len(ps)
  BY <1>1, StreamAssumption, StudyIs DEF SampledInv
<1>3. PICK at : /\ Began(at, ps, m, lst) /\ position = at[lst]
                /\ \A k \in 1 .. lst :
                     sampled[k] = [name |-> ps[k].name, values |-> SampleOf(ps[k], at[k - 1], m)]
  BY <1>1 DEF SampledInv
<1>4. Began(at, ps, m, lst)'
  BY <1>2, <1>3, BeganStays
<1>5. \A k \in 1 .. lst : SampleOf(ps[k], at[k - 1], m)' = SampleOf(ps[k], at[k - 1], m)
  BY <1>2, StudyIs, SameSamples
<1>6. \A k \in 1 .. lst :
         sampled'[k] = [name |-> ps[k].name, values |-> SampleOf(ps[k], at[k - 1], m)']
  BY <1>3, <1>5
<1>7. /\ Began(at, study, paths, Len(sampled))' /\ position' = at[Len(sampled')]
      /\ \A k \in 1 .. Len(sampled') :
           sampled'[k] = [name |-> study'[k].name,
                          values |-> SampleOf(study[k], at[k - 1], paths)']
  BY <1>1, <1>3, <1>4, <1>6
<1> QED
  BY <1>7 DEF SampledInv

(* A study that begins.                                                    *)
LEMMA StudyBegins ==
    study \in Studies /\ paths \in 1 .. MaxPaths /\ stream \in Streams
      /\ position = 0 /\ sampled = << >> /\ results = << >> /\ pc = "sampling"
    => SampledInv /\ ResultsInv
<1> SUFFICES ASSUME study \in Studies, paths \in 1 .. MaxPaths, stream \in Streams,
                    position = 0, sampled = << >>, results = << >>, pc = "sampling"
             PROVE  SampledInv /\ ResultsInv
  OBVIOUS
<1> DEFINE at == [k \in 0 .. 0 |-> 0]
<1>1. at \in [0 .. 0 -> Nat] /\ at[0] = 0
  OBVIOUS
<1> HIDE DEF at
<1>2. Len(sampled) = 0 /\ Len(results) = 0 /\ Len(study) \in Nat
  BY StudyIs
<1>3. Began(at, study, paths, 0)
  BY <1>1 DEF Began
<1>4. SampledInv
  BY <1>1, <1>2, <1>3 DEF SampledInv
<1>5. ResultsInv
  BY <1>2 DEF ResultsInv
<1> QED
  BY <1>4, <1>5

(* The invariant holds at the beginning.                                   *)
LEMMA StreamInvInit == StreamInit => StreamInv
  BY StudyBegins DEF StreamInit, StreamInv, EarlierInv

(* The next parameter begins where the one before it ended.                *)
LEMMA SampleKeeps ==
    ASSUME StreamInv, Sample
    PROVE  StreamInv'
<1> DEFINE n == paths
           len == Len(sampled)
           p == study[len + 1]
           w == SampleOf(p, position, n)
           row == [name |-> p.name, values |-> w]
           pos == Positions(position, StartRange(p), Starts(p, n))[Starts(p, n)]
<1>1. /\ stream \in Streams /\ study \in Studies /\ n \in 1 .. MaxPaths /\ n \in Nat \ {0}
      /\ sampled \in Seq([name: STRING, values: Seq(Nat)])
      /\ len \in Nat /\ len < Len(study) /\ Len(study) \in Nat
      /\ pc = "sampling" /\ results = << >>
  BY StreamAssumption, StudyIs DEF StreamInv, SampledInv, ResultsInv, Sample
<1>2. /\ stream' = stream /\ study' = study /\ paths' = n /\ results' = results
      /\ pc' = pc /\ earlier' = earlier
      /\ sampled' = Append(sampled, row) /\ position' = pos
  BY DEF Sample, NextParameter
<1>3. len + 1 \in 1 .. Len(study) /\ p \in Parameters
  <2>1. len + 1 \in 1 .. Len(study)
    BY <1>1
  <2> QED
    BY <1>1, <2>1, StudyIs
<1>4. PICK at : /\ Began(at, study, n, len) /\ position = at[len]
                /\ \A k \in 1 .. len :
                     sampled[k] = [name |-> study[k].name,
                                   values |-> SampleOf(study[k], at[k - 1], n)]
  BY DEF StreamInv, SampledInv
<1> HIDE DEF p
<1>5. position \in Nat /\ pos \in Nat
  <2>1. position \in Nat
    BY <1>1, <1>4 DEF Began
  <2>2. Starts(p, n) \in Nat /\ Starts(p, n) \in 0 .. Starts(p, n)
    <3>1. Starts(p, n) \in Nat
      BY <1>1, <1>3, StartsNat
    <3> QED
      BY <3>1
  <2> QED
    BY <1>1, <1>3, <2>1, <2>2, ParameterBounds, PositionsNat
<1>6. w \in Seq(Nat) /\ row \in [name: STRING, values: Seq(Nat)]
  <2>1. w \in Seq(Nat) /\ p.name \in STRING
    BY <1>1, <1>3, SamplesAre, ParameterBounds DEF Blockwise
  <2> QED
    BY <2>1
<1> HIDE DEF w, pos
<1> DEFINE bt == [k \in 0 .. len + 1 |-> IF k = len + 1 THEN pos ELSE at[k]]
<1>7. /\ bt \in [0 .. len + 1 -> Nat] /\ bt[0] = 0 /\ bt[len + 1] = pos
      /\ \A k \in 0 .. len : bt[k] = at[k]
  BY <1>1, <1>4, <1>5 DEF Began
<1> HIDE DEF bt
<1>8. Began(bt, study, n, len + 1)
  <2>1. ASSUME NEW k \in 1 .. len + 1
        PROVE  bt[k] = Positions(bt[k - 1], StartRange(study[k]), Starts(study[k], n))
                         [Starts(study[k], n)]
    <3>1. k - 1 \in 0 .. len /\ bt[k - 1] = at[k - 1]
      <4>1. k - 1 \in 0 .. len
        BY <1>1
      <4> QED
        BY <1>7, <4>1
    <3>2. CASE k = len + 1
      <4>1. study[k] = p /\ at[k - 1] = position /\ bt[k] = pos
        BY <1>1, <1>4, <1>7, <3>2 DEF p
      <4> QED
        BY <3>1, <4>1 DEF pos
    <3>3. CASE k # len + 1
      <4>1. k \in 1 .. len /\ bt[k] = at[k]
        BY <1>1, <1>7, <3>3
      <4> QED
        BY <1>4, <3>1, <4>1 DEF Began
    <3> QED
      BY <3>2, <3>3
  <2> QED
    BY <1>7, <2>1 DEF Began
<1>9. /\ sampled' \in Seq([name: STRING, values: Seq(Nat)]) /\ Len(sampled') = len + 1
      /\ sampled'[len + 1] = row /\ \A k \in 1 .. len : sampled'[k] = sampled[k]
  <2> HIDE DEF row
  <2> QED
    BY <1>1, <1>2, <1>6
<1>10. ASSUME NEW k \in 1 .. len + 1
       PROVE  sampled'[k] = [name |-> study[k].name,
                             values |-> SampleOf(study[k], bt[k - 1], n)]
  <2>1. k - 1 \in 0 .. len /\ bt[k - 1] = at[k - 1]
    <3>1. k - 1 \in 0 .. len
      BY <1>1
    <3> QED
      BY <1>7, <3>1
  <2>2. CASE k = len + 1
    <3>1. study[k] = p /\ at[k - 1] = position
      BY <1>1, <1>4, <2>2 DEF p
    <3> QED
      BY <1>9, <2>1, <2>2, <3>1 DEF w
  <2>3. CASE k # len + 1
    <3>1. k \in 1 .. len
      BY <1>1, <2>3
    <3> QED
      BY <1>4, <1>9, <2>1, <3>1
  <2> QED
    BY <2>2, <2>3
<1>11. SampledInv'
  <2>1. PICK ps, m, lst : ps = study /\ m = n /\ lst = len + 1
    OBVIOUS
  <2>2. ps \in Studies /\ m \in Nat \ {0} /\ lst \in 0 .. Len(ps)
    BY <1>1, <2>1
  <2>3. Began(bt, ps, m, lst)
    BY <1>8, <2>1
  <2>4. PICK ct : ct = bt
    OBVIOUS
  <2>5. Began(ct, ps, m, lst)'
    BY <1>2, <2>2, <2>3, <2>4, BeganStays
  <2>6. \A k \in 1 .. lst : SampleOf(ps[k], ct[k - 1], m)' = SampleOf(ps[k], ct[k - 1], m)
    BY <1>2, <2>2, StudyIs, SameSamples
  <2>7. \A k \in 1 .. lst :
           sampled'[k] = [name |-> ps[k].name, values |-> SampleOf(ps[k], ct[k - 1], m)']
    BY <1>10, <2>1, <2>4, <2>6
  <2>8. /\ Began(ct, study, paths, Len(sampled))' /\ position' = ct[Len(sampled')]
        /\ \A k \in 1 .. Len(sampled') :
             sampled'[k] = [name |-> study'[k].name,
                            values |-> SampleOf(study[k], ct[k - 1], paths)']
    BY <1>2, <1>7, <1>9, <2>1, <2>4, <2>5, <2>7
  <2> QED
    BY <1>1, <1>2, <1>9, <2>8 DEF SampledInv
<1>12. ResultsInv'
  BY <1>1, <1>2, <1>9 DEF StreamInv, ResultsInv
<1>13. EarlierInv'
  BY <1>2, EarlierStays DEF StreamInv
<1> QED
  BY <1>11, <1>12, <1>13 DEF StreamInv

(* The end of the sampling keeps the invariant.                            *)
LEMMA AllSampledKeeps ==
    ASSUME StreamInv, AllSampled
    PROVE  StreamInv'
<1>1. /\ stream' = stream /\ study' = study /\ paths' = paths /\ position' = position
      /\ sampled' = sampled /\ results' = results /\ earlier' = earlier
      /\ pc = "sampling" /\ pc' = "running" /\ Len(sampled) = Len(study)
  BY DEF AllSampled
<1>2. SampledInv'
  BY <1>1, SampledStays DEF StreamInv
<1>3. ResultsInv'
  <2>1. results = << >> /\ paths \in Nat \ {0} /\ Len(results) = 0
    BY <1>1, StreamAssumption DEF StreamInv, SampledInv, ResultsInv
  <2> QED
    BY <1>1, <2>1 DEF StreamInv, ResultsInv
<1> QED
  BY <1>1, <1>2, <1>3, EarlierStays DEF StreamInv

(* A path gets its sample of every array, by name.                         *)
LEMMA RunPathKeeps ==
    ASSUME StreamInv, RunPath
    PROVE  StreamInv'
<1> DEFINE l == Len(results) + 1
           names == {sampled[k].name : k \in DOMAIN sampled}
           ValueOf(name) == (CHOOSE s \in {sampled[k] : k \in DOMAIN sampled} :
                               s.name = name).values[l]
           shocks == [name \in names |-> ValueOf(name)]
<1>1. /\ stream' = stream /\ study' = study /\ paths' = paths /\ position' = position
      /\ sampled' = sampled /\ earlier' = earlier /\ pc = "running"
      /\ results' = Append(results, shocks)
      /\ pc' = IF Len(results') = paths THEN "done" ELSE pc
  BY DEF RunPath
<1>2. /\ Len(sampled) = Len(study) /\ results \in Seq(Shocks) /\ Len(results) < paths
      /\ paths \in Nat \ {0} /\ Len(results) \in Nat /\ study \in Studies
      /\ stream \in Streams /\ sampled \in Seq([name: STRING, values: Seq(Nat)])
      /\ DOMAIN sampled = 1 .. Len(study) /\ l \in 1 .. paths
      /\ \A i \in 1 .. Len(results), k \in 1 .. Len(study) :
           results[i][study[k].name] = sampled[k].values[i]
  BY <1>1, StreamAssumption DEF StreamInv, SampledInv, ResultsInv
<1>3. ASSUME NEW k \in 1 .. Len(study)
      PROVE  /\ sampled[k].name = study[k].name /\ sampled[k].name \in STRING
             /\ sampled[k].values[l] \in Nat
             /\ ValueOf(study[k].name) = sampled[k].values[l]
  <2>1. PICK at : \A j \in 1 .. Len(study) :
                    sampled[j] = [name |-> study[j].name,
                                  values |-> SampleOf(study[j], at[j - 1], paths)]
    BY <1>2, ZenonT(40) DEF StreamInv, SampledInv
  <2>2. ASSUME NEW j \in 1 .. Len(study) PROVE sampled[j].name = study[j].name
    <3>1. sampled[j] = [name |-> study[j].name, values |-> SampleOf(study[j], at[j - 1], paths)]
      BY <2>1
    <3> QED
      BY <3>1
  <2>3. sampled[k].values[l] \in Nat
    <3>1. sampled[k] = [name |-> study[k].name,
                        values |-> SampleOf(study[k], at[k - 1], paths)]
      BY <2>1
    <3>2. sampled[k].values = SampleOf(study[k], at[k - 1], paths)
      BY <3>1
    <3>3. Blockwise(SampleOf(study[k], at[k - 1], paths), study[k], paths)
      BY <1>2, StudyIs, SamplesAre
    <3> QED
      BY <1>2, <3>2, <3>3 DEF Blockwise
  <2>4. sampled[k].name \in STRING
    BY <1>2, <2>2, StudyIs, ParameterBounds
  <2>5. \A j \in 1 .. Len(study) : study[j].name = study[k].name => j = k
    BY <1>2, StudyIs
  <2> DEFINE Arrays == {sampled[j] : j \in DOMAIN sampled}
  <2>6. sampled[k] \in Arrays
    BY <1>2, Zenon
  <2>8. ASSUME NEW s \in Arrays, s.name = study[k].name PROVE s = sampled[k]
    <3>1. PICK j \in 1 .. Len(study) : s = sampled[j]
      BY <1>2, Zenon
    <3>2. sampled[j].name = study[j].name
      BY <2>2
    <3>3. j = k
      BY <2>5, <2>8, <3>1, <3>2, Zenon
    <3> QED
      BY <3>1, <3>3, Zenon
  <2>7. (CHOOSE s \in Arrays : s.name = study[k].name) = sampled[k]
    <3> HIDE DEF Arrays
    <3> QED
      BY <2>2, <2>6, <2>8, Zenon
  <2> QED
    BY <2>2, <2>3, <2>4, <2>7, Zenon
<1> HIDE DEF ValueOf, l
<1>4. names = {study[k].name : k \in 1 .. Len(study)} /\ names \in SUBSET STRING
  <2>1. \A k \in DOMAIN sampled : k \in 1 .. Len(study)
    BY <1>2, Zenon
  <2>2. \A k \in 1 .. Len(study) : k \in DOMAIN sampled
    BY <1>2, Zenon
  <2>3. \A k \in 1 .. Len(study) : sampled[k].name = study[k].name /\ sampled[k].name \in STRING
    BY <1>3
  <2>4. \A x : x \in names <=> \E k \in DOMAIN sampled : x = sampled[k].name
    BY Zenon
  <2>5. \A x : x \in names <=> \E k \in 1 .. Len(study) : x = study[k].name
    <3> HIDE DEF names
    <3> QED
      BY <2>1, <2>2, <2>3, <2>4, Zenon
  <2> HIDE DEF names
  <2>6. names = {study[k].name : k \in 1 .. Len(study)}
    BY <2>5
  <2>7. \A x \in names : x \in STRING
    BY <2>1, <2>3, <2>4, Zenon
  <2> QED
    BY <2>6, <2>7
<1>5. shocks \in Shocks /\ \A k \in 1 .. Len(study) : shocks[study[k].name] = sampled[k].values[l]
  <2>1. \A name \in names : ValueOf(name) \in Nat
    BY <1>3, <1>4
  <2>2. shocks \in [names -> Nat]
    BY <2>1
  <2>3. \A k \in 1 .. Len(study) : study[k].name \in names
    BY <1>4
  <2> HIDE DEF names
  <2> QED
    BY <1>3, <1>4, <2>2, <2>3 DEF Shocks
<1> HIDE DEF shocks
<1>6. /\ results' \in Seq(Shocks) /\ Len(results') = l /\ results'[l] = shocks
      /\ \A i \in 1 .. Len(results) : results'[i] = results[i]
  BY <1>1, <1>2, <1>5 DEF l
<1>7. \A i \in 1 .. Len(results'), k \in 1 .. Len(study') :
         results'[i][study'[k].name] = sampled'[k].values[i]
  <2> SUFFICES ASSUME NEW i \in 1 .. l, NEW k \in 1 .. Len(study)
               PROVE  results'[i][study[k].name] = sampled[k].values[i]
    BY <1>1, <1>6
  <2>1. CASE i = l
    BY <1>5, <1>6, <2>1
  <2>2. CASE i # l
    <3>1. i \in 1 .. Len(results)
      BY <1>2, <2>2 DEF l
    <3> QED
      BY <1>2, <1>6, <3>1
  <2> QED
    BY <2>1, <2>2
<1>8. ResultsInv'
  <2>1. l <= paths
    BY <1>2
  <2>2. pc' = IF l = paths THEN "done" ELSE "running"
    BY <1>1, <1>6
  <2>3. CASE l = paths
    BY <1>1, <1>2, <1>6, <1>7, <2>2, <2>3 DEF ResultsInv
  <2>4. CASE l # paths
    <3>1. l < paths
      BY <1>2, <2>1, <2>4
    <3>2. pc' = "running"
      BY <2>2, <2>4
    <3> QED
      BY <1>1, <1>2, <1>6, <1>7, <3>1, <3>2 DEF ResultsInv
  <2> QED
    BY <2>3, <2>4
<1>9. SampledInv'
  BY <1>1, SampledStays DEF StreamInv
<1> QED
  BY <1>1, <1>8, <1>9, EarlierStays DEF StreamInv

(* A study that is done becomes the earlier one.                           *)
LEMMA EditKeeps ==
    ASSUME StreamInv, NEW ps \in Studies, NEW n \in 1 .. MaxPaths, Edit(ps, n)
    PROVE  StreamInv'
<1>1. /\ stream' = stream /\ study' = ps /\ paths' = n /\ position' = 0 /\ sampled' = << >>
      /\ results' = << >> /\ pc' = "sampling" /\ pc = "done"
      /\ earlier' = <<[study |-> study, results |-> results]>>
  BY DEF Edit
<1>2. (study \in Studies /\ paths \in 1 .. MaxPaths /\ stream \in Streams
         /\ position = 0 /\ sampled = << >> /\ results = << >> /\ pc = "sampling")'
  BY <1>1 DEF StreamInv, SampledInv
<1>3. (SampledInv /\ ResultsInv)'
  BY <1>2, StudyBegins, PTL
<1>4. Shocked(study, Len(results), results) /\ Len(results) \in 1 .. MaxPaths
        /\ results \in Seq(Shocks) /\ study \in Studies
  BY <1>1, DoneIsShocked DEF StreamInv, SampledInv, ResultsInv
<1>5. PICK old, res : old = study /\ res = results
  OBVIOUS
<1>6. Len(res) \in Nat \ {0} /\ old \in Studies /\ Shocked(old, Len(res), res)
  BY <1>4, <1>5, StreamAssumption
<1>7. Shocked(old, Len(res), res)'
  BY <1>1, <1>6, ShockedStays
<1>8. EarlierInv'
  BY <1>1, <1>4, <1>5, <1>7 DEF EarlierInv
<1> QED
  BY <1>3, <1>8 DEF StreamInv

(* Every step keeps it.                                                    *)
LEMMA StreamInvNext == StreamInv /\ [StreamNext]_streamVars => StreamInv'
<1> SUFFICES ASSUME StreamInv, [StreamNext]_streamVars PROVE StreamInv'
  OBVIOUS
<1>1. CASE Sample
  BY <1>1, SampleKeeps
<1>2. CASE AllSampled
  BY <1>2, AllSampledKeeps
<1>3. CASE RunPath
  BY <1>3, RunPathKeeps
<1>4. ASSUME NEW ps \in Studies, NEW n \in 1 .. MaxPaths, Edit(ps, n) PROVE StreamInv'
  BY <1>4, EditKeeps
<1>5. CASE UNCHANGED streamVars
  <2>1. /\ stream' = stream /\ study' = study /\ paths' = paths /\ position' = position
        /\ sampled' = sampled /\ results' = results /\ pc' = pc /\ earlier' = earlier
    BY <1>5 DEF streamVars
  <2>2. SampledInv' /\ EarlierInv'
    BY <2>1, SampledStays, EarlierStays DEF StreamInv
  <2>3. ResultsInv'
    BY <2>1 DEF StreamInv, ResultsInv
  <2> QED
    BY <2>2, <2>3 DEF StreamInv
<1> QED
  BY <1>1, <1>2, <1>3, <1>4, <1>5 DEF StreamNext

(* So it always holds.                                                     *)
LEMMA StreamInvInvariant == StreamSpec => []StreamInv
  BY StreamInvInit, StreamInvNext, PTL DEF StreamSpec

(* The variables of a study have their types: the generator always has one *)
(* more word to give.                                                      *)
THEOREM StreamTypeCorrect == StreamSpec => []StreamTypeOK
<1>1. StreamInv => StreamTypeOK
  <2> SUFFICES ASSUME StreamInv PROVE StreamTypeOK
    OBVIOUS
  <2>1. position \in Nat
    <3>1. PICK at : Began(at, study, paths, Len(sampled)) /\ position = at[Len(sampled)]
      BY DEF StreamInv, SampledInv
    <3>2. Len(sampled) \in 0 .. Len(sampled)
      BY DEF StreamInv, SampledInv
    <3> QED
      BY <3>1, <3>2 DEF Began
  <2>2. Len(results) <= paths
    <3>1. paths \in Nat \ {0}
      BY StreamAssumption DEF StreamInv, SampledInv
    <3> QED
      BY <3>1 DEF StreamInv, ResultsInv
  <2>3. Len(earlier) <= 1
    <3>1. CASE earlier = << >>
      BY <3>1
    <3>2. CASE earlier # << >>
      <4>1. PICK ps, res : earlier = <<[study |-> ps, results |-> res]>>
        BY <3>2, Zenon DEF StreamInv, EarlierInv
      <4>2. PICK e : earlier = <<e>>
        BY <4>1
      <4> QED
        BY <4>2
    <3> QED
      BY <3>1, <3>2
  <2> QED
    BY <2>1, <2>2, <2>3 DEF StreamInv, SampledInv, ResultsInv, StreamTypeOK
<1> QED
  BY <1>1, StreamInvInvariant, PTL

(* Block sampling keeps every block together and within the observations,  *)
(* whatever the generator gives (EmpiricalDistribution.sample).            *)
THEOREM BlocksAreContiguous == StreamSpec => []BlocksContiguous
  BY StreamInvInvariant, BlocksStayTogether, PTL

(* A path is reproduced by the seed up to the first parameter that differs *)
(* or, for another number of paths, up to the first that takes any word.   *)
THEOREM PathsAreReproduced == StreamSpec => []PathsReproduced
  BY StreamInvInvariant, StudiesShare, PTL

-----------------------------------------------------------------------------
(* PriceOracle.                                                            *)

(* The window s holds the ticks of the last w accepted prices.             *)
Tracks(s, acc, w) ==
    /\ acc \in Seq(Prices) /\ Len(acc) > 0 /\ w \in Nat \ {0}
    /\ s \in Seq(Observation) /\ Len(s) = Least(w, Len(acc))
    /\ \A i \in 1 .. Len(s) : s[i].tick = PriceTick[acc[Len(acc) - Len(s) + i]]

OracleInv ==
    /\ window \in Windows /\ clock \in 0 .. MaxBlock
    /\ Tracks(obs, accepted, window) /\ current = accepted[Len(accepted)]

(* A higher price has a higher tick.                                       *)
LEMMA TickMonotone ==
    ASSUME NEW p \in Prices, NEW q \in Prices, p <= q
    PROVE  PriceTick[p] \in Nat /\ PriceTick[q] \in Nat /\ PriceTick[p] <= PriceTick[q]
<1>1. PriceTick[p] \in Nat /\ PriceTick[q] \in Nat /\ p \in Nat /\ q \in Nat
  BY PricesInterval
<1>2. CASE p = q
  BY <1>1, <1>2
<1>3. CASE p # q
  <2>1. PriceTick[p] < PriceTick[q]
    BY <1>1, <1>3, TickAssumption
  <2> QED
    BY <1>1, <2>1
<1> QED
  BY <1>2, <1>3

(* What a window that tracks is made of.                                   *)
LEMMA TracksPrices ==
    ASSUME NEW s, NEW acc, NEW w, Tracks(s, acc, w)
    PROVE  /\ Len(s) \in Nat \ {0} /\ s # << >> /\ Len(s) <= w /\ OnGrid(s)
           /\ \A i \in 1 .. Len(s) :
                /\ Len(acc) - Len(s) + i \in 1 .. Len(acc)
                /\ Len(acc) - Len(s) + i > Len(acc) - w
                /\ acc[Len(acc) - Len(s) + i] \in Prices
<1> DEFINE n == Len(acc)
           l == Len(s)
<1>1. n \in Nat /\ n > 0 /\ l \in Nat /\ w \in Nat \ {0} /\ l = Least(w, n)
      /\ s \in Seq(Observation) /\ acc \in Seq(Prices)
  BY DEF Tracks
<1>2. l <= w /\ l <= n /\ l > 0
  <2> HIDE DEF n, l
  <2> QED
    BY <1>1 DEF Least
<1>3. \A i \in 1 .. l : n - l + i \in 1 .. n /\ n - l + i > n - w
  <2> HIDE DEF n, l
  <2> QED
    BY <1>1, <1>2
<1>4. \A i \in 1 .. l : acc[n - l + i] \in Prices
  <2>1. \A k \in 1 .. n : acc[k] \in Prices
    BY <1>1
  <2> HIDE DEF n, l
  <2> QED
    BY <1>3, <2>1
<1>5. \A i \in 1 .. l : s[i].tick >= PriceTick[1]
  <2> SUFFICES ASSUME NEW i \in 1 .. l PROVE s[i].tick >= PriceTick[1]
    OBVIOUS
  <2>1. PICK p \in Prices : p = acc[n - l + i]
    BY <1>4
  <2>2. s[i].tick = PriceTick[p]
    BY <2>1 DEF Tracks
  <2>3. 1 \in Prices /\ 1 <= p
    BY PricesInterval
  <2> QED
    BY <2>2, <2>3, TickMonotone
<1>6. OnGrid(s)
  <2>1. DOMAIN s = 1 .. l
    BY <1>1
  <2> QED
    BY <1>1, <1>5, <2>1 DEF OnGrid
<1>7. s # << >>
  BY <1>1, <1>2
<1> QED
  BY <1>1, <1>2, <1>3, <1>4, <1>6, <1>7

(* The reading lies between the lowest and the highest of the last prices. *)
LEMMA ReadsWithinRecent ==
    ASSUME NEW s, NEW acc, NEW w, Tracks(s, acc, w)
    PROVE  /\ ReadTwap(s) \in Prices
           /\ \E i, j \in {k \in 1 .. Len(acc) : k > Len(acc) - w} :
                acc[i] <= ReadTwap(s) /\ ReadTwap(s) <= acc[j]
<1> DEFINE n == Len(acc)
           R == {k \in 1 .. n : k > n - w}
           V == {acc[k] : k \in R}
           At(i) == acc[n - Len(s) + i]
           r == ReadTwap(s)
<1>1. /\ s \in Seq(Observation) /\ acc \in Seq(Prices) /\ Len(s) \in Nat \ {0} /\ s # << >>
      /\ OnGrid(s) /\ DOMAIN s = 1 .. Len(s)
      /\ \A i \in 1 .. Len(s) : s[i].tick = PriceTick[At(i)]
  <2>1. Len(s) \in Nat \ {0} /\ s # << >> /\ OnGrid(s)
    BY TracksPrices
  <2>2. /\ s \in Seq(Observation) /\ acc \in Seq(Prices)
        /\ \A i \in 1 .. Len(s) : s[i].tick = PriceTick[At(i)]
    BY DEF Tracks
  <2> QED
    BY <2>1, <2>2
<1>2. \A i \in 1 .. Len(s) : n - Len(s) + i \in R
  BY TracksPrices
<1>3. \A i \in 1 .. Len(s) : At(i) \in V
  BY <1>2
<1>4. V \subseteq Prices
  BY <1>1
<1> HIDE DEF V
<1>5. V # {}
  BY <1>1, <1>3
<1>6. IsFiniteSet(V) /\ V \subseteq Int
  <2>1. IsFiniteSet(Prices) /\ \A p \in Prices : p \in Int
    BY PricesInterval
  <2>2. IsFiniteSet(V)
    BY <1>4, <2>1, FS_Subset
  <2> QED
    BY <1>4, <2>1, <2>2
<1>7. /\ Min(V) \in V /\ \A y \in V : Min(V) <= y
      /\ Max(V) \in V /\ \A y \in V : Max(V) >= y
  BY <1>5, <1>6, MinOfFinite, MaxOfFinite
<1>8. PICK lo \in V, hi \in V : \A y \in V : lo <= y /\ y <= hi
  <2>1. \A y \in V : Max(V) \in Int /\ y \in Int /\ Max(V) >= y
    BY <1>6, <1>7
  <2>2. \A y \in V : y <= Max(V)
    BY <2>1
  <2> QED
    BY <1>7, <2>2
<1>9. ASSUME NEW i \in DOMAIN s
      PROVE  s[i].tick >= PriceTick[lo] /\ s[i].tick <= PriceTick[hi]
  <2>1. PICK p \in V : p = At(i)
    BY <1>1, <1>3
  <2>2. lo <= p /\ p <= hi /\ p \in Prices /\ lo \in Prices /\ hi \in Prices
    BY <1>4, <1>8, <2>1
  <2>3. s[i].tick = PriceTick[p]
    BY <1>1, <2>1
  <2>4. PriceTick[lo] <= PriceTick[p] /\ PriceTick[p] <= PriceTick[hi]
        /\ PriceTick[p] \in Nat /\ PriceTick[lo] \in Nat /\ PriceTick[hi] \in Nat
    BY <2>2, TickMonotone
  <2> QED
    BY <2>3, <2>4
<1>10. r \in Prices /\ lo <= r
  <2>1. lo \in Prices
    BY <1>4
  <2>2. r \in Prices /\ r >= lo
    BY <1>1, <1>9, <2>1, TwapReads
  <2> QED
    BY <2>1, <2>2, PricesInterval
<1>11. r <= hi
  <2> DEFINE t == PriceTick[r]
             u == PriceTick[hi]
             wt == TotalWeight(s)
             sum == TickSum(s)
  <2>1. hi \in Prices /\ u \in Nat /\ t \in Nat
    BY <1>4, <1>10, PricesInterval
  <2>2. sum <= u * wt
    BY <1>1, <1>9, <2>1, TickSumAtMost
  <2>3. t * wt <= sum
    BY <1>1, TwapIs
  <2>4. sum \in Nat /\ wt \in Nat /\ wt > 0
    BY <1>1, TwapSums
  <2>5. t <= u
    <3> HIDE DEF t, u, wt, sum
    <3> SUFFICES ASSUME u < t PROVE FALSE
      BY <2>1
    <3>1. (u + 1) * wt <= t * wt /\ (u + 1) * wt = u * wt + wt /\ u * wt \in Nat
      BY <2>1, <2>4, ProductMonotone
    <3>2. t * wt \in Nat
      BY <2>1, <2>4
    <3> QED
      BY <2>2, <2>3, <2>4, <3>1, <3>2
  <2> QED
    BY <1>10, <2>1, <2>5, PricesInterval
<1>12. PICK i \in R, j \in R : lo = acc[i] /\ hi = acc[j]
  BY DEF V
<1> HIDE DEF r, R
<1>13. \E i1, j1 \in R : acc[i1] <= r /\ r <= acc[j1]
  BY <1>10, <1>11, <1>12
<1> QED
  BY <1>10, <1>13 DEF r, R

(* A window goes on tracking when a price is accepted.                     *)
LEMMA PushTracks ==
    ASSUME NEW s, NEW acc, NEW w, Tracks(s, acc, w), NEW p \in Prices, NEW b \in Nat
    PROVE  /\ Tracks(Push(s, Observed(b, p), w), Append(acc, p), w)
           /\ Len(s) < w => Push(s, Observed(b, p), w) = Append(s, Observed(b, p))
           /\ Len(s) = w => Push(s, Observed(b, p), w) = Tail(Append(s, Observed(b, p)))
<1> DEFINE o == Observed(b, p)
           all == Append(s, o)
           more == Append(acc, p)
           n == Len(acc)
           l == Len(s)
<1>1. /\ s \in Seq(Observation) /\ acc \in Seq(Prices) /\ w \in Nat \ {0}
      /\ n \in Nat /\ n > 0 /\ l \in Nat /\ l = Least(w, n)
      /\ \A i \in 1 .. l : s[i].tick = PriceTick[acc[n - l + i]]
  BY DEF Tracks
<1>2. o \in Observation /\ o.tick = PriceTick[p]
  BY PricesInterval DEF Observed, Observation
<1>3. /\ all \in Seq(Observation) /\ Len(all) = l + 1 /\ all[l + 1] = o
      /\ \A i \in 1 .. l : all[i] = s[i]
  BY <1>1, <1>2
<1>4. /\ more \in Seq(Prices) /\ Len(more) = n + 1 /\ more[n + 1] = p
      /\ \A i \in 1 .. n : more[i] = acc[i]
  BY <1>1
<1>5. \A i \in 1 .. l + 1 : all[i].tick = PriceTick[more[n - l + i]]
  <2> SUFFICES ASSUME NEW i \in 1 .. l + 1 PROVE all[i].tick = PriceTick[more[n - l + i]]
    OBVIOUS
  <2>1. CASE i = l + 1
    <3>1. n - l + i = n + 1
      BY <1>1, <2>1
    <3> QED
      BY <1>2, <1>3, <1>4, <2>1, <3>1
  <2>2. CASE i # l + 1
    <3>1. i \in 1 .. l
      BY <1>1, <2>2
    <3>2. n - l + i \in 1 .. n
      BY <3>1, TracksPrices
    <3> QED
      BY <1>1, <1>3, <1>4, <3>1, <3>2
  <2> QED
    BY <2>1, <2>2
<1> HIDE DEF all, more, o, n, l
<1>6. CASE l < w
  <2>1. Push(s, o, w) = all
    BY <1>1, <1>3, <1>6 DEF Push, all
  <2>2. l = n /\ l + 1 = Least(w, n + 1)
    BY <1>1, <1>6 DEF Least
  <2>3. \A i \in 1 .. l + 1 : (n + 1) - (l + 1) + i = n - l + i
    BY <1>1
  <2>4. \A i \in 1 .. Len(all) : all[i].tick = PriceTick[more[Len(more) - Len(all) + i]]
    BY <1>3, <1>4, <1>5, <2>3
  <2>5. Tracks(all, more, w)
    BY <1>1, <1>3, <1>4, <2>2, <2>4 DEF Tracks
  <2> QED
    BY <1>6, <2>1, <2>5 DEF all, more, o, l
<1>7. CASE l = w
  <2> DEFINE tl == Tail(all)
  <2>1. Push(s, o, w) = tl
    BY <1>1, <1>3, <1>7 DEF Push, all
  <2>2. l = Least(w, n + 1)
    BY <1>1, <1>7 DEF Least
  <2>3. tl \in Seq(Observation) /\ Len(tl) = l /\ \A i \in 1 .. l : tl[i] = all[i + 1]
    BY <1>1, <1>3
  <2>4. \A i \in 1 .. l : (n + 1) - l + i = n - l + (i + 1) /\ i + 1 \in 1 .. l + 1
    BY <1>1
  <2> HIDE DEF tl
  <2>5. \A i \in 1 .. Len(tl) : tl[i].tick = PriceTick[more[Len(more) - Len(tl) + i]]
    BY <1>4, <1>5, <2>3, <2>4, SMTT(30)
  <2>6. Tracks(tl, more, w)
    BY <1>1, <1>4, <2>2, <2>3, <2>5 DEF Tracks
  <2> QED
    BY <1>7, <2>1, <2>6 DEF all, more, o, tl, l
<1>8. l < w \/ l = w
  BY <1>1 DEF Least
<1> QED
  BY <1>6, <1>7, <1>8, Zenon

(* The invariant holds at the beginning.                                   *)
LEMMA OracleInvInit == OracleInit => OracleInv
<1> SUFFICES ASSUME OracleInit PROVE OracleInv
  OBVIOUS
<1>1. PICK p \in Fed \cap Prices : obs = <<Observed(0, p)>> /\ current = p /\ accepted = <<p>>
  BY DEF OracleInit
<1>2. window \in Windows /\ window \in Nat \ {0} /\ clock = 0 /\ MaxBlock \in Nat
  BY OracleAssumption DEF OracleInit
<1>3. Observed(0, p) \in Observation /\ Observed(0, p).tick = PriceTick[p]
  BY PricesInterval DEF Observed, Observation
<1> DEFINE o == Observed(0, p)
<1> HIDE DEF o
<1>4. /\ accepted \in Seq(Prices) /\ Len(accepted) = 1 /\ accepted[1] = p
      /\ obs \in Seq(Observation) /\ Len(obs) = 1 /\ obs[1] = o
  BY <1>1, <1>3 DEF o
<1>5. Least(window, 1) = 1
  BY <1>2 DEF Least
<1>6. \A i \in 1 .. 1 : obs[i].tick = PriceTick[accepted[1 - 1 + i]]
  BY <1>3, <1>4 DEF o
<1>7. Tracks(obs, accepted, window)
  BY <1>2, <1>4, <1>5, <1>6 DEF Tracks
<1> QED
  BY <1>1, <1>2, <1>4, <1>7 DEF OracleInv

(* An update ignores its price, or goes on tracking with it.               *)
LEMMA UpdateEffect ==
    ASSUME OracleInv, NEW price \in Fed, NEW gap \in Gaps, clock + gap <= MaxBlock,
           Update(price, clock + gap)
    PROVE  /\ window' = window /\ clock' \in 0 .. MaxBlock
           /\ \/ UNCHANGED <<obs, current, accepted>>
              \/ /\ price \in Prices /\ accepted' = Append(accepted, price) /\ current' = price
                 /\ clock + gap \in Nat
                 /\ obs' = Push(obs, Observed(clock + gap, price), window)
                 /\ Tracks(obs', accepted', window)
<1>1. clock \in 0 .. MaxBlock /\ gap \in Nat /\ MaxBlock \in Nat
  BY OracleAssumption DEF OracleInv
<1>2. clock + gap \in Nat /\ clock' = clock + gap /\ window' = window
  BY <1>1 DEF Update
<1>3. clock' \in 0 .. MaxBlock
  BY <1>1, <1>2
<1>4. CASE Usable(price)
  <2>1. price \in Prices
    <3>1. price \in Int /\ price > 0 /\ Fed \cap Nat \subseteq Prices \cup {0}
      BY <1>4, OracleAssumption DEF Usable
    <3>2. price \in Nat /\ price # 0
      BY <3>1
    <3> QED
      BY <3>1, <3>2
  <2>2. /\ obs' = Push(obs, Observed(clock + gap, price), window)
        /\ current' = price /\ accepted' = Append(accepted, price)
    BY <1>4 DEF Update
  <2>3. PICK s, acc, w : s = obs /\ acc = accepted /\ w = window
    OBVIOUS
  <2> DEFINE b == clock + gap
  <2>7. b \in Nat
    BY <1>2
  <2> HIDE DEF b
  <2>4. Tracks(s, acc, w)
    BY <2>3 DEF OracleInv
  <2>5. Tracks(Push(s, Observed(b, price), w), Append(acc, price), w)
    BY <2>1, <2>4, <2>7, PushTracks
  <2>6. Tracks(obs', accepted', window)
    BY <2>2, <2>3, <2>5 DEF b
  <2> QED
    BY <1>2, <1>3, <2>1, <2>2, <2>6
<1>5. CASE ~Usable(price)
  BY <1>2, <1>3, <1>5 DEF Update
<1> QED
  BY <1>4, <1>5

(* Every update keeps it.                                                  *)
LEMMA OracleInvNext == OracleInv /\ [OracleNext]_oracleVars => OracleInv'
<1> SUFFICES ASSUME OracleInv, [OracleNext]_oracleVars PROVE OracleInv'
  OBVIOUS
<1>1. CASE UNCHANGED oracleVars
  BY <1>1 DEF OracleInv, oracleVars, Tracks
<1>2. CASE OracleNext
  <2>1. PICK price \in Fed, gap \in Gaps :
           clock + gap <= MaxBlock /\ Update(price, clock + gap)
    BY <1>2 DEF OracleNext
  <2>2. window' = window /\ window' \in Windows /\ clock' \in 0 .. MaxBlock
    BY <2>1, UpdateEffect DEF OracleInv
  <2>3. CASE UNCHANGED <<obs, current, accepted>>
    BY <2>2, <2>3 DEF OracleInv, Tracks
  <2>4. CASE /\ price \in Prices /\ accepted' = Append(accepted, price) /\ current' = price
             /\ Tracks(obs', accepted', window)
    <3>1. accepted \in Seq(Prices)
      BY DEF OracleInv, Tracks
    <3>2. current' = accepted'[Len(accepted')]
      BY <2>4, <3>1
    <3>3. Tracks(obs', accepted', window')
      BY <2>2, <2>4
    <3> QED
      BY <2>2, <3>2, <3>3 DEF OracleInv, Tracks
  <2> QED
    BY <2>1, <2>3, <2>4, UpdateEffect
<1> QED
  BY <1>1, <1>2

(* So it always holds.                                                     *)
LEMMA OracleInvInvariant == OracleSpec => []OracleInv
  BY OracleInvInit, OracleInvNext, PTL DEF OracleSpec

(* The variables of both oracles have their types, and the deque never     *)
(* grows past its bound nor empties.                                       *)
THEOREM OracleTypeCorrect == OracleSpec => []OracleTypeOK
<1>1. OracleInv => OracleTypeOK
  <2> SUFFICES ASSUME OracleInv PROVE OracleTypeOK
    OBVIOUS
  <2>1. Tracks(obs, accepted, window)
    BY DEF OracleInv
  <2>2. Len(obs) \in Nat \ {0} /\ Len(obs) <= window
    BY <2>1, TracksPrices
  <2>3. obs \in Seq(Observation) /\ accepted \in Seq(Prices) /\ window \in Nat \ {0}
        /\ Len(accepted) > 0
    BY <2>1 DEF Tracks
  <2>4. current \in Prices
    BY <2>3 DEF OracleInv
  <2>5. Len(obs) \in 1 .. window
    BY <2>2, <2>3
  <2> QED
    BY <2>3, <2>4, <2>5 DEF OracleInv, OracleTypeOK
<1> QED
  BY <1>1, OracleInvInvariant, PTL

(* A single observation is read as the price observed.                     *)
LEMMA FirstReading ==
    ASSUME NEW p \in Prices, NEW k \in Nat PROVE ReadTwap(<<Observed(k, p)>>) = p
<1> DEFINE o == Observed(k, p)
           s == <<o>>
<1>1. o \in Observation /\ o.tick = PriceTick[p]
  BY PricesInterval DEF Observed, Observation
<1> HIDE DEF o
<1>2. s \in Seq(Observation) /\ Len(s) = 1 /\ s[1] = o
  BY <1>1
<1> HIDE DEF s
<1>3. Least(1, 1) = 1 /\ <<p>> \in Seq(Prices) /\ Len(<<p>>) = 1 /\ <<p>>[1] = p
  BY DEF Least
<1>4. \A i \in 1 .. Len(s) : s[i].tick = PriceTick[<<p>>[Len(<<p>>) - Len(s) + i]]
  BY <1>1, <1>2, <1>3
<1> DEFINE f == <<p>>
<1>5. Tracks(s, f, 1)
  BY <1>2, <1>3, <1>4 DEF Tracks
<1>6. PICK i \in 1 .. 1, j \in 1 .. 1 : f[i] <= ReadTwap(s) /\ ReadTwap(s) <= f[j]
  <2>1. Len(f) = 1
    OBVIOUS
  <2> HIDE DEF f
  <2> QED
    BY <1>5, <2>1, ReadsWithinRecent
<1>7. ReadTwap(s) \in Prices
  BY <1>5, ReadsWithinRecent
<1>8. p \in Nat /\ ReadTwap(s) \in Nat
  BY <1>7, PricesInterval
<1>9. p <= ReadTwap(s) /\ ReadTwap(s) <= p
  BY <1>6
<1> QED
  BY <1>8, <1>9 DEF s, o

(* The initial reading is the initial price.                               *)
LEMMA FeedsInit == OracleInit => TwapFeed!Init /\ MirrorFeed!Init
<1> SUFFICES ASSUME OracleInit PROVE TwapFeed!Init /\ MirrorFeed!Init
  OBVIOUS
<1>1. PICK p \in Fed \cap Prices : obs = <<Observed(0, p)>> /\ current = p /\ accepted = <<p>>
  BY DEF OracleInit
<1>2. ReadTwap(obs) = p /\ p \in Nat \ {0} /\ window \in Nat \ {0} /\ 1 \in Nat \ {0}
  BY <1>1, FirstReading, PricesInterval, OracleAssumption DEF OracleInit
<1>3. TwapFeed!Init
  BY <1>1, <1>2 DEF TwapFeed!Init
<1>4. MirrorFeed!Init
  BY <1>1, <1>2 DEF MirrorFeed!Init, ReadExogenous
<1> QED
  BY <1>3, <1>4

(* Every update is a step of both feeds, or of none.                       *)
LEMMA FeedsNext ==
    OracleInv /\ OracleInv' /\ [OracleNext]_oracleVars
      => [TwapFeed!Next]_(TwapFeed!vars) /\ [MirrorFeed!Next]_(MirrorFeed!vars)
<1> SUFFICES ASSUME OracleInv, OracleInv', [OracleNext]_oracleVars
             PROVE  [TwapFeed!Next]_(TwapFeed!vars) /\ [MirrorFeed!Next]_(MirrorFeed!vars)
  OBVIOUS
<1>1. CASE UNCHANGED <<obs, current, accepted, window>>
  BY <1>1 DEF TwapFeed!vars, MirrorFeed!vars, ReadExogenous
<1>2. ASSUME NEW p \in Prices, accepted' = Append(accepted, p), current' = p,
             window' = window, Tracks(obs', accepted', window')
      PROVE  TwapFeed!Next /\ MirrorFeed!Next
  <2>1. p \in Nat \ {0}
    BY PricesInterval
  <2>2. /\ accepted \in Seq(Prices) /\ accepted' \in Seq(Prices) /\ Len(accepted') \in Nat
        /\ Len(accepted') = Len(accepted) + 1 /\ accepted'[Len(accepted')] = p
    BY <1>2 DEF OracleInv, Tracks
  <2>3. PICK s, acc, w : s = obs' /\ acc = accepted' /\ w = window'
    OBVIOUS
  <2>4. Tracks(s, acc, w)
    BY <1>2, <2>3
  <2>5. /\ ReadTwap(s) \in Prices
        /\ \E i, j \in {k \in 1 .. Len(acc) : k > Len(acc) - w} :
             acc[i] <= ReadTwap(s) /\ ReadTwap(s) <= acc[j]
    BY <2>4, ReadsWithinRecent
  <2>6. ReadTwap(s) \in Nat /\ ReadTwap(obs)' = ReadTwap(s)
    BY <2>3, <2>5, PricesInterval
  <2>7. \E i, j \in {k \in 1 .. Len(accepted') : k > Len(accepted') - window} :
          accepted'[i] <= ReadTwap(obs)' /\ ReadTwap(obs)' <= accepted'[j]
    BY <1>2, <2>3, <2>5, <2>6
  <2>8. TwapFeed!Next
    BY <1>2, <2>1, <2>2, <2>6, <2>7
    DEF TwapFeed!Next, TwapFeed!Accept, TwapFeed!WithinRecent, TwapFeed!RecentIndexes
  <2>9. \E i, j \in {k \in 1 .. Len(accepted') : k > Len(accepted') - 1} :
          accepted'[i] <= ReadExogenous' /\ ReadExogenous' <= accepted'[j]
    <3>1. Len(accepted') \in {k \in 1 .. Len(accepted') : k > Len(accepted') - 1}
      BY <2>2
    <3>2. ReadExogenous' = p /\ p <= p
      BY <1>2, <2>1 DEF ReadExogenous
    <3> QED
      BY <2>2, <3>1, <3>2
  <2>10. ReadExogenous' \in Nat
    BY <1>2, <2>1 DEF ReadExogenous
  <2>11. MirrorFeed!Next
    BY <1>2, <2>1, <2>2, <2>9, <2>10
    DEF MirrorFeed!Next, MirrorFeed!Accept, MirrorFeed!WithinRecent, MirrorFeed!RecentIndexes
  <2> QED
    BY <2>8, <2>11
<1>3. CASE OracleNext
  <2>1. PICK price \in Fed, gap \in Gaps :
           clock + gap <= MaxBlock /\ Update(price, clock + gap)
    BY <1>3 DEF OracleNext
  <2>2. \/ UNCHANGED <<obs, current, accepted>>
        \/ /\ price \in Prices /\ accepted' = Append(accepted, price) /\ current' = price
           /\ Tracks(obs', accepted', window)
    BY <2>1, UpdateEffect
  <2>3. window' = window
    BY <2>1, UpdateEffect
  <2> QED
    BY <1>1, <1>2, <2>2, <2>3
<1>4. CASE UNCHANGED oracleVars
  BY <1>1, <1>4 DEF oracleVars
<1> QED
  BY <1>3, <1>4

(* Both oracles implement the abstract feed, for every table of ticks,     *)
(* window and sequence of updates: what they report lies within the prices *)
(* that may still count (oracle.py, TwapOracle and ExogenousOracle).       *)
THEOREM OraclesImplementFeed == OracleSpec => ImplementFeed
<1>1. OracleInit => TwapFeed!Init /\ MirrorFeed!Init
  BY FeedsInit
<1>2. OracleInv /\ OracleInv' /\ [OracleNext]_oracleVars
        => [TwapFeed!Next]_(TwapFeed!vars) /\ [MirrorFeed!Next]_(MirrorFeed!vars)
  BY FeedsNext
<1> QED
  BY <1>1, <1>2, OracleInvInvariant, PTL
  DEF OracleSpec, ImplementFeed, TwapFeed!Spec, MirrorFeed!Spec

-----------------------------------------------------------------------------
(* A falling market.                                                       *)

(* A sequence that never rises at a step does not rise over many.          *)
LEMMA FallsThroughout ==
    ASSUME NEW f \in Seq(Prices), Falling(f), NEW i \in 1 .. Len(f), NEW j \in 1 .. Len(f),
           i <= j
    PROVE  f[j] <= f[i]
<1> DEFINE S == {k \in Nat : k \in i .. Len(f) /\ ~(f[k] <= f[i])}
<1>1. \A k \in 1 .. Len(f) : f[k] \in Nat
  <2>1. \A k \in 1 .. Len(f) : f[k] \in Prices
    OBVIOUS
  <2>2. \A p \in Prices : p \in Nat
    BY PricesInterval
  <2> QED
    BY <2>1, <2>2
<1>2. ASSUME S # {} PROVE FALSE
  <2>1. S \subseteq Nat
    OBVIOUS
  <2>2. PICK k \in S : \A m \in S : k <= m
    <3> HIDE DEF S
    <3> QED
      BY <1>2, <2>1, LeastNatural
  <2>3. k \in 1 .. Len(f) /\ k >= i /\ ~(f[k] <= f[i]) /\ i \in Nat /\ Len(f) \in Nat
    OBVIOUS
  <2>4. k # i
    <3>1. f[i] \in Nat
      BY <1>1
    <3>2. f[i] <= f[i]
      BY <3>1
    <3> QED
      BY <2>3, <3>2
  <2>5. k - 1 \in i .. Len(f) /\ k - 1 \in 1 .. Len(f) /\ k - 1 \in Nat /\ k \in 2 .. Len(f)
        /\ ~(k <= k - 1)
    BY <2>3, <2>4
  <2>6. k - 1 \notin S
    BY <2>2, <2>5
  <2>7. f[k - 1] <= f[i]
    BY <2>5, <2>6
  <2>8. f[k] <= f[k - 1]
    BY <2>5 DEF Falling
  <2>9. f[k] \in Nat /\ f[k - 1] \in Nat /\ f[i] \in Nat
    BY <1>1, <2>3, <2>5
  <2> QED
    BY <2>3, <2>7, <2>8, <2>9
<1>3. j \in Nat /\ j \in i .. Len(f)
  OBVIOUS
<1> QED
  BY <1>2, <1>3

(* In a falling market the oldest tick of a window is the highest and the  *)
(* newest the lowest.                                                      *)
LEMMA FallingWindow ==
    ASSUME NEW s, NEW acc, NEW w, Tracks(s, acc, w), Falling(acc), NEW i \in 1 .. Len(s)
    PROVE  /\ s[i].tick <= s[1].tick /\ s[Len(s)].tick <= s[i].tick
           /\ s[Len(s)].tick = PriceTick[acc[Len(acc)]]
<1> DEFINE n == Len(acc)
           l == Len(s)
           At(k) == acc[n - l + k]
<1>1. l \in Nat \ {0} /\ acc \in Seq(Prices) /\ n \in Nat
      /\ \A k \in 1 .. l : s[k].tick = PriceTick[At(k)]
  <2>1. l \in Nat \ {0}
    BY TracksPrices
  <2> QED
    BY <2>1 DEF Tracks
<1>2. \A k \in 1 .. l : n - l + k \in 1 .. n /\ At(k) \in Prices
  BY TracksPrices
<1>3. 1 \in 1 .. l /\ l \in 1 .. l /\ n - l + l = n
      /\ n - l + 1 <= n - l + i /\ n - l + i <= n - l + l
  <2> HIDE DEF l, n
  <2>1. i \in 1 .. l
    BY DEF l
  <2> QED
    BY <1>1, <2>1
<1>4. At(i) <= At(1) /\ At(l) <= At(i)
  BY <1>1, <1>2, <1>3, FallsThroughout
<1>5. PriceTick[At(i)] <= PriceTick[At(1)] /\ PriceTick[At(l)] <= PriceTick[At(i)]
  BY <1>2, <1>3, <1>4, TickMonotone
<1> QED
  BY <1>1, <1>3, <1>5

(* A tick below the mean lowers the mean, and so does dropping one that is *)
(* above it.                                                               *)
LEMMA MeanFallsByAppending ==
    ASSUME NEW sum \in Nat, NEW wt \in Nat, NEW d \in Nat \ {0}, NEW x \in Nat, NEW y \in Nat,
           y <= x, x * wt <= sum
    PROVE  (sum + (d - 1) * x + y) * wt <= sum * (wt + d)
<1>1. PICK e \in Nat : d = e + 1
  <2>1. d - 1 \in Nat /\ d = (d - 1) + 1
    OBVIOUS
  <2> QED
    BY <2>1
<1>2. (sum + (d - 1) * x + y) * wt = sum * wt + e * (x * wt) + y * wt
  BY <1>1
<1>3. y * wt <= x * wt /\ y * wt \in Nat /\ x * wt \in Nat
  BY ProductMonotone
<1>4. (x * wt) * e <= sum * e /\ (x * wt) * e \in Nat /\ sum * e \in Nat
  BY <1>1, <1>3, ProductMonotone
<1>5. e * (x * wt) = (x * wt) * e
  BY <1>1, <1>3
<1>6. sum * (wt + d) = sum * wt + sum * e + sum /\ sum * wt \in Nat
  BY <1>1
<1> DEFINE u == x * wt
           v == y * wt
           g == u * e
           h == sum * e
           k == sum * wt
<1>7. u \in Nat /\ v \in Nat /\ g \in Nat /\ h \in Nat /\ k \in Nat
      /\ v <= u /\ g <= h /\ u <= sum
  BY <1>3, <1>4, <1>6
<1>8. (sum + (d - 1) * x + y) * wt = k + g + v /\ sum * (wt + d) = k + h + sum
  BY <1>2, <1>5, <1>6
<1> HIDE DEF u, v, g, h, k
<1>9. k + g + v <= k + h + sum
  BY <1>7
<1> QED
  BY <1>8, <1>9

(* A mean does not rise when its largest term is dropped.                  *)
LEMMA MeanFallsByDropping ==
    ASSUME NEW sum \in Nat, NEW wt \in Nat, NEW t \in Nat, NEW w \in Nat,
           t * w + sum <= t * (w + wt)
    PROVE  sum * (w + wt) <= (t * w + sum) * wt
<1>1. t * (w + wt) = t * w + t * wt /\ t * w \in Nat /\ t * wt \in Nat
  OBVIOUS
<1>2. sum <= t * wt
  BY <1>1
<1>3. sum * w <= (t * wt) * w /\ sum * w \in Nat
  BY <1>1, <1>2, ProductMonotone
<1>4. sum * (w + wt) = sum * w + sum * wt /\ sum * wt \in Nat
  OBVIOUS
<1>5. (t * w + sum) * wt = (t * wt) * w + sum * wt /\ (t * wt) * w \in Nat
  OBVIOUS
<1> DEFINE a == sum * w
           b == (t * wt) * w
           c == sum * wt
<1>6. a <= b /\ a \in Nat /\ b \in Nat /\ c \in Nat
      /\ sum * (w + wt) = a + c /\ (t * w + sum) * wt = b + c
  BY <1>3, <1>4, <1>5
<1> HIDE DEF a, b, c
<1>7. a + c <= b + c
  BY <1>6
<1> QED
  BY <1>6, <1>7

(* A price no higher than any before it never raises the reading.          *)
LEMMA PushFalls ==
    ASSUME NEW s, NEW acc, NEW w, Tracks(s, acc, w), NEW p \in Prices, NEW b \in Nat,
           Falling(Append(acc, p))
    PROVE  ReadTwap(Push(s, Observed(b, p), w)) <= ReadTwap(s)
<1> DEFINE o == Observed(b, p)
           all == Append(s, o)
           n == Len(acc)
           l == Len(s)
           x == s[l].tick
           y == o.tick
           top == s[1].tick
<1>1. /\ s \in Seq(Observation) /\ acc \in Seq(Prices) /\ n \in Nat /\ n > 0
      /\ l \in Nat \ {0} /\ l <= w /\ s # << >> /\ OnGrid(s)
  <2>1. l \in Nat \ {0} /\ l <= w /\ s # << >> /\ OnGrid(s)
    BY TracksPrices
  <2> QED
    BY <2>1 DEF Tracks
<1>2. o \in Observation /\ y = PriceTick[p] /\ y \in Nat
  BY PricesInterval DEF Observed, Observation
<1>3. Falling(acc) /\ p <= acc[n] /\ acc[n] \in Prices
  <2> DEFINE more == Append(acc, p)
  <2>1. Len(more) = n + 1 /\ more[n + 1] = p /\ \A i \in 1 .. n : more[i] = acc[i]
    BY <1>1
  <2>2. \A i \in 2 .. n + 1 : more[i] <= more[i - 1]
    BY <2>1 DEF Falling
  <2> HIDE DEF more
  <2>3. n + 1 \in 2 .. n + 1 /\ (n + 1) - 1 = n /\ n \in 1 .. n
        /\ \A i \in 2 .. n : i \in 1 .. n /\ i - 1 \in 1 .. n /\ i \in 2 .. n + 1
    BY <1>1
  <2>4. more[n + 1] <= more[n]
    BY <2>2, <2>3
  <2>5. \A i \in 2 .. n : acc[i] <= acc[i - 1]
    BY <2>1, <2>2, <2>3
  <2> QED
    BY <1>1, <2>1, <2>3, <2>4, <2>5 DEF Falling
<1>4. \A i \in 1 .. l : s[i].tick <= top /\ x <= s[i].tick /\ s[i].tick \in Nat
  <2>1. \A i \in 1 .. l : s[i].tick \in Nat
    BY <1>1, TwapSums
  <2> QED
    BY <1>3, <2>1, FallingWindow
<1>5. 1 \in 1 .. l /\ l \in 1 .. l
  BY <1>1
<1>6. x \in Nat /\ top \in Nat /\ x <= top
  BY <1>4, <1>5
<1>7. y <= x
  <2>1. x = PriceTick[acc[n]]
    BY <1>3, <1>5, FallingWindow
  <2> QED
    BY <1>2, <1>3, <2>1, TickMonotone
<1>8. /\ all \in Seq(Observation) /\ Len(all) = l + 1 /\ all[l + 1] = o /\ all # << >>
      /\ DOMAIN all = 1 .. l + 1 /\ \A i \in 1 .. l : all[i] = s[i]
  BY <1>1, <1>2
<1>9. \A i \in 1 .. l + 1 : all[i].tick >= PriceTick[1] /\ all[i].tick <= top
  <2> SUFFICES ASSUME NEW i \in 1 .. l + 1
               PROVE  all[i].tick >= PriceTick[1] /\ all[i].tick <= top
    OBVIOUS
  <2>1. CASE i = l + 1
    <3>1. PriceTick[1] <= PriceTick[p] /\ PriceTick[1] \in Nat
      <4>1. 1 \in Prices /\ 1 <= p
        BY PricesInterval
      <4> QED
        BY <4>1, TickMonotone
    <3>2. all[i].tick = y
      BY <1>8, <2>1
    <3> HIDE DEF all, o, y, x, top
    <3> QED
      BY <1>2, <1>6, <1>7, <3>1, <3>2
  <2>2. CASE i # l + 1
    <3>1. i \in 1 .. l
      BY <1>1, <2>2
    <3> QED
      BY <1>1, <1>4, <1>8, <3>1 DEF OnGrid
  <2> QED
    BY <2>1, <2>2
<1>10. OnGrid(all)
  BY <1>8, <1>9 DEF OnGrid
<1> DEFINE sum == TickSum(s)
           wt == TotalWeight(s)
           d == Weight(all, l)
<1>11. sum \in Nat /\ wt \in Nat /\ x * wt <= sum
  <2>1. \A i \in DOMAIN s : s[i].tick >= x
    BY <1>1, <1>4, <1>6
  <2>2. sum \in Nat /\ wt \in Nat
    BY <1>1, TwapSums
  <2>3. sum >= x * wt
    BY <1>1, <1>6, <2>1, TickSumAtLeast
  <2> HIDE DEF sum, wt, x
  <2> QED
    BY <1>6, <2>2, <2>3
<1>12. d \in Nat \ {0} /\ TotalWeight(all) = wt + d /\ TickSum(all) = sum + (d - 1) * x + y
  BY <1>1, <1>2, AppendSums
<1>13. ReadTwap(all) <= ReadTwap(s)
  <2>1. TickSum(all) * wt <= sum * TotalWeight(all)
    <3> HIDE DEF d, sum, wt, x, y, all
    <3> QED
      BY <1>2, <1>6, <1>7, <1>11, <1>12, MeanFallsByAppending
  <2> HIDE DEF all
  <2> QED
    BY <1>1, <1>8, <1>10, <2>1, TwapMonotone
<1> HIDE DEF sum, wt, d, x, y
<1>14. CASE l < w
  BY <1>13, <1>14, PushTracks
<1>15. CASE l = w
  <2> DEFINE tl == Tail(all)
             u == Weight(all, 1)
  <2>1. Push(s, o, w) = tl /\ Tracks(tl, Append(acc, p), w)
    BY <1>15, PushTracks
  <2>2. OnGrid(tl) /\ tl # << >>
    BY <2>1, TracksPrices
  <2> HIDE DEF tl
  <2>3. all[1].tick = top
    BY <1>5, <1>8
  <2>4. /\ u \in Nat \ {0} /\ TotalWeight(all) = u + TotalWeight(tl)
        /\ TickSum(all) = top * u + TickSum(tl)
    <3>1. l \in Nat
      BY <1>1
    <3> HIDE DEF all, top, l
    <3> QED
      BY <1>8, <2>3, <3>1, TailSums DEF tl
  <2>5. TickSum(all) <= top * TotalWeight(all)
    <3>1. \A i \in DOMAIN all : all[i].tick <= top
      BY <1>8, <1>9
    <3> HIDE DEF all, top
    <3> QED
      BY <1>6, <1>8, <3>1, TickSumAtMost
  <2>6. TickSum(tl) \in Nat /\ TotalWeight(tl) \in Nat
    BY <2>2, TwapSums DEF OnGrid
  <2>7. TickSum(tl) * TotalWeight(all) <= TickSum(all) * TotalWeight(tl)
    <3> HIDE DEF all, top, u
    <3>1. top \in Nat /\ u \in Nat
      BY <1>6, <2>4
    <3> QED
      BY <2>4, <2>5, <2>6, <3>1, MeanFallsByDropping
  <2>8. ReadTwap(tl) <= ReadTwap(all)
    <3> HIDE DEF all
    <3> QED
      BY <1>10, <2>2, <2>7, TwapMonotone
  <2>9. ReadTwap(tl) \in Nat /\ ReadTwap(all) \in Nat /\ ReadTwap(s) \in Nat
    <3> HIDE DEF all
    <3> QED
      BY <1>1, <1>10, <2>2, TwapIs, PricesInterval
  <2>10. ReadTwap(tl) <= ReadTwap(s)
    <3> HIDE DEF all
    <3> QED
      BY <1>13, <2>8, <2>9
  <2> QED
    BY <2>1, <2>10
<1>16. l < w \/ l = w
  <2>1. w \in Nat
    BY DEF Tracks
  <2> HIDE DEF l
  <2> QED
    BY <1>1, <2>1
<1> QED
  BY <1>14, <1>15, <1>16

(* Behind a market that only falls the TWAP only comes down, for every     *)
(* table of ticks, window and spacing of the updates (oracle.py,           *)
(* TwapOracle.read).                                                       *)
THEOREM TwapFallsWithTheMarket == OracleSpec => TwapFallsMonotonically
<1>1. OracleInv /\ [OracleNext]_oracleVars
        => [Falling(accepted') => ReadTwap(obs') <= ReadTwap(obs)]_oracleVars
  <2> SUFFICES ASSUME OracleInv, [OracleNext]_oracleVars, oracleVars' # oracleVars,
                      Falling(accepted')
               PROVE  ReadTwap(obs') <= ReadTwap(obs)
    OBVIOUS
  <2>1. PICK price \in Fed, gap \in Gaps :
           clock + gap <= MaxBlock /\ Update(price, clock + gap)
    BY DEF OracleNext
  <2>2. PICK s, acc, w : s = obs /\ acc = accepted /\ w = window
    OBVIOUS
  <2>3. Tracks(s, acc, w)
    BY <2>2 DEF OracleInv
  <2>4. CASE UNCHANGED <<obs, current, accepted>>
    <3>1. ReadTwap(s) \in Nat
      BY <2>3, ReadsWithinRecent, PricesInterval
    <3> QED
      BY <2>2, <2>4, <3>1
  <2>5. CASE /\ price \in Prices /\ accepted' = Append(accepted, price)
             /\ clock + gap \in Nat
             /\ obs' = Push(obs, Observed(clock + gap, price), window)
    <3>1. Falling(Append(acc, price))
      BY <2>2, <2>5
    <3>2. ReadTwap(Push(s, Observed(clock + gap, price), w)) <= ReadTwap(s)
      <4> DEFINE b == clock + gap
      <4>1. b \in Nat
        BY <2>5
      <4> HIDE DEF b
      <4>2. ReadTwap(Push(s, Observed(b, price), w)) <= ReadTwap(s)
        BY <2>3, <2>5, <3>1, <4>1, PushFalls
      <4> QED
        BY <4>2 DEF b
    <3> QED
      BY <2>2, <2>5, <3>2
  <2> QED
    BY <2>1, <2>4, <2>5, UpdateEffect
<1> QED
  BY <1>1, OracleInvInvariant, PTL DEF OracleSpec, TwapFallsMonotonically

-----------------------------------------------------------------------------
(* DrawdownPair: the block prices.                                         *)

(* What a configuration the code accepts is made of.                       *)
LEMMA PairConfigBounds ==
    ASSUME NEW c \in S3Config, ValidConfig(c)
    PROVE  /\ c.dt \in Nat \ {0} /\ c.drawdown \in Nat /\ c.drawdown < DrawdownDen
           /\ DrawdownDen \in Nat \ {0} /\ OracleWindow(c) \in Nat \ {0}
<1>1. /\ c.lag \in Lags /\ c.dt \in DtBlocks
  BY DEF S3Config
<1>2. c.lag \in Nat /\ c.dt \in Int
  BY <1>1, ScenarioAssumption
<1>3. DrawdownDen \in Nat \ {0} /\ DefaultWindow \in Nat \ {0}
  BY ScenarioAssumption
<1>4. c.dt >= 1 /\ c.drawdown \in 0 .. DrawdownDen - 1
  BY DEF ValidConfig
<1>5. OracleWindow(c) \in Nat \ {0}
  BY <1>2, <1>3 DEF OracleWindow
<1> QED
  BY <1>2, <1>3, <1>4, <1>5

(* The progress of the path is between nothing and all of it.              *)
LEMMA PairProgressBounds ==
    ASSUME NEW c \in S3Config, ValidConfig(c), NEW k \in Nat
    PROVE  Progress(c, k) \in 0 .. c.dt
<1>1. c.dt \in Nat \ {0}
  BY PairConfigBounds
<1>2. CASE k = 0 \/ c.shape = "instant"
  BY <1>1, <1>2 DEF Progress
<1>3. CASE ~(k = 0 \/ c.shape = "instant")
  <2> DEFINE S == {k, c.dt}
  <2>1. \E x \in S : \A y \in S : x <= y
    BY <1>1
  <2>2. Min(S) \in S /\ \A y \in S : Min(S) <= y
    BY <2>1 DEF Min
  <2>3. Progress(c, k) = Min(S)
    BY <1>3 DEF Progress
  <2> QED
    BY <1>1, <2>2, <2>3
<1> QED
  BY <1>2, <1>3

(* Two configurations that differ in the drawdown only.                    *)
Harsher(c, d) ==
    /\ c \in S3Config /\ ValidConfig(c) /\ d \in S3Config /\ ValidConfig(d)
    /\ d.dt = c.dt /\ d.shape = c.shape /\ d.kind = c.kind /\ d.lag = c.lag
    /\ d.horizon = c.horizon /\ c.drawdown <= d.drawdown

(* The market price of either is on the grid, and the harsher one's is not *)
(* above the other.                                                        *)
LEMMA MarketPricesOrdered ==
    ASSUME NEW c, NEW d, Harsher(c, d), NEW p0 \in Prices, NEW k \in Nat
    PROVE  /\ MarketPriceAt(c, p0, k) \in Prices /\ MarketPriceAt(d, p0, k) \in Prices
           /\ MarketPriceAt(d, p0, k) <= MarketPriceAt(c, p0, k)
<1> DEFINE g == Progress(c, k)
           t == c.dt
           x == c.drawdown
           y == d.drawdown
           a == p0 - (p0 * x * g) \div (DrawdownDen * t)
           b == p0 - (p0 * y * g) \div (DrawdownDen * t)
<1>1. /\ t \in Nat \ {0} /\ x \in Nat /\ x < DrawdownDen
      /\ y \in Nat /\ y < DrawdownDen /\ x <= y
      /\ DrawdownDen \in Nat \ {0}
  BY PairConfigBounds DEF Harsher
<1>2. g \in 0 .. t /\ g \in Nat
  <2>1. g \in 0 .. t
    BY PairProgressBounds DEF Harsher
  <2> QED
    BY <1>1, <2>1
<1>3. Progress(d, k) = g
  BY DEF Progress, Harsher
<1>4. MarketPriceAt(c, p0, k) = a
  BY DEF MarketPriceAt
<1>5. MarketPriceAt(d, p0, k) = b
  BY <1>3 DEF MarketPriceAt, Harsher
<1>6. Prices = 1 .. Cardinality(Prices) /\ Cardinality(Prices) \in Nat
  BY TickAssumption, FS_CardinalityType
<1>7. p0 \in Nat \ {0} /\ \A q \in 1 .. p0 : q \in Prices
  <2> HIDE DEF Prices
  <2> QED
    BY <1>6
<1> HIDE DEF g, t, x, y
<1>8. a \in 1 .. p0 /\ b \in 1 .. p0
  BY <1>1, <1>2, <1>7, FallLeavesPrice
<1>9. b <= a
  BY <1>1, <1>2, <1>7, FallMonotone
<1> HIDE DEF a, b
<1> QED
  BY <1>4, <1>5, <1>7, <1>8, <1>9

(* What the oracle has seen of a path at block k.                          *)
FirstSeen(c, k) == Max({0, k + 1 - OracleWindow(c)})
SeenOf(c, p0, k) ==
    [i \in 1 .. k - FirstSeen(c, k) + 1 |->
        Observed(FirstSeen(c, k) + i - 1,
                 MarketPriceAt(c, p0, FirstSeen(c, k) + i - 1))]

(* The window begins within the path.                                      *)
LEMMA FirstSeenBounds ==
    ASSUME NEW c \in S3Config, ValidConfig(c), NEW k \in Nat
    PROVE  FirstSeen(c, k) \in 0 .. k
<1> DEFINE w == OracleWindow(c)
           S == {0, k + 1 - w}
<1>1. w \in Nat \ {0}
  BY PairConfigBounds
<1> HIDE DEF w
<1>2. \E y \in S : \A u \in S : y >= u
  BY <1>1
<1>3. Max(S) \in S /\ \A u \in S : Max(S) >= u
  BY <1>2 DEF Max
<1>4. Max(S) \in 0 .. k
  BY <1>1, <1>3
<1> QED
  BY <1>4 DEF FirstSeen, w

(* Ticks go with prices.                                                   *)
LEMMA TicksOrdered ==
    ASSUME NEW p \in Prices, NEW q \in Prices, p <= q
    PROVE  PriceTick[p] \in Nat /\ PriceTick[q] \in Nat /\ PriceTick[p] <= PriceTick[q]
<1>1. PriceTick[p] \in Nat /\ PriceTick[q] \in Nat /\ p \in Nat /\ q \in Nat
  BY PricesInterval, PricePositive
<1>2. CASE p = q
  BY <1>1, <1>2
<1>3. CASE p < q
  <2>1. PriceTick[p] < PriceTick[q]
    BY <1>3, TickAssumption
  <2> QED
    BY <1>1, <2>1
<1> QED
  BY <1>1, <1>2, <1>3

(* The oracle price of either is on the grid, and the harsher one's is not *)
(* above the other: the windows see the same blocks.                       *)
LEMMA OraclePricesOrdered ==
    ASSUME NEW c, NEW d, Harsher(c, d), NEW p0 \in Prices, NEW k \in Nat
    PROVE  /\ OraclePriceAt(c, p0, k) \in Prices /\ OraclePriceAt(d, p0, k) \in Prices
           /\ OraclePriceAt(d, p0, k) <= OraclePriceAt(c, p0, k)
<1> DEFINE f == FirstSeen(c, k)
           n == k - f + 1
           P(j) == MarketPriceAt(c, p0, j)
           Q(j) == MarketPriceAt(d, p0, j)
           a == SeenOf(c, p0, k)
           b == SeenOf(d, p0, k)
<1>1. f \in 0 .. k
  BY FirstSeenBounds DEF Harsher
<1>2. FirstSeen(d, k) = f
  BY DEF FirstSeen, OracleWindow, Harsher
<1>3. /\ a = [i \in 1 .. n |-> Observed(f + i - 1, P(f + i - 1))]
      /\ b = [i \in 1 .. n |-> Observed(f + i - 1, Q(f + i - 1))]
  BY <1>2 DEF SeenOf
<1>4. OraclePriceAt(c, p0, k) = ReadTwap(a) /\ OraclePriceAt(d, p0, k) = ReadTwap(b)
  BY DEF OraclePriceAt, SeenOf, FirstSeen
<1> HIDE DEF f, a, b
<1>5. n \in Nat \ {0}
  BY <1>1
<1> HIDE DEF n
<1>6. ASSUME NEW i \in 1 .. n
      PROVE  /\ a[i] \in Observation /\ b[i] \in Observation
             /\ a[i].tick >= PriceTick[1] /\ b[i].tick >= PriceTick[1]
             /\ a[i].block = b[i].block /\ b[i].tick <= a[i].tick
  <2> DEFINE j == f + i - 1
             p == P(j)
             q == Q(j)
  <2>1. j \in Nat
    BY <1>1, <1>5
  <2>2. a[i] = Observed(j, p) /\ b[i] = Observed(j, q)
    BY <1>3
  <2> HIDE DEF j
  <2>3. p \in Prices /\ q \in Prices /\ q <= p
    BY <2>1, MarketPricesOrdered
  <2> HIDE DEF p, q
  <2>4. /\ Observed(j, p) \in Observation /\ Observed(j, p).tick >= PriceTick[1]
        /\ Observed(j, q) \in Observation /\ Observed(j, q).tick >= PriceTick[1]
    BY <2>1, <2>3, ObservedOnGrid
  <2>5. PriceTick[q] <= PriceTick[p]
    BY <2>3, TicksOrdered
  <2>6. /\ Observed(j, p).block = j /\ Observed(j, q).block = j
        /\ Observed(j, p).tick = PriceTick[p] /\ Observed(j, q).tick = PriceTick[q]
    BY DEF Observed
  <2> QED
    BY <2>2, <2>4, <2>5, <2>6
<1>7. /\ a \in Seq(Observation) /\ b \in Seq(Observation)
      /\ Len(a) = n /\ Len(b) = n /\ DOMAIN a = 1 .. n /\ DOMAIN b = 1 .. n
  <2>1. n \in Nat /\ DOMAIN a = 1 .. n /\ DOMAIN b = 1 .. n
    BY <1>3, <1>5
  <2>2. a \in [1 .. n -> Observation] /\ b \in [1 .. n -> Observation]
    <3>1. a = [i \in 1 .. n |-> a[i]] /\ b = [i \in 1 .. n |-> b[i]]
      BY <1>3
    <3> QED
      BY <1>6, <3>1
  <2> QED
    BY <2>1, <2>2
<1>8. OnGrid(a) /\ OnGrid(b)
  BY <1>6, <1>7 DEF OnGrid
<1>9. ReadTwap(a) \in Prices /\ ReadTwap(b) \in Prices
  BY <1>8, TwapIs
<1>10. ReadTwap(b) <= ReadTwap(a)
  <2>1. b # << >> /\ Len(b) = Len(a)
    BY <1>5, <1>7
  <2>2. \A i \in DOMAIN b : b[i].block = a[i].block /\ b[i].tick <= a[i].tick
    BY <1>6, <1>7
  <2> QED
    BY <1>8, <2>1, <2>2, LowerReadsLower
<1> QED
  BY <1>4, <1>9, <1>10

-----------------------------------------------------------------------------
(* DrawdownPair: a block.                                                  *)

Holding == [coll: Nat, shares: Nat]
Books == UNION {[D -> Holding] : D \in SUBSET Borrowers}

SharesHeld(q) ==
    SumFunctionOnSet([b \in DOMAIN q |-> q[b].shares], DOMAIN q)
CollHeld(q) ==
    SumFunctionOnSet([b \in DOMAIN q |-> q[b].coll], DOMAIN q)

(* A market whose totals are those of its positions, at a borrow index;    *)
(* and one that, besides, lends no more than it has.                       *)
Balanced(s, idx) ==
    /\ s.market \in Market /\ s.open \in Books
    /\ s.market.shares = SharesHeld(s.open) /\ CollHeld(s.open) <= s.market.coll
    /\ s.market.borrow = idx * s.market.shares
AtIndex(s, idx) ==
    /\ Balanced(s, idx)
    /\ s.market.borrow <= s.market.supply

(* The supply and what was written off it.                                 *)
Worth(s) == s.market.supply + s.market.badDebt

(* Every position open in the second is open, and the same, in the first.  *)
Covers(s, r) ==
    /\ DOMAIN r.open \subseteq DOMAIN s.open
    /\ \A b \in DOMAIN r.open : r.open[b] = s.open[b]

(* The two halves of a block: interest and the oracle price, and what is   *)
(* then liquidated.                                                        *)
Accrued(s, growth, p) ==
    [market |-> [Accrue(s.market, growth * s.market.shares) EXCEPT !.price = p],
     open |-> s.open]
Closing(s) == {b \in DOMAIN s.open : Liquidatable(s.open[b], s.market)}
Taken(s, price, part) ==
    SumFunction([b \in Closing(s) |-> Outcome(s.open[b], s.market, price)[part]])
Liquidated(s, price) ==
    [market |-> [s.market EXCEPT
        !.borrow  = @ - Taken(s, price, "repaid"),
        !.shares  = @ - SumFunction([b \in Closing(s) |-> s.open[b].shares]),
        !.coll    = @ - Taken(s, price, "seized"),
        !.supply  = AtLeastZero(@ - Taken(s, price, "badDebt")),
        !.badDebt = @ + Taken(s, price, "badDebt")],
     open |-> Restrict(s.open, DOMAIN s.open \ Closing(s))]

(* A block is its accrual followed by its liquidations.                    *)
LEMMA BlockInHalves ==
    ASSUME NEW c, NEW p0, NEW k, NEW last, NEW growth
    PROVE  AfterBlock(c, p0, k, last, growth)
             = Liquidated(Accrued(last, growth, OraclePriceAt(c, p0, k)),
                          MarketPriceAt(c, p0, k))
<1> DEFINE s == Accrued(last, growth, OraclePriceAt(c, p0, k))
           price == MarketPriceAt(c, p0, k)
           outcome == [b \in Closing(s) |-> Outcome(s.open[b], s.market, price)]
<1>1. /\ s.open = last.open
      /\ s.market = [Accrue(last.market, growth * last.market.shares)
                       EXCEPT !.price = OraclePriceAt(c, p0, k)]
  BY DEF Accrued
<1> HIDE DEF s, price
<1>2. \A part : Total(outcome, part) = Taken(s, price, part)
  <2> SUFFICES ASSUME NEW part PROVE Total(outcome, part) = Taken(s, price, part)
    OBVIOUS
  <2>1. [b \in DOMAIN outcome |-> outcome[b][part]]
          = [b \in Closing(s) |-> Outcome(s.open[b], s.market, price)[part]]
    OBVIOUS
  <2> QED
    BY <2>1 DEF Total, Taken
<1> DEFINE end(mm, out, open, elig) ==
             [market |-> [mm EXCEPT
                 !.borrow  = @ - Total(out, "repaid"),
                 !.shares  = @ - SumFunction([b \in elig |-> open[b].shares]),
                 !.coll    = @ - Total(out, "seized"),
                 !.supply  = AtLeastZero(@ - Total(out, "badDebt")),
                 !.badDebt = @ + Total(out, "badDebt")],
              open |-> Restrict(open, DOMAIN open \ elig)]
<1> DEFINE whole(mm, open, pr) ==
             LET eligible == {b \in DOMAIN open : Liquidatable(open[b], mm)}
                 out == [b \in eligible |-> Outcome(open[b], mm, pr)]
             IN  end(mm, out, open, eligible)
<1>3. AfterBlock(c, p0, k, last, growth)
        = whole([Accrue(last.market, growth * last.market.shares)
                   EXCEPT !.price = OraclePriceAt(c, p0, k)], last.open, price)
  BY Zenon DEF AfterBlock, price
<1>4. whole(s.market, s.open, price) = end(s.market, outcome, s.open, Closing(s))
  BY Zenon DEF Closing
<1>5. end(s.market, outcome, s.open, Closing(s)) = Liquidated(s, price)
  <2> DEFINE m == s.market
             open == s.open
             all == Closing(s)
             r == Taken(s, price, "repaid")
             z == Taken(s, price, "seized")
             d == Taken(s, price, "badDebt")
             h == SumFunction([b \in all |-> open[b].shares])
  <2>1. /\ Total(outcome, "repaid") = r /\ Total(outcome, "seized") = z
        /\ Total(outcome, "badDebt") = d
    BY <1>2
  <2> HIDE DEF outcome, m, open, all, r, z, d
  <2>2. end(m, outcome, open, all)
          = [market |-> [m EXCEPT !.borrow = @ - r, !.shares = @ - h,
                                  !.coll = @ - z, !.supply = AtLeastZero(@ - d),
                                  !.badDebt = @ + d],
             open |-> Restrict(open, DOMAIN open \ all)]
    BY <2>1
  <2> QED
    BY <2>2 DEF Liquidated, m, open, all, r, z, d
<1> HIDE DEF whole
<1>6. AfterBlock(c, p0, k, last, growth) = whole(s.market, s.open, price)
  BY <1>1, <1>3, Zenon
<1> QED
  BY <1>4, <1>5, <1>6 DEF s, price

(* The positions of a book.                                                *)
LEMMA BookType ==
    ASSUME NEW q \in Books
    PROVE  /\ DOMAIN q \subseteq Borrowers /\ IsFiniteSet(DOMAIN q)
           /\ \A b \in DOMAIN q : /\ q[b] \in Holding
                                  /\ q[b].shares \in Nat /\ q[b].coll \in Nat
<1>1. PICK D \in SUBSET Borrowers : q \in [D -> Holding]
  BY DEF Books
<1>2. IsFiniteSet(D)
  BY PairAssumption, FS_Subset
<1>3. \A b \in DOMAIN q : q[b] \in Holding
  BY <1>1
<1>4. \A h \in Holding : h.shares \in Nat /\ h.coll \in Nat
  BY DEF Holding
<1> QED
  BY <1>1, <1>2, <1>3, <1>4

(* A position owes the index for each of its shares.                       *)
LEMMA DebtOfHolder ==
    ASSUME NEW s, NEW idx \in Nat, Balanced(s, idx), NEW b \in DOMAIN s.open
    PROVE  BorrowAssets(s.open[b].shares, s.market) = idx * s.open[b].shares
<1> DEFINE q == s.open
           f == [c \in DOMAIN q |-> q[c].shares]
<1>0. q \in Books
  BY DEF Balanced
<1>1. IsFiniteSet(DOMAIN q) /\ \A c \in DOMAIN q : f[c] \in Nat
  BY <1>0, BookType
<1>2. s.market.shares = SumFunctionOnSet(f, DOMAIN q)
  BY DEF Balanced, SharesHeld
<1>3. f[b] = q[b].shares /\ b \in DOMAIN q
  OBVIOUS
<1> HIDE DEF q, f
<1>4. SumFunctionOnSet(f, DOMAIN q) = f[b] + SumFunctionOnSet(f, DOMAIN q \ {b})
  BY <1>1, <1>3, SumRemove
<1>5. SumFunctionOnSet(f, DOMAIN q \ {b}) \in Nat
  BY <1>1, FS_RemoveElement, SumNat
<1>6. f[b] \in Nat
  BY <1>1, <1>3
<1>7. f[b] \in 0 .. s.market.shares
  BY <1>2, <1>4, <1>5, <1>6
<1>8. BorrowAssets(f[b], s.market) = idx * f[b]
  <2>1. s.market \in Market /\ s.market.borrow = idx * s.market.shares
    BY DEF Balanced
  <2> QED
    BY <1>7, <2>1, DebtAtIndex
<1> QED
  BY <1>3, <1>8 DEF q

(* Without a fee interest raises the index; an empty market has no debt    *)
(* left to raise.                                                          *)
LEMMA AccruedAtIndex ==
    ASSUME NEW s, NEW idx \in Nat \ {0}, AtIndex(s, idx), s.market.fee = 0,
           NEW growth \in Nat, NEW p \in Prices
    PROVE  /\ AtIndex(Accrued(s, growth, p), idx + growth)
           /\ Accrued(s, growth, p).market.price = p
           /\ Accrued(s, growth, p).market.fee = 0
           /\ Accrued(s, growth, p).open = s.open
<1> DEFINE m0 == s.market
           n == m0.shares
           i == growth * n
           a == Accrue(m0, i)
           m == [a EXCEPT !.price = p]
<1>1. m0 \in Market /\ m0.fee = 0 /\ m0.borrow = idx * n /\ m0.borrow <= m0.supply
  BY DEF AtIndex, Balanced
<1>2. Accrued(s, growth, p) = [market |-> m, open |-> s.open]
  BY DEF Accrued
<1> HIDE DEF m0
<1>3. n \in Nat /\ m0.supply \in Nat /\ m0.borrow \in Nat
  BY <1>1 DEF Market
<1> HIDE DEF n
<1>4. i \in Nat /\ (idx + growth) * n = idx * n + i
  BY <1>3
<1>5. a \in Market /\ a.shares = m0.shares /\ a.coll = m0.coll /\ a.fee = m0.fee
  <2> HIDE DEF i
  <2> QED
    BY <1>1, <1>4, AccrueEffect
<1>6. a.borrow = (idx + growth) * n /\ a.borrow <= a.supply
  <2>1. CASE m0.supply = 0
    <3>1. idx * n = 0
      BY <1>1, <1>3, <2>1
    <3>2. n = 0
      <4> SUFFICES ASSUME n # 0 PROVE FALSE
        OBVIOUS
      <4>1. 1 * n <= idx * n
        BY <1>3, ProductMonotone
      <4> QED
        BY <1>3, <3>1, <4>1
    <3>3. a = m0
      BY <2>1 DEF Accrue
    <3>4. (idx + growth) * n = 0
      BY <3>2
    <3> HIDE DEF a
    <3> QED
      BY <1>1, <1>3, <3>1, <3>3, <3>4
  <2>2. CASE m0.supply # 0
    <3> HIDE DEF i
    <3>1. SupplierPart(i, m0.fee) = i
      BY <1>1, <1>4, NoFeeWholeInterest
    <3>2. a = [m0 EXCEPT !.supply = @ + i, !.borrow = @ + i]
      BY <2>2, <3>1 DEF Accrue
    <3>3. a.borrow = m0.borrow + i /\ a.supply = m0.supply + i
      BY <1>1, <3>2 DEF Market
    <3> HIDE DEF a
    <3> QED
      BY <1>1, <1>3, <1>4, <3>3
  <2> QED
    BY <2>1, <2>2
<1>7. p \in Nat
  BY PricePositive
<1> HIDE DEF a
<1>8. /\ m \in Market /\ m.price = p /\ m.shares = a.shares /\ m.coll = a.coll
      /\ m.borrow = a.borrow /\ m.supply = a.supply /\ m.fee = a.fee
  BY <1>5, <1>7 DEF Market
<1> HIDE DEF m
<1>9. /\ s.open \in Books /\ n = SharesHeld(s.open) /\ CollHeld(s.open) <= m0.coll
  BY DEF AtIndex, Balanced, n, m0
<1>10. AtIndex([market |-> m, open |-> s.open], idx + growth)
  <2>1. m.shares = n /\ m.coll = m0.coll /\ m.fee = 0
    BY <1>1, <1>5, <1>8 DEF n
  <2>2. m.borrow = (idx + growth) * n /\ m.borrow <= m.supply
    BY <1>6, <1>8
  <2> QED
    BY <1>8, <1>9, <2>1, <2>2 DEF AtIndex, Balanced
<1> QED
  BY <1>1, <1>2, <1>5, <1>8, <1>10

(* Interest leaves a market balanced, whatever the fee, and its worth no   *)
(* less; while it covers its debt, the worth stays only if none accrues.   *)
InterestKeeps(s, idx, growth, t) ==
    /\ \E j \in Nat \ {0} : Balanced(t, j)
    /\ t.market.fee = s.market.fee /\ t.market.badDebt = s.market.badDebt
    /\ t.open = s.open /\ Worth(s) <= Worth(t)
    /\ (AtIndex(s, idx) /\ s.market.fee < FeeDen /\ Worth(t) = Worth(s)
          => growth * s.market.shares = 0)
    /\ (growth * s.market.shares = 0 => Balanced(t, idx)
          /\ t.market.supply = s.market.supply)

LEMMA AccruedBalanced ==
    ASSUME NEW s, NEW idx \in Nat \ {0}, Balanced(s, idx),
           NEW growth \in Nat, NEW p \in Prices
    PROVE  /\ InterestKeeps(s, idx, growth, Accrued(s, growth, p))
           /\ Accrued(s, growth, p).market.price = p
<1> DEFINE m0 == s.market
           n == m0.shares
           i == growth * n
           a == Accrue(m0, i)
           m == [a EXCEPT !.price = p]
           t == Accrued(s, growth, p)
<1>1. /\ m0 \in Market /\ m0.borrow = idx * n /\ s.open \in Books
      /\ n = SharesHeld(s.open) /\ CollHeld(s.open) <= m0.coll
  BY DEF Balanced
<1>2. t.market = m /\ t.open = s.open
  BY DEF Accrued
<1>3. AtIndex(s, idx) => m0.borrow <= m0.supply
  BY DEF AtIndex
<1>4. Worth(s) = m0.supply + m0.badDebt
  BY DEF Worth
<1>5. Worth(t) = t.market.supply + t.market.badDebt
  BY DEF Worth
<1> HIDE DEF m0, t
<1>6. n \in Nat /\ m0.supply \in Nat /\ m0.borrow \in Nat /\ m0.badDebt \in Nat
      /\ m0.fee \in 0 .. FeeDen
  BY <1>1 DEF Market
<1> HIDE DEF n
<1>7. i \in Nat /\ (idx + growth) * n = idx * n + i
  BY <1>6
<1> HIDE DEF i
<1>8. /\ a \in Market /\ a.shares = m0.shares /\ a.coll = m0.coll /\ a.fee = m0.fee
      /\ a.badDebt = m0.badDebt /\ a.supply >= m0.supply
  BY <1>1, <1>7, AccrueEffect
<1>9. \/ m0.supply = 0 /\ a = m0
      \/ /\ m0.supply # 0 /\ a.borrow = m0.borrow + i
         /\ a.supply = m0.supply + SupplierPart(i, m0.fee)
  <2>1. CASE m0.supply = 0
    BY <2>1 DEF Accrue
  <2>2. CASE m0.supply # 0
    BY <1>1, <2>2 DEF Accrue, Market
  <2> QED
    BY <2>1, <2>2
<1> HIDE DEF a
<1>10. p \in Nat
  BY PricePositive
<1>11. /\ m \in Market /\ m.price = p /\ m.shares = a.shares /\ m.coll = a.coll
       /\ m.borrow = a.borrow /\ m.supply = a.supply /\ m.fee = a.fee
       /\ m.badDebt = a.badDebt
  BY <1>8, <1>10 DEF Market
<1> HIDE DEF m
<1>12. ASSUME NEW j \in Nat, a.borrow = j * n PROVE Balanced(t, j)
  <2>1. m.shares = n /\ m.coll = m0.coll
    BY <1>8, <1>11 DEF n
  <2> QED
    BY <1>1, <1>2, <1>11, <1>12, <2>1 DEF Balanced
<1>13. \E j \in Nat \ {0} : Balanced(t, j)
  <2>1. CASE a = m0
    BY <1>1, <1>12, <2>1
  <2>2. CASE a.borrow = m0.borrow + i
    <3>1. a.borrow = (idx + growth) * n
      BY <1>1, <1>7, <2>2
    <3>2. idx + growth \in Nat \ {0}
      OBVIOUS
    <3> QED
      BY <1>12, <3>1, <3>2
  <2> QED
    BY <1>9, <2>1, <2>2
<1>14. ASSUME m0.borrow <= m0.supply, m0.fee < FeeDen, a.supply = m0.supply PROVE i = 0
  <2>1. CASE m0.supply = 0
    <3>1. idx * n = 0
      BY <1>1, <1>6, <1>14, <2>1
    <3>2. n = 0
      <4> SUFFICES ASSUME n # 0 PROVE FALSE
        OBVIOUS
      <4>1. 1 * n <= idx * n
        BY <1>6, ProductMonotone
      <4> QED
        BY <1>6, <3>1, <4>1
    <3> QED
      BY <3>2 DEF i
  <2>2. CASE m0.supply # 0
    <3>1. SupplierPart(i, m0.fee) \in 0 .. i /\ m0.supply = m0.supply + SupplierPart(i, m0.fee)
      BY <1>6, <1>7, <1>9, <1>14, <2>2, SupplierPartBounds
    <3>2. SupplierPart(i, m0.fee) = 0
      BY <1>6, <1>7, <3>1
    <3> QED
      BY <1>6, <1>7, <1>14, <3>2, SupplierGains
  <2> QED
    BY <2>1, <2>2
<1>15. ASSUME i = 0 PROVE Balanced(t, idx) /\ a.supply = m0.supply
  <2>1. SupplierPart(i, m0.fee) = 0
    BY <1>6, <1>15, SupplierPartBounds
  <2>2. a.borrow = idx * n /\ a.supply = m0.supply
    BY <1>1, <1>6, <1>9, <1>15, <2>1
  <2> QED
    BY <1>12, <2>2
<1>16. Worth(s) <= Worth(t) /\ (Worth(t) = Worth(s) => a.supply = m0.supply)
  <2>1. a.supply \in Nat
    BY <1>8 DEF Market
  <2> QED
    BY <1>2, <1>4, <1>5, <1>6, <1>8, <1>11, <2>1
<1>17. i = growth * s.market.shares
  BY DEF i, n, m0
<1>18. t.market.price = p /\ t.market.fee = s.market.fee
       /\ t.market.badDebt = s.market.badDebt /\ t.market.supply = a.supply
  BY <1>2, <1>8, <1>11 DEF m0
<1>19. AtIndex(s, idx) /\ s.market.fee < FeeDen /\ Worth(t) = Worth(s) => i = 0
  BY <1>3, <1>14, <1>16 DEF m0
<1>20. i = 0 => Balanced(t, idx) /\ t.market.supply = s.market.supply
  BY <1>15, <1>18 DEF m0
<1> HIDE DEF i
<1> QED
  BY <1>2, <1>13, <1>16, <1>17, <1>18, <1>19, <1>20 DEF InterestKeeps, t

(* Without interest a block changes nothing before its liquidations but    *)
(* the oracle price.                                                       *)
LEMMA AccruedIdle ==
    ASSUME NEW s, NEW idx \in Nat \ {0}, AtIndex(s, idx),
           NEW growth \in Nat, NEW p \in Prices, growth * s.market.shares = 0
    PROVE  LET t == Accrued(s, growth, p)
           IN  /\ AtIndex(t, idx) /\ t.market.price = p
               /\ t.market.badDebt = s.market.badDebt /\ t.open = s.open
<1> DEFINE t == Accrued(s, growth, p)
<1>1. Balanced(s, idx) /\ s.market.borrow <= s.market.supply
  BY DEF AtIndex
<1>2. /\ Balanced(t, idx) /\ t.market.supply = s.market.supply /\ t.market.price = p
      /\ t.market.badDebt = s.market.badDebt /\ t.open = s.open
  BY <1>1, AccruedBalanced DEF InterestKeeps
<1> HIDE DEF t
<1>3. t.market.borrow = s.market.borrow
  BY <1>1, <1>2 DEF Balanced
<1> QED
  BY <1>1, <1>2, <1>3 DEF AtIndex, t

(* Whatever a block liquidates, the totals it leaves are those of the      *)
(* positions it leaves, at the same index: what is lost is less than what  *)
(* is repaid, so the supply still covers the debt.                         *)
LEMMA LiquidatedBalanced ==
    ASSUME NEW s, NEW j \in Nat, Balanced(s, j), s.market.price \in Nat \ {0},
           NEW price \in Nat
    PROVE  LET t == Liquidated(s, price)
               d == Taken(s, price, "badDebt")
           IN  /\ Balanced(t, j) /\ (AtIndex(s, j) => AtIndex(t, j))
               /\ t.market.fee = s.market.fee /\ Worth(s) <= Worth(t)
               /\ d \in Nat /\ t.market.badDebt = s.market.badDebt + d
<1> DEFINE m == s.market
           q == s.open
           D == DOMAIN q
           E == Closing(s)
           left == Restrict(q, D \ E)
           held == [b \in D |-> q[b].shares]
           pledged == [b \in D |-> q[b].coll]
           repaid == [b \in E |-> Outcome(q[b], m, price)["repaid"]]
           seized == [b \in E |-> Outcome(q[b], m, price)["seized"]]
           lost == [b \in E |-> Outcome(q[b], m, price)["badDebt"]]
           r == SumFunctionOnSet(repaid, E)
           z == SumFunctionOnSet(seized, E)
           d == SumFunctionOnSet(lost, E)
           h == SumFunctionOnSet(held, E)
           hl == SumFunctionOnSet(held, D \ E)
           k == SumFunctionOnSet(pledged, E)
           kl == SumFunctionOnSet(pledged, D \ E)
<1>1. /\ m \in Market /\ m.borrow = j * m.shares
      /\ m.price > 0
  BY DEF Balanced
<1>2. q \in Books /\ m.shares = SharesHeld(q) /\ CollHeld(q) <= m.coll
  BY DEF Balanced
<1>3. \A b \in D : BorrowAssets(q[b].shares, m) = j * q[b].shares
  BY DebtOfHolder
<1>4. E \in SUBSET D
  BY DEF Closing
<1>5. E = {b \in D : Liquidatable(q[b], m)}
  BY DEF Closing
<1>6. Liquidated(s, price)
        = [market |-> [m EXCEPT
             !.borrow  = @ - Taken(s, price, "repaid"),
             !.shares  = @ - SumFunction([b \in E |-> q[b].shares]),
             !.coll    = @ - Taken(s, price, "seized"),
             !.supply  = AtLeastZero(@ - Taken(s, price, "badDebt")),
             !.badDebt = @ + Taken(s, price, "badDebt")],
           open |-> left]
  BY DEF Liquidated
<1>7. /\ Taken(s, price, "repaid") = r /\ Taken(s, price, "seized") = z
      /\ Taken(s, price, "badDebt") = d
  BY DEF Taken, SumFunction
<1> HIDE DEF m, q, E
<1>8. IsFiniteSet(D) /\ IsFiniteSet(E)
  <2>1. IsFiniteSet(D)
    BY <1>2, BookType
  <2> QED
    BY <1>4, <2>1, FS_Subset
<1>9. \A b \in D : held[b] \in Nat /\ pledged[b] \in Nat
  BY <1>2, BookType
<1>10. /\ h \in Nat /\ hl \in Nat /\ SharesHeld(q) = h + hl
       /\ k \in Nat /\ kl \in Nat /\ CollHeld(q) = k + kl
  <2>1. /\ h \in Nat /\ hl \in Nat /\ SumFunctionOnSet(held, D) = h + hl
    BY <1>4, <1>8, <1>9, SumSplit
  <2>2. /\ k \in Nat /\ kl \in Nat /\ SumFunctionOnSet(pledged, D) = k + kl
    BY <1>4, <1>8, <1>9, SumSplit
  <2> QED
    BY <2>1, <2>2 DEF SharesHeld, CollHeld
<1>11. \A b \in E : /\ repaid[b] = j * held[b] /\ repaid[b] \in Nat
                    /\ lost[b] \in Nat /\ repaid[b] >= 1 * lost[b]
                    /\ seized[b] \in Nat /\ pledged[b] >= 1 * seized[b]
  <2> SUFFICES ASSUME NEW b \in E
               PROVE  /\ repaid[b] = j * held[b] /\ repaid[b] \in Nat
                      /\ lost[b] \in Nat /\ repaid[b] >= 1 * lost[b]
                      /\ seized[b] \in Nat /\ pledged[b] >= 1 * seized[b]
    OBVIOUS
  <2>1. b \in D /\ q[b].shares \in Nat /\ q[b].coll \in Nat
    BY <1>2, <1>4, BookType
  <2> DEFINE o == Outcome(q[b], m, price)
  <2>2. /\ o.repaid = BorrowAssets(q[b].shares, m) /\ o.repaid \in Nat
        /\ o.seized \in 0 .. q[b].coll /\ o.badDebt \in 0 .. o.repaid
    BY <1>1, <2>1, OutcomeBounds
  <2>3. BorrowAssets(q[b].shares, m) = j * q[b].shares
    BY <1>3, <2>1
  <2>4. repaid[b] = o.repaid /\ seized[b] = o.seized /\ lost[b] = o.badDebt
        /\ held[b] = q[b].shares /\ pledged[b] = q[b].coll
    BY <2>1
  <2> HIDE DEF o, repaid, seized, lost, held, pledged
  <2> QED
    BY <2>1, <2>2, <2>3, <2>4
<1>12. r = j * h
  <2>1. \A b \in E : held[b] \in Nat /\ repaid[b] = j * held[b]
    BY <1>4, <1>9, <1>11
  <2> HIDE DEF held, repaid
  <2> QED
    BY <1>8, <2>1, SumScale
<1>13. z \in Nat /\ d \in Nat /\ r \in Nat
  BY <1>8, <1>11, SumNat
<1>14. z <= k /\ d <= r
  <2>1. \A b \in E : pledged[b] \in Nat /\ seized[b] \in Nat
                     /\ pledged[b] >= 1 * seized[b]
    BY <1>4, <1>9, <1>11
  <2>2. k >= 1 * z
    BY <1>8, <2>1, SumAtLeast
  <2>3. r >= 1 * d
    BY <1>8, <1>11, SumAtLeast
  <2> HIDE DEF k, z, r, d
  <2> QED
    BY <1>10, <1>13, <2>2, <2>3
<1>15. SumFunction([b \in E |-> q[b].shares]) = h
  <2> DEFINE f == [b \in E |-> q[b].shares]
  <2>1. SumFunction(f) = SumFunctionOnSet(f, E)
    BY DEF SumFunction
  <2>2. \A b \in E : f[b] = held[b]
    BY <1>4
  <2> HIDE DEF f, held
  <2>3. SumFunctionOnSet(f, E) = SumFunctionOnSet(held, E)
    BY <1>8, <2>2, SumAgree
  <2> QED
    BY <2>1, <2>3 DEF f
<1> DEFINE n == [m EXCEPT !.borrow = @ - r, !.shares = @ - h, !.coll = @ - z,
                          !.supply = AtLeastZero(@ - d), !.badDebt = @ + d]
<1>16. Liquidated(s, price) = [market |-> n, open |-> left]
  BY <1>6, <1>7, <1>15
<1>17. /\ left \in Books /\ DOMAIN left = D \ E
       /\ \A b \in D \ E : left[b] = q[b]
  <2>1. DOMAIN left = D \ E /\ \A b \in D \ E : left[b] = q[b]
    BY DEF Restrict
  <2>2. left = [b \in D \ E |-> q[b]]
    BY DEF Restrict
  <2>3. \A b \in D : q[b] \in Holding
    BY <1>2, BookType
  <2>4. D \subseteq Borrowers
    BY <1>2, BookType
  <2>5. left \in [D \ E -> Holding] /\ D \ E \in SUBSET Borrowers
    BY <2>2, <2>3, <2>4
  <2> QED
    BY <2>1, <2>5 DEF Books
<1> HIDE DEF left, D
<1>18. SharesHeld(left) = hl /\ CollHeld(left) = kl
  <2> DEFINE f == [b \in DOMAIN left |-> left[b].shares]
             g == [b \in DOMAIN left |-> left[b].coll]
  <2>1. \A b \in D \ E : f[b] = held[b] /\ g[b] = pledged[b]
    BY <1>17
  <2>2. IsFiniteSet(D \ E)
    BY <1>8, FS_Subset
  <2>3. SumFunctionOnSet(f, D \ E) = hl /\ SumFunctionOnSet(g, D \ E) = kl
    <3> HIDE DEF f, g, held, pledged
    <3> QED
      BY <2>1, <2>2, SumAgree
  <2> QED
    BY <1>17, <2>3 DEF SharesHeld, CollHeld
<1>19. /\ m.supply \in Nat /\ m.borrow \in Nat /\ m.shares \in Nat
       /\ m.coll \in Nat /\ m.badDebt \in Nat
  BY <1>1 DEF Market
<1> HIDE DEF r, z, d, h, hl, k, kl
<1>20. /\ m.shares = h + hl /\ m.borrow - r = j * hl /\ j * hl \in Nat
       /\ m.coll - z >= kl
  <2>1. j * (h + hl) = j * h + j * hl /\ j * h \in Nat /\ j * hl \in Nat
    BY <1>10
  <2>2. m.shares = h + hl
    BY <1>2, <1>10
  <2>3. m.coll - z >= kl
    BY <1>2, <1>10, <1>13, <1>14, <1>19
  <2> QED
    BY <1>1, <1>12, <2>1, <2>2, <2>3
<1>21. /\ m.borrow - r \in Nat /\ m.shares - h = hl /\ m.coll - z \in Nat
       /\ AtLeastZero(m.supply - d) \in Nat /\ m.badDebt + d \in Nat
       /\ (m.borrow <= m.supply => m.borrow - r <= AtLeastZero(m.supply - d))
       /\ m.supply + m.badDebt <= AtLeastZero(m.supply - d) + (m.badDebt + d)
  BY <1>1, <1>10, <1>13, <1>14, <1>19, <1>20 DEF AtLeastZero
<1>22. /\ n \in Market /\ n.fee = m.fee /\ n.shares = hl
       /\ n.borrow = m.borrow - r /\ n.coll = m.coll - z
       /\ n.supply = AtLeastZero(m.supply - d) /\ n.badDebt = m.badDebt + d
  BY <1>1, <1>10, <1>21 DEF Market
<1> HIDE DEF n
<1>23. /\ n \in Market /\ n.fee = m.fee /\ left \in Books
       /\ n.shares = SharesHeld(left) /\ CollHeld(left) <= n.coll
       /\ n.borrow = j * n.shares
       /\ (m.borrow <= m.supply => n.borrow <= n.supply)
       /\ m.supply + m.badDebt <= n.supply + n.badDebt
  BY <1>1, <1>17, <1>18, <1>20, <1>21, <1>22
<1> DEFINE t == Liquidated(s, price)
<1>24. t.market = n /\ t.open = left
  BY <1>16
<1> HIDE DEF t
<1>25. Balanced(t, j) /\ t.market.fee = m.fee
  BY <1>23, <1>24 DEF Balanced
<1>26. AtIndex(s, j) => AtIndex(t, j)
  BY <1>23, <1>24, <1>25 DEF AtIndex, m
<1>27. Worth(s) <= Worth(t) /\ t.market.badDebt = m.badDebt + d
  BY <1>22, <1>23, <1>24 DEF Worth, m
<1>28. Taken(s, price, "badDebt") = d
  BY <1>7 DEF d
<1> QED
  BY <1>13, <1>25, <1>26, <1>27, <1>28 DEF t, m

(* At an index that is no lower and a price that is no higher, whatever is *)
(* left open is left open at the other index and price too.                *)
LEMMA LowerPriceClosesMore ==
    ASSUME NEW s, NEW r, NEW i \in Nat, NEW j \in Nat, i <= j,
           Balanced(s, i), Balanced(r, j),
           s.market.price \in Nat, r.market.price \in Nat,
           r.market.price <= s.market.price, Covers(s, r), NEW x, NEW y
    PROVE  Covers(Liquidated(s, x), Liquidated(r, y))
<1> DEFINE S == DOMAIN s.open \ Closing(s)
           R == DOMAIN r.open \ Closing(r)
<1>1. /\ Liquidated(s, x).open = Restrict(s.open, S)
      /\ Liquidated(r, y).open = Restrict(r.open, R)
  BY DEF Liquidated
<1>2. ASSUME NEW b \in R PROVE b \in S /\ r.open[b] = s.open[b]
  <2> DEFINE p == r.open[b]
             lo == r.market.price
             hi == s.market.price
  <2>1. b \in DOMAIN r.open /\ b \in DOMAIN s.open /\ s.open[b] = p
    BY DEF Covers
  <2>2. p.shares \in Nat /\ p.coll \in Nat
    BY <2>1, BookType DEF Balanced
  <2>3. /\ BorrowAssets(p.shares, r.market) = j * p.shares
        /\ BorrowAssets(p.shares, s.market) = i * p.shares
    BY <2>1, DebtOfHolder
  <2>4. ~Liquidatable(p, r.market)
    BY DEF Closing
  <2> DEFINE n == p.shares
             more == j * n
             less == i * n
             w == LltvNum * p.coll
  <2>5. ~(more * LltvDen > w * lo)
    BY <2>3, <2>4 DEF Liquidatable
  <2>6. w \in Nat /\ n \in Nat /\ LltvDen \in Nat
    BY <2>2, AccountingAssumption
  <2>7. lo \in Nat /\ hi \in Nat /\ lo <= hi
    OBVIOUS
  <2>8. Liquidatable(p, s.market) = (less * LltvDen > w * hi)
    BY <2>3 DEF Liquidatable
  <2> HIDE DEF p, lo, hi, w, n
  <2>9. lo * w <= hi * w /\ lo * w \in Nat /\ hi * w \in Nat
    BY <2>6, <2>7, ProductMonotone
  <2>10. w * lo = lo * w /\ w * hi = hi * w
    BY <2>6, <2>7
  <2>11. ~(less * LltvDen > w * hi)
    <3>1. less <= more /\ less \in Nat /\ more \in Nat
      BY <2>6, ProductMonotone
    <3> HIDE DEF less, more
    <3>2. less * LltvDen <= more * LltvDen /\ less * LltvDen \in Nat
          /\ more * LltvDen \in Nat
      BY <2>6, <3>1, ProductMonotone
    <3> QED
      BY <2>5, <2>9, <2>10, <3>2
  <2>12. ~Liquidatable(s.open[b], s.market)
    BY <2>1, <2>8, <2>11
  <2> QED
    BY <2>1, <2>12 DEF p, Closing
<1> HIDE DEF S, R
<1>3. DOMAIN Restrict(r.open, R) = R /\ DOMAIN Restrict(s.open, S) = S
  BY DEF Restrict
<1>4. \A b \in R : Restrict(r.open, R)[b] = Restrict(s.open, S)[b]
  BY <1>2 DEF Restrict
<1>5. R \subseteq S
  BY <1>2
<1> QED
  BY <1>1, <1>3, <1>4, <1>5 DEF Covers

-----------------------------------------------------------------------------
(* DrawdownPair: the two trajectories.                                     *)

IsTrajectory(t) == \E S : t \in Seq(S)

(* Without a fee either market is at its initial index and what a share    *)
(* has accrued since; and unless that has ever been more in the milder run *)
(* what is open in the harsher one is open, and the same, in the milder.   *)
Accrual == interest[Len(interest)]
NotAhead == \A j \in DOMAIN interest : interest[j].mild <= interest[j].severe
InStep ==
    mildTraj[1].market.fee = 0 =>
        /\ AtIndex(MildLast, Index + Accrual.mild)
        /\ AtIndex(SevereLast, Index + Accrual.severe)
        /\ MildLast.market.fee = 0 /\ SevereLast.market.fee = 0
        /\ (NotAhead => Covers(MildLast, SevereLast))

PairInv ==
    /\ Harsher(mild, severe) /\ P0 \in Prices
    /\ IsTrajectory(mildTraj) /\ IsTrajectory(severeTraj) /\ IsTrajectory(interest)
    /\ Len(mildTraj) \in Nat \ {0} /\ Len(severeTraj) = Len(mildTraj)
    /\ Len(interest) = Len(mildTraj)
    /\ \A j \in DOMAIN interest : interest[j] \in [mild: Nat, severe: Nat]
    /\ InStep /\ OnlyInterestOvertakes

(* What the two trajectories start from.                                   *)
LEMMA PairStart ==
    ASSUME PairInit
    PROVE  \E s : /\ mildTraj = <<s>> /\ severeTraj = <<s>>
                  /\ AtIndex(s, Index) /\ s.market.badDebt = 0
                  /\ s.market.price \in Prices
<1>1. PICK positions \in [Borrowers -> Holdings], r \in Reserves,
           p \in InitialPrices, fee \in Fees :
        mildTraj = <<[market |-> MarketOf(positions, r, p, fee), open |-> positions]>>
  BY DEF PairInit
<1> DEFINE m == MarketOf(positions, r, p, fee)
           s == [market |-> m, open |-> positions]
           held == [b \in DOMAIN positions |-> positions[b].shares]
           pledged == [b \in DOMAIN positions |-> positions[b].coll]
<1>2. /\ p \in Prices /\ r \in Nat /\ fee \in 0 .. FeeDen /\ Index \in Nat \ {0}
      /\ Holdings \subseteq Holding /\ Borrowers \in SUBSET Borrowers
  BY PairAssumption DEF Holding
<1>3. positions \in Books
  BY <1>2 DEF Books
<1>4. SharesHeld(positions) \in Nat /\ CollHeld(positions) \in Nat
  <2>1. IsFiniteSet(DOMAIN positions)
    BY <1>3, BookType
  <2>2. \A b \in DOMAIN positions : held[b] \in Nat /\ pledged[b] \in Nat
    BY <1>3, BookType
  <2> QED
    BY <2>1, <2>2, SumNat DEF SharesHeld, CollHeld
<1> DEFINE n == SharesHeld(positions)
           k == CollHeld(positions)
<1>5. m = [supply |-> Index * n + r, borrow |-> Index * n, shares |-> n,
           price |-> p, queued |-> 0, badDebt |-> 0, fee |-> fee, coll |-> k]
  BY DEF MarketOf, SharesHeld, CollHeld, SumFunction
<1>6. p \in Nat /\ n \in Nat /\ k \in Nat
  BY <1>2, <1>4, PricePositive
<1> HIDE DEF m, n, k
<1>7. /\ m \in Market /\ m.fee = fee /\ m.price = p /\ m.shares = n /\ m.coll = k
      /\ m.borrow = Index * n /\ m.borrow <= m.supply /\ m.badDebt = 0
  <2>1. Index * n \in Nat /\ Index * n + r \in Nat /\ Index * n <= Index * n + r
        /\ 0 \in Nat
    BY <1>2, <1>6
  <2> QED
    BY <1>2, <1>5, <1>6, <2>1 DEF Market
<1>8. AtIndex(s, Index) /\ s.market.badDebt = 0
  BY <1>3, <1>6, <1>7 DEF AtIndex, Balanced, n, k
<1>9. mildTraj = <<s>> /\ severeTraj = <<s>>
  BY <1>1 DEF PairInit, m
<1>10. s.market.price \in Prices
  BY <1>2, <1>7
<1> HIDE DEF s
<1> QED
  BY <1>8, <1>9, <1>10

(* Both runs start from the same market.                                   *)
LEMMA PairInvInit == PairInit => PairInv
<1> SUFFICES ASSUME PairInit PROVE PairInv
  OBVIOUS
<1>1. PICK s : /\ mildTraj = <<s>> /\ severeTraj = <<s>>
               /\ AtIndex(s, Index) /\ s.market.price \in Prices
  BY PairStart
<1>2. /\ mildTraj[1] = s /\ Len(mildTraj) = 1 /\ Len(severeTraj) = 1
      /\ DOMAIN mildTraj = {1} /\ severeTraj[1] = s
  BY <1>1
<1>3. P0 \in Prices /\ MildLast = s /\ SevereLast = s
  BY <1>1, <1>2 DEF P0, MildLast, SevereLast
<1> DEFINE none == [mild |-> 0, severe |-> 0]
<1>4. /\ IsTrajectory(mildTraj) /\ IsTrajectory(severeTraj)
      /\ IsTrajectory(interest) /\ interest = <<none>>
  <2>1. <<s>> \in Seq({s}) /\ <<none>> \in Seq({none})
    OBVIOUS
  <2>2. interest = <<none>>
    BY DEF PairInit
  <2> QED
    BY <1>1, <2>1, <2>2 DEF IsTrajectory
<1> HIDE DEF none
<1>7. /\ Len(interest) = 1 /\ DOMAIN interest = {1} /\ interest[1] = none
      /\ Accrual = none
  BY <1>4 DEF Accrual
<1>8. none \in [mild: Nat, severe: Nat] /\ none.mild = 0 /\ none.severe = 0
  BY DEF none
<1>5. Harsher(mild, severe)
  <2>1. mild \in S3Config /\ ValidConfig(mild)
    BY DEF PairInit
  <2>2. PICK d \in Drawdowns : /\ mild.drawdown <= d /\ d < DrawdownDen
                               /\ severe = [mild EXCEPT !.drawdown = d]
    BY DEF PairInit
  <2>3. /\ severe \in S3Config /\ severe.drawdown = d /\ severe.dt = mild.dt
        /\ severe.horizon = mild.horizon /\ severe.shape = mild.shape
        /\ severe.kind = mild.kind /\ severe.lag = mild.lag
    BY <2>1, <2>2 DEF S3Config
  <2>4. d \in 0 .. DrawdownDen - 1
    <3>1. mild.drawdown \in Nat /\ d \in Int /\ DrawdownDen \in Nat \ {0}
      BY <2>1, PairConfigBounds, ScenarioAssumption
    <3> QED
      BY <2>2, <3>1
  <2>5. ValidConfig(severe)
    BY <2>1, <2>3, <2>4 DEF ValidConfig
  <2> QED
    BY <2>1, <2>2, <2>3, <2>5 DEF Harsher
<1>6. InStep
  <2>1. Index + 0 = Index /\ Covers(s, s)
    BY PairAssumption DEF Covers
  <2> QED
    BY <1>1, <1>2, <1>3, <1>7, <1>8, <2>1 DEF InStep
<1>9. OnlyInterestOvertakes
  BY <1>2 DEF OnlyInterestOvertakes
<1> QED
  BY <1>2, <1>3, <1>4, <1>5, <1>6, <1>7, <1>8, <1>9 DEF PairInv

(* A trajectory with one more snapshot.                                    *)
LEMMA TrajectoryGrows ==
    ASSUME NEW t, IsTrajectory(t), Len(t) \in Nat \ {0}, NEW x
    PROVE  LET u == Append(t, x)
           IN  /\ IsTrajectory(u) /\ Len(u) = Len(t) + 1 /\ u[Len(u)] = x
               /\ DOMAIN u = DOMAIN t \cup {Len(u)}
               /\ \A k \in DOMAIN t : u[k] = t[k]
               /\ 1 \in DOMAIN t
<1>1. PICK S : t \in Seq(S)
  BY DEF IsTrajectory
<1> DEFINE T == S \cup {x}
           u == Append(t, x)
<1>2. t \in Seq(T) /\ x \in T
  BY <1>1
<1> HIDE DEF T
<1>3. u \in Seq(T) /\ Len(u) = Len(t) + 1 /\ u[Len(t) + 1] = x
  BY <1>2
<1>4. \A k \in 1 .. Len(t) : u[k] = t[k]
  BY <1>2
<1>5. DOMAIN t = 1 .. Len(t) /\ DOMAIN u = 1 .. Len(t) + 1
  BY <1>2, <1>3
<1>6. 1 .. Len(t) + 1 = (1 .. Len(t)) \cup {Len(t) + 1} /\ 1 \in 1 .. Len(t)
  OBVIOUS
<1> QED
  BY <1>3, <1>4, <1>5, <1>6 DEF IsTrajectory

(* A block of both runs keeps the invariant.                               *)
LEMMA PairInvNext == PairInv /\ PairNext => PairInv'
<1> SUFFICES ASSUME PairInv, PairNext PROVE PairInv'
  OBVIOUS
<1> DEFINE k == Len(mildTraj)
<1>1. PICK g \in Growths, h \in Growths :
        /\ mildTraj' = Append(mildTraj, AfterBlock(mild, P0, k, MildLast, g))
        /\ severeTraj' = Append(severeTraj, AfterBlock(severe, P0, k, SevereLast, h))
        /\ interest' = Append(interest, [mild |-> Accrual.mild + g,
                                         severe |-> Accrual.severe + h])
  BY DEF PairNext, Accrual
<1> DEFINE x == AfterBlock(mild, P0, k, MildLast, g)
           y == AfterBlock(severe, P0, k, SevereLast, h)
           z == [mild |-> Accrual.mild + g, severe |-> Accrual.severe + h]
<1>2. mild' = mild /\ severe' = severe
  BY DEF PairNext
<1>3. /\ Harsher(mild, severe) /\ P0 \in Prices /\ k \in Nat \ {0}
      /\ IsTrajectory(mildTraj) /\ IsTrajectory(severeTraj)
      /\ IsTrajectory(interest) /\ Len(interest) = k
      /\ Len(severeTraj) = k /\ InStep /\ OnlyInterestOvertakes
      /\ \A j \in DOMAIN interest : interest[j] \in [mild: Nat, severe: Nat]
  BY DEF PairInv
<1>4. /\ mildTraj' = Append(mildTraj, x) /\ severeTraj' = Append(severeTraj, y)
      /\ interest' = Append(interest, z) /\ g \in Nat /\ h \in Nat
  BY <1>1, PairAssumption
<1>14. Accrual.mild \in Nat /\ Accrual.severe \in Nat
  <2>1. DOMAIN interest = 1 .. k
    BY <1>3 DEF IsTrajectory
  <2>2. Accrual \in [mild: Nat, severe: Nat]
    BY <1>3, <2>1 DEF Accrual
  <2> QED
    BY <2>2
<1>15. /\ z \in [mild: Nat, severe: Nat]
       /\ z.mild = Accrual.mild + g /\ z.severe = Accrual.severe + h
  BY <1>4, <1>14
<1> HIDE DEF x, y, z
<1>5. /\ IsTrajectory(mildTraj') /\ Len(mildTraj') = k + 1
      /\ mildTraj'[Len(mildTraj')] = x
      /\ DOMAIN (mildTraj') = DOMAIN mildTraj \cup {k + 1}
      /\ \A i \in DOMAIN mildTraj : mildTraj'[i] = mildTraj[i]
      /\ 1 \in DOMAIN mildTraj
  BY <1>3, <1>4, TrajectoryGrows
<1>6. /\ IsTrajectory(severeTraj') /\ Len(severeTraj') = k + 1
      /\ severeTraj'[Len(severeTraj')] = y
      /\ DOMAIN (severeTraj') = DOMAIN severeTraj \cup {k + 1}
      /\ \A i \in DOMAIN severeTraj : severeTraj'[i] = severeTraj[i]
  BY <1>3, <1>4, TrajectoryGrows
<1>16. /\ IsTrajectory(interest') /\ Len(interest') = k + 1
       /\ interest'[Len(interest')] = z
       /\ DOMAIN (interest') = DOMAIN interest \cup {k + 1}
       /\ \A i \in DOMAIN interest : interest'[i] = interest[i]
  BY <1>3, <1>4, TrajectoryGrows
<1>7. /\ DOMAIN mildTraj = 1 .. k /\ DOMAIN severeTraj = 1 .. k
      /\ DOMAIN interest = 1 .. k
  BY <1>3 DEF IsTrajectory
<1>8. mildTraj'[1] = mildTraj[1] /\ P0' = P0
  BY <1>5 DEF P0
<1>9. MildLast' = x /\ SevereLast' = y /\ Accrual' = z
  BY <1>5, <1>6, <1>16 DEF MildLast, SevereLast, Accrual
<1>10. ASSUME mildTraj[1].market.fee = 0
       PROVE  /\ AtIndex(x, Index + z.mild) /\ AtIndex(y, Index + z.severe)
              /\ x.market.fee = 0 /\ y.market.fee = 0
              /\ (NotAhead /\ z.mild <= z.severe => Covers(x, y))
  <2>1. /\ AtIndex(MildLast, Index + Accrual.mild)
        /\ AtIndex(SevereLast, Index + Accrual.severe)
        /\ MildLast.market.fee = 0 /\ SevereLast.market.fee = 0
        /\ (NotAhead => Covers(MildLast, SevereLast))
    BY <1>3, <1>10 DEF InStep
  <2> DEFINE u == Index + Accrual.mild
             v == Index + Accrual.severe
  <2>2. /\ u \in Nat \ {0} /\ v \in Nat \ {0}
        /\ Index + z.mild = u + g /\ Index + z.severe = v + h
        /\ u + g \in Nat \ {0} /\ v + h \in Nat \ {0}
        /\ (z.mild <= z.severe => u + g <= v + h)
    <3> DEFINE c == Accrual.mild
               d == Accrual.severe
               e == z.mild
               f == z.severe
    <3>1. /\ c \in Nat /\ d \in Nat /\ g \in Nat /\ h \in Nat
          /\ e = c + g /\ f = d + h /\ Index \in Nat \ {0}
      BY <1>4, <1>14, <1>15, PairAssumption
    <3> HIDE DEF c, d, e, f
    <3>2. /\ Index + c \in Nat \ {0} /\ Index + d \in Nat \ {0}
          /\ Index + e = (Index + c) + g /\ Index + f = (Index + d) + h
          /\ (Index + c) + g \in Nat \ {0} /\ (Index + d) + h \in Nat \ {0}
          /\ (e <= f => (Index + c) + g <= (Index + d) + h)
      BY <3>1
    <3> QED
      BY <3>2 DEF c, d, e, f
  <2>3. /\ AtIndex(MildLast, u) /\ AtIndex(SevereLast, v)
        /\ u \in Nat \ {0} /\ v \in Nat \ {0}
    BY <2>1, <2>2
  <2>12. g \in Nat /\ h \in Nat
    BY <1>4
  <2> HIDE DEF u, v
  <2> DEFINE p == OraclePriceAt(mild, P0, k)
             q == OraclePriceAt(severe, P0, k)
             a == MarketPriceAt(mild, P0, k)
             b == MarketPriceAt(severe, P0, k)
             s == Accrued(MildLast, g, p)
             r == Accrued(SevereLast, h, q)
  <2>4. p \in Prices /\ q \in Prices /\ q <= p
    BY <1>3, OraclePricesOrdered
  <2>5. a \in Prices /\ b \in Prices
    BY <1>3, MarketPricesOrdered
  <2>6. x = Liquidated(s, a) /\ y = Liquidated(r, b)
    BY BlockInHalves DEF x, y
  <2> HIDE DEF p, q, a, b
  <2>7. p \in Nat \ {0} /\ q \in Nat \ {0} /\ a \in Nat /\ b \in Nat
    BY <2>4, <2>5, PricePositive
  <2>8. /\ AtIndex(s, u + g) /\ s.market.price = p /\ s.open = MildLast.open
        /\ s.market.fee = 0
    BY <2>1, <2>3, <2>4, <2>12, AccruedAtIndex
  <2>9. /\ AtIndex(r, v + h) /\ r.market.price = q /\ r.open = SevereLast.open
        /\ r.market.fee = 0
    BY <2>1, <2>3, <2>4, <2>12, AccruedAtIndex
  <2> HIDE DEF s, r
  <2>10. /\ AtIndex(x, u + g) /\ AtIndex(y, v + h)
         /\ x.market.fee = 0 /\ y.market.fee = 0
    BY <2>2, <2>6, <2>7, <2>8, <2>9, LiquidatedBalanced DEF AtIndex
  <2>11. ASSUME NotAhead, z.mild <= z.severe PROVE Covers(x, y)
    <3>1. Covers(s, r)
      BY <2>1, <2>8, <2>9, <2>11 DEF Covers
    <3>2. Balanced(s, u + g) /\ Balanced(r, v + h)
      BY <2>8, <2>9 DEF AtIndex
    <3> QED
      BY <2>2, <2>4, <2>6, <2>7, <2>8, <2>9, <2>11, <3>1, <3>2, LowerPriceClosesMore
  <2> QED
    BY <2>2, <2>10, <2>11
<1>17. NotAhead' => NotAhead /\ z.mild <= z.severe
  BY <1>3, <1>16 DEF NotAhead
<1>11. InStep'
  <2> SUFFICES ASSUME mildTraj'[1].market.fee = 0
               PROVE  /\ AtIndex(x, Index + z.mild) /\ AtIndex(y, Index + z.severe)
                      /\ x.market.fee = 0 /\ y.market.fee = 0
                      /\ (NotAhead' => Covers(x, y))
    BY <1>9 DEF InStep, AtIndex, Balanced, Covers
  <2> QED
    BY <1>8, <1>10, <1>17
<1>18. OnlyInterestOvertakes'
  <2> SUFFICES ASSUME mildTraj'[1].market.fee = 0, NEW i \in DOMAIN (mildTraj'),
                      ~(DOMAIN severeTraj'[i].open \subseteq DOMAIN mildTraj'[i].open)
               PROVE  \E j \in 1 .. i : interest'[j].mild > interest'[j].severe
    BY DEF OnlyInterestOvertakes
  <2>1. CASE i \in DOMAIN mildTraj
    <3>1. severeTraj'[i] = severeTraj[i] /\ mildTraj'[i] = mildTraj[i]
      BY <1>5, <1>6, <1>7, <2>1
    <3>2. PICK j \in 1 .. i : interest[j].mild > interest[j].severe
      BY <1>3, <1>8, <2>1, <3>1 DEF OnlyInterestOvertakes
    <3>3. j \in DOMAIN interest
      BY <1>3, <1>7, <2>1
    <3>4. interest'[j] = interest[j]
      BY <1>16, <3>3
    <3> QED
      BY <3>2, <3>4
  <2>2. CASE i = k + 1
    <3>1. mildTraj'[i] = x /\ severeTraj'[i] = y
      BY <1>5, <1>6, <2>2
    <3>2. ~(NotAhead /\ z.mild <= z.severe)
      BY <1>8, <1>10, <3>1 DEF Covers
    <3>3. CASE ~NotAhead
      <4>1. PICK j \in DOMAIN interest : ~(interest[j].mild <= interest[j].severe)
        BY <3>3 DEF NotAhead
      <4>2. interest[j].mild \in Nat /\ interest[j].severe \in Nat
        BY <1>3, <4>1
      <4>3. j \in 1 .. i /\ interest'[j] = interest[j]
        BY <1>3, <1>7, <1>16, <2>2, <4>1
      <4> QED
        BY <4>1, <4>2, <4>3
    <3>4. CASE ~(z.mild <= z.severe)
      <4>1. z.mild \in Nat /\ z.severe \in Nat
        BY <1>15
      <4>2. k + 1 \in 1 .. i /\ interest'[k + 1] = z
        BY <1>3, <1>16, <2>2
      <4> QED
        BY <3>4, <4>1, <4>2
    <3> QED
      BY <3>2, <3>3, <3>4
  <2> QED
    BY <1>5, <2>1, <2>2
<1>12. /\ Harsher(mild, severe)' /\ (P0 \in Prices)'
  BY <1>2, <1>3, <1>8 DEF Harsher, ValidConfig
<1>13. /\ IsTrajectory(mildTraj)' /\ IsTrajectory(severeTraj)'
       /\ IsTrajectory(interest)' /\ (Len(interest) = Len(mildTraj))'
       /\ (Len(mildTraj) \in Nat \ {0})' /\ (Len(severeTraj) = Len(mildTraj))'
  BY <1>3, <1>5, <1>6, <1>16 DEF IsTrajectory
<1>19. (\A j \in DOMAIN interest : interest[j] \in [mild: Nat, severe: Nat])'
  BY <1>3, <1>15, <1>16
<1> QED
  BY <1>11, <1>12, <1>13, <1>18, <1>19 DEF PairInv

(* So does a step that changes nothing.                                    *)
LEMMA PairInvStutter == PairInv /\ UNCHANGED pairVars => PairInv'
  BY DEF PairInv, InStep, pairVars, Harsher, P0, MildLast, SevereLast, IsTrajectory,
         AtIndex, Balanced, Covers, ValidConfig, Accrual, NotAhead,
         OnlyInterestOvertakes

(* Through any blocks the trajectories of the two runs have the same       *)
(* length and, without a fee, each run is at the index of its own          *)
(* interest; what is open after the more severe drawdown is open, and the  *)
(* same, after the milder one, as long as the milder has not accrued more. *)
THEOREM PairInvariant == PairSpec => []PairInv
<1>1. PairInit => PairInv
  BY PairInvInit
<1>2. PairInv /\ [PairNext]_pairVars => PairInv'
  BY PairInvNext, PairInvStutter
<1> QED
  BY <1>1, <1>2, PTL DEF PairSpec

(* Without a fee, whatever the oracle, the shape of the fall, the          *)
(* positions and the interest of either run, the milder drawdown has       *)
(* liquidated a position that the more severe one keeps only if its shares *)
(* had accrued more.                                                       *)
THEOREM SeverityOrdersLiquidations == PairSpec => []OnlyInterestOvertakes
<1>1. PairInv => OnlyInterestOvertakes
  BY DEF PairInv
<1> QED
  BY <1>1, PairInvariant, PTL

-----------------------------------------------------------------------------
(* DrawdownPair: sold at the floor.                                        *)

(* What the liquidations of some positions of a book lose at one price.    *)
LossesOf(q, T, price) ==
    SumFunctionOnSet([b \in DOMAIN q |->
        LossAt(Index * q[b].shares, q[b].coll, price)], T)

(* Every position closed since the first snapshot was sold at that price.  *)
SoldAt(first, s, price) ==
    /\ AtIndex(s, Index) /\ Covers(first, s)
    /\ s.market.badDebt
         = LossesOf(first.open, DOMAIN first.open \ DOMAIN s.open, price)

(* A loss is a natural amount.                                             *)
LEMMA LossesNat ==
    ASSUME NEW q \in Books, NEW price \in Nat \ {0}, NEW b \in DOMAIN q
    PROVE  LossAt(Index * q[b].shares, q[b].coll, price) \in Nat
<1>1. Index * q[b].shares \in Nat /\ q[b].coll \in Nat
  BY BookType, PairAssumption
<1> DEFINE x == Index * q[b].shares
           y == q[b].coll
<1>2. x \in Nat /\ y \in Nat
  BY <1>1
<1> HIDE DEF x, y
<1>3. LossAt(x, y, price) \in Nat
  BY <1>2, LossFallsWithPrice
<1> QED
  BY <1>3 DEF x, y

(* Liquidations at the price keep it so: they add the losses of what they  *)
(* close.                                                                  *)
LEMMA SaleAddsLosses ==
    ASSUME NEW first, first.open \in Books, NEW price \in Nat \ {0},
           NEW last, SoldAt(first, last, price),
           NEW s, AtIndex(s, Index), s.open = last.open, s.market.price = price,
           s.market.badDebt = last.market.badDebt
    PROVE  SoldAt(first, Liquidated(s, price), price)
<1> DEFINE t == Liquidated(s, price)
           q == first.open
           D == DOMAIN q
           C == DOMAIN s.open
           E == Closing(s)
           f == [b \in D |-> LossAt(Index * q[b].shares, q[b].coll, price)]
           g == [b \in E |-> Outcome(s.open[b], s.market, price)["badDebt"]]
           d == Taken(s, price, "badDebt")
<1>1. /\ C \subseteq D /\ E \subseteq C /\ \A b \in C : s.open[b] = q[b]
  BY DEF SoldAt, Covers, Closing
<1>2. last.market.badDebt = SumFunctionOnSet(f, D \ C)
  BY DEF SoldAt, LossesOf
<1>3. Balanced(s, Index) /\ Index \in Nat
  BY PairAssumption DEF AtIndex
<1>4. /\ AtIndex(t, Index) /\ d \in Nat /\ t.market.badDebt = s.market.badDebt + d
  BY <1>3, LiquidatedBalanced
<1>5. t.open = Restrict(s.open, C \ E)
  BY DEF Liquidated
<1>6. DOMAIN t.open = C \ E /\ \A b \in C \ E : t.open[b] = q[b]
  BY <1>1, <1>5 DEF Restrict
<1>7. IsFiniteSet(D) /\ \A b \in D : f[b] \in Nat
  BY BookType, LossesNat
<1>8. d = SumFunctionOnSet(g, E)
  BY DEF Taken, SumFunction
<1>9. \A b \in E : g[b] = f[b]
  <2> SUFFICES ASSUME NEW b \in E PROVE g[b] = f[b]
    OBVIOUS
  <2>1. b \in C /\ b \in D /\ s.open[b] = q[b]
    BY <1>1
  <2>2. BorrowAssets(s.open[b].shares, s.market) = Index * s.open[b].shares
    BY <1>3, <2>1, DebtOfHolder
  <2>3. g[b] = Outcome(s.open[b], s.market, s.market.price).badDebt
    OBVIOUS
  <2>4. g[b] = LossAt(BorrowAssets(s.open[b].shares, s.market), s.open[b].coll, price)
    BY <2>3, OutcomeLoss
  <2> HIDE DEF g
  <2> QED
    BY <2>1, <2>2, <2>4
<1> HIDE DEF t, q, D, C, E, f, g, d
<1>10. d = SumFunctionOnSet(f, E)
  <2>1. IsFiniteSet(E)
    BY <1>1, <1>7, FS_Subset
  <2> QED
    BY <1>8, <1>9, <2>1, SumAgree
<1>11. /\ SumFunctionOnSet(f, D \ C) \in Nat /\ SumFunctionOnSet(f, E) \in Nat
       /\ SumFunctionOnSet(f, D \ (C \ E))
            = SumFunctionOnSet(f, D \ C) + SumFunctionOnSet(f, E)
  <2> DEFINE S == D \ (C \ E)
             T == D \ C
  <2>1. IsFiniteSet(S) /\ (\A b \in S : f[b] \in Nat) /\ T \in SUBSET S /\ S \ T = E
    <3>1. S \subseteq D
      OBVIOUS
    <3>2. IsFiniteSet(S)
      BY <1>7, <3>1, FS_Subset
    <3> QED
      BY <1>1, <1>7, <3>2
  <2> HIDE DEF S, T
  <2>2. /\ SumFunctionOnSet(f, T) \in Nat /\ SumFunctionOnSet(f, S \ T) \in Nat
        /\ SumFunctionOnSet(f, S)
             = SumFunctionOnSet(f, T) + SumFunctionOnSet(f, S \ T)
    BY <2>1, SumSplit
  <2> QED
    BY <2>1, <2>2 DEF S, T
<1>12. t.market.badDebt = SumFunctionOnSet(f, D \ DOMAIN t.open)
  BY <1>2, <1>4, <1>6, <1>10, <1>11
<1>13. Covers(first, t)
  BY <1>1, <1>6 DEF Covers, q, D, C, E
<1> QED
  BY <1>4, <1>12, <1>13 DEF SoldAt, LossesOf, t, f, q, D

(* Of two runs sold at one price each, the one at the higher price loses   *)
(* no more, but for a unit of collateral for each position it sold.        *)
LEMMA LossesOrdered ==
    ASSUME NEW q \in Books, NEW M \in SUBSET DOMAIN q, NEW S \in SUBSET DOMAIN q,
           M \subseteq S, NEW w \in Nat \ {0}, NEW x \in Nat \ {0}, w <= x
    PROVE  LossesOf(q, M, x) <= LossesOf(q, S, w) + Cardinality(M) * x
<1> DEFINE D == DOMAIN q
           f == [b \in D |-> LossAt(Index * q[b].shares, q[b].coll, x)]
           g == [b \in D |-> LossAt(Index * q[b].shares, q[b].coll, w)]
           k == [b \in D |-> x]
           h == [b \in D |-> g[b] + x]
<1>1. \A b \in D : f[b] \in Nat /\ g[b] \in Nat /\ f[b] <= g[b] + x
  <2> SUFFICES ASSUME NEW b \in D
               PROVE  f[b] \in Nat /\ g[b] \in Nat /\ f[b] <= g[b] + x
    OBVIOUS
  <2>1. Index * q[b].shares \in Nat /\ q[b].coll \in Nat
    BY BookType, PairAssumption
  <2> DEFINE u == Index * q[b].shares
             v == q[b].coll
  <2>2. u \in Nat /\ v \in Nat /\ f[b] = LossAt(u, v, x) /\ g[b] = LossAt(u, v, w)
    BY <2>1
  <2> HIDE DEF u, v, f, g
  <2> QED
    BY <2>2, LossFallsWithPrice
<1>2. LossesOf(q, M, x) = SumFunctionOnSet(f, M) /\ LossesOf(q, S, w) = SumFunctionOnSet(g, S)
  BY DEF LossesOf
<1>3. IsFiniteSet(M) /\ IsFiniteSet(S) /\ M \subseteq D /\ S \subseteq D
  BY BookType, FS_Subset
<1> HIDE DEF f, g
<1>4. /\ \A b \in M : f[b] \in Nat /\ h[b] \in Nat /\ f[b] <= 1 * h[b]
      /\ \A b \in M : g[b] \in Nat /\ k[b] \in Nat /\ h[b] = g[b] + k[b]
      /\ \A b \in M : k[b] = x
      /\ \A b \in S : g[b] \in Nat
  BY <1>1, <1>3
<1> DEFINE sf == SumFunctionOnSet(f, M)
           sh == SumFunctionOnSet(h, M)
           sg == SumFunctionOnSet(g, M)
           sk == SumFunctionOnSet(k, M)
           all == SumFunctionOnSet(g, S)
           rest == SumFunctionOnSet(g, S \ M)
<1> HIDE DEF h, k, D
<1>5. sf <= 1 * sh
  BY <1>3, <1>4, SumAtMost
<1>6. sh = sg + sk
  BY <1>3, <1>4, SumAdded
<1>7. sk = Cardinality(M) * x /\ Cardinality(M) \in Nat
  BY <1>3, <1>4, SumConstant
<1>8. sg \in Nat /\ rest \in Nat /\ all = sg + rest
  BY <1>3, <1>4, SumSplit
<1>9. sf \in Nat /\ sk \in Nat
  BY <1>3, <1>4, SumNat
<1> HIDE DEF sf, sh, sg, sk, all, rest
<1>10. sf <= all + sk
  BY <1>5, <1>6, <1>8, <1>9
<1> QED
  BY <1>2, <1>7, <1>10 DEF sf, all

(* On an instant fall every block after the first is at the floor, and an  *)
(* oracle with a window of one block reads it.                             *)
LEMMA FloorPrices ==
    ASSUME NEW c \in S3Config, ValidConfig(c), c.shape = "instant",
           c.kind = "chainlink", NEW p0, NEW k \in Nat \ {0},
           MarketPriceAt(c, p0, k) \in Prices
    PROVE  /\ MarketPriceAt(c, p0, k) = MarketPriceAt(c, p0, 1)
           /\ OraclePriceAt(c, p0, k) = MarketPriceAt(c, p0, k)
<1>1. Progress(c, k) = c.dt /\ Progress(c, 1) = c.dt
  BY DEF Progress
<1>2. OracleWindow(c) = 1
  BY DEF OracleWindow
<1>3. FirstSeen(c, k) = k
  <2>1. k + 1 - 1 = k
    OBVIOUS
  <2>2. Max({0, k}) = k
    <3>1. \E y \in {0, k} : \A u \in {0, k} : y >= u
      OBVIOUS
    <3>2. Max({0, k}) \in {0, k} /\ \A u \in {0, k} : Max({0, k}) >= u
      BY <3>1 DEF Max
    <3> QED
      BY <3>2
  <2> QED
    BY <1>2, <2>1, <2>2 DEF FirstSeen
<1> DEFINE p == MarketPriceAt(c, p0, k)
<1>4. SeenOf(c, p0, k) = <<Observed(k, p)>>
  <2>1. k - k + 1 = 1 /\ k + 1 - 1 = k
    OBVIOUS
  <2>2. SeenOf(c, p0, k)
          = [i \in 1 .. 1 |-> Observed(k + i - 1, MarketPriceAt(c, p0, k + i - 1))]
    BY <1>3, <2>1 DEF SeenOf
  <2>3. \A i \in 1 .. 1 : i = 1
    OBVIOUS
  <2>4. [i \in 1 .. 1 |-> Observed(k + i - 1, MarketPriceAt(c, p0, k + i - 1))]
          = [i \in 1 .. 1 |-> Observed(k, p)]
    BY <2>1, <2>3
  <2> HIDE DEF p
  <2> QED
    BY <2>2, <2>4
<1>5. OraclePriceAt(c, p0, k) = ReadTwap(<<Observed(k, p)>>)
  BY <1>4 DEF OraclePriceAt, SeenOf, FirstSeen
<1>6. OraclePriceAt(c, p0, k) = p
  BY <1>5, FirstReading
<1>7. MarketPriceAt(c, p0, k) = MarketPriceAt(c, p0, 1)
  BY <1>1 DEF MarketPriceAt
<1> QED
  BY <1>6, <1>7

(* The worth of either market never falls; as long as neither has risen    *)
(* on an instant fall with an oracle that mirrors the market, both runs    *)
(* have sold what they sold at their floors, and the severe one no less.   *)
AtFloor == mild.shape = "instant" /\ mild.kind = "chainlink"
FloorInv ==
    /\ Balanced(mildTraj[1], Index) /\ mildTraj[1].market.badDebt = 0
    /\ \E i, j \in Nat \ {0} : Balanced(MildLast, i) /\ Balanced(SevereLast, j)
    /\ MildLast.market.fee = mildTraj[1].market.fee
    /\ SevereLast.market.fee = mildTraj[1].market.fee
    /\ Worth(mildTraj[1]) <= Worth(MildLast)
    /\ Worth(mildTraj[1]) <= Worth(SevereLast)
    /\ (AtFloor /\ NoInterestSoFar =>
          /\ SoldAt(mildTraj[1], MildLast, MarketPriceAt(mild, P0, 1))
          /\ SoldAt(mildTraj[1], SevereLast, MarketPriceAt(severe, P0, 1))
          /\ Covers(MildLast, SevereLast))

(* Nothing is sold at first.                                               *)
LEMMA NothingSold ==
    ASSUME NEW s, AtIndex(s, Index), s.market.badDebt = 0, NEW price
    PROVE  SoldAt(s, s, price)
<1>1. DOMAIN s.open \ DOMAIN s.open = {}
  OBVIOUS
<1>2. LossesOf(s.open, {}, price) = 0
  BY FS_EmptySet, SumStep DEF LossesOf
<1> QED
  BY <1>1, <1>2 DEF SoldAt, Covers

(* At first nothing has been sold or lost.                                 *)
LEMMA FloorInvInit == PairInit => FloorInv
<1> SUFFICES ASSUME PairInit PROVE FloorInv
  OBVIOUS
<1> DEFINE s == mildTraj[1]
<1>1. MildLast = s /\ SevereLast = s /\ AtIndex(s, Index) /\ s.market.badDebt = 0
  <2>1. PICK u : /\ mildTraj = <<u>> /\ severeTraj = <<u>>
                 /\ AtIndex(u, Index) /\ u.market.badDebt = 0
    BY PairStart
  <2>2. mildTraj[1] = u /\ mildTraj[Len(mildTraj)] = u /\ severeTraj[Len(severeTraj)] = u
    BY <2>1
  <2> QED
    BY <2>1, <2>2 DEF MildLast, SevereLast
<1>2. Balanced(s, Index) /\ s.open \in Books /\ Index \in Nat \ {0}
  BY <1>1, PairAssumption DEF AtIndex, Balanced
<1>3. s.market.supply \in Nat
  BY <1>2 DEF Balanced, Market
<1>4. Covers(s, s) /\ \A price : SoldAt(s, s, price)
  BY <1>1, NothingSold DEF Covers
<1> HIDE DEF s
<1>5. Worth(s) <= Worth(s)
  BY <1>1, <1>3 DEF Worth
<1> QED
  BY <1>1, <1>2, <1>4, <1>5 DEF FloorInv, s

(* A block keeps a market balanced and its worth no less.                  *)
LEMMA BlockBalanced ==
    ASSUME NEW c, NEW p0, NEW k, NEW last, NEW growth \in Nat,
           NEW idx \in Nat \ {0}, Balanced(last, idx),
           OraclePriceAt(c, p0, k) \in Prices, MarketPriceAt(c, p0, k) \in Prices
    PROVE  LET x == AfterBlock(c, p0, k, last, growth)
           IN  /\ \E n \in Nat \ {0} : Balanced(x, n)
               /\ x.market.fee = last.market.fee /\ Worth(last) <= Worth(x)
<1> DEFINE p == OraclePriceAt(c, p0, k)
           a == MarketPriceAt(c, p0, k)
           s == Accrued(last, growth, p)
           x == AfterBlock(c, p0, k, last, growth)
<1>1. x = Liquidated(s, a)
  BY BlockInHalves
<1> HIDE DEF x, p, a
<1>2. p \in Prices /\ a \in Prices
  BY DEF p, a
<1>3. p \in Nat \ {0} /\ a \in Nat
  BY <1>2, PricePositive
<1>4. /\ \E j \in Nat \ {0} : Balanced(s, j)
      /\ s.market.price = p /\ s.market.fee = last.market.fee
      /\ Worth(last) <= Worth(s)
  <2>1. InterestKeeps(last, idx, growth, s) /\ s.market.price = p
    BY <1>2, AccruedBalanced
  <2> HIDE DEF s
  <2> QED
    BY <2>1 DEF InterestKeeps
<1> HIDE DEF s
<1>5. PICK j \in Nat \ {0} : Balanced(s, j)
  BY <1>4
<1>6. /\ Balanced(x, j) /\ x.market.fee = s.market.fee /\ Worth(s) <= Worth(x)
  BY <1>1, <1>3, <1>4, <1>5, LiquidatedBalanced
<1>7. Worth(last) \in Nat /\ Worth(s) \in Nat /\ Worth(x) \in Nat
  BY <1>5, <1>6 DEF Worth, Balanced, Market
<1> QED
  BY <1>4, <1>6, <1>7 DEF x

(* In a block that leaves the worth of a market as it was no interest      *)
(* accrues to it, if the fee is any but all of the interest.               *)
LEMMA IdleBlock ==
    ASSUME NEW last, NEW idx \in Nat \ {0}, AtIndex(last, idx),
           last.market.fee < FeeDen, NEW growth \in Nat, NEW p \in Prices,
           NEW a \in Nat, Worth(Liquidated(Accrued(last, growth, p), a)) = Worth(last)
    PROVE  growth * last.market.shares = 0
<1> DEFINE s == Accrued(last, growth, p)
           x == Liquidated(s, a)
<1>1. Balanced(last, idx) /\ p \in Nat \ {0}
  BY PricePositive DEF AtIndex
<1>2. /\ \E j \in Nat \ {0} : Balanced(s, j)
      /\ s.market.price = p /\ Worth(last) <= Worth(s)
      /\ (Worth(s) = Worth(last) => growth * last.market.shares = 0)
  <2>1. InterestKeeps(last, idx, growth, s) /\ s.market.price = p
    BY <1>1, AccruedBalanced
  <2> HIDE DEF s
  <2> QED
    BY <2>1 DEF InterestKeeps
<1>3. Worth(x) = Worth(last)
  OBVIOUS
<1> HIDE DEF s
<1>4. PICK j \in Nat \ {0} : Balanced(s, j)
  BY <1>2
<1>5. Worth(s) <= Worth(x)
  BY <1>1, <1>2, <1>4, LiquidatedBalanced
<1>6. Worth(s) \in Nat /\ Worth(last) \in Nat
  BY <1>1, <1>4 DEF Worth, Balanced, Market
<1> HIDE DEF x
<1>7. Worth(s) = Worth(last)
  BY <1>2, <1>3, <1>5, <1>6
<1> QED
  BY <1>2, <1>7

(* A block of both runs at the floor that leaves the worth of either       *)
(* market as it was: no interest accrues to it.                            *)
LEMMA FloorBlock ==
    ASSUME PairInv, FloorInv, AtFloor, NoInterestSoFar, NEW g \in Nat, NEW h \in Nat,
           NEW k \in Nat \ {0},
           Worth(AfterBlock(mild, P0, k, MildLast, g)) = Worth(MildLast),
           Worth(AfterBlock(severe, P0, k, SevereLast, h)) = Worth(SevereLast)
    PROVE  LET x == AfterBlock(mild, P0, k, MildLast, g)
               y == AfterBlock(severe, P0, k, SevereLast, h)
           IN  /\ SoldAt(mildTraj[1], x, MarketPriceAt(mild, P0, 1))
               /\ SoldAt(mildTraj[1], y, MarketPriceAt(severe, P0, 1))
               /\ Covers(x, y)
<1> DEFINE x == AfterBlock(mild, P0, k, MildLast, g)
           y == AfterBlock(severe, P0, k, SevereLast, h)
           a == MarketPriceAt(mild, P0, 1)
           b == MarketPriceAt(severe, P0, 1)
           s == Accrued(MildLast, g, a)
           r == Accrued(SevereLast, h, b)
           first == mildTraj[1]
<1>1. Harsher(mild, severe) /\ P0 \in Prices
  BY DEF PairInv
<1>2. a \in Prices /\ b \in Prices /\ b <= a
  BY <1>1, MarketPricesOrdered
<1>3. /\ OraclePriceAt(mild, P0, k) = a /\ MarketPriceAt(mild, P0, k) = a
      /\ OraclePriceAt(severe, P0, k) = b /\ MarketPriceAt(severe, P0, k) = b
  <2>1. /\ MarketPriceAt(mild, P0, k) \in Prices
        /\ MarketPriceAt(severe, P0, k) \in Prices
    BY <1>1, MarketPricesOrdered
  <2>2. /\ mild \in S3Config /\ ValidConfig(mild)
        /\ severe \in S3Config /\ ValidConfig(severe)
        /\ mild.shape = "instant" /\ mild.kind = "chainlink"
        /\ severe.shape = "instant" /\ severe.kind = "chainlink"
    BY <1>1 DEF Harsher, AtFloor
  <2> QED
    BY <2>1, <2>2, FloorPrices
<1>4. x = Liquidated(s, a) /\ y = Liquidated(r, b)
  BY <1>3, BlockInHalves
<1>5. /\ SoldAt(first, MildLast, a) /\ SoldAt(first, SevereLast, b)
      /\ Covers(MildLast, SevereLast) /\ first.open \in Books
      /\ MildLast.market.fee = first.market.fee
      /\ SevereLast.market.fee = first.market.fee /\ first.market.fee < FeeDen
  BY DEF FloorInv, NoInterestSoFar, Balanced
<1>6. a \in Nat \ {0} /\ b \in Nat \ {0} /\ Index \in Nat \ {0} /\ Index \in Nat
  BY <1>2, PricePositive, PairAssumption
<1>7. AtIndex(MildLast, Index) /\ AtIndex(SevereLast, Index)
  BY <1>5 DEF SoldAt
<1>15. Worth(x) = Worth(MildLast) /\ Worth(y) = Worth(SevereLast)
  OBVIOUS
<1> HIDE DEF a, b, x, y, first
<1>8. g * MildLast.market.shares = 0
  BY <1>2, <1>4, <1>5, <1>6, <1>7, <1>15, IdleBlock
<1>9. h * SevereLast.market.shares = 0
  BY <1>2, <1>4, <1>5, <1>6, <1>7, <1>15, IdleBlock
<1>10. /\ AtIndex(s, Index) /\ s.market.price = a
       /\ s.market.badDebt = MildLast.market.badDebt /\ s.open = MildLast.open
  BY <1>2, <1>6, <1>7, <1>8, AccruedIdle
<1>11. /\ AtIndex(r, Index) /\ r.market.price = b
       /\ r.market.badDebt = SevereLast.market.badDebt /\ r.open = SevereLast.open
  BY <1>2, <1>6, <1>7, <1>9, AccruedIdle
<1> HIDE DEF s, r
<1>12. SoldAt(first, x, a)
  BY <1>4, <1>5, <1>6, <1>10, SaleAddsLosses
<1>13. SoldAt(first, y, b)
  BY <1>4, <1>5, <1>6, <1>11, SaleAddsLosses
<1>14. Covers(x, y)
  <2>1. Covers(s, r)
    BY <1>5, <1>10, <1>11 DEF Covers
  <2>2. Balanced(s, Index) /\ Balanced(r, Index) /\ Index <= Index
    BY <1>6, <1>10, <1>11 DEF AtIndex
  <2> QED
    BY <1>2, <1>4, <1>6, <1>10, <1>11, <2>1, <2>2, LowerPriceClosesMore
<1> QED
  BY <1>12, <1>13, <1>14 DEF a, b, x, y, first

(* A block of both runs keeps the invariant.                               *)
LEMMA FloorInvNext == PairInv /\ FloorInv /\ PairNext => FloorInv'
<1> SUFFICES ASSUME PairInv, FloorInv, PairNext PROVE FloorInv'
  OBVIOUS
<1> DEFINE k == Len(mildTraj)
           first == mildTraj[1]
<1>1. PICK g \in Growths, h \in Growths :
        /\ mildTraj' = Append(mildTraj, AfterBlock(mild, P0, k, MildLast, g))
        /\ severeTraj' = Append(severeTraj, AfterBlock(severe, P0, k, SevereLast, h))
  BY DEF PairNext
<1> DEFINE x == AfterBlock(mild, P0, k, MildLast, g)
           y == AfterBlock(severe, P0, k, SevereLast, h)
<1>2. mild' = mild /\ severe' = severe
  BY DEF PairNext
<1>3. /\ Harsher(mild, severe) /\ P0 \in Prices /\ k \in Nat \ {0}
      /\ IsTrajectory(mildTraj) /\ IsTrajectory(severeTraj)
      /\ Len(severeTraj) = k
  BY DEF PairInv
<1>4. mildTraj' = Append(mildTraj, x) /\ severeTraj' = Append(severeTraj, y)
  BY <1>1
<1>5. g \in Nat /\ h \in Nat
  BY PairAssumption
<1> HIDE DEF x, y
<1>6. /\ Len(mildTraj') = k + 1 /\ mildTraj'[Len(mildTraj')] = x
      /\ mildTraj'[1] = first
      /\ Len(severeTraj') = k + 1 /\ severeTraj'[Len(severeTraj')] = y
  <2>1. /\ Len(mildTraj') = k + 1 /\ mildTraj'[Len(mildTraj')] = x
        /\ \A i \in DOMAIN mildTraj : mildTraj'[i] = mildTraj[i]
        /\ 1 \in DOMAIN mildTraj
    BY <1>3, <1>4, TrajectoryGrows
  <2>2. Len(severeTraj') = k + 1 /\ severeTraj'[Len(severeTraj')] = y
    BY <1>3, <1>4, TrajectoryGrows
  <2> QED
    BY <2>1, <2>2
<1>7. MildLast' = x /\ SevereLast' = y /\ P0' = P0
  BY <1>6 DEF MildLast, SevereLast, P0
<1>8. /\ \E i, j \in Nat \ {0} : Balanced(x, i) /\ Balanced(y, j)
      /\ x.market.fee = first.market.fee /\ y.market.fee = first.market.fee
      /\ Worth(MildLast) <= Worth(x) /\ Worth(SevereLast) <= Worth(y)
  <2>1. PICK i \in Nat \ {0}, j \in Nat \ {0} :
          Balanced(MildLast, i) /\ Balanced(SevereLast, j)
    BY DEF FloorInv
  <2>2. /\ OraclePriceAt(mild, P0, k) \in Prices /\ OraclePriceAt(severe, P0, k) \in Prices
        /\ MarketPriceAt(mild, P0, k) \in Prices /\ MarketPriceAt(severe, P0, k) \in Prices
    BY <1>3, OraclePricesOrdered, MarketPricesOrdered
  <2>3. /\ \E n \in Nat \ {0} : Balanced(x, n)
        /\ x.market.fee = MildLast.market.fee /\ Worth(MildLast) <= Worth(x)
    BY <1>5, <2>1, <2>2, BlockBalanced DEF x
  <2>4. /\ \E n \in Nat \ {0} : Balanced(y, n)
        /\ y.market.fee = SevereLast.market.fee /\ Worth(SevereLast) <= Worth(y)
    BY <1>5, <2>1, <2>2, BlockBalanced DEF y
  <2> QED
    BY <2>3, <2>4 DEF FloorInv
<1>9. /\ first.open \in Books /\ first.market.badDebt = 0
      /\ Worth(first) <= Worth(MildLast) /\ Worth(first) <= Worth(SevereLast)
      /\ Balanced(first, Index)
  BY DEF FloorInv, Balanced
<1>10. /\ Worth(MildLast) \in Nat /\ Worth(x) \in Nat
       /\ Worth(SevereLast) \in Nat /\ Worth(y) \in Nat
  <2>1. \E i, j \in Nat \ {0} : Balanced(MildLast, i) /\ Balanced(SevereLast, j)
    BY DEF FloorInv
  <2> QED
    BY <1>8, <2>1 DEF Worth, Balanced, Market
<1>11. first.market.supply \in Int
  BY <1>9 DEF Balanced, Market
<1>12. Worth(first) = first.market.supply
  BY <1>9, <1>11 DEF Worth
<1>13. Worth(first) <= Worth(x) /\ Worth(first) <= Worth(y)
  BY <1>8, <1>9, <1>10, <1>11, <1>12
<1>14. ASSUME AtFloor', NoInterestSoFar'
       PROVE  /\ SoldAt(first, x, MarketPriceAt(mild, P0, 1))
              /\ SoldAt(first, y, MarketPriceAt(severe, P0, 1))
              /\ Covers(x, y)
  <2>1. AtFloor
    BY <1>2, <1>14 DEF AtFloor
  <2>2. /\ Worth(x) = first.market.supply /\ Worth(y) = first.market.supply
        /\ first.market.fee < FeeDen
    BY <1>6, <1>7, <1>14 DEF NoInterestSoFar, Worth
  <2>3. /\ Worth(MildLast) = first.market.supply /\ Worth(x) = Worth(MildLast)
        /\ Worth(SevereLast) = first.market.supply /\ Worth(y) = Worth(SevereLast)
    BY <1>8, <1>9, <1>10, <1>11, <1>12, <2>2
  <2>4. NoInterestSoFar
    BY <2>2, <2>3 DEF NoInterestSoFar, Worth
  <2> QED
    BY <1>3, <1>5, <2>1, <2>3, <2>4, FloorBlock DEF x, y
<1> HIDE DEF first, k
<1> DEFINE a == MarketPriceAt(mild, P0, 1)
           b == MarketPriceAt(severe, P0, 1)
<1>15. /\ a' = a /\ b' = b
  BY <1>2, <1>7 DEF MarketPriceAt, Progress
<1> HIDE DEF a, b
<1>16. /\ first' = first
  BY <1>6 DEF first
<1> QED
  BY <1>2, <1>6, <1>7, <1>8, <1>9, <1>13, <1>14, <1>15
     DEF FloorInv, first, a, b

(* So does a step that changes nothing.                                    *)
LEMMA FloorInvStutter == FloorInv /\ UNCHANGED pairVars => FloorInv'
<1> SUFFICES ASSUME FloorInv, UNCHANGED pairVars PROVE FloorInv'
  OBVIOUS
<1>1. mild' = mild /\ severe' = severe /\ mildTraj' = mildTraj /\ severeTraj' = severeTraj
  BY DEF pairVars
<1>2. MildLast' = MildLast /\ SevereLast' = SevereLast /\ P0' = P0
  BY <1>1 DEF MildLast, SevereLast, P0
<1>3. AtFloor' = AtFloor /\ NoInterestSoFar' = NoInterestSoFar
  BY <1>1, <1>2 DEF AtFloor, NoInterestSoFar
<1> DEFINE a == MarketPriceAt(mild, P0, 1)
           b == MarketPriceAt(severe, P0, 1)
<1>4. a' = a /\ b' = b
  BY <1>1, <1>2 DEF MarketPriceAt, Progress
<1> HIDE DEF a, b
<1> QED
  BY <1>1, <1>2, <1>3, <1>4 DEF FloorInv, a, b

(* Whatever the fee, the interest and the oracle, the totals of both       *)
(* markets stay those of their positions and the supply, with what was     *)
(* written off it, never falls; sold at the floor, each run has lost what  *)
(* its sold positions lose at its floor.                                   *)
THEOREM FloorInvariant == PairSpec => []FloorInv
<1>1. PairInit => FloorInv
  BY FloorInvInit
<1>2. PairInv /\ FloorInv /\ [PairNext]_pairVars => FloorInv'
  BY FloorInvNext, FloorInvStutter
<1> QED
  BY <1>1, <1>2, PairInvariant, PTL DEF PairSpec

(* On an instant fall with an oracle that mirrors the market, before any   *)
(* interest accrues, the more severe drawdown has made no less bad debt    *)
(* than the milder one, at every block, but for one unit of collateral for *)
(* each position the milder one sold.                                      *)
THEOREM SeverityOrdersBadDebt == PairSpec => []BadDebtMonotoneAtFloor
<1>1. PairInv /\ FloorInv => BadDebtMonotoneAtFloor
  <2> SUFFICES ASSUME PairInv, FloorInv, AtFloor, NoInterestSoFar
               PROVE  MildLast.market.badDebt <= SevereLast.market.badDebt
                        + Cardinality(Sold) * MarketPriceAt(mild, P0, 1)
    BY DEF BadDebtMonotoneAtFloor, AtFloor
  <2> DEFINE q == mildTraj[1].open
             a == MarketPriceAt(mild, P0, 1)
             b == MarketPriceAt(severe, P0, 1)
             S == DOMAIN q \ DOMAIN SevereLast.open
  <2>1. a \in Nat \ {0} /\ b \in Nat \ {0} /\ b <= a
    <3>1. a \in Prices /\ b \in Prices /\ b <= a
      BY MarketPricesOrdered DEF PairInv
    <3> HIDE DEF a, b
    <3> QED
      BY <3>1, PricePositive
  <2>2. /\ SoldAt(mildTraj[1], MildLast, a) /\ SoldAt(mildTraj[1], SevereLast, b)
        /\ Covers(MildLast, SevereLast) /\ q \in Books
    BY DEF FloorInv, Balanced
  <2>3. /\ MildLast.market.badDebt = LossesOf(q, Sold, a)
        /\ SevereLast.market.badDebt = LossesOf(q, S, b)
    BY <2>2 DEF SoldAt, Sold
  <2>4. Sold \in SUBSET DOMAIN q /\ S \in SUBSET DOMAIN q /\ Sold \subseteq S
    BY <2>2 DEF Covers, Sold
  <2> HIDE DEF q, a, b, S
  <2>5. LossesOf(q, Sold, a) <= LossesOf(q, S, b) + Cardinality(Sold) * a
    BY <2>1, <2>2, <2>4, LossesOrdered
  <2> QED
    BY <2>3, <2>5 DEF a
<1> QED
  BY <1>1, FloorInvariant, PairInvariant, PTL

-----------------------------------------------------------------------------
(* DrawdownPair: the first block at which the runs differ.                 *)

(* What is the same in two markets: all that interest depends on.          *)
SameTotals(m, n) ==
    /\ m.supply = n.supply /\ m.borrow = n.borrow /\ m.shares = n.shares
    /\ m.fee = n.fee

(* Of one book at the same totals a block closes at least as much at a     *)
(* price that is no higher.                                                *)
LEMMA SameBookClosesMore ==
    ASSUME NEW s, NEW r, NEW i \in Nat \ {0}, NEW j \in Nat \ {0},
           Balanced(s, i), Balanced(r, j), s.open = r.open,
           SameTotals(s.market, r.market), NEW growth \in Nat,
           NEW p \in Prices, NEW q \in Prices, q <= p, NEW a, NEW b
    PROVE  Covers(Liquidated(Accrued(s, growth, p), a),
                  Liquidated(Accrued(r, growth, q), b))
<1> DEFINE u == Accrued(s, growth, p)
           v == Accrued(r, growth, q)
<1>1. /\ \E n \in Nat \ {0} : Balanced(u, n)
      /\ u.market.price = p /\ u.open = s.open
  <2>1. InterestKeeps(s, i, growth, u) /\ u.market.price = p
    BY AccruedBalanced
  <2> HIDE DEF u
  <2> QED
    BY <2>1 DEF InterestKeeps
<1>2. /\ \E n \in Nat \ {0} : Balanced(v, n)
      /\ v.market.price = q /\ v.open = r.open
  <2>1. InterestKeeps(r, j, growth, v) /\ v.market.price = q
    BY AccruedBalanced
  <2> HIDE DEF v
  <2> QED
    BY <2>1 DEF InterestKeeps
<1>3. v.market.borrow = u.market.borrow /\ v.market.shares = u.market.shares
  <2>1. s.market \in Market /\ r.market \in Market
    BY DEF Balanced
  <2> QED
    BY <2>1 DEF Accrued, Accrue, SameTotals, Market
<1> HIDE DEF u, v
<1>4. PICK n \in Nat \ {0} : Balanced(u, n)
  BY <1>1
<1>5. Balanced(v, n)
  BY <1>2, <1>3, <1>4 DEF Balanced
<1>6. Covers(u, v) /\ n \in Nat /\ n <= n /\ p \in Nat /\ q \in Nat
  BY <1>1, <1>2, PricePositive DEF Covers
<1>7. Covers(Liquidated(u, a), Liquidated(v, b))
  BY <1>1, <1>2, <1>4, <1>5, <1>6, LowerPriceClosesMore
<1> QED
  BY <1>7 DEF u, v

(* As long as the runs do not differ they accrue alike, and then the lower *)
(* price closes at least as much.                                          *)
LEMMA FirstDifference ==
    PairInv /\ FloorInv /\ SevereLiquidatesFirst /\ PairNext => SevereLiquidatesFirst'
<1> SUFFICES ASSUME PairInv, FloorInv, SevereLiquidatesFirst, PairNext,
                    NEW i \in DOMAIN (mildTraj'),
                    \A j \in 1 .. i - 1 : SameAt(j)'
             PROVE  DOMAIN severeTraj'[i].open \subseteq DOMAIN mildTraj'[i].open
  BY DEF SevereLiquidatesFirst
<1> DEFINE k == Len(mildTraj)
<1>1. PICK g \in Growths, h \in Growths :
        /\ AccrueAlike(g, h)
        /\ mildTraj' = Append(mildTraj, AfterBlock(mild, P0, k, MildLast, g))
        /\ severeTraj' = Append(severeTraj, AfterBlock(severe, P0, k, SevereLast, h))
  BY DEF PairNext
<1> DEFINE x == AfterBlock(mild, P0, k, MildLast, g)
           y == AfterBlock(severe, P0, k, SevereLast, h)
<1>2. /\ Harsher(mild, severe) /\ P0 \in Prices /\ k \in Nat \ {0}
      /\ IsTrajectory(mildTraj) /\ IsTrajectory(severeTraj)
      /\ Len(severeTraj) = k
  BY DEF PairInv
<1>3. /\ mildTraj' = Append(mildTraj, x) /\ severeTraj' = Append(severeTraj, y)
      /\ g \in Nat /\ h \in Nat
  BY <1>1, PairAssumption
<1> HIDE DEF x, y
<1>4. /\ Len(mildTraj') = k + 1 /\ mildTraj'[Len(mildTraj')] = x
      /\ DOMAIN (mildTraj') = DOMAIN mildTraj \cup {k + 1}
      /\ \A n \in DOMAIN mildTraj : mildTraj'[n] = mildTraj[n]
  BY <1>2, <1>3, TrajectoryGrows
<1>5. /\ Len(severeTraj') = k + 1 /\ severeTraj'[Len(severeTraj')] = y
      /\ \A n \in DOMAIN severeTraj : severeTraj'[n] = severeTraj[n]
  BY <1>2, <1>3, TrajectoryGrows
<1>6. DOMAIN mildTraj = 1 .. k /\ DOMAIN severeTraj = 1 .. k
  BY <1>2 DEF IsTrajectory
<1>7. \A n \in 1 .. k : SameAt(n)' <=> SameAt(n)
  BY <1>4, <1>5, <1>6 DEF SameAt
<1>8. CASE i \in 1 .. k
  <2>1. \A j \in 1 .. i - 1 : SameAt(j)
    BY <1>2, <1>7, <1>8
  <2>2. DOMAIN severeTraj[i].open \subseteq DOMAIN mildTraj[i].open
    BY <1>6, <1>8, <2>1 DEF SevereLiquidatesFirst
  <2> QED
    BY <1>4, <1>5, <1>6, <1>8, <2>2
<1>9. CASE i = k + 1
  <2>1. \A j \in DOMAIN mildTraj : SameAt(j)
    BY <1>2, <1>6, <1>7, <1>9
  <2>2. g = h
    BY <1>1, <2>1 DEF AccrueAlike
  <2>3. /\ MildLast.open = SevereLast.open
        /\ SameTotals(MildLast.market, SevereLast.market)
    <3>1. SameAt(k)
      BY <1>2, <1>6, <2>1
    <3>2. MildLast.market.fee = SevereLast.market.fee
      BY DEF FloorInv
    <3> QED
      BY <1>2, <3>1, <3>2 DEF SameAt, SameTotals, MildLast, SevereLast
  <2>4. PICK m \in Nat \ {0}, n \in Nat \ {0} :
          Balanced(MildLast, m) /\ Balanced(SevereLast, n)
    BY DEF FloorInv
  <2> DEFINE p == OraclePriceAt(mild, P0, k)
             q == OraclePriceAt(severe, P0, k)
             a == MarketPriceAt(mild, P0, k)
             b == MarketPriceAt(severe, P0, k)
  <2>5. p \in Prices /\ q \in Prices /\ q <= p
    BY <1>2, OraclePricesOrdered
  <2>6. x = Liquidated(Accrued(MildLast, g, p), a) /\ y = Liquidated(Accrued(SevereLast, g, q), b)
    BY <2>2, BlockInHalves DEF x, y
  <2> HIDE DEF p, q, a, b
  <2>7. Covers(x, y)
    BY <1>3, <2>3, <2>4, <2>5, <2>6, SameBookClosesMore
  <2> QED
    BY <1>4, <1>5, <1>9, <2>7 DEF Covers
<1> QED
  BY <1>4, <1>6, <1>8, <1>9

(* Whatever the fee, the oracle, the shape of the fall and the positions,  *)
(* the milder run liquidates nothing first: at the first block at which    *)
(* the two differ the more severe one closes all that the milder closes.   *)
THEOREM SeverityActsFirst == PairSpec => []SevereLiquidatesFirst
<1>1. PairInit => SevereLiquidatesFirst
  <2> SUFFICES ASSUME PairInit PROVE SevereLiquidatesFirst
    OBVIOUS
  <2>1. severeTraj = mildTraj
    BY DEF PairInit
  <2> QED
    BY <2>1 DEF SevereLiquidatesFirst
<1>2. SevereLiquidatesFirst /\ UNCHANGED pairVars => SevereLiquidatesFirst'
  BY DEF SevereLiquidatesFirst, SameAt, pairVars
<1>3. PairInv /\ FloorInv /\ SevereLiquidatesFirst /\ [PairNext]_pairVars
        => SevereLiquidatesFirst'
  BY <1>2, FirstDifference
<1> QED
  BY <1>1, <1>3, PairInvariant, FloorInvariant, PTL DEF PairSpec
=============================================================================
