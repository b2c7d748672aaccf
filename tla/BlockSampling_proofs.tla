------------------------- MODULE BlockSampling_proofs -------------------------
(***************************************************************************)
(* Proofs about BlockSampling for every list of markets, cadence, window   *)
(* and chain: as long as reorganisations are no deeper than the buffer of  *)
(* safe_block, every recorded row stays canonical, whatever the endpoints  *)
(* answer and whenever the chain moves.                                    *)
(***************************************************************************)
EXTENDS BlockSampling, SumTheorems

-----------------------------------------------------------------------------
(* The greater and the lesser of two integers, as Max and Min choose them. *)
LEMMA MaxOfTwo ==
    ASSUME NEW a \in Int, NEW b \in Int
    PROVE  Max({a, b}) \in Int /\ Max({a, b}) >= a /\ Max({a, b}) >= b
              /\ Max({a, b}) \in {a, b}
<1> DEFINE S == {a, b}
<1>1. \E x \in S : \A y \in S : x >= y
  <2>1. CASE a >= b
    BY <2>1
  <2>2. CASE b >= a
    BY <2>2
  <2> QED
    BY <2>1, <2>2
<1>2. Max(S) \in S /\ \A y \in S : Max(S) >= y
  BY <1>1 DEF Max
<1> QED
  BY <1>2

(* The smaller of two integers.                                            *)
LEMMA MinOfTwo ==
    ASSUME NEW a \in Int, NEW b \in Int
    PROVE  Min({a, b}) \in Int /\ Min({a, b}) <= a
<1> DEFINE S == {a, b}
<1>1. \E x \in S : \A y \in S : x =< y
  <2>1. CASE a <= b
    BY <2>1
  <2>2. CASE b <= a
    BY <2>2
  <2> QED
    BY <2>1, <2>2
<1>2. Min(S) \in S /\ \A y \in S : Min(S) =< y
  BY <1>1 DEF Min
<1> QED
  BY <1>2

(* The highest of the blocks 0 .. h.                                       *)
LEMMA HighestBlock ==
    ASSUME NEW h \in Nat PROVE Max(0 .. h) = h
<1>1. IsFiniteSet(0 .. h)
  <2>1. 0 \in Int /\ h \in Int
    OBVIOUS
  <2> QED
    BY <2>1, FS_Interval
<1>2. h \in 0 .. h /\ 0 .. h \subseteq Int
  OBVIOUS
<1>3. Max(0 .. h) \in 0 .. h /\ Max(0 .. h) >= h
  BY <1>1, <1>2, MaxOfFinite
<1> QED
  BY <1>3

(* A multiple of the quotient does not exceed the dividend.                *)
LEMMA MultipleOfQuotient ==
    ASSUME NEW x \in Nat, NEW d \in Nat \ {0}, NEW k \in Nat, k <= x \div d
    PROVE  d * k \in Nat /\ d * k <= x
<1> DEFINE q == x \div d
<1>1. q \in Nat /\ d * q <= x
  OBVIOUS
<1> HIDE DEF q
<1>2. PICK r \in Nat : q = k + r
  <2>1. q - k \in Nat /\ q = k + (q - k)
    BY <1>1 DEF q
  <2> QED
    BY <2>1
<1>3. d * q = d * k + d * r /\ d * k \in Nat /\ d * r \in Nat
  BY <1>2
<1> QED
  BY <1>1, <1>3

-----------------------------------------------------------------------------
(* The invariant: the sampled blocks end a whole buffer below the head, so *)
(* no reorganisation reaches them, and rows are about sampled blocks.      *)
ChainInv == growth \in Nat /\ \E h \in Nat : chain \in [0 .. h -> Block]

EndInv ==
    /\ endBlock \in Nat
    /\ endBlock # 0 => endBlock + ReorgBuffer <= Latest
    /\ Latest \in Nat

RangeInv ==
    /\ first \in Nat \ {0} /\ last \in Int /\ last <= endBlock
    /\ pc = "starting" => last = 0
    /\ at \in Nat \ {0} /\ window \in Windows

RowInv ==
    /\ rows \in Seq(Row)
    /\ \A i \in DOMAIN rows : rows[i].block <= endBlock
    /\ pc = "starting" => rows = << >>

ReadInv == pc = "stamping" => at <= Visits /\ reading = chain[BlockAt(at)]

SampleInv == ChainInv /\ EndInv /\ RangeInv /\ RowInv /\ ReadInv
IInv == SampleInv /\ RowsStayCanonical

(* The head of the chain is its highest block.                             *)
LEMMA LatestIs ==
    ASSUME NEW h \in Nat, chain \in [0 .. h -> Block] PROVE Latest = h
BY HighestBlock DEF Latest

(* A visit is to a sampled block.                                          *)
LEMMA VisitedBlock ==
    ASSUME RangeInv, NEW k \in Nat \ {0}, k <= Visits
    PROVE  BlockAt(k) \in Nat /\ BlockAt(k) <= last
<1>1. Len(Created) \in Nat /\ Cadence \in Nat \ {0}
  BY SamplingAssumption
<1>2. CASE first > last
  <2>1. Samples = 0
    BY <1>2 DEF Samples
  <2>2. Visits = 0
    BY <1>1, <2>1 DEF Visits
  <2> QED
    BY <2>2
<1>3. CASE ~(first > last)
  <2> DEFINE x == last - first
             q == x \div Cadence
             r == (k - 1) % (q + 1)
  <2>1. x \in Nat
    BY <1>3 DEF RangeInv
  <2>2. q \in Nat
    BY <1>1, <2>1
  <2>3. Samples = q + 1
    BY <1>3 DEF Samples
  <2> HIDE DEF q
  <2>4. r \in Nat /\ r <= q
    BY <2>2
  <2> HIDE DEF r
  <2>5. Cadence * r \in Nat /\ Cadence * r <= x
    <3> HIDE DEF x
    <3>1. r <= x \div Cadence
      BY <2>4 DEF q
    <3> QED
      BY <1>1, <2>1, <2>4, <3>1, MultipleOfQuotient
  <2>6. BlockAt(k) = first + Cadence * r
    BY <2>3 DEF BlockAt, r
  <2> QED
    BY <2>5, <2>6 DEF RangeInv
<1> QED
  BY <1>2, <1>3 DEF RangeInv

-----------------------------------------------------------------------------
(* It holds at first: the blocks are given the sums of the gaps as times.  *)
LEMMA InitInv == Init => IInv
<1> SUFFICES ASSUME Init PROVE IInv
  OBVIOUS
<1>1. PICK h \in Heights : \E gap \in [1 .. h -> Gaps] :
         chain = [b \in 0 .. h |->
                    [branch |-> 0, ts |-> SumFunctionOnSet(gap, 1 .. b)]]
  BY DEF Init
<1>2. PICK gap \in [1 .. h -> Gaps] :
         chain = [b \in 0 .. h |->
                    [branch |-> 0, ts |-> SumFunctionOnSet(gap, 1 .. b)]]
  BY <1>1
<1>3. h \in Nat /\ Gaps \subseteq Nat
  BY SamplingAssumption
<1>4. ASSUME NEW b \in 0 .. h PROVE SumFunctionOnSet(gap, 1 .. b) \in Nat
  <2>1. b \in Int /\ 1 \in Int
    BY <1>3
  <2>2. IsFiniteSet(1 .. b)
    BY <2>1, FS_Interval
  <2>3. ASSUME NEW x \in 1 .. b PROVE gap[x] \in Nat
    <3>1. x \in 1 .. h
      BY <1>3
    <3> QED
      BY <1>3, <3>1
  <2> QED
    BY <2>2, <2>3, SumNat
<1>5. chain \in [0 .. h -> Block]
  BY <1>2, <1>4 DEF Block
<1>6. ChainInv
  BY <1>3, <1>5 DEF ChainInv, Init
<1>7. EndInv
  BY <1>3, <1>5, LatestIs DEF EndInv, Init
<1>8. RangeInv /\ RowInv /\ ReadInv /\ RowsStayCanonical
  BY DEF Init, RangeInv, RowInv, ReadInv, RowsStayCanonical
<1> QED
  BY <1>6, <1>7, <1>8 DEF IInv, SampleInv

-----------------------------------------------------------------------------
(* The chain, grown or reorganised above the sampled blocks, is the same   *)
(* chain up to them.                                                       *)
LEMMA ExtendedKeeps ==
    ASSUME ChainInv, EndInv, NEW upTo \in Nat, endBlock <= upTo, upTo <= Latest,
           NEW branch \in Nat, NEW gap \in Gaps,
           chain' = Extended(upTo, branch, gap), growth' \in Nat,
           endBlock' = endBlock
    PROVE  /\ ChainInv' /\ EndInv'
           /\ \A b \in Nat : b <= endBlock => chain'[b] = chain[b]
<1>1. PICK h \in Nat : chain \in [0 .. h -> Block]
  BY DEF ChainInv
<1>2. Latest = h
  BY <1>1, LatestIs
<1>3. gap \in Nat
  BY SamplingAssumption
<1>4. ASSUME NEW b \in 0 .. h + 1, ~(b <= upTo)
      PROVE  [branch |-> branch, ts |-> chain[upTo].ts + gap * (b - upTo)] \in Block
  <2>1. chain[upTo].ts \in Nat
    BY <1>1, <1>2 DEF Block
  <2>2. b - upTo \in Nat
    BY <1>4
  <2>3. gap * (b - upTo) \in Nat
    BY <1>3, <2>2
  <2> HIDE DEF Block
  <2>4. chain[upTo].ts + gap * (b - upTo) \in Nat
    BY <2>1, <2>3
  <2> QED
    BY <2>4 DEF Block
<1>5. \A b \in 0 .. h + 1 : b <= upTo => chain[b] \in Block
  BY <1>1, <1>2
<1>6. chain' = [b \in 0 .. h + 1 |->
                  IF b <= upTo THEN chain[b]
                  ELSE [branch |-> branch, ts |-> chain[upTo].ts + gap * (b - upTo)]]
  BY <1>2 DEF Extended
<1>7. chain' \in [0 .. h + 1 -> Block]
  BY <1>4, <1>5, <1>6
<1>8. ChainInv'
  BY <1>7 DEF ChainInv
<1>9. Latest' = h + 1
  <2>1. DOMAIN chain' = 0 .. h + 1 /\ h + 1 \in Nat
    BY <1>7
  <2> QED
    BY <2>1, HighestBlock DEF Latest
<1>10. EndInv'
  BY <1>2, <1>9, SamplingAssumption DEF EndInv
<1>11. \A b \in Nat : b <= endBlock => chain'[b] = chain[b]
  BY <1>2, <1>6 DEF EndInv
<1> QED
  BY <1>8, <1>10, <1>11

(* So a step of the chain keeps the invariant.                             *)
LEMMA ChainStepInv ==
    ASSUME IInv, NEW upTo \in Nat, endBlock <= upTo, upTo <= Latest,
           NEW branch \in Nat, NEW gap \in Gaps,
           chain' = Extended(upTo, branch, gap), growth' \in Nat,
           UNCHANGED <<config, pc, progress, reading, rows>>
    PROVE  IInv'
<1> USE DEF IInv, SampleInv
<1>1. UNCHANGED <<script, window, pc, endBlock, first, last, at, reading, rows>>
  BY DEF config, progress
<1>2. /\ ChainInv' /\ EndInv'
      /\ \A b \in Nat : b <= endBlock => chain'[b] = chain[b]
  BY <1>1, ExtendedKeeps
<1>3. RangeInv' /\ RowInv'
  BY <1>1 DEF RangeInv, RowInv
<1>4. ReadInv'
  <2> SUFFICES ASSUME pc = "stamping"
               PROVE  at <= Visits' /\ reading = chain'[BlockAt(at)']
    BY <1>1 DEF ReadInv
  <2>1. Visits' = Visits /\ BlockAt(at)' = BlockAt(at)
    BY <1>1 DEF Visits, Samples, BlockAt
  <2>2. at <= Visits /\ reading = chain[BlockAt(at)]
    BY DEF ReadInv
  <2>3. BlockAt(at) \in Nat /\ BlockAt(at) <= endBlock
    <3>1. BlockAt(at) \in Nat /\ BlockAt(at) <= last
      BY <2>2, VisitedBlock DEF RangeInv
    <3> QED
      BY <3>1 DEF RangeInv, EndInv
  <2> QED
    BY <1>2, <2>1, <2>2, <2>3
<1>5. RowsStayCanonical'
  <2> SUFFICES ASSUME NEW i \in DOMAIN rows
               PROVE  /\ rows[i].state = chain'[rows[i].block]
                      /\ rows[i].ts = chain'[rows[i].block].ts
    BY <1>1 DEF RowsStayCanonical
  <2>1. rows[i].block \in Nat /\ rows[i].block <= endBlock
    <3>1. rows \in Seq(Row) /\ rows[i].block <= endBlock
      BY DEF RowInv
    <3>2. rows[i] \in Row
      BY <3>1
    <3> QED
      BY <3>1, <3>2 DEF Row
  <2>2. /\ rows[i].state = chain[rows[i].block]
        /\ rows[i].ts = chain[rows[i].block].ts
    BY DEF RowsStayCanonical
  <2>3. chain'[rows[i].block] = chain[rows[i].block]
    BY <1>2, <2>1
  <2> QED
    BY <2>2, <2>3
<1> QED
  BY <1>2, <1>3, <1>4, <1>5

(* Every step of Next keeps it.                                            *)
LEMMA NextInv == IInv /\ [Next]_vars => IInv'
<1> SUFFICES ASSUME IInv, [Next]_vars PROVE IInv'
  OBVIOUS
<1> USE DEF IInv, SampleInv
<1>1. ASSUME UNCHANGED vars PROVE IInv'
  BY <1>1 DEF vars, env, progress, config, ChainInv, EndInv, RangeInv, RowInv, ReadInv,
              Latest, Visits, Samples, BlockAt, RowsStayCanonical
<1>2. ASSUME NEW gap \in Gaps, Grow(gap) PROVE IInv'
  <2>1. Latest \in Nat /\ endBlock <= Latest /\ endBlock \in Nat
    BY SamplingAssumption DEF EndInv
  <2>2. growth' \in Nat
    BY <1>2 DEF Grow, ChainInv
  <2> HIDE DEF IInv, SampleInv
  <2> QED
    BY <1>2, <2>1, <2>2, ChainStepInv DEF Grow
<1>3. ASSUME NEW gap \in Gaps, NEW depth \in 1 .. ReorgDepth,
             Reorganise(depth, gap)
      PROVE  IInv'
  <2>1. Latest \in Nat /\ endBlock \in Nat /\ depth <= Latest /\ depth \in Nat
    BY <1>3, SamplingAssumption DEF EndInv, Reorganise
  <2>2. Latest - depth \in Nat /\ Latest - depth <= Latest
    BY <2>1
  <2>3. endBlock <= Latest - depth
    BY <2>1, <2>2, SamplingAssumption, BufferAssumption DEF EndInv
  <2>4. growth' \in Nat
    BY <1>3 DEF Reorganise, ChainInv
  <2> HIDE DEF IInv, SampleInv
  <2> QED
    BY <1>3, <2>2, <2>3, <2>4, ChainStepInv DEF Reorganise
<1>4. ASSUME UNCHANGED <<env, config, endBlock, first, last, rows>>,
             at' \in Nat \ {0}, pc' \notin {"starting", "stamping"}
      PROVE  IInv'
  BY <1>4 DEF env, config, ChainInv, EndInv, RangeInv, RowInv, ReadInv, Latest,
              RowsStayCanonical
<1>5. ASSUME UNCHANGED <<env, config, progress, reading, rows>>, pc' = pc
      PROVE  IInv'
  BY <1>5 DEF env, config, progress, ChainInv, EndInv, RangeInv, RowInv, ReadInv,
              Latest, Visits, Samples, BlockAt, RowsStayCanonical
<1>6. CASE ReadLatest
  <2>1. Latest \in Nat /\ ReorgBuffer \in Nat /\ Latest - ReorgBuffer \in Int
    BY SamplingAssumption DEF EndInv
  <2>2. endBlock' = Max({0, Latest - ReorgBuffer})
    BY <1>6 DEF ReadLatest, SafeBlock
  <2>3. /\ endBlock' \in Int /\ endBlock' >= 0
        /\ endBlock' \in {0, Latest - ReorgBuffer}
    BY <2>1, <2>2, MaxOfTwo
  <2>4. UNCHANGED <<chain, growth, window, first, last, at, rows>>
          /\ pc = "starting" /\ pc' = "anchoring"
    BY <1>6 DEF ReadLatest, env, config
  <2>5. ChainInv' /\ EndInv'
    BY <2>1, <2>3, <2>4 DEF ChainInv, EndInv, Latest
  <2>6. RangeInv'
    BY <2>3, <2>4 DEF RangeInv
  <2>7. RowInv' /\ ReadInv' /\ RowsStayCanonical'
    BY <2>4 DEF RowInv, ReadInv, RowsStayCanonical
  <2> QED
    BY <2>5, <2>6, <2>7
<1>7. CASE LatestFails
  <2>1. UNCHANGED <<env, config, progress, reading, rows>> /\ pc' = "failed"
    BY <1>7 DEF LatestFails
  <2> QED
    BY <1>4, <2>1 DEF progress, RangeInv
<1>8. ASSUME NEW primary \in Outcomes, NEW fallback \in Outcomes,
             AnchorArrives(primary, fallback)
      PROVE  IInv'
  <2> DEFINE ts == chain[endBlock].ts
  <2>1. UNCHANGED <<chain, growth, script, window, endBlock, at, reading, rows>>
          /\ pc = "anchoring" /\ pc' = "sampling"
    BY <1>8 DEF AnchorArrives, env, config
  <2>2. first' = FirstSample(ts) /\ last' = LastSample(ts)
    BY <1>8 DEF AnchorArrives
  <2>3. ts \in Nat
    <3>1. PICK h \in Nat : chain \in [0 .. h -> Block]
      BY DEF ChainInv
    <3>2. Latest = h /\ endBlock \in 0 .. h
      BY <3>1, LatestIs, SamplingAssumption DEF EndInv
    <3> QED
      BY <3>1, <3>2 DEF Block
  <2> HIDE DEF ts
  <2>4. \A seconds \in Int : BlocksIn(seconds) \in Int
    BY SamplingAssumption DEF BlocksIn
  <2>5. ts - window.start \in Int /\ ts - window.end \in Int
    BY <2>3, SamplingAssumption DEF RangeInv
  <2>6. first' \in Nat \ {0}
    <3> DEFINE b == endBlock - BlocksIn(ts - window.start)
    <3>1. b \in Int
      BY <2>4, <2>5 DEF EndInv
    <3>2. first' = Max({1, b})
      BY <2>2 DEF FirstSample
    <3> HIDE DEF b
    <3>3. Max({1, b}) \in Int /\ Max({1, b}) >= 1
      BY <3>1, MaxOfTwo
    <3> QED
      BY <3>2, <3>3
  <2>7. last' \in Int /\ last' <= endBlock
    <3>1. endBlock \in Int /\ endBlock - BlocksIn(ts - window.end) \in Int
      BY <2>4, <2>5 DEF EndInv
    <3> QED
      BY <2>2, <3>1, MinOfTwo DEF LastSample
  <2>8. RangeInv'
    BY <2>1, <2>6, <2>7 DEF RangeInv
  <2> QED
    BY <2>1, <2>8 DEF ChainInv, EndInv, Latest, RowInv, ReadInv, RowsStayCanonical
<1>9. ASSUME NEW primary \in Outcomes, NEW fallback \in Outcomes,
             Stamp(primary, fallback)
      PROVE  IInv'
  <2> DEFINE row == [visit |-> at, block |-> BlockAt(at),
                     state |-> reading, ts |-> chain[BlockAt(at)].ts]
  <2>1. UNCHANGED <<chain, growth, script, window, endBlock, first, last, reading>>
          /\ pc = "stamping" /\ pc' = "sampling"
    BY <1>9 DEF Stamp, env, config
  <2>2. rows' = Append(rows, row) /\ at' = at + 1
    BY <1>9 DEF Stamp
  <2>3. BlockAt(at) \in Nat /\ BlockAt(at) <= endBlock
    <3>1. BlockAt(at) \in Nat /\ BlockAt(at) <= last
      BY <2>1, VisitedBlock DEF RangeInv, ReadInv
    <3> QED
      BY <3>1 DEF RangeInv, EndInv
  <2>4. reading = chain[BlockAt(at)]
    BY <2>1 DEF ReadInv
  <2>5. chain[BlockAt(at)] \in Block
    <3>1. PICK h \in Nat : chain \in [0 .. h -> Block]
      BY DEF ChainInv
    <3>2. Latest = h /\ BlockAt(at) \in 0 .. h
      BY <2>3, <3>1, LatestIs, SamplingAssumption DEF EndInv
    <3> QED
      BY <3>1, <3>2
  <2>6. row \in Row /\ row.block <= endBlock
    <3>1. chain[BlockAt(at)].ts \in Nat /\ at \in Nat
      BY <2>5 DEF Block, RangeInv
    <3> QED
      BY <2>3, <2>4, <2>5, <3>1 DEF Row
  <2>7. row.state = chain[row.block] /\ row.ts = chain[row.block].ts
    BY <2>4
  <2> HIDE DEF row
  <2>8. rows \in Seq(Row)
    BY DEF RowInv
  <2>9. rows' \in Seq(Row)
    BY <2>2, <2>6, <2>8
  <2>10. ASSUME NEW i \in DOMAIN rows'
         PROVE  \/ i \in DOMAIN rows /\ rows'[i] = rows[i]
                \/ rows'[i] = row
    BY <2>2, <2>8
  <2>11. RowInv'
    <3>1. \A i \in DOMAIN rows' : rows'[i].block <= endBlock
      BY <2>6, <2>10 DEF RowInv
    <3> QED
      BY <2>1, <2>9, <3>1 DEF RowInv
  <2>12. RowsStayCanonical'
    <3>1. ASSUME NEW i \in DOMAIN rows'
          PROVE  /\ rows'[i].state = chain[rows'[i].block]
                 /\ rows'[i].ts = chain[rows'[i].block].ts
      BY <2>7, <2>10 DEF RowsStayCanonical
    <3> QED
      BY <2>1, <3>1 DEF RowsStayCanonical
  <2>13. RangeInv'
    BY <2>1, <2>2 DEF RangeInv
  <2>14. ChainInv' /\ EndInv' /\ ReadInv'
    BY <2>1 DEF ChainInv, EndInv, Latest, ReadInv
  <2> QED
    BY <2>11, <2>12, <2>13, <2>14
<1>10. ASSUME NEW primary \in Outcomes, NEW fallback \in Outcomes,
              AttemptFails(primary, fallback) \/ AttemptRaises(primary, fallback)
       PROVE  IInv'
  <2>1. UNCHANGED <<env, config, progress, reading, rows>>
          /\ (pc' = pc \/ pc' = "aborted")
    BY <1>10 DEF AttemptFails, AttemptRaises
  <2>2. UNCHANGED <<endBlock, first, last>> /\ at' \in Nat \ {0}
    BY <2>1 DEF progress, RangeInv
  <2> QED
    BY <1>4, <1>5, <2>1, <2>2
<1>11. CASE CallAnswers
  <2>1. UNCHANGED <<chain, growth, script, window, endBlock, first, last, at, rows>>
    BY <1>11 DEF CallAnswers, env, config, progress
  <2>2. pc = "sampling" /\ pc' = "stamping" /\ at <= Visits
          /\ reading' = chain[BlockAt(at)]
    BY <1>11 DEF CallAnswers
  <2>3. ReadInv'
    BY <2>1, <2>2 DEF ReadInv, Visits, Samples, BlockAt
  <2> QED
    BY <2>1, <2>2, <2>3 DEF ChainInv, EndInv, Latest, RangeInv, RowInv, RowsStayCanonical
<1>12. CASE CallFails
  <2>1. UNCHANGED <<env, config, endBlock, first, last, rows>>
          /\ at' = at + 1 /\ pc' = "sampling"
    BY <1>12 DEF CallFails
  <2> QED
    BY <1>4, <2>1 DEF RangeInv
<1>13. CASE Finish
  <2>1. UNCHANGED <<env, config, endBlock, first, last, at, rows>>
          /\ pc' \notin {"starting", "stamping"}
    BY <1>13 DEF Finish, progress
  <2> QED
    BY <1>4, <2>1 DEF RangeInv
<1> HIDE DEF IInv, SampleInv
<1> QED
  BY <1>1, <1>2, <1>3, <1>6, <1>7, <1>8, <1>9, <1>10, <1>11, <1>12, <1>13
     DEF Next, ScriptStep, GetBlock, ChainStep

-----------------------------------------------------------------------------
(* What is recorded stays true: the state and the timestamp of every row   *)
(* are those of the canonical block for ever, although the two requests    *)
(* are made one after the other on a chain that reorganises.               *)
THEOREM RecordedStaysCanonical == Spec => []RowsStayCanonical
<1>1. IInv => RowsStayCanonical
  BY DEF IInv
<1> QED
  BY InitInv, NextInv, <1>1, PTL DEF Spec

-----------------------------------------------------------------------------
(* Holes.  While nothing is sampled no visit has been made, and the visit  *)
(* whose timestamp is asked for is one at which the market existed.        *)
HoleInv ==
    /\ at \in Nat \ {0} /\ rows \in Seq(Row)
    /\ pc \in {"starting", "anchoring"} =>
          at = 1 /\ rows = << >> /\ failedCalls = {}
    /\ pc = "stamping" => Exists(at)
    /\ HoleMeansAFailedCall

Recorded == {rows[i].visit : i \in DOMAIN rows}

(* At first there is neither a row nor a failed call.                      *)
LEMMA HoleInit == Init => HoleInv
BY DEF Init, HoleInv, HoleMeansAFailedCall

(* One more visit: it counts only if the market existed.                   *)
LEMMA OneMoreVisit ==
    ASSUME at \in Nat \ {0}, UNCHANGED <<first, last>>, at' = at + 1
    PROVE  {k \in 1 .. at' - 1 : Exists(k)'} =
              {k \in 1 .. at - 1 : Exists(k)} \cup (IF Exists(at) THEN {at} ELSE {})
<1>1. \A k : Exists(k)' <=> Exists(k)
  BY DEF Exists, BlockAt, MarketAt, Samples
<1>2. 1 .. at' - 1 = (1 .. at - 1) \cup {at}
  OBVIOUS
<1> QED
  BY <1>1, <1>2

(* Every step keeps the account of the holes.                              *)
LEMMA HoleNext == IInv /\ HoleInv /\ [Next]_vars => HoleInv'
<1> SUFFICES ASSUME IInv, HoleInv, [Next]_vars PROVE HoleInv'
  OBVIOUS
<1>1. ASSUME UNCHANGED <<first, last, at, rows, failedCalls>>,
             pc' \in {"starting", "anchoring"} => pc' = pc,
             pc' = "stamping" => pc = "stamping" \/ Exists(at)
      PROVE  HoleInv'
  <2>1. \A k : Exists(k)' <=> Exists(k)
    BY <1>1 DEF Exists, BlockAt, MarketAt, Samples
  <2>2. HoleMeansAFailedCall'
    BY <1>1, <2>1 DEF HoleInv, HoleMeansAFailedCall
  <2>3. Exists(at)' <=> Exists(at)
    BY <1>1 DEF Exists, BlockAt, MarketAt, Samples
  <2> QED
    BY <1>1, <2>2, <2>3 DEF HoleInv
<1>2. CASE ReadLatest
  <2>1. at = 1 /\ rows = << >> /\ failedCalls = {} /\ pc' = "anchoring"
          /\ UNCHANGED <<at, rows, failedCalls>>
    BY <1>2 DEF ReadLatest, HoleInv
  <2> QED
    BY <2>1 DEF HoleInv, HoleMeansAFailedCall
<1>3. ASSUME NEW primary, NEW fallback, AnchorArrives(primary, fallback)
      PROVE  HoleInv'
  <2>1. at = 1 /\ rows = << >> /\ failedCalls = {} /\ pc' = "sampling"
          /\ UNCHANGED <<at, rows, failedCalls>>
    BY <1>3 DEF AnchorArrives, HoleInv
  <2> QED
    BY <2>1 DEF HoleInv, HoleMeansAFailedCall
<1>4. ASSUME NEW primary \in Outcomes, NEW fallback \in Outcomes,
             Stamp(primary, fallback)
      PROVE  HoleInv'
  <2> DEFINE row == [visit |-> at, block |-> BlockAt(at),
                     state |-> reading, ts |-> chain[BlockAt(at)].ts]
  <2>1. UNCHANGED <<first, last, failedCalls>> /\ at' = at + 1 /\ pc = "stamping"
          /\ pc' = "sampling" /\ rows' = Append(rows, row)
    BY <1>4 DEF Stamp
  <2>2. rows' \in Seq(Row) /\ rows \in Seq(Row)
    <3>1. IInv'
      BY NextInv
    <3> QED
      BY <3>1 DEF IInv, SampleInv, RowInv, HoleInv
  <2>3. row.visit = at
    OBVIOUS
  <2> HIDE DEF row
  <2>4. Recorded' = Recorded \cup {at}
    <3>1. DOMAIN rows' = DOMAIN rows \cup {Len(rows) + 1} /\ rows'[Len(rows) + 1] = row
            /\ \A i \in DOMAIN rows : rows'[i] = rows[i]
      BY <2>1, <2>2
    <3> QED
      BY <2>3, <3>1 DEF Recorded
  <2>5. HoleMeansAFailedCall'
    BY <2>1, <2>4, OneMoreVisit DEF HoleInv, HoleMeansAFailedCall, Recorded
  <2> QED
    BY <2>1, <2>2, <2>5 DEF HoleInv
<1>5. CASE CallFails
  <2>1. UNCHANGED <<first, last, rows>> /\ at' = at + 1 /\ pc = "sampling" /\ pc' = pc
          /\ failedCalls' = IF Exists(at) THEN failedCalls \cup {at} ELSE failedCalls
    BY <1>5 DEF CallFails
  <2>2. HoleMeansAFailedCall'
    BY <2>1, OneMoreVisit DEF HoleInv, HoleMeansAFailedCall
  <2> QED
    BY <2>1, <2>2 DEF HoleInv
<1>6. CASE CallAnswers
  BY <1>1, <1>6 DEF CallAnswers, progress
<1>7. CASE LatestFails \/ Finish
  BY <1>1, <1>7 DEF LatestFails, Finish, progress
<1>8. ASSUME NEW primary, NEW fallback,
             AttemptFails(primary, fallback) \/ AttemptRaises(primary, fallback)
      PROVE  HoleInv'
  <2>1. UNCHANGED <<progress, rows, failedCalls>> /\ (pc' = pc \/ pc' = "aborted")
    BY <1>8 DEF AttemptFails, AttemptRaises
  <2> QED
    BY <1>1, <2>1 DEF progress
<1>9. ASSUME NEW gap, Grow(gap) \/ \E depth \in 1 .. ReorgDepth : Reorganise(depth, gap)
      PROVE  HoleInv'
  BY <1>1, <1>9 DEF Grow, Reorganise, progress
<1>10. CASE UNCHANGED vars
  BY <1>1, <1>10 DEF vars, progress
<1> QED
  BY <1>2, <1>3, <1>4, <1>5, <1>6, <1>7, <1>8, <1>9, <1>10
     DEF Next, ScriptStep, GetBlock, ChainStep

(* A hole in a series is a call that failed: whatever else happens to a    *)
(* script, a sample at which the market existed is a row or a failed call. *)
THEOREM HolesAreFailures == Spec => []HoleMeansAFailedCall
<1>1. Init => IInv /\ HoleInv
  BY InitInv, HoleInit
<1>2. (IInv /\ HoleInv) /\ [Next]_vars => (IInv /\ HoleInv)'
  BY NextInv, HoleNext
<1>3. HoleInv => HoleMeansAFailedCall
  BY DEF HoleInv
<1> QED
  BY <1>1, <1>2, <1>3, PTL DEF Spec

-----------------------------------------------------------------------------
(* Attempts at a block: while get_block is being tried, every endpoint it  *)
(* may use has failed as often as there were attempts.                     *)
Used == IF HasFallback THEN Endpoints ELSE {"primary"}

TryInv ==
    /\ faults \in [Endpoints -> Seq(Outcomes)] /\ attempt \in Nat
    /\ pc \in {"starting", "anchoring", "sampling", "stamping"} =>
          \A e \in Used : Len(faults[e]) = attempt
    /\ AbortsOnlyWhenAllFail

(* An attempt notes at most one outcome per endpoint, and one at those it  *)
(* asked.                                                                  *)
LEMMA NotedOnce ==
    ASSUME faults \in [Endpoints -> Seq(Outcomes)],
           NEW primary \in Outcomes, NEW fallback \in Outcomes
    PROVE  /\ Noted(primary, fallback) \in [Endpoints -> Seq(Outcomes)]
           /\ \A e \in Asked(primary) :
                /\ Len(Noted(primary, fallback)[e]) = Len(faults[e]) + 1
                /\ Noted(primary, fallback)[e][Len(faults[e]) + 1] =
                     (IF e = "primary" THEN primary ELSE fallback)
<1>1. Asked(primary) \subseteq Endpoints
  BY DEF Asked, Endpoints
<1>2. ASSUME NEW e \in Endpoints
      PROVE  /\ Noted(primary, fallback)[e] \in Seq(Outcomes)
             /\ e \in Asked(primary) =>
                  /\ Len(Noted(primary, fallback)[e]) = Len(faults[e]) + 1
                  /\ Noted(primary, fallback)[e][Len(faults[e]) + 1] =
                       (IF e = "primary" THEN primary ELSE fallback)
  <2> DEFINE o == IF e = "primary" THEN primary ELSE fallback
  <2>1. faults[e] \in Seq(Outcomes) /\ o \in Outcomes
    OBVIOUS
  <2>2. Noted(primary, fallback)[e] =
          (IF e \notin Asked(primary) THEN faults[e] ELSE Append(faults[e], o))
    BY DEF Noted
  <2> HIDE DEF o
  <2>3. Append(faults[e], o) \in Seq(Outcomes)
          /\ Len(Append(faults[e], o)) = Len(faults[e]) + 1
          /\ Append(faults[e], o)[Len(faults[e]) + 1] = o
    BY <2>1
  <2> QED
    BY <2>1, <2>2, <2>3 DEF o
<1>3. Noted(primary, fallback) \in [Endpoints -> Seq(Outcomes)]
  BY <1>2 DEF Noted
<1> QED
  BY <1>1, <1>2, <1>3

(* Nothing has been tried at first.                                        *)
LEMMA TryInit == Init => TryInv
<1> SUFFICES ASSUME Init PROVE TryInv
  OBVIOUS
<1>1. \A e \in Endpoints : NoFaults[e] = << >>
  BY DEF NoFaults
<1>2. NoFaults \in [Endpoints -> Seq(Outcomes)]
  BY DEF NoFaults
<1>3. Used \subseteq Endpoints
  BY DEF Used, Endpoints
<1> QED
  BY <1>1, <1>2, <1>3 DEF Init, TryInv, AbortsOnlyWhenAllFail

(* Every step keeps it.                                                    *)
LEMMA TryNext == TryInv /\ [Next]_vars => TryInv'
<1> SUFFICES ASSUME TryInv, [Next]_vars PROVE TryInv'
  OBVIOUS
<1>1. ASSUME UNCHANGED <<attempt, faults>>,
             pc' = pc \/ (pc' # "aborted" /\ pc \in {"starting", "anchoring", "sampling", "stamping"})
      PROVE  TryInv'
  BY <1>1 DEF TryInv, AbortsOnlyWhenAllFail, Used
<1>2. ASSUME NEW primary, NEW fallback,
             AnchorArrives(primary, fallback) \/ Stamp(primary, fallback)
      PROVE  TryInv'
  <2>1. pc' = "sampling" /\ attempt' = 0 /\ faults' = NoFaults
    BY <1>2 DEF AnchorArrives, Stamp
  <2>2. \A e \in Endpoints : NoFaults[e] = << >>
    BY DEF NoFaults
  <2>3. NoFaults \in [Endpoints -> Seq(Outcomes)] /\ Used \subseteq Endpoints
    BY DEF NoFaults, Used, Endpoints
  <2> QED
    BY <2>1, <2>2, <2>3 DEF TryInv, AbortsOnlyWhenAllFail
<1>3. ASSUME NEW primary \in Outcomes, NEW fallback \in Outcomes,
             AttemptFails(primary, fallback)
      PROVE  TryInv'
  <2>1. /\ pc \in {"anchoring", "stamping"} /\ attempt' = attempt + 1
        /\ AttemptOutcome(primary, fallback) = "retryable"
        /\ pc' = (IF attempt' = Attempts THEN "aborted" ELSE pc)
        /\ faults' = Noted(primary, fallback)
    BY <1>3 DEF AttemptFails
  <2>2. Asked(primary) = Used
    BY <2>1 DEF AttemptOutcome, Asked, Used, Endpoints
  <2>3. attempt \in Nat /\ faults \in [Endpoints -> Seq(Outcomes)]
          /\ \A e \in Used : Len(faults[e]) = attempt
    BY <2>1 DEF TryInv
  <2>4. faults' \in [Endpoints -> Seq(Outcomes)]
          /\ \A e \in Used : Len(faults'[e]) = attempt'
    BY <2>1, <2>2, <2>3, NotedOnce
  <2>5. AbortsOnlyWhenAllFail'
    <3>1. CASE attempt' = Attempts
      BY <2>4, <3>1 DEF AbortsOnlyWhenAllFail, Used
    <3>2. CASE attempt' # Attempts
      BY <2>1, <3>2 DEF AbortsOnlyWhenAllFail
    <3> QED
      BY <3>1, <3>2
  <2> QED
    BY <2>1, <2>3, <2>4, <2>5 DEF TryInv, Used
<1>4. ASSUME NEW primary \in Outcomes, NEW fallback \in Outcomes,
             AttemptRaises(primary, fallback)
      PROVE  TryInv'
  <2>1. /\ pc' = "aborted" /\ attempt' = attempt
        /\ AttemptOutcome(primary, fallback) = "other"
        /\ faults' = Noted(primary, fallback)
    BY <1>4 DEF AttemptRaises
  <2>2. PICK e \in Asked(primary) :
           (IF e = "primary" THEN primary ELSE fallback) = "other"
    <3>1. CASE "fallback" \in Asked(primary)
      BY <2>1, <3>1 DEF AttemptOutcome
    <3>2. CASE "fallback" \notin Asked(primary)
      BY <2>1, <3>2 DEF AttemptOutcome, Asked, Endpoints
    <3> QED
      BY <3>1, <3>2
  <2>3. e \in Endpoints
    BY DEF Asked, Endpoints
  <2>4. faults \in [Endpoints -> Seq(Outcomes)]
    BY DEF TryInv
  <2>5. /\ faults' \in [Endpoints -> Seq(Outcomes)]
        /\ Len(faults'[e]) = Len(faults[e]) + 1
        /\ faults'[e][Len(faults[e]) + 1] = "other"
    <3> DEFINE noted == Noted(primary, fallback)
    <3>1. /\ noted \in [Endpoints -> Seq(Outcomes)]
          /\ Len(noted[e]) = Len(faults[e]) + 1
          /\ noted[e][Len(faults[e]) + 1] = (IF e = "primary" THEN primary ELSE fallback)
      BY <2>4, NotedOnce
    <3> HIDE DEF noted
    <3>2. noted[e][Len(faults[e]) + 1] = "other"
      BY <2>2, <3>1
    <3>3. faults' = noted
      BY <2>1 DEF noted
    <3> QED
      BY <3>1, <3>2, <3>3
  <2>6. Len(faults[e]) + 1 \in DOMAIN faults'[e]
    <3>1. faults[e] \in Seq(Outcomes) /\ faults'[e] \in Seq(Outcomes)
      BY <2>3, <2>4, <2>5
    <3> QED
      BY <2>5, <3>1
  <2>7. "other" \in {faults'[e][i] : i \in DOMAIN faults'[e]}
    BY <2>5, <2>6
  <2>8. AbortsOnlyWhenAllFail'
    BY <2>3, <2>7 DEF AbortsOnlyWhenAllFail
  <2> QED
    BY <2>1, <2>5, <2>8 DEF TryInv
<1>5. CASE ReadLatest \/ LatestFails \/ CallAnswers \/ CallFails \/ Finish
  BY <1>1, <1>5 DEF ReadLatest, LatestFails, CallAnswers, CallFails, Finish
<1>6. ASSUME NEW gap, Grow(gap) \/ \E depth \in 1 .. ReorgDepth : Reorganise(depth, gap)
      PROVE  TryInv'
  BY <1>1, <1>6 DEF Grow, Reorganise
<1>7. CASE UNCHANGED vars
  BY <1>1, <1>7 DEF vars
<1> QED
  BY <1>2, <1>3, <1>4, <1>5, <1>6, <1>7 DEF Next, ScriptStep, GetBlock, ChainStep

(* A primary that is down does not end a script: it takes an error of      *)
(* another kind, or every endpoint failing every attempt at one block.     *)
THEOREM OutageDoesNotAbort == Spec => []AbortsOnlyWhenAllFail
<1>1. TryInv => AbortsOnlyWhenAllFail
  BY DEF TryInv
<1> QED
  BY <1>1, TryInit, TryNext, PTL DEF Spec

-----------------------------------------------------------------------------
(* The window.  Blocks are at least BlockTime apart; the range of samples  *)
(* is counted back from the end block, and every row is of a block in it.  *)
Spaced ==
    \A a, b \in 0 .. Latest :
        a <= b => chain[b].ts >= chain[a].ts + BlockTime * (b - a)

Ranged ==
    pc \in {"sampling", "stamping", "done"} =>
        /\ first = FirstSample(chain[endBlock].ts)
        /\ last = LastSample(chain[endBlock].ts)

RowsInRange ==
    /\ pc \in {"starting", "anchoring"} => rows = << >>
    /\ \A i \in DOMAIN rows : rows[i].block <= last

CoverInv == Spaced /\ Ranged /\ RowsInRange

(* Products, as the provers do not find them.                              *)
LEMMA ProductsOfTime ==
    ASSUME NEW x \in Nat, NEW y \in Nat, NEW gap \in Gaps
    PROVE  /\ BlockTime * x \in Nat /\ gap * x \in Nat
           /\ BlockTime * x <= gap * x
           /\ BlockTime * (x + y) = BlockTime * x + BlockTime * y
           /\ gap * (x + y) = gap * x + gap * y
           /\ BlockTime * (x + 1) = BlockTime * x + BlockTime
<1>1. gap \in Nat /\ BlockTime \in Nat /\ gap >= BlockTime
  BY SamplingAssumption
<1>2. PICK r \in Nat : gap = BlockTime + r
  <2>1. gap - BlockTime \in Nat /\ gap = BlockTime + (gap - BlockTime)
    BY <1>1
  <2> QED
    BY <2>1
<1>3. gap * x = BlockTime * x + r * x /\ r * x \in Nat
  BY <1>1, <1>2
<1> QED
  BY <1>1, <1>3

(* The first chain is spaced: each block comes a gap after the one before. *)
LEMMA InitSpaced == Init => Spaced
<1> SUFFICES ASSUME Init PROVE Spaced
  OBVIOUS
<1>1. PICK h \in Heights : \E gap \in [1 .. h -> Gaps] :
         chain = [b \in 0 .. h |->
                    [branch |-> 0, ts |-> SumFunctionOnSet(gap, 1 .. b)]]
  BY DEF Init
<1>2. PICK gap \in [1 .. h -> Gaps] :
         chain = [b \in 0 .. h |->
                    [branch |-> 0, ts |-> SumFunctionOnSet(gap, 1 .. b)]]
  BY <1>1
<1> DEFINE ts(b) == SumFunctionOnSet(gap, 1 .. b)
<1>3. h \in Nat /\ Gaps \subseteq Nat /\ BlockTime \in Nat
  BY SamplingAssumption
<1>4. ASSUME NEW b \in 0 .. h
      PROVE  /\ IsFiniteSet(1 .. b) /\ \A x \in 1 .. b : gap[x] \in Nat
             /\ ts(b) \in Nat /\ chain[b].ts = ts(b)
  <2>1. b \in Int /\ 1 \in Int
    BY <1>3
  <2>2. IsFiniteSet(1 .. b)
    BY <2>1, FS_Interval
  <2>3. ASSUME NEW x \in 1 .. b PROVE gap[x] \in Nat
    <3>1. x \in 1 .. h
      BY <1>3
    <3> QED
      BY <1>3, <3>1
  <2>4. chain[b].ts = ts(b)
    BY <1>2
  <2> QED
    BY <2>2, <2>3, <2>4, SumNat
<1>5. ASSUME NEW b \in 1 .. h
      PROVE  b - 1 \in 0 .. h /\ ts(b) >= ts(b - 1) + BlockTime
  <2>1. b \in 0 .. h /\ b - 1 \in 0 .. h /\ b \in 1 .. b
          /\ (1 .. b) \ {b} = 1 .. b - 1
    BY <1>3
  <2>2. SumFunctionOnSet(gap, 1 .. b)
          = gap[b] + SumFunctionOnSet(gap, (1 .. b) \ {b})
    BY <1>4, <2>1, SumRemove
  <2>3. gap[b] \in Gaps /\ gap[b] >= BlockTime /\ gap[b] \in Nat
    BY SamplingAssumption, <1>3
  <2>4. ts(b) = gap[b] + ts(b - 1)
    BY <2>1, <2>2
  <2>5. ts(b - 1) \in Nat
    BY <1>4, <2>1
  <2> HIDE DEF ts
  <2> QED
    BY <1>3, <2>1, <2>3, <2>4, <2>5
<1> HIDE DEF ts
<1>6. ASSUME NEW a \in 0 .. h
      PROVE  \A b \in a .. h : ts(b) >= ts(a) + BlockTime * (b - a)
  <2> DEFINE Bad == {b \in a .. h : ~(ts(b) >= ts(a) + BlockTime * (b - a))}
  <2>1. SUFFICES ASSUME Bad # {} PROVE FALSE
    OBVIOUS
  <2>2. IsFiniteSet(Bad) /\ Bad \subseteq Int
    <3>1. a \in Int /\ h \in Int
      BY <1>3
    <3>2. IsFiniteSet(a .. h)
      BY <3>1, FS_Interval
    <3>3. Bad \subseteq a .. h
      OBVIOUS
    <3> HIDE DEF Bad
    <3>4. IsFiniteSet(Bad)
      BY <3>2, <3>3, FS_Subset
    <3>5. a .. h \subseteq Int
      BY <3>1
    <3> QED
      BY <3>3, <3>4, <3>5
  <2> DEFINE b == Min(Bad)
  <2>3. b \in Bad /\ \A y \in Bad : b =< y
    <3> HIDE DEF Bad
    <3> QED
      BY <2>1, <2>2, MinOfFinite
  <2> HIDE DEF b
  <2>4. b \in a .. h /\ ~(ts(b) >= ts(a) + BlockTime * (b - a))
    BY <2>3
  <2>5. b # a
    <3>1. a \in 0 .. h /\ a - a = 0 /\ BlockTime * 0 = 0
      BY <1>3
    <3>2. ts(a) \in Nat
      BY <1>4
    <3> QED
      BY <2>4, <3>1, <3>2
  <2>6. b \in 1 .. h /\ b - 1 \in a .. h /\ b - 1 < b
    BY <1>3, <2>4, <2>5
  <2>7. ts(b - 1) >= ts(a) + BlockTime * ((b - 1) - a)
    BY <2>3, <2>6
  <2> DEFINE x == (b - 1) - a
  <2>8. /\ x \in Nat /\ b - a = x + 1 /\ ts(b - 1) >= ts(a) + BlockTime * x
        /\ ~(ts(b) >= ts(a) + BlockTime * (b - a))
    BY <1>3, <2>4, <2>6, <2>7
  <2> HIDE DEF x
  <2>9. BlockTime * (x + 1) = BlockTime * x + BlockTime /\ BlockTime * x \in Nat
    BY <1>3, <2>8
  <2>10. ts(a) \in Nat /\ ts(b) \in Nat /\ ts(b - 1) \in Nat
    BY <1>3, <1>4, <2>4, <2>6
  <2>11. ts(b) >= ts(b - 1) + BlockTime
    BY <1>5, <2>6
  <2> QED
    <3>1. ~(ts(b) >= ts(a) + BlockTime * (x + 1))
      BY <2>8
    <3> QED
      BY <1>3, <2>8, <2>9, <2>10, <2>11, <3>1
<1>7. chain \in [0 .. h -> Block]
  BY <1>2, <1>4 DEF Block, ts
<1>8. Latest = h
  BY <1>3, <1>7, LatestIs
<1>9. ASSUME NEW a \in 0 .. Latest, NEW b \in 0 .. Latest, a <= b
      PROVE  chain[b].ts >= chain[a].ts + BlockTime * (b - a)
  <2>1. a \in 0 .. h /\ b \in 0 .. h /\ b \in a .. h
    BY <1>3, <1>8, <1>9
  <2>2. ts(b) >= ts(a) + BlockTime * (b - a)
    BY <1>6, <2>1
  <2>3. chain[a].ts = ts(a) /\ chain[b].ts = ts(b)
    BY <1>4, <2>1
  <2> QED
    BY <2>2, <2>3
<1> QED
  BY <1>9 DEF Spaced

(* It stays so as the chain grows and reorganises.                         *)
LEMMA ExtendedSpaced ==
    ASSUME ChainInv, Spaced, NEW upTo \in Nat, upTo <= Latest,
           NEW branch \in Nat, NEW gap \in Gaps,
           chain' = Extended(upTo, branch, gap)
    PROVE  Spaced'
<1>1. PICK h \in Nat : chain \in [0 .. h -> Block]
  BY DEF ChainInv
<1>2. Latest = h
  BY <1>1, LatestIs
<1>3. Latest' = h + 1
  <2>1. DOMAIN chain' = 0 .. h + 1 /\ h + 1 \in Nat
    BY <1>2 DEF Extended
  <2> QED
    BY <2>1, HighestBlock DEF Latest
<1>4. \A b \in 0 .. h : chain[b].ts \in Nat
  BY <1>1 DEF Block
<1>5. \A b \in 0 .. h + 1 : b <= upTo => b \in 0 .. h /\ chain'[b].ts = chain[b].ts
  BY <1>2 DEF Extended
<1>6. ASSUME NEW b \in 0 .. h + 1, ~(b <= upTo)
      PROVE  /\ chain'[b].ts = chain[upTo].ts + gap * (b - upTo)
             /\ b - upTo \in Nat
  BY <1>2, <1>6 DEF Extended
<1>7. ASSUME NEW a \in 0 .. h + 1, NEW b \in 0 .. h + 1, a <= b
      PROVE  chain'[b].ts >= chain'[a].ts + BlockTime * (b - a)
  <2>1. CASE b <= upTo
    <3>1. a \in 0 .. h /\ b \in 0 .. h /\ a <= upTo
      BY <1>5, <1>7, <2>1
    <3>2. chain[b].ts >= chain[a].ts + BlockTime * (b - a)
      BY <1>2, <1>7, <3>1 DEF Spaced
    <3> QED
      BY <1>5, <2>1, <3>1, <3>2
  <2>2. CASE a <= upTo /\ ~(b <= upTo)
    <3> DEFINE x == b - upTo
               y == upTo - a
               u == chain[upTo].ts
    <3>1. x \in Nat /\ y \in Nat /\ b - a = x + y /\ upTo \in 0 .. h
      BY <1>2, <1>7, <2>2
    <3>2. /\ BlockTime * x \in Nat /\ BlockTime * y \in Nat /\ gap * x \in Nat
          /\ BlockTime * x <= gap * x
          /\ BlockTime * (x + y) = BlockTime * x + BlockTime * y
      BY <3>1, ProductsOfTime
    <3>3. chain'[b].ts = u + gap * x
      BY <1>6, <2>2
    <3>4. chain'[a].ts = chain[a].ts /\ a \in 0 .. h
      BY <1>5, <2>2
    <3>5. u >= chain[a].ts + BlockTime * y
      BY <1>2, <2>2, <3>1, <3>4 DEF Spaced
    <3>6. u \in Nat /\ chain[a].ts \in Nat
      BY <1>4, <3>1, <3>4
    <3> HIDE DEF x, y, u
    <3> QED
      BY <3>1, <3>2, <3>3, <3>4, <3>5, <3>6
  <2>3. CASE ~(a <= upTo)
    <3> DEFINE x == a - upTo
               y == b - a
               u == chain[upTo].ts
    <3>1. x \in Nat /\ y \in Nat /\ b - upTo = x + y /\ upTo \in 0 .. h
      BY <1>2, <1>7, <2>3
    <3>2. /\ BlockTime * y \in Nat /\ gap * x \in Nat /\ gap * y \in Nat
          /\ BlockTime * y <= gap * y /\ gap * (x + y) = gap * x + gap * y
      <4> HIDE DEF x, y
      <4> QED
        BY <3>1, ProductsOfTime, ZenonT(40)
    <3>3. ~(b <= upTo)
      BY <1>7, <2>3
    <3>4. chain'[b].ts = u + gap * (b - upTo) /\ chain'[a].ts = u + gap * x
      BY <1>6, <2>3, <3>3
    <3>5. u \in Nat
      BY <1>4, <3>1
    <3>6. chain'[b].ts = u + gap * (x + y)
      BY <3>1, <3>4
    <3> HIDE DEF x, u
    <3>7. chain'[b].ts >= chain'[a].ts + BlockTime * y
      <4> HIDE DEF y
      <4> QED
        BY <3>1, <3>2, <3>4, <3>5, <3>6
    <3> QED
      BY <3>7
  <2> QED
    BY <2>1, <2>2, <2>3
<1>8. \A a, b \in 0 .. Latest' : a <= b => chain'[b].ts >= chain'[a].ts + BlockTime * (b - a)
  BY <1>3, <1>7
<1> QED
  BY <1>8 DEF Spaced

(* At first nothing is sampled.                                            *)
LEMMA InitCover == Init => CoverInv
  BY InitSpaced DEF Init, CoverInv, Ranged, RowsInRange

(* Every step keeps it.                                                    *)
LEMMA NextCover == IInv /\ CoverInv /\ [Next]_vars => CoverInv'
<1> SUFFICES ASSUME IInv, CoverInv, [Next]_vars PROVE CoverInv'
  OBVIOUS
<1> USE DEF CoverInv
<1>1. ASSUME NEW upTo \in Nat, endBlock <= upTo, upTo <= Latest,
             NEW branch \in Nat, NEW gap \in Gaps,
             chain' = Extended(upTo, branch, gap), growth' \in Nat,
             UNCHANGED <<config, pc, progress, rows>>
      PROVE  CoverInv'
  <2>1. UNCHANGED <<script, window, pc, endBlock, first, last, rows>>
    BY <1>1 DEF config, progress
  <2>2. Spaced'
    BY <1>1, ExtendedSpaced DEF IInv, SampleInv
  <2>3. chain'[endBlock] = chain[endBlock]
    <3>1. endBlock \in Nat
      BY DEF IInv, SampleInv, EndInv
    <3>2. \A b \in Nat : b <= endBlock => chain'[b] = chain[b]
      BY <1>1, <2>1, ExtendedKeeps DEF IInv, SampleInv
    <3> QED
      BY <3>1, <3>2
  <2>4. Ranged'
    BY <2>1, <2>3 DEF Ranged, FirstSample, LastSample
  <2>5. RowsInRange'
    BY <2>1 DEF RowsInRange
  <2> QED
    BY <2>2, <2>4, <2>5
<1>2. ASSUME NEW gap \in Gaps, Grow(gap) PROVE CoverInv'
  <2>1. Latest \in Nat /\ endBlock <= Latest /\ endBlock \in Nat
    BY SamplingAssumption DEF IInv, SampleInv, EndInv
  <2>2. growth' \in Nat
    BY <1>2 DEF Grow, IInv, SampleInv, ChainInv
  <2> HIDE DEF CoverInv
  <2> QED
    BY <1>1, <1>2, <2>1, <2>2 DEF Grow
<1>3. ASSUME NEW gap \in Gaps, NEW depth \in 1 .. ReorgDepth,
             Reorganise(depth, gap)
      PROVE  CoverInv'
  <2>1. Latest \in Nat /\ endBlock \in Nat /\ depth <= Latest /\ depth \in Nat
    BY <1>3, SamplingAssumption DEF IInv, SampleInv, EndInv, Reorganise
  <2>2. Latest - depth \in Nat /\ Latest - depth <= Latest
    BY <2>1
  <2>3. endBlock <= Latest - depth
    BY <2>1, <2>2, SamplingAssumption, BufferAssumption DEF IInv, SampleInv, EndInv
  <2>4. growth' \in Nat
    BY <1>3 DEF Reorganise, IInv, SampleInv, ChainInv
  <2> HIDE DEF CoverInv
  <2> QED
    BY <1>1, <1>3, <2>2, <2>3, <2>4 DEF Reorganise
<1>4. ASSUME UNCHANGED <<env, config, endBlock, first, last, rows>>,
             pc' \in {"sampling", "stamping", "done"}
               => pc \in {"sampling", "stamping", "done"},
             pc' \in {"starting", "anchoring"} => pc' = pc
      PROVE  CoverInv'
  BY <1>4 DEF env, config, Spaced, Latest, Ranged, FirstSample, LastSample,
              RowsInRange
<1>5. CASE ReadLatest
  <2>1. UNCHANGED <<chain, last, rows>> /\ pc = "starting" /\ pc' = "anchoring"
    BY <1>5 DEF ReadLatest, env
  <2> QED
    BY <2>1 DEF Spaced, Latest, Ranged, RowsInRange
<1>6. ASSUME NEW primary \in Outcomes, NEW fallback \in Outcomes,
             AnchorArrives(primary, fallback)
      PROVE  CoverInv'
  <2>1. /\ UNCHANGED <<chain, script, window, endBlock, rows>>
        /\ pc = "anchoring" /\ pc' = "sampling"
        /\ first' = FirstSample(chain[endBlock].ts)
        /\ last' = LastSample(chain[endBlock].ts)
    BY <1>6 DEF AnchorArrives, env, config
  <2>2. rows' = << >>
    BY <2>1 DEF RowsInRange
  <2> QED
    BY <2>1, <2>2 DEF Spaced, Latest, Ranged, FirstSample, LastSample, RowsInRange
<1>7. ASSUME NEW primary \in Outcomes, NEW fallback \in Outcomes,
             Stamp(primary, fallback)
      PROVE  CoverInv'
  <2> DEFINE row == [visit |-> at, block |-> BlockAt(at),
                     state |-> reading, ts |-> chain[BlockAt(at)].ts]
  <2>1. UNCHANGED <<chain, script, window, endBlock, first, last>>
          /\ pc = "stamping" /\ pc' = "sampling" /\ rows' = Append(rows, row)
    BY <1>7 DEF Stamp, env, config
  <2>2. rows' \in Seq(Row) /\ rows \in Seq(Row)
    <3>1. IInv'
      BY NextInv
    <3> QED
      BY <3>1 DEF IInv, SampleInv, RowInv
  <2>3. row.block <= last
    BY <2>1, VisitedBlock DEF IInv, SampleInv, ReadInv, RangeInv
  <2> HIDE DEF row
  <2>4. \A i \in DOMAIN rows' : rows'[i] = row \/ (i \in DOMAIN rows /\ rows'[i] = rows[i])
    BY <2>1, <2>2
  <2>5. RowsInRange'
    BY <2>1, <2>3, <2>4 DEF RowsInRange
  <2> QED
    BY <2>1, <2>5 DEF Spaced, Latest, Ranged, FirstSample, LastSample
<1>8. ASSUME NEW primary \in Outcomes, NEW fallback \in Outcomes,
             AttemptFails(primary, fallback) \/ AttemptRaises(primary, fallback)
      PROVE  CoverInv'
  BY <1>4, <1>8 DEF AttemptFails, AttemptRaises, progress
<1>9. CASE LatestFails \/ CallAnswers \/ CallFails \/ Finish
  BY <1>4, <1>9 DEF LatestFails, CallAnswers, CallFails, Finish, progress
<1>10. CASE UNCHANGED vars
  BY <1>4, <1>10 DEF vars, progress
<1> HIDE DEF CoverInv
<1> QED
  BY <1>2, <1>3, <1>5, <1>6, <1>7, <1>8, <1>9, <1>10
     DEF Next, ScriptStep, GetBlock, ChainStep

(* A count of blocks rounded down leaves out less than one block time.     *)
LEMMA BlocksBack ==
    ASSUME NEW s \in Nat
    PROVE  /\ BlocksIn(s) \in Nat /\ BlockTime * BlocksIn(s) \in Nat
           /\ s < BlockTime * BlocksIn(s) + BlockTime
<1> DEFINE q == s \div BlockTime
           r == s % BlockTime
<1>1. BlockTime \in Nat /\ BlockTime > 0
  BY SamplingAssumption
<1>2. q \in Nat /\ r \in Nat /\ r < BlockTime /\ s = BlockTime * q + r
  BY <1>1
<1> HIDE DEF q, r
<1>3. BlockTime * q \in Nat
  BY <1>1, <1>2
<1>4. s < BlockTime * q + BlockTime
  BY <1>1, <1>2, <1>3
<1> QED
  BY <1>2, <1>3, <1>4 DEF BlocksIn, q

(* A block that many blocks or more before another is that much older.     *)
LEMMA OlderByBlocks ==
    ASSUME IInv, Spaced, NEW b \in Nat, NEW n \in Nat, b + n <= endBlock
    PROVE  /\ chain[b].ts \in Nat /\ chain[endBlock].ts \in Nat
           /\ chain[b].ts + BlockTime * n <= chain[endBlock].ts
<1>1. PICK h \in Nat : chain \in [0 .. h -> Block]
  BY DEF IInv, SampleInv, ChainInv
<1>2. Latest = h
  BY <1>1, LatestIs
<1>3. endBlock \in 0 .. h /\ b \in 0 .. h /\ b <= endBlock
  BY <1>2, SamplingAssumption DEF IInv, SampleInv, EndInv
<1>4. chain[b].ts \in Nat /\ chain[endBlock].ts \in Nat
  BY <1>1, <1>3 DEF Block
<1>5. chain[endBlock].ts >= chain[b].ts + BlockTime * (endBlock - b)
  BY <1>2, <1>3 DEF Spaced
<1> DEFINE more == (endBlock - b) - n
<1>6. more \in Nat /\ endBlock - b = n + more
  BY <1>3
<1> HIDE DEF more
<1>7. /\ BlockTime * (n + more) = BlockTime * n + BlockTime * more
      /\ BlockTime * n \in Nat /\ BlockTime * more \in Nat
  BY <1>6, SamplingAssumption
<1> QED
  BY <1>4, <1>5, <1>6, <1>7

(* The sampled range covers the window: it reaches back to the start to    *)
(* within a block, unless the chain does not, and no row is a block or     *)
(* more past the end (fetch_market_state, the range of blocks).            *)
THEOREM SamplesCoverTheWindow == Spec => []WindowCovered
<1>1. IInv /\ CoverInv => WindowCovered
  <2> SUFFICES ASSUME IInv, CoverInv, pc \in {"sampling", "stamping", "done"}
               PROVE  /\ window.start <= chain[endBlock].ts /\ first # 1 =>
                           chain[first].ts < window.start + BlockTime
                      /\ \A i \in DOMAIN rows :
                           /\ rows[i].block <= endBlock
                           /\ script = "fetch_market_state" =>
                                 rows[i].ts < window.end + BlockTime
    BY DEF WindowCovered
  <2> DEFINE ts == chain[endBlock].ts
  <2>1. endBlock \in Nat /\ window.start \in Nat /\ window.end \in Nat
    BY SamplingAssumption DEF IInv, SampleInv, EndInv, RangeInv
  <2>2. ts \in Nat /\ BlockTime \in Nat
    <3>1. endBlock + 0 <= endBlock
      BY <2>1
    <3> QED
      BY <2>1, <3>1, OlderByBlocks, SamplingAssumption DEF CoverInv
  <2>3. first = FirstSample(ts) /\ last = LastSample(ts)
    BY DEF CoverInv, Ranged
  <2>4. ASSUME window.start <= ts, first # 1
        PROVE  chain[first].ts < window.start + BlockTime
    <3> DEFINE s == ts - window.start
               n == BlocksIn(s)
    <3>1. s \in Nat
      BY <2>1, <2>2, <2>4
    <3> HIDE DEF s
    <3>2. n \in Nat /\ BlockTime * n \in Nat /\ s < BlockTime * n + BlockTime
      BY <3>1, BlocksBack
    <3>3. first = Max({1, endBlock - n})
      BY <2>3 DEF FirstSample, s
    <3> HIDE DEF n
    <3>4. first \in {1, endBlock - n} /\ first >= 1
      <4>1. endBlock - n \in Int
        BY <2>1, <3>2
      <4> QED
        BY <3>3, <4>1, MaxOfTwo
    <3>5. first = endBlock - n /\ first \in Nat /\ first + n <= endBlock
      BY <2>1, <2>4, <3>2, <3>4
    <3>6. chain[first].ts \in Nat /\ chain[first].ts + BlockTime * n <= ts
      BY <3>2, <3>5, OlderByBlocks DEF CoverInv
    <3> HIDE DEF ts
    <3> QED
      BY <2>1, <2>2, <3>1, <3>2, <3>6 DEF s
  <2>5. ASSUME NEW i \in DOMAIN rows
        PROVE  /\ rows[i].block <= endBlock
               /\ script = "fetch_market_state" =>
                     rows[i].ts < window.end + BlockTime
    <3> DEFINE b == rows[i].block
    <3>1. /\ b \in Nat /\ b <= endBlock /\ b <= last
          /\ rows[i].ts = chain[b].ts
      <4>1. rows \in Seq(Row) /\ rows[i].block <= endBlock
        BY DEF IInv, SampleInv, RowInv
      <4>2. rows[i] \in Row
        BY <4>1
      <4> QED
        BY <4>1, <4>2 DEF Row, CoverInv, RowsInRange, IInv, RowsStayCanonical
    <3> HIDE DEF b
    <3>2. ASSUME script = "fetch_market_state" PROVE chain[b].ts < window.end + BlockTime
      <4>1. CASE ts < window.end
        <5>1. b + 0 <= endBlock /\ BlockTime * 0 = 0
          BY <2>1, <2>2, <3>1
        <5>2. chain[b].ts \in Nat /\ chain[b].ts + 0 <= ts
          BY <3>1, <5>1, OlderByBlocks DEF CoverInv
        <5> HIDE DEF ts
        <5> QED
          BY <2>1, <2>2, <4>1, <5>2, SamplingAssumption
      <4>2. CASE ~(ts < window.end)
        <5> DEFINE s == ts - window.end
                   n == BlocksIn(s)
        <5>1. s \in Nat
          BY <2>1, <2>2, <4>2
        <5> HIDE DEF s
        <5>2. n \in Nat /\ BlockTime * n \in Nat /\ s < BlockTime * n + BlockTime
          BY <5>1, BlocksBack
        <5>3. last = Min({endBlock, endBlock - n})
          BY <2>3, <3>2 DEF LastSample, s
        <5> HIDE DEF n
        <5>4. last <= endBlock - n
          <6>1. endBlock - n \in Int /\ endBlock \in Int
            BY <2>1, <5>2
          <6>2. {endBlock, endBlock - n} = {endBlock - n, endBlock}
            OBVIOUS
          <6> QED
            BY <5>3, <6>1, <6>2, MinOfTwo
        <5>5. b + n <= endBlock
          BY <2>1, <3>1, <5>2, <5>4 DEF IInv, SampleInv, RangeInv
        <5>6. chain[b].ts \in Nat /\ chain[b].ts + BlockTime * n <= ts
          BY <3>1, <5>2, <5>5, OlderByBlocks DEF CoverInv
        <5> HIDE DEF ts
        <5> QED
          BY <2>1, <2>2, <5>1, <5>2, <5>6 DEF s
      <4> QED
        BY <4>1, <4>2
    <3> QED
      BY <3>1, <3>2 DEF b
  <2> QED
    BY <2>4, <2>5
<1> QED
  BY <1>1, InitInv, NextInv, InitCover, NextCover, PTL DEF Spec
=================================================================================
