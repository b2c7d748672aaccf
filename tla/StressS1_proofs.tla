--------------------------- MODULE StressS1_proofs ---------------------------
(***************************************************************************)
(* Proofs about StressS1 for every supply, schedule, horizon and interest: *)
(* no request is lost, the pool is never over-borrowed without a fee, and  *)
(* the time to illiquidity is when the requests exceed the liquidity.      *)
(***************************************************************************)
EXTENDS StressS1, ScenarioTheorems

(* The linear schedule asks for a natural amount at every block.           *)
LEMMA LinearScheduleNat ==
    ASSUME NEW total \in Nat, NEW d \in Nat \ {0}, NEW k \in 1 .. d
    PROVE  LinearSchedule(total, d)[k] \in Nat
<1> DEFINE x == total * k
           y == total * (k - 1)
<1>1. x \in Nat /\ y \in Nat /\ y <= x
  OBVIOUS
<1> HIDE DEF x, y
<1>2. y \div d <= x \div d /\ x \div d \in Nat /\ y \div d \in Nat
  BY <1>1
<1> QED
  BY <1>2 DEF LinearSchedule, x, y

(* Whatever schedule is chosen, it asks for natural amounts.               *)
LEMMA SchedulesNat ==
    ASSUME NEW c, c.duration \in Int, c.alpha \in 0 .. AlphaDen,
           c.duration >= 1, NEW m \in Market,
           NEW s \in Schedules(c, m)
    PROVE  /\ DOMAIN s \subseteq Nat \ {0}
           /\ \A k \in DOMAIN s : s[k] \in Nat
<1> DEFINE total == TotalToWithdraw(c, m)
<1>1. total \in Nat
  <2>1. m.supply * c.alpha \in Nat
    BY DEF Market
  <2> QED
    BY <2>1, S1Assumption DEF TotalToWithdraw
<1>2. CASE c.arrival = "linear"
  <2>1. s = LinearSchedule(total, c.duration)
    BY <1>2 DEF Schedules
  <2>2. DOMAIN s = 1 .. c.duration
    BY <2>1 DEF LinearSchedule
  <2>3. \A k \in 1 .. c.duration : s[k] \in Nat
    BY <1>1, <2>1, LinearScheduleNat
  <2> QED
    BY <2>2, <2>3
<1>3. CASE c.arrival # "linear"
  <2>1. s \in [1 .. c.duration -> 0 .. total]
    BY <1>3 DEF Schedules, ExponentialSchedules
  <2> QED
    BY <1>1, <2>1
<1> QED
  BY <1>2, <1>3

-----------------------------------------------------------------------------
(* A request is honoured up to the liquidity; the rest joins the queue.    *)
LEMMA WithdrawEffect ==
    ASSUME NEW m \in Market, NEW due \in Nat
    PROVE  /\ Honored(due, m) \in 0 .. due
           /\ Honored(due, m) <= Liquidity(m)
           /\ Honored(due, m) < due => Honored(due, m) = Liquidity(m)
           /\ Withdraw(m, due) \in Market
           /\ Withdraw(m, due).supply = m.supply - Honored(due, m)
           /\ Withdraw(m, due).borrow = m.borrow
           /\ Withdraw(m, due).fee = m.fee
           /\ Withdraw(m, due).queued = m.queued + due - Honored(due, m)
<1>1. /\ Honored(due, m) \in 0 .. due
      /\ Honored(due, m) <= Liquidity(m)
      /\ Honored(due, m) <= m.supply
      /\ Honored(due, m) < due => Honored(due, m) = Liquidity(m)
  BY DEF Honored, Least, Liquidity, AtLeastZero, Market
<1> DEFINE left  == m.supply - Honored(due, m)
           queue == m.queued + (due - Honored(due, m))
<1>2. /\ left \in Nat /\ queue \in Nat
      /\ queue = m.queued + due - Honored(due, m)
  BY <1>1 DEF Market
<1>3. Withdraw(m, due) = [m EXCEPT !.supply = left, !.queued = queue]
  BY DEF Withdraw
<1> HIDE DEF left, queue
<1>4. /\ Withdraw(m, due) \in Market
      /\ Withdraw(m, due).supply = left
      /\ Withdraw(m, due).borrow = m.borrow
      /\ Withdraw(m, due).fee = m.fee
      /\ Withdraw(m, due).queued = queue
  BY <1>2, <1>3 DEF Market
<1> QED
  BY <1>1, <1>2, <1>4 DEF left

-----------------------------------------------------------------------------
(* Nothing has happened before the run begins, and it then has a first     *)
(* state to compare with.                                                  *)
Started ==
    /\ phase = "configured" =>
         traj = << >> /\ market.queued = 0 /\ requested = 0 /\ credited = 0
    /\ phase = "running" => traj # << >>

IInv == TypeOK /\ Started /\ RequestsConserved /\ IlliquidOnceQueued

(* The initial states satisfy the inductive invariant.                     *)
LEMMA InitIInv == Init => IInv
<1> SUFFICES ASSUME Init PROVE IInv
  OBVIOUS
<1>1. PICK s \in Supplies, fee \in Fees :
        \E b \in 0 .. s : market = InitialMarket(s, b, fee)
  BY DEF Init
<1>2. PICK b \in 0 .. s : market = InitialMarket(s, b, fee)
  BY <1>1
<1>3. s \in Nat /\ fee \in 0 .. FeeDen
  BY S1Assumption
<1>4. market \in Market /\ market.queued = 0
  BY <1>2, <1>3 DEF InitialMarket, Market
<1>5. TypeOK
  BY <1>4 DEF Init, TypeOK
<1>6. Started /\ RequestsConserved /\ IlliquidOnceQueued
  BY <1>4 DEF Init, Started, RequestsConserved, IlliquidOnceQueued
<1> QED
  BY <1>5, <1>6 DEF IInv

(* A block keeps it: the interesting step.                                 *)
LEMMA BlockIInv ==
    ASSUME IInv, NEW i \in InterestsOn(market), Block(i)
    PROVE  IInv'
<1> DEFINE due == DueAt(BlockOffset)
           m   == Accrue(market, i)
           h   == Honored(due, m)
<1>1. i \in Nat /\ market \in Market
  BY S1Assumption DEF InterestsOn, IInv, TypeOK
<1>2. due \in Nat
  BY DEF DueAt, IInv, TypeOK
<1>3. /\ m \in Market /\ m.queued = market.queued
      /\ m.supply >= market.supply
      /\ m.supply - m.borrow <= market.supply - market.borrow
  BY <1>1, AccrueEffect
<1>4. /\ h \in 0 .. due /\ h <= Liquidity(m)
      /\ h < due => h = Liquidity(m)
      /\ Withdraw(m, due) \in Market
      /\ Withdraw(m, due).supply = m.supply - h
      /\ Withdraw(m, due).borrow = m.borrow
      /\ Withdraw(m, due).queued = m.queued + due - h
  BY <1>2, <1>3, WithdrawEffect
<1>5. /\ market' = Withdraw(m, due)
      /\ traj' = Append(traj, market')
      /\ requested' = requested + due
      /\ credited' = credited + (m.supply - market.supply)
      /\ phase = "running" /\ UNCHANGED <<cfg, phase, schedule>>
  BY DEF Block
<1>6. /\ market' \in Market
      /\ market'.supply = m.supply - h
      /\ market'.borrow = m.borrow
      /\ market'.queued = market.queued + due - h
  BY <1>3, <1>4, <1>5
<1>7. events' \in Seq(Event)
  <2>1. BlockOffset \in Nat
    BY DEF BlockOffset, IInv, TypeOK
  <2>2. due > h => UnhonoredEvent(BlockOffset, due, m) \in Event
    BY <1>2, <1>4, <2>1 DEF UnhonoredEvent, Event
  <2>3. events \in Seq(Event)
    BY DEF IInv, TypeOK
  <2> QED
    BY <2>2, <2>3 DEF Block
<1> HIDE DEF due, m, h
<1>8. TypeOK'
  <2>1. requested \in Nat /\ credited \in Nat /\ traj \in Seq(Market)
    BY DEF IInv, TypeOK
  <2>2. m.supply \in Nat /\ market.supply \in Nat
    BY <1>1, <1>3 DEF Market
  <2>3. requested' \in Nat /\ credited' \in Nat
    BY <1>2, <1>3, <1>5, <2>1, <2>2
  <2>4. traj' \in Seq(Market)
    BY <1>5, <1>6, <2>1
  <2> QED
    BY <1>5, <1>6, <1>7, <2>3, <2>4 DEF IInv, TypeOK
<1>9. Started'
  BY <1>5 DEF IInv, TypeOK, Started
<1>10. RequestsConserved'
  <2>1. traj # << >> /\ traj \in Seq(Market)
    BY <1>5 DEF IInv, TypeOK, Started
  <2>2. traj'[1] = traj[1] /\ traj[1] \in Market
    BY <1>5, <1>6, <2>1
  <2>3. market.supply + requested = traj[1].supply + credited + market.queued
    BY <2>1 DEF IInv, RequestsConserved
  <2>4. requested \in Nat /\ credited \in Nat
    BY DEF IInv, TypeOK
  <2>5. /\ m.supply \in Nat /\ market.supply \in Nat
        /\ market.queued \in Nat /\ traj[1].supply \in Nat
    BY <1>1, <1>3, <2>2 DEF Market
  <2>6. traj'[1].supply = traj[1].supply
    BY <2>2
  <2>7. h \in Nat
    BY <1>2, <1>4
  <2>8. /\ requested' = requested + due
        /\ credited' = credited + (m.supply - market.supply)
        /\ market'.supply = m.supply - h
        /\ market'.queued = market.queued + due - h
    BY <1>5, <1>6
  <2>9. market'.supply + requested'
          = traj[1].supply + credited' + market'.queued
    BY <1>2, <2>3, <2>4, <2>5, <2>7, <2>8
  <2> QED
    BY <2>6, <2>9 DEF RequestsConserved
<1>11. IlliquidOnceQueued'
  <2>1. /\ market.supply \in Nat /\ market.borrow \in Nat
        /\ market.queued \in Nat /\ m.supply \in Nat /\ m.borrow \in Nat
    BY <1>1, <1>3 DEF Market
  <2>2. market.queued > 0 => market.supply <= market.borrow
    BY <2>1 DEF IInv, IlliquidOnceQueued, Liquidity, AtLeastZero
  <2>3. h < due => (h = IF m.supply >= m.borrow THEN m.supply - m.borrow ELSE 0)
    BY <1>4, <2>1 DEF Liquidity, AtLeastZero
  <2>4. market'.queued > 0 => market'.supply <= market'.borrow
    BY <1>2, <1>3, <1>4, <1>6, <2>1, <2>2, <2>3
  <2>5. market'.supply \in Nat /\ market'.borrow \in Nat
    BY <1>6 DEF Market
  <2> QED
    BY <2>4, <2>5 DEF IlliquidOnceQueued, Liquidity, AtLeastZero
<1> QED
  BY <1>8, <1>9, <1>10, <1>11 DEF IInv

(* Every step keeps the inductive invariant.                               *)
LEMMA NextIInv == IInv /\ [Next]_vars => IInv'
<1> SUFFICES ASSUME IInv, [Next]_vars PROVE IInv'
  OBVIOUS
<1>1. CASE Reject
  BY <1>1 DEF Reject, IInv, TypeOK, Started, RequestsConserved,
              IlliquidOnceQueued, Liquidity
<1>2. CASE Begin
  <2>1. cfg.duration \in Int /\ market \in Market
    BY S1Assumption DEF IInv, TypeOK, S1Config
  <2>2. /\ DOMAIN schedule' \subseteq Nat \ {0}
        /\ \A k \in DOMAIN schedule' : schedule'[k] \in Nat
    BY <1>2, <2>1, SchedulesNat DEF Begin, ValidConfig
  <2>3. traj' \in Seq(Market) /\ traj'[1] = market
    BY <1>2, <2>1 DEF Begin
  <2>4. TypeOK'
    BY <1>2, <2>2, <2>3 DEF Begin, IInv, TypeOK
  <2>5. Started'
    BY <1>2 DEF Begin, Started
  <2>6. RequestsConserved' /\ IlliquidOnceQueued'
    BY <1>2, <2>1, <2>3
    DEF Begin, IInv, Started, RequestsConserved, IlliquidOnceQueued, Market
  <2> QED
    BY <2>4, <2>5, <2>6 DEF IInv
<1>3. CASE Finish
  BY <1>3 DEF Finish, IInv, TypeOK, Started, RequestsConserved,
              IlliquidOnceQueued, Liquidity
<1>4. CASE \E i \in InterestsOn(market) : Block(i)
  BY <1>4, BlockIInv
<1>5. CASE UNCHANGED vars
  BY <1>5 DEF vars, IInv, TypeOK, Started, RequestsConserved,
              IlliquidOnceQueued, Liquidity
<1> QED
  BY <1>1, <1>2, <1>3, <1>4, <1>5 DEF Next

(* The inductive invariant holds in every reachable state.                 *)
LEMMA IInvInvariant == Spec => []IInv
  BY InitIInv, NextIInv, PTL DEF Spec

(* stress_s1 keeps its variables well typed: in particular no total, and   *)
(* no entry of the trajectory, ever goes below zero.                       *)
THEOREM TypeCorrect == Spec => []TypeOK
<1>1. IInv => TypeOK
  BY DEF IInv
<1> QED
  BY <1>1, IInvInvariant, PTL

(* No withdrawal request is lost or paid twice, for any schedule and any   *)
(* fee.                                                                    *)
THEOREM RequestsAreConserved == Spec => []RequestsConserved
<1>1. IInv => RequestsConserved
  BY DEF IInv
<1> QED
  BY <1>1, IInvInvariant, PTL

(* A queued withdrawal implies an empty pool, for ever: the code's test of *)
(* illiquidity is the documented one.                                      *)
THEOREM QueuedMeansIlliquid == Spec => []IlliquidOnceQueued
<1>1. IInv => IlliquidOnceQueued
  BY DEF IInv
<1> QED
  BY <1>1, IInvInvariant, PTL

-----------------------------------------------------------------------------
(* Without a fee the pool is never over-borrowed, for any schedule and any *)
(* interest: accrual keeps S - B and withdrawals stop at it.               *)
THEOREM NeverOverBorrowed == Spec => []NoOverBorrowWithoutFee
<1>1. Init => NoOverBorrowWithoutFee
  BY S1Assumption
  DEF Init, NoOverBorrowWithoutFee, NoOverBorrow, InitialMarket
<1>2. IInv /\ NoOverBorrowWithoutFee /\ [Next]_vars => NoOverBorrowWithoutFee'
  <2> SUFFICES ASSUME IInv, NoOverBorrowWithoutFee, [Next]_vars
               PROVE  NoOverBorrowWithoutFee'
    OBVIOUS
  <2> USE DEF NoOverBorrowWithoutFee, NoOverBorrow
  <2>1. CASE Reject \/ Begin \/ Finish \/ UNCHANGED vars
    BY <2>1 DEF Reject, Begin, Finish, vars
  <2>2. ASSUME NEW i \in InterestsOn(market), Block(i)
        PROVE  NoOverBorrowWithoutFee'
    <3> DEFINE due == DueAt(BlockOffset)
               m   == Accrue(market, i)
               h   == Honored(due, m)
    <3>1. i \in Nat /\ market \in Market /\ due \in Nat
      BY <2>2, S1Assumption DEF InterestsOn, DueAt, IInv, TypeOK
    <3>2. m \in Market /\ m.fee = market.fee
      BY <3>1, AccrueEffect
    <3>3. m.fee = 0 => m.borrow <= m.supply
      <4>1. market.fee = 0 => SupplierPart(i, market.fee) = i
        BY <3>1, NoFeeWholeInterest
      <4>2. m = market \/ ( /\ m.supply = market.supply
                                         + SupplierPart(i, market.fee)
                           /\ m.borrow = market.borrow + i )
        BY <3>1, AccrueEffect
      <4>3. market.supply \in Nat /\ market.borrow \in Nat
        BY <3>1 DEF Market
      <4> QED
        BY <3>1, <3>2, <4>1, <4>2, <4>3
    <3>4. /\ h <= Liquidity(m) /\ h \in 0 .. due
          /\ Withdraw(m, due).supply = m.supply - h
          /\ Withdraw(m, due).borrow = m.borrow
          /\ Withdraw(m, due).fee = m.fee
      BY <3>1, <3>2, WithdrawEffect
    <3>5. market' = Withdraw(m, due)
      BY <2>2 DEF Block
    <3> HIDE DEF due, m, h
    <3> QED
      BY <3>1, <3>2, <3>3, <3>4, <3>5 DEF Liquidity, AtLeastZero, Market
  <2> QED
    BY <2>1, <2>2 DEF Next
<1> QED
  BY <1>1, <1>2, IInvInvariant, PTL DEF Spec

-----------------------------------------------------------------------------
(* What a market could pay out at once, below zero where that is hidden.   *)
Gap(m) == m.supply - m.borrow

(* The withdrawals honoured so far.                                        *)
Paid == requested - market.queued

(* The course of the run: what was paid never exceeds what could be paid   *)
(* at first; what can be paid still is no more than the rest of it, and    *)
(* without a fee just that; a block ends with something queued where the   *)
(* requests have come to more, and without a fee only there.               *)
Chronicle ==
    /\ phase = "configured" => market.borrow <= market.supply
    /\ phase \in {"running", "done"} =>
       /\ Len(traj) \in 1 .. cfg.horizon + 1
       /\ phase = "done" => Len(traj) = cfg.horizon + 1
       /\ traj[1].queued = 0 /\ traj[1].borrow <= traj[1].supply
       /\ requested = CumulatedRequests(Len(traj) - 1)
       /\ Paid <= Gap(traj[1]) /\ Gap(market) <= Gap(traj[1]) - Paid
       /\ market.fee = 0 => Gap(market) = Gap(traj[1]) - Paid
       /\ \A k \in 1 .. Len(traj) :
            /\ CumulatedRequests(k - 1) > Gap(traj[1]) => traj[k].queued > 0
            /\ market.fee = 0 /\ traj[k].queued > 0
                 => CumulatedRequests(k - 1) > Gap(traj[1])

(* The requests of one more block add what is due at it.                   *)
LEMMA RequestsGrow ==
    ASSUME TypeOK, NEW k \in Nat
    PROVE  /\ CumulatedRequests(0) = 0
           /\ CumulatedRequests(k) \in Nat
           /\ DueAt(k + 1) \in Nat
           /\ CumulatedRequests(k + 1) = CumulatedRequests(k) + DueAt(k + 1)
<1> DEFINE S(n) == (1 .. n) \cap DOMAIN schedule
<1>1. \A n \in Nat : IsFiniteSet(S(n)) /\ \A i \in S(n) : schedule[i] \in Nat
  <2> TAKE n \in Nat
  <2>1. IsFiniteSet(1 .. n)
    BY FS_Interval
  <2> QED
    BY <2>1, FS_Subset DEF TypeOK
<1>2. CumulatedRequests(k) \in Nat
  BY <1>1, SumNat DEF CumulatedRequests
<1>3. CumulatedRequests(0) = 0
  <2>1. S(0) = {} /\ IsFiniteSet(S(0))
    BY <1>1
  <2> QED
    BY <2>1, SumStep DEF CumulatedRequests
<1>4. CASE k + 1 \in DOMAIN schedule
  <2>1. k + 1 \in S(k + 1) /\ S(k + 1) \ {k + 1} = S(k) /\ k + 1 \in Nat
    BY <1>4
  <2>2. IsFiniteSet(S(k + 1)) /\ \A i \in S(k + 1) : schedule[i] \in Nat
    BY <1>1
  <2> HIDE DEF S
  <2>3. SumFunctionOnSet(schedule, S(k + 1))
          = schedule[k + 1] + SumFunctionOnSet(schedule, S(k + 1) \ {k + 1})
    BY <2>1, <2>2, SumRemove
  <2>4. CumulatedRequests(k + 1) = schedule[k + 1] + CumulatedRequests(k)
    BY <2>1, <2>3 DEF CumulatedRequests, S
  <2>5. DueAt(k + 1) = schedule[k + 1] /\ schedule[k + 1] \in Nat
    BY <1>4, <2>1, <2>2 DEF DueAt
  <2> QED
    BY <1>2, <1>3, <2>4, <2>5
<1>5. CASE k + 1 \notin DOMAIN schedule
  <2>1. S(k + 1) = S(k)
    BY <1>5
  <2> QED
    BY <1>2, <1>3, <1>5, <2>1 DEF CumulatedRequests, DueAt
<1> QED
  BY <1>4, <1>5

(* The initial states satisfy it.                                          *)
LEMMA InitChronicle == Init => Chronicle
  BY S1Assumption DEF Init, Chronicle, InitialMarket

(* A block keeps it.                                                       *)
LEMMA BlockChronicle ==
    ASSUME IInv, Chronicle, NEW i \in InterestsOn(market), Block(i)
    PROVE  Chronicle'
<1> DEFINE n   == Len(traj)
           due == DueAt(n)
           m   == Accrue(market, i)
           h   == Honored(due, m)
           d   == Gap(traj[1])
           c   == CumulatedRequests(n - 1)
<1>1. /\ phase = "running" /\ n <= cfg.horizon /\ UNCHANGED <<cfg, phase, schedule>>
      /\ market' = Withdraw(m, due) /\ traj' = Append(traj, market')
      /\ requested' = requested + due
  BY DEF Block, BlockOffset
<1>2. /\ n \in Nat \ {0} /\ traj \in Seq(Market) /\ traj[1] \in Market
      /\ market \in Market /\ requested \in Nat
  <2>1. traj \in Seq(Market) /\ market \in Market /\ requested \in Nat
    BY DEF IInv, TypeOK
  <2>2. n \in Nat \ {0}
    BY <1>1, <2>1 DEF Chronicle
  <2> QED
    BY <2>1, <2>2
<1>3. i \in Nat /\ due \in Nat
  BY S1Assumption DEF InterestsOn, DueAt, IInv, TypeOK
<1>4. c \in Nat /\ CumulatedRequests(n) = c + due
  <2>1. n - 1 \in Nat /\ (n - 1) + 1 = n
    BY <1>2
  <2> QED
    BY <2>1, RequestsGrow DEF IInv
<1>5. /\ m \in Market /\ m.queued = market.queued /\ m.fee = market.fee
      /\ Gap(m) <= Gap(market)
      /\ market.fee = 0 => Gap(m) = Gap(market)
  <2>1. /\ m \in Market /\ m.queued = market.queued /\ m.fee = market.fee
        /\ Gap(m) <= Gap(market)
        /\ \/ m = market
           \/ /\ m.supply = market.supply + SupplierPart(i, market.fee)
              /\ m.borrow = market.borrow + i
    BY <1>2, <1>3, AccrueEffect DEF Gap
  <2>2. market.fee = 0 => SupplierPart(i, market.fee) = i
    BY <1>3, NoFeeWholeInterest
  <2>3. market.supply \in Nat /\ market.borrow \in Nat
    BY <1>2 DEF Market
  <2> HIDE DEF m
  <2> QED
    BY <1>3, <2>1, <2>2, <2>3 DEF Gap
<1>6. /\ h \in 0 .. due /\ h <= Liquidity(m) /\ (h < due => h = Liquidity(m))
      /\ market' \in Market /\ Gap(market') = Gap(m) - h
      /\ market'.fee = market.fee
      /\ market'.queued = market.queued + due - h
  <2>1. /\ h \in 0 .. due /\ h <= Liquidity(m) /\ (h < due => h = Liquidity(m))
        /\ Withdraw(m, due) \in Market
        /\ Withdraw(m, due).supply = m.supply - h
        /\ Withdraw(m, due).borrow = m.borrow /\ Withdraw(m, due).fee = m.fee
        /\ Withdraw(m, due).queued = m.queued + due - h
    BY <1>3, <1>5, WithdrawEffect
  <2>2. m.supply \in Nat /\ m.borrow \in Nat
    BY <1>5 DEF Market
  <2> HIDE DEF h, m, due
  <2> QED
    BY <1>1, <1>3, <1>5, <2>1, <2>2 DEF Gap
<1>7. /\ traj[1].queued = 0 /\ traj[1].borrow <= traj[1].supply
      /\ requested = c /\ Paid <= d /\ Gap(market) <= d - Paid
      /\ market.fee = 0 => Gap(market) = d - Paid
      /\ \A k \in 1 .. n :
           /\ CumulatedRequests(k - 1) > d => traj[k].queued > 0
           /\ market.fee = 0 /\ traj[k].queued > 0 => CumulatedRequests(k - 1) > d
  BY <1>1 DEF Chronicle
<1>8. /\ Len(traj') = n + 1 /\ traj'[n + 1] = market' /\ traj'[1] = traj[1]
      /\ \A k \in 1 .. n : traj'[k] = traj[k]
  BY <1>1, <1>2, <1>6
<1>9. /\ d \in Nat /\ Gap(market) \in Int /\ Gap(m) \in Int
      /\ market.queued \in Nat /\ market'.queued \in Nat
      /\ Liquidity(m) = IF Gap(m) >= 0 THEN Gap(m) ELSE 0
  <2> HIDE DEF m, h, due
  <2>1. /\ traj[1].supply \in Nat /\ traj[1].borrow \in Nat
        /\ traj[1].borrow <= traj[1].supply
    BY <1>2, <1>7 DEF Market
  <2>2. /\ market.supply \in Nat /\ market.borrow \in Nat
        /\ m.supply \in Nat /\ m.borrow \in Nat
        /\ market.queued \in Nat /\ market'.queued \in Nat
    BY <1>2, <1>5, <1>6 DEF Market
  <2> QED
    BY <2>1, <2>2 DEF Gap, Liquidity, AtLeastZero
<1>10. \A k : CumulatedRequests(k)' = CumulatedRequests(k)
  BY <1>1 DEF CumulatedRequests
<1>11. Liquidity(market') = 0 \/ market'.queued = 0
  <2>1. IlliquidOnceQueued'
    BY BlockIInv DEF IInv
  <2> QED
    BY <1>9, <2>1 DEF IlliquidOnceQueued
<1>12. market'.queued > 0 => Gap(market') <= 0
  <2>1. market'.supply \in Nat /\ market'.borrow \in Nat
    BY <1>6 DEF Market
  <2>2. market'.queued \in Nat
    BY <1>9
  <2> QED
    BY <1>11, <2>1, <2>2 DEF Liquidity, AtLeastZero, Gap
<1> HIDE DEF due, m, h, d, c, n
<1>13. Paid \in Int /\ Paid' = Paid + h /\ requested' = c + due
  <2>1. requested' = requested + due /\ requested = c
    BY <1>1, <1>7
  <2>2. h \in Nat /\ market'.queued = market.queued + due - h
    BY <1>3, <1>6
  <2>3. requested \in Nat /\ market.queued \in Nat
    BY <1>2, <1>9
  <2>4. Paid = requested - market.queued /\ Paid' = requested' - market'.queued
    BY DEF Paid
  <2> QED
    BY <1>3, <2>1, <2>2, <2>3, <2>4
<1>14. /\ Paid' <= d /\ Gap(market') <= d - Paid'
       /\ market.fee = 0 => Gap(market') = d - Paid'
  BY <1>3, <1>5, <1>6, <1>7, <1>9, <1>13
<1>15. /\ requested' > d => market'.queued > 0
       /\ market.fee = 0 /\ market'.queued > 0 => requested' > d
  <2>1. Paid' = requested' - market'.queued
    BY DEF Paid
  <2>2. requested' \in Int /\ market'.queued \in Nat /\ d \in Int
    BY <1>3, <1>4, <1>9, <1>13
  <2>3. requested' > d => market'.queued > 0
    BY <1>14, <2>1, <2>2
  <2>4. ASSUME market.fee = 0, market'.queued > 0 PROVE requested' > d
    <3>1. d - Paid' <= 0
      BY <1>12, <1>14, <2>4
    <3> QED
      BY <2>1, <2>2, <2>4, <3>1
  <2> QED
    BY <2>3, <2>4
<1>16. requested' = CumulatedRequests(n)
  BY <1>4, <1>13
<1>17. ASSUME NEW k \in 1 .. n + 1
       PROVE  /\ CumulatedRequests(k - 1) > d => traj'[k].queued > 0
              /\ market.fee = 0 /\ traj'[k].queued > 0
                   => CumulatedRequests(k - 1) > d
  <2>1. CASE k \in 1 .. n
    BY <1>7, <1>8, <2>1
  <2>2. CASE k = n + 1
    <3>1. k - 1 = n
      BY <1>2, <2>2
    <3> QED
      BY <1>8, <1>15, <1>16, <2>2, <3>1
  <2> QED
    BY <1>2, <2>1, <2>2
<1>18. /\ Gap(traj'[1]) = d /\ market'.fee = market.fee
       /\ n + 1 \in 1 .. cfg'.horizon + 1 /\ phase' = "running"
       /\ (n + 1) - 1 = n
  <2>1. cfg' = cfg /\ cfg.horizon \in Nat
    BY <1>1, S1Assumption DEF IInv, TypeOK, S1Config
  <2> QED
    BY <1>1, <1>2, <1>6, <1>8, <2>1 DEF d
<1>19. Gap(traj[1])' = d /\ Gap(market)' = Gap(market')
  BY <1>18 DEF Gap
<1> QED
  BY <1>7, <1>8, <1>10, <1>14, <1>16, <1>17, <1>18, <1>19 DEF Chronicle

(* Every step keeps it.                                                    *)
LEMMA NextChronicle == IInv /\ Chronicle /\ [Next]_vars => Chronicle'
<1> SUFFICES ASSUME IInv, Chronicle, [Next]_vars PROVE Chronicle'
  OBVIOUS
<1>1. CASE Reject
  BY <1>1 DEF Reject, Chronicle
<1>2. CASE Begin
  <2>1. /\ phase = "configured" /\ phase' = "running" /\ traj' = <<market>>
        /\ UNCHANGED <<cfg, market, requested>>
    BY <1>2 DEF Begin
  <2>2. /\ market.queued = 0 /\ requested = 0 /\ market \in Market
        /\ market.borrow <= market.supply /\ cfg.horizon \in Nat
    BY <2>1, S1Assumption DEF IInv, Started, TypeOK, Chronicle, S1Config
  <2>3. Len(traj') = 1 /\ traj'[1] = market /\ 1 - 1 = 0
    BY <2>1
  <2>4. CumulatedRequests(0)' = 0
    <3>1. (1 .. 0) \cap DOMAIN schedule' = {} /\ IsFiniteSet({})
      BY FS_EmptySet
    <3> QED
      BY <3>1, SumStep DEF CumulatedRequests
  <2>5. /\ market.supply \in Nat /\ market.borrow \in Nat
        /\ Gap(market) \in Nat /\ Paid' = 0
    BY <2>1, <2>2 DEF Market, Gap, Paid
  <2>6. \A k \in 1 .. 1 : k = 1
    OBVIOUS
  <2>7. Gap(traj[1])' = Gap(market) /\ Gap(market)' = Gap(market)
    BY <2>1, <2>3 DEF Gap
  <2>8. 1 \in 1 .. cfg'.horizon + 1
    BY <2>1, <2>2
  <2> QED
    BY <2>1, <2>2, <2>3, <2>4, <2>5, <2>6, <2>7, <2>8 DEF Chronicle
<1>3. CASE Finish
  <2>1. /\ phase = "running" /\ Len(traj) > cfg.horizon /\ phase' = "done"
        /\ UNCHANGED <<cfg, schedule, market, traj, requested>>
    BY <1>3 DEF Finish, BlockOffset
  <2>2. cfg.horizon \in Nat /\ Len(traj) \in 1 .. cfg.horizon + 1
    BY <2>1, S1Assumption DEF IInv, TypeOK, Chronicle, S1Config
  <2>3. Len(traj) = cfg.horizon + 1
    BY <2>1, <2>2
  <2> QED
    BY <2>1, <2>3 DEF Chronicle, CumulatedRequests, Gap, Paid
<1>4. CASE \E i \in InterestsOn(market) : Block(i)
  BY <1>4, BlockChronicle
<1>5. CASE UNCHANGED vars
  BY <1>5 DEF vars, Chronicle, CumulatedRequests, Gap, Paid
<1> QED
  BY <1>1, <1>2, <1>3, <1>4, <1>5 DEF Next

(* At the end of the run the chronicle tells when the queue began.         *)
LEMMA ChronicleTellsWhen ==
    IInv /\ Chronicle => TimeToIlliquidIsExact
<1> SUFFICES ASSUME IInv, Chronicle, phase = "done"
             PROVE  IF market.fee = 0
                    THEN TimeToIlliquid = IF Exhausting = {} THEN -1
                                          ELSE Min(Exhausting)
                    ELSE Exhausting # {} => TimeToIlliquid \in 1 .. Min(Exhausting)
  BY DEF TimeToIlliquidIsExact
<1> DEFINE z == cfg.horizon
           d == Gap(traj[1])
<1>1. z \in Nat /\ Len(traj) = z + 1
  BY S1Assumption DEF IInv, TypeOK, Chronicle, S1Config
<1>2. Liquidity(traj[1]) = d
  <2>1. traj[1] \in Market /\ traj[1].borrow <= traj[1].supply
    BY <1>1 DEF IInv, TypeOK, Chronicle
  <2> QED
    BY <2>1 DEF Liquidity, AtLeastZero, Gap, Market
<1>3. ASSUME NEW k \in 1 .. z
      PROVE  /\ k \in Exhausting => k + 1 \in QueuedBlocks
             /\ market.fee = 0 => (k + 1 \in QueuedBlocks => k \in Exhausting)
  <2>1. k + 1 \in 1 .. Len(traj) /\ (k + 1) - 1 = k
    BY <1>1
  <2>2. /\ CumulatedRequests(k) > d => traj[k + 1].queued > 0
        /\ market.fee = 0 /\ traj[k + 1].queued > 0 => CumulatedRequests(k) > d
    BY <2>1 DEF Chronicle
  <2> HIDE DEF d
  <2> QED
    BY <1>2, <2>1, <2>2 DEF Exhausting, QueuedBlocks
<1>4. \A q \in QueuedBlocks : q \in 2 .. z + 1
  <2>1. \A q \in QueuedBlocks : q \in 1 .. z + 1 /\ q # 1
    BY <1>1 DEF QueuedBlocks, Chronicle
  <2> QED
    BY <1>1, <2>1
<1>5. /\ IsFiniteSet(QueuedBlocks) /\ QueuedBlocks \subseteq Int
      /\ IsFiniteSet(Exhausting) /\ Exhausting \subseteq 1 .. z
  <2>1. QueuedBlocks \subseteq 2 .. z + 1 /\ Exhausting \subseteq 1 .. z
    BY <1>4 DEF Exhausting
  <2>2. IsFiniteSet(2 .. z + 1) /\ IsFiniteSet(1 .. z)
    <3>1. z + 1 \in Int /\ z \in Int
      BY <1>1
    <3> HIDE DEF z
    <3> QED
      BY <3>1, FS_Interval
  <2> HIDE DEF z
  <2>3. IsFiniteSet(QueuedBlocks) /\ IsFiniteSet(Exhausting)
    BY <2>1, <2>2, FS_Subset
  <2> QED
    BY <1>1, <2>1, <2>3
<1> HIDE DEF z
<1> DEFINE q == Min(QueuedBlocks)
           e == Min(Exhausting)
<1>6. QueuedBlocks # {} => q \in QueuedBlocks /\ \A x \in QueuedBlocks : q =< x
  BY <1>5, MinOfFinite
<1>7. Exhausting # {} => e \in Exhausting /\ \A x \in Exhausting : e =< x
  <2>1. Exhausting \subseteq Int
    BY <1>1, <1>5
  <2> QED
    BY <1>5, <2>1, MinOfFinite
<1> HIDE DEF q, e, d
<1>8. CASE Exhausting # {}
  <2>1. e \in 1 .. z /\ e + 1 \in QueuedBlocks
    BY <1>3, <1>5, <1>7, <1>8
  <2>2. q \in 2 .. z + 1 /\ q =< e + 1 /\ q \in QueuedBlocks
    BY <1>4, <1>6, <2>1
  <2>3. TimeToIlliquid = q - 1
    BY <2>1 DEF TimeToIlliquid, q
  <2>4. q - 1 \in 1 .. z /\ (q - 1) + 1 = q
    BY <1>1, <2>2
  <2>5. market.fee = 0 => q - 1 \in Exhausting
    BY <1>3, <2>2, <2>4
  <2>6. market.fee = 0 => e =< q - 1
    BY <1>7, <1>8, <2>5
  <2>7. q - 1 \in 1 .. e /\ (market.fee = 0 => q - 1 = e)
    BY <1>1, <2>1, <2>2, <2>4, <2>6
  <2> QED
    BY <1>8, <2>3, <2>7 DEF e
<1>9. CASE Exhausting = {}
  <2>1. ASSUME market.fee = 0 PROVE QueuedBlocks = {}
    <3>1. SUFFICES ASSUME QueuedBlocks # {} PROVE FALSE
      OBVIOUS
    <3>2. q \in QueuedBlocks /\ q \in 2 .. z + 1
      BY <1>4, <1>6, <3>1
    <3>3. q - 1 \in 1 .. z /\ (q - 1) + 1 = q
      BY <1>1, <3>2
    <3> QED
      BY <1>3, <1>9, <2>1, <3>2, <3>3
  <2> QED
    BY <1>9, <2>1 DEF TimeToIlliquid
<1> QED
  BY <1>8, <1>9

(* The time to illiquidity that a run reports is the block at which the    *)
(* cumulated requests first exceed the initial liquidity, whatever the     *)
(* interest of the blocks; a fee can only bring it forward                 *)
(* (s1_withdrawal.py:136, time_to_illiquid).                               *)
THEOREM TimeToIlliquidIsWhenRequestsExceed == Spec => []TimeToIlliquidIsExact
<1> QED
  BY ChronicleTellsWhen, InitIInv, NextIInv, InitChronicle, NextChronicle, PTL
  DEF Spec
=============================================================================
