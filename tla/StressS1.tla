------------------------------ MODULE StressS1 ------------------------------
(***************************************************************************)
(* Scenario S1, the withdrawal run: stress_s1 asks suppliers to withdraw a *)
(* fraction alpha of the initial supply over a number of blocks, honours   *)
(* what the pool's liquidity allows and queues the rest.                   *)
(*                                                                         *)
(* The interest of a block depends on rates this module does not track     *)
(* (the adaptive curve): any amount of Interests may accrue while          *)
(* something is borrowed.                                                  *)
(***************************************************************************)
EXTENDS MarketAccounting, Sequences, FiniteSetsExt, Functions

CONSTANTS Supplies,     \* initial total_supply_assets a run may start from
          Fees,         \* fees, as numerators over FeeDen
          Interests,    \* what one block of borrowing may cost
          Alphas,       \* alpha, as numerators over AlphaDen
          AlphaDen,
          Durations,    \* duration_blocks
          Horizons,     \* horizon_blocks
          Arrivals      \* arrival patterns asked for

ASSUME S1Assumption ==
    /\ Supplies \subseteq Nat /\ Interests \subseteq Nat
    /\ Fees \subseteq 0 .. FeeDen
    /\ AlphaDen \in Nat \ {0} /\ Alphas \subseteq Int
    /\ Durations \subseteq Int /\ Horizons \subseteq Nat

VARIABLES
    cfg,        \* the S1Config of the run
    phase,      \* "configured", "running", "done" or "rejected" (ValueError)
    schedule,   \* schedule[k], the request due at block k, for 1 .. duration
    market,     \* the loop's state
    traj,       \* Trajectory.states: one market per block, the initial one first
    events,     \* Trajectory.events: the withdrawals not fully honoured
    requested,  \* history: the requests fallen due so far
    credited    \* history: the interest credited to suppliers so far

vars == <<cfg, phase, schedule, market, traj, events, requested, credited>>

S1Config == [alpha: Alphas, duration: Durations, horizon: Horizons,
             arrival: Arrivals]

Event == [block: Nat, requested: Nat, honored: Nat, unhonored: Nat]

(* Markets under no stress yet: nothing queued, and no more borrowed than  *)
(* supplied.  S1 never reads the collateral side.                          *)
InitialMarket(s, b, fee) ==
    [supply |-> s, borrow |-> b, shares |-> b, coll |-> 2 * b, price |-> 1,
     queued |-> 0, badDebt |-> 0, fee |-> fee]

-----------------------------------------------------------------------------
(* The withdrawal schedule.                                                *)

ValidConfig(c) ==
    /\ c.alpha \in 0 .. AlphaDen
    /\ c.duration >= 1
    /\ c.arrival \in {"linear", "exponential"}

TotalToWithdraw(c, m) == (m.supply * c.alpha) \div AlphaDen

(* Equal parts, to the unit.                                               *)
LinearSchedule(total, duration) ==
    [k \in 1 .. duration |->
        (total * k) \div duration - (total * (k - 1)) \div duration]

(* Decaying weights that sum to one: each block asks for no more than the  *)
(* block before.  The decay itself is abstracted.                          *)
ExponentialSchedules(total, duration) ==
    {f \in [1 .. duration -> 0 .. total] :
        /\ \A k \in 2 .. duration : f[k] <= f[k - 1]
        /\ SumFunction(f) = total}

Schedules(c, m) ==
    IF c.arrival = "linear"
    THEN {LinearSchedule(TotalToWithdraw(c, m), c.duration)}
    ELSE ExponentialSchedules(TotalToWithdraw(c, m), c.duration)

-----------------------------------------------------------------------------
(* One block.                                                              *)

(* The block being simulated; traj holds one state per earlier block.      *)
BlockOffset == Len(traj)

DueAt(k) == IF k \in DOMAIN schedule THEN schedule[k] ELSE 0

(* Mutants: a withdrawal limited by the supply, or honoured whole or not at all. *)
HonoredFromSupply(due, m) == Least(due, m.supply)
HonoredWholly(due, m) == IF due <= Liquidity(m) THEN due ELSE 0

Honored(due, m) == Least(due, Liquidity(m))

(* Mutant: the queue forgets what it held.                                 *)
WithdrawForgetting(m, due) ==
    [m EXCEPT !.supply = @ - Honored(due, m),
              !.queued = due - Honored(due, m)]

Withdraw(m, due) ==
    [m EXCEPT !.supply = @ - Honored(due, m),
              !.queued = @ + (due - Honored(due, m))]

UnhonoredEvent(k, due, m) ==
    [block |-> k, requested |-> due, honored |-> Honored(due, m),
     unhonored |-> due - Honored(due, m)]

(* The interest of a block: the rate curve, its adaptation and the         *)
(* exponential of accrue() are abstracted, but without debt there is none. *)
InterestsOn(m) == IF m.borrow = 0 THEN {0} ELSE Interests

-----------------------------------------------------------------------------
Init ==
    /\ cfg \in S1Config
    /\ \E s \in Supplies, fee \in Fees : \E b \in 0 .. s :
         market = InitialMarket(s, b, fee)
    /\ phase = "configured"
    /\ schedule = [k \in {} |-> 0]
    /\ traj = << >> /\ events = << >>
    /\ requested = 0 /\ credited = 0

(* _withdrawal_schedule raises before anything is recorded.                *)
Reject ==
    /\ phase = "configured" /\ ~ValidConfig(cfg)
    /\ phase' = "rejected"
    /\ UNCHANGED <<cfg, schedule, market, traj, events, requested, credited>>

Begin ==
    /\ phase = "configured" /\ ValidConfig(cfg)
    /\ schedule' \in Schedules(cfg, market)
    /\ traj' = <<market>>
    /\ phase' = "running"
    /\ UNCHANGED <<cfg, market, events, requested, credited>>

Block(interest) ==
    /\ phase = "running" /\ BlockOffset <= cfg.horizon
    /\ LET due     == DueAt(BlockOffset)
           accrued == Accrue(market, interest)
       IN  /\ market' = Withdraw(accrued, due)
           /\ traj' = Append(traj, market')
           /\ events' = IF due > Honored(due, accrued)
                        THEN Append(events,
                                    UnhonoredEvent(BlockOffset, due, accrued))
                        ELSE events
           /\ requested' = requested + due
           /\ credited' = credited + (accrued.supply - market.supply)
    /\ UNCHANGED <<cfg, phase, schedule>>

Finish ==
    /\ phase = "running" /\ BlockOffset > cfg.horizon
    /\ phase' = "done"
    /\ UNCHANGED <<cfg, schedule, market, traj, events, requested, credited>>

Next ==
    \/ Reject \/ Begin \/ Finish
    \/ \E interest \in InterestsOn(market) : Block(interest)

Spec == Init /\ [][Next]_vars

-----------------------------------------------------------------------------
(* time_to_illiquid: the first block with something queued, -1 for none.   *)
QueuedBlocks == {k \in 1 .. Len(traj) : traj[k].queued > 0}
TimeToIlliquid == IF QueuedBlocks = {} THEN -1 ELSE Min(QueuedBlocks) - 1

-----------------------------------------------------------------------------
(* The variables have their types.                                         *)
TypeOK ==
    /\ cfg \in S1Config
    /\ phase \in {"configured", "running", "done", "rejected"}
    /\ DOMAIN schedule \subseteq Nat \ {0}
    /\ \A k \in DOMAIN schedule : schedule[k] \in Nat
    /\ market \in Market
    /\ traj \in Seq(Market)
    /\ events \in Seq(Event)
    /\ requested \in Nat /\ credited \in Nat

(* assert_invariants' "over-borrow": no more is lent out than is supplied. *)
NoOverBorrow == market.borrow <= market.supply

(* It holds as long as there is no fee: honouring withdrawals stops at the *)
(* liquidity, and accrual keeps the difference.                            *)
NoOverBorrowWithoutFee == market.fee = 0 => NoOverBorrow

(* No withdrawal is lost or paid twice: whatever was requested has left    *)
(* the supply or waits in the queue, next to the interest credited.        *)
RequestsConserved ==
    traj # << >> =>
        market.supply + requested = traj[1].supply + credited + market.queued

(* Once a withdrawal is queued the pool is empty, and it stays empty: the  *)
(* accrual of later blocks frees nothing.  Only then does the code's test  *)
(* queued > 0 agree with the documented L = 0 and queued > 0.              *)
IlliquidOnceQueued == market.queued > 0 => Liquidity(market) = 0

(* Without a fee, the time to illiquidity is when the cumulated requests   *)
(* first exceed the initial liquidity, whatever the interest; a fee can    *)
(* only bring it forward.                                                  *)
CumulatedRequests(k) == SumFunctionOnSet(schedule, (1 .. k) \cap DOMAIN schedule)
Exhausting ==
    {k \in 1 .. cfg.horizon : CumulatedRequests(k) > Liquidity(traj[1])}
TimeToIlliquidIsExact ==
    phase = "done" =>
        IF market.fee = 0
        THEN TimeToIlliquid = IF Exhausting = {} THEN -1 ELSE Min(Exhausting)
        ELSE Exhausting # {} => TimeToIlliquid \in 1 .. Min(Exhausting)
=============================================================================
