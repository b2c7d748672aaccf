---------------------------- MODULE OraclePricing ----------------------------
(***************************************************************************)
(* The arithmetic of the TWAP oracle: a bounded window of observations in  *)
(* tick (log price) space and its time-weighted mean.                      *)
(*                                                                         *)
(* log and exp are a table: PriceTick[p] is the scaled tick of price p.    *)
(* The way back rounds down to the grid of prices.                         *)
(***************************************************************************)
EXTENDS Integers, Sequences, FiniteSetsExt, Functions

CONSTANTS PriceTick     \* price_to_tick on the grid of prices 1 .. MaxPrice
Prices == DOMAIN PriceTick

ASSUME TickAssumption ==
    /\ IsFiniteSet(Prices) /\ Prices # {} /\ Prices = 1 .. Cardinality(Prices)
    /\ \A p \in Prices : PriceTick[p] \in Nat
    /\ \A p, q \in Prices : p < q => PriceTick[p] < PriceTick[q]

Observation == [block: Nat, tick: Nat]

Observed(block, price) == [block |-> block, tick |-> PriceTick[price]]

(* Mutant: a deque without its bound.                                      *)
PushUnbounded(obs, o, window) == Append(obs, o)

(* deque(maxlen=window).append: the oldest observation makes room.         *)
Push(obs, o, window) ==
    LET all == Append(obs, o)
    IN  IF Len(all) > window THEN Tail(all) ELSE all

(* How long observation i prevailed: until the next one, at least a block; *)
(* the newest counts for one block.                                        *)
Weight(obs, i) ==
    IF i = Len(obs) THEN 1
    ELSE Max({1, obs[i + 1].block - obs[i].block})

TickSum(obs) ==
    SumFunction([i \in DOMAIN obs |-> obs[i].tick * Weight(obs, i)])

TotalWeight(obs) == SumFunction([i \in DOMAIN obs |-> Weight(obs, i)])

(* tick_to_price of the tick num / den.                                    *)
TickToPrice(num, den) == Max({p \in Prices : PriceTick[p] * den <= num})

(* Mutants: the sum divided by one block too many, or by the number of     *)
(* observations.                                                           *)
ReadOverCounted(obs) == TickToPrice(TickSum(obs), TotalWeight(obs) + 1)
ReadUnweighted(obs) == TickToPrice(TickSum(obs), Len(obs))

ReadTwap(obs) == TickToPrice(TickSum(obs), TotalWeight(obs))
=============================================================================
