------------------------------ MODULE MarketData ------------------------------
(***************************************************************************)
(* What the acquisition scripts put into the files they share, market by   *)
(* market: markets.parquet says how many decimals the two tokens have, and *)
(* every other script scales what it reads by that.  An RPC error while    *)
(* the decimals are read counts as 18, one while the oracle is probed as   *)
(* an unknown oracle, and a market whose reads fail otherwise is left out; *)
(* none of it fails a script or is recorded.                               *)
(*                                                                         *)
(* Amounts and prices are powers of ten, written as their exponents.  The  *)
(* scripts run one at a time, in any order, any number of times; one that  *)
(* fails leaves its file as it was (FetchPipeline has the rest).           *)
(***************************************************************************)
EXTENDS Integers, FiniteSets

CONSTANTS Markets,          \* market ids that may be configured
          Idle,             \* those without a collateral asset
          Loan, Coll,       \* true decimals of each market's tokens
          TruePrice,        \* loan units per unit of collateral
          UsdPerLoan,       \* dollars per unit of the loan asset
          NoRows            \* a market a file says nothing about

DefaultDecimals == 18

ASSUME MarketDataAssumption ==
    /\ Idle \subseteq Markets
    /\ Loan \in [Markets -> Nat] /\ Coll \in [Markets -> Nat]
    /\ TruePrice \in [Markets -> Int] /\ UsdPerLoan \in [Markets -> Int]
    /\ NoRows \notin Markets

VARIABLES
    configured, \* cfg.markets
    markets,    \* markets.parquet, per market
    prices,     \* oracle_prices.parquet
    events,     \* events_liquidate.parquet
    quotes,     \* dex_slippage.parquet
    trusted     \* history: per file, the markets all of whose reads answered,
                \* in the runs that the file derives from

dataVars == <<configured, markets, prices, events, quotes, trusted>>

Rowed(file) == {m \in Markets : file[m] # NoRows}
Empty == [m \in Markets |-> NoRows]

Decimals(row) == <<row.loan, row.coll>>

-----------------------------------------------------------------------------
(* fetch_markets.                                                          *)

(* get_erc20_metadata: the decimals, or the default after an RPC error.    *)
DecimalsRead(true) == {true, DefaultDecimals}

(* detect_oracle_type: the probe answers, or an RPC error makes it unknown.*)
OracleTypes(m) == IF m \in Idle THEN {"none"} ELSE {"morpho_oracle", "unknown"}

(* The rows that _fetch_one_market may return; an idle market has no       *)
(* collateral to ask about.                                                *)
RowsOf(m) ==
    [loan: DecimalsRead(Loan[m]),
     coll: IF m \in Idle THEN {0} ELSE DecimalsRead(Coll[m]),
     oracle: OracleTypes(m)]

-----------------------------------------------------------------------------
(* fetch_oracle_prices.                                                    *)

(* Markets not skipped: neither idle nor without a known oracle.           *)
Priceable(m) == markets[m].oracle \notin {"none", "unknown"}

(* Mutant: the decimals the wrong way round.                               *)
ScaleExponentReversed(row) == 36 + row.coll - row.loan

ScaleExponent(row) == 36 + row.loan - row.coll

(* What price() answers, whatever the file says about the decimals.        *)
RawPrice(m) == TruePrice[m] + 36 + Loan[m] - Coll[m]

PriceRow(m) ==
    [price |-> RawPrice(m) - ScaleExponent(markets[m]),
     under |-> Decimals(markets[m])]

-----------------------------------------------------------------------------
(* fetch_events, for liquidations: each amount scaled by its own token.    *)
EventRow(m) ==
    [repaid |-> Loan[m] - markets[m].loan,
     seized |-> Coll[m] - markets[m].coll,
     under |-> Decimals(markets[m])]

-----------------------------------------------------------------------------
(* fetch_uniswap_quotes, for a volume of one dollar (exponent 0).          *)
VolumeNative(m) == 0 - prices[m].price

(* Mutant: the amount in the decimals of the other token.                  *)
AmountInOfLoan(m) == VolumeNative(m) + markets[m].loan

AmountIn(m) == VolumeNative(m) + markets[m].coll

(* The pool's answer: what the amount is worth, its own slippage aside.    *)
AmountOut(m) == AmountIn(m) - Coll[m] + TruePrice[m] + Loan[m]

Realized(m) == AmountOut(m) - markets[m].loan - VolumeNative(m)

(* What is quoted: the dollars really sold, and how far the realised price *)
(* is from the recorded one (0: only by the pool's slippage).              *)
QuoteRow(m) ==
    [sold |-> AmountIn(m) - Coll[m] + TruePrice[m] + UsdPerLoan[m],
     gap |-> Realized(m) - prices[m].price,
     under |-> Decimals(markets[m]), priceUnder |-> prices[m].under]

(* The rows of the files, with the decimals they were scaled under.        *)
Pair == Nat \X Nat
PriceRows == [price: Int, under: Pair]
EventRows == [repaid: Int, seized: Int, under: Pair]
QuoteRows == [sold: Int, gap: Int, under: Pair, priceUnder: Pair]

ASSUME NoRowsAssumption ==
    /\ \A m \in Markets : NoRows \notin RowsOf(m)
    /\ NoRows \notin PriceRows \cup EventRows \cup QuoteRows

-----------------------------------------------------------------------------
DataInit ==
    /\ configured \in SUBSET Markets \ {{}}
    /\ markets = Empty /\ prices = Empty /\ events = Empty /\ quotes = Empty
    /\ trusted = [prices |-> {}, quotes |-> {}]

(* select_markets --in-place: the top markets with a collateral asset.     *)
SelectMarkets ==
    /\ configured' \in SUBSET (Markets \ Idle) \ {{}}
    /\ UNCHANGED <<markets, prices, events, quotes, trusted>>

(* Every configured market is read; those that raise are left out.         *)
FetchMarkets ==
    /\ \E row \in [configured -> UNION {RowsOf(m) : m \in Markets} \cup {NoRows}] :
         /\ \A m \in configured : row[m] \in RowsOf(m) \cup {NoRows}
         /\ \E m \in configured : row[m] # NoRows
         /\ markets' = [m \in Markets |-> IF m \in configured THEN row[m] ELSE NoRows]
    /\ UNCHANGED <<configured, prices, events, quotes, trusted>>

(* All its reads answered: the row is what the chain says.                 *)
TrueRow(m) ==
    [loan |-> Loan[m], coll |-> IF m \in Idle THEN 0 ELSE Coll[m],
     oracle |-> IF m \in Idle THEN "none" ELSE "morpho_oracle"]
Faithful == {m \in Markets : markets[m] = TrueRow(m)}

(* A market has rows if it is not skipped and any of its samples answered. *)
FetchOraclePrices ==
    /\ \E silent \in SUBSET Rowed(markets) :
         LET found == {m \in Rowed(markets) \ silent : Priceable(m)}
         IN  /\ found # {}
             /\ prices' = [m \in Markets |-> IF m \in found THEN PriceRow(m) ELSE NoRows]
             /\ trusted' = [trusted EXCEPT !.prices = Faithful \ (silent \cup Idle)]
    /\ UNCHANGED <<configured, markets, events, quotes>>

(* Markets with liquidations in the window; a request that fails for good  *)
(* fails the script.                                                       *)
FetchEvents ==
    /\ \E found \in SUBSET (Rowed(markets) \ Idle) \ {{}} :
         events' = [m \in Markets |-> IF m \in found THEN EventRow(m) ELSE NoRows]
    /\ UNCHANGED <<configured, markets, prices, quotes, trusted>>

(* A market has rows if it has a price and any quote of its pools answered.*)
FetchQuotes ==
    /\ \E silent \in SUBSET Rowed(markets) :
         LET found == (Rowed(markets) \ (silent \cup Idle)) \cap Rowed(prices)
         IN  /\ found # {}
             /\ quotes' = [m \in Markets |-> IF m \in found THEN QuoteRow(m) ELSE NoRows]
             /\ trusted' = [trusted EXCEPT
                              !.quotes = (Faithful \cap trusted.prices) \ silent]
    /\ UNCHANGED <<configured, markets, prices, events>>

DataNext ==
    \/ SelectMarkets \/ FetchMarkets \/ FetchOraclePrices
    \/ FetchEvents \/ FetchQuotes

DataSpec == DataInit /\ [][DataNext]_dataVars

-----------------------------------------------------------------------------
(* The variables have their types.                                         *)
DataTypeOK ==
    /\ configured \in SUBSET Markets \ {{}}
    /\ \A m \in Markets :
          /\ markets[m] \in RowsOf(m) \cup {NoRows}
          /\ prices[m] \in PriceRows \cup {NoRows}
          /\ events[m] \in EventRows \cup {NoRows}
          /\ quotes[m] \in QuoteRows \cup {NoRows}
    /\ trusted \in [prices: SUBSET Markets, quotes: SUBSET Markets]

(* Wrong decimals cancel out of every ratio: rows that were scaled under   *)
(* the same decimals, right or wrong, agree with each other, so a quote's  *)
(* slippage is the pool's own, and a liquidation repays what the seized    *)
(* collateral is worth at the recorded price.                              *)
RatiosSurviveWrongDecimals ==
    \A m \in Markets :
        /\ quotes[m] # NoRows /\ quotes[m].under = quotes[m].priceUnder
              => quotes[m].gap = 0
        /\ events[m] # NoRows /\ prices[m] # NoRows
             /\ events[m].under = prices[m].under
              => events[m].seized + prices[m].price = events[m].repaid + TruePrice[m]

(* What they do not cancel out of is the size of the trade that was        *)
(* quoted: the decimals of the loan asset, and a loan asset that is not a  *)
(* dollar, move it, whatever was read of the collateral.                   *)
VolumeOffByLoanAsset ==
    \A m \in Markets :
        quotes[m] # NoRows /\ quotes[m].under = quotes[m].priceUnder =>
            quotes[m].sold = (quotes[m].under[1] - Loan[m]) + UsdPerLoan[m]

(* Where every read answered, nothing is missing and nothing is wrong,     *)
(* however often the market list and the files were rewritten in between.  *)
TrustedIsComplete ==
    /\ \A m \in trusted.prices : prices[m] # NoRows /\ prices[m].price = TruePrice[m]
    /\ \A m \in trusted.quotes :
          quotes[m] # NoRows /\ quotes[m].gap = 0 /\ quotes[m].sold = UsdPerLoan[m]
=============================================================================
