---------------------------- MODULE MCAcquisition ----------------------------
(* The acquisition scripts: what becomes of their files and the manifest,  *)
(* or what the rows of the files say.                                      *)
EXTENDS FetchPipeline, MarketData, TLC

CONSTANTS r1, r2, r3, r4, r5, usdc_wbtc, idle

VARIABLE part       \* "files" or "rows": the part that takes place

(* Five invocations: the selection of markets twice, the markets, and the  *)
(* events twice (a re-run).                                                *)
MCRuns == {r1, r2, r3, r4, r5}
MCScript == r1 :> "select_markets" @@ r2 :> "select_markets"
            @@ r3 :> "fetch_markets" @@ r4 :> "fetch_events"
            @@ r5 :> "fetch_events"
MCEventTypes == <<"events_supply", "events_liquidate">>

(* A market whose two tokens have decimals other than the default and whose *)
(* loan asset is not a dollar, and an idle one.                            *)
MCMarkets == {usdc_wbtc, idle}
MCLoan == usdc_wbtc :> 8 @@ idle :> 18
MCColl == usdc_wbtc :> 6 @@ idle :> 0
MCTruePrice == usdc_wbtc :> (-5) @@ idle :> 0
MCUsdPerLoan == usdc_wbtc :> 5 @@ idle :> 0

MCInit ==
    /\ Init /\ DataInit
    /\ \/ part = "files" /\ configured = Markets
       \/ part = "rows"

MCNext ==
    \/ part = "files" /\ Next /\ UNCHANGED <<dataVars, part>>
    \/ part = "rows" /\ DataNext /\ UNCHANGED <<vars, part>>

(* Every invocation goes on, as in FairSpec.                               *)
PipelineFairness == \A r \in Runs : WF_vars(Proceed(r))

MCSpec == MCInit /\ [][MCNext]_<<vars, dataVars, part>> /\ PipelineFairness
=============================================================================
