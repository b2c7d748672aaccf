-------------------------- MODULE MCScenarioInputs --------------------------
(* What goes into the scenarios: the oracles are fed, or a study is drawn  *)
(* from the generator; the one that does not take place is over.           *)
EXTENDS PriceOracle, MonteCarloStream

(* Ten times the binary logarithm of 1 .. 8, to the unit.                  *)
MCPriceTick == <<0, 10, 16, 20, 23, 26, 28, 30>>
MCFed == {0, 2, 5, 8}
MCWindows == 1 .. 3
MCGaps == {1, 2}

(* A parameter sampled one by one, one in blocks, and a constant one.  Of  *)
(* three the generator rejects the word 3; after three words it returns 0. *)
MCParameters == {[name |-> "drawdown", size |-> 3, block |-> 1],
                 [name |-> "withdrawal", size |-> 4, block |-> 2],
                 [name |-> "volatility", size |-> 1, block |-> 1]}
MCStreams == [1 .. 3 -> 1 .. 3]

(* Oracles at the end of their clock.                                      *)
NoUpdates ==
    /\ window = 1 /\ obs = <<Observed(0, 8)>> /\ current = 8
    /\ accepted = <<8>> /\ clock = MaxBlock

(* A study of nothing that has been run twice.                             *)
NoStudy ==
    /\ stream = << >> /\ study = << >> /\ paths = 1 /\ position = 0
    /\ sampled = << >> /\ results = << >> /\ pc = "done"
    /\ earlier = <<[study |-> << >>, results |-> << >>]>>

MCInit ==
    \/ OracleInit /\ NoStudy
    \/ NoUpdates /\ StreamInit

MCNext ==
    \/ OracleNext /\ UNCHANGED streamVars
    \/ StreamNext /\ UNCHANGED oracleVars

MCSpec == MCInit /\ [][MCNext]_<<oracleVars, streamVars>>
=============================================================================
