---------------------------- MODULE BlockSampling ----------------------------
(***************************************************************************)
(* fetch_market_state and fetch_oracle_prices: one contract call per       *)
(* market and sampled block, and the timestamp of each block that          *)
(* answered.  The call goes to the primary endpoint only, and any failure  *)
(* skips the sample; the timestamp goes through RPCClient.get_block, which *)
(* falls back and retries, and whose failure ends the script.              *)
(*                                                                         *)
(* The chain grows and reorganises meanwhile.  A block is the branch it is *)
(* on and its timestamp: the state of a market there is a function of it.  *)
(***************************************************************************)
EXTENDS Integers, Sequences, FiniteSetsExt, Functions

CONSTANTS Created,      \* per market, in order: the block it was created at
          Scripts,      \* which of the two scripts may run
          Cadence,      \* market_state_period_blocks, oracle_price_period_blocks
          BlockTime,    \* BLOCK_TIME, the shortest time between two blocks
          ReorgBuffer,  \* safe_block's reorg_buffer
          HasFallback,  \* whether rpc_url_fallback is configured
          Attempts,     \* stop_after_attempt of get_block
          Windows,      \* the configured [start, end]
          Heights,      \* heads the chain may have at first
          Gaps,         \* times between two blocks
          ReorgDepth,   \* blocks a reorganisation may replace
          MaxGrowth     \* bound: blocks and reorganisations while it runs

ASSUME SamplingAssumption ==
    /\ Created \in Seq(Nat) /\ Cadence \in Nat \ {0}
    /\ Scripts \subseteq {"fetch_market_state", "fetch_oracle_prices"}
    /\ BlockTime \in Nat \ {0} /\ Gaps \subseteq Nat
    /\ \A gap \in Gaps : gap >= BlockTime
    /\ HasFallback \in BOOLEAN /\ Attempts \in Nat \ {0}
    /\ Windows \subseteq [start: Nat, end: Nat]
    /\ \A w \in Windows : w.start < w.end
    /\ Heights \subseteq Nat /\ MaxGrowth \in Nat
    /\ ReorgBuffer \in Nat /\ ReorgDepth \in Nat

(* The buffer is deeper than any reorganisation (comment of safe_block).   *)
ASSUME BufferAssumption == ReorgDepth <= ReorgBuffer

VARIABLES
    chain,      \* the canonical blocks, by number
    growth,     \* growth and reorganisations so far
    script,     \* the script that runs
    window,     \* cfg.range
    pc,         \* where the script is; "aborted" is get_block's last error
    endBlock,   \* safe_block(latest)
    first, last,\* the range of blocks to sample
    at,         \* the visit the loops are at
    reading,    \* the block the last contract call answered about
    attempt,    \* failed attempts of get_block
    rows,       \* the rows so far
    failedCalls,\* history: visits whose call failed though the market existed
    faults      \* history: how each endpoint failed the current get_block

env == <<chain, growth>>
progress == <<endBlock, first, last, at>>
config == <<script, window>>
vars == <<env, config, pc, progress, reading, attempt, rows, failedCalls, faults>>

Endpoints == {"primary", "fallback"}
NoFaults == [e \in Endpoints |-> << >>]
Block == [branch: Nat, ts: Nat]
Latest == Max(DOMAIN chain)

-----------------------------------------------------------------------------
(* The window of blocks.                                                   *)

(* Mutant: the blocks below the head taken as they are.                    *)
SafeBlockUnbuffered(latest) == latest

SafeBlock(latest) == Max({0, latest - ReorgBuffer})

(* Blocks back from the end block that a time span counts for.             *)
BlocksIn(seconds) == seconds \div BlockTime

(* Mutant: as if blocks took longer than they do.                          *)
FirstSampleLate(ts) == Max({1, endBlock - (ts - window.start) \div (BlockTime + 1)})

FirstSample(ts) == Max({1, endBlock - BlocksIn(ts - window.start)})

(* fetch_oracle_prices samples up to the end block whatever the window.    *)
LastSample(ts) ==
    IF script = "fetch_oracle_prices" THEN endBlock
    ELSE Min({endBlock, endBlock - BlocksIn(ts - window.end)})

(* The visits of the two loops, markets outside and blocks inside.         *)
Samples == IF first > last THEN 0 ELSE (last - first) \div Cadence + 1
Visits == Len(Created) * Samples
MarketAt(k) == (k - 1) \div Samples + 1
BlockAt(k) == first + Cadence * ((k - 1) % Samples)
Exists(k) == BlockAt(k) >= Created[MarketAt(k)]

-----------------------------------------------------------------------------
(* One attempt of get_block.  Errors outside the three classes it catches  *)
(* are "other": neither the fallback nor the retry knows them.             *)
Outcomes == {"ok", "retryable", "other"}

(* Mutant: the fallback is announced but not asked (as RPCClient.call).    *)
AskedPrimaryOnly(primary) == {"primary"}

(* The endpoints that an attempt asks.                                     *)
Asked(primary) ==
    IF primary = "retryable" /\ HasFallback THEN Endpoints ELSE {"primary"}

(* What an attempt ends with: the outcome of the last endpoint it asked.   *)
AttemptOutcome(primary, fallback) ==
    IF "fallback" \in Asked(primary) THEN fallback ELSE primary

Noted(primary, fallback) ==
    [e \in Endpoints |->
        IF e \notin Asked(primary) THEN faults[e]
        ELSE Append(faults[e], IF e = "primary" THEN primary ELSE fallback)]

-----------------------------------------------------------------------------
Init ==
    /\ \E h \in Heights : \E gap \in [1 .. h -> Gaps] :
         chain = [b \in 0 .. h |->
                    [branch |-> 0, ts |-> SumFunctionOnSet(gap, 1 .. b)]]
    /\ growth = 0
    /\ script \in Scripts /\ window \in Windows
    /\ pc = "starting"
    /\ endBlock = 0 /\ first = 1 /\ last = 0 /\ at = 1
    /\ reading = chain[0]
    /\ attempt = 0 /\ rows = << >>
    /\ failedCalls = {} /\ faults = NoFaults

(* The chain, as the script finds it: a block is added, or the last few    *)
(* are replaced by as many and one more.                                   *)
Extended(upTo, branch, gap) ==
    [b \in 0 .. Latest + 1 |->
        IF b <= upTo THEN chain[b]
        ELSE [branch |-> branch, ts |-> chain[upTo].ts + gap * (b - upTo)]]

Grow(gap) ==
    /\ growth < MaxGrowth /\ growth' = growth + 1
    /\ chain' = Extended(Latest, 0, gap)
    /\ UNCHANGED <<config, pc, progress, reading, attempt, rows, failedCalls, faults>>

Reorganise(depth, gap) ==
    /\ growth < MaxGrowth /\ growth' = growth + 1
    /\ depth <= Latest
    /\ chain' = Extended(Latest - depth, growth', gap)
    /\ UNCHANGED <<config, pc, progress, reading, attempt, rows, failedCalls, faults>>

(* The head is read once, from the primary; nothing is retried.            *)
ReadLatest ==
    /\ pc = "starting"
    /\ endBlock' = SafeBlock(Latest)
    /\ pc' = "anchoring"
    /\ UNCHANGED <<env, config, first, last, at, reading, attempt, rows,
                   failedCalls, faults>>

LatestFails ==
    /\ pc = "starting"
    /\ pc' = "failed"
    /\ UNCHANGED <<env, config, progress, reading, attempt, rows, failedCalls, faults>>

(* get_block answers, about the end block or about a sampled one.          *)
AnchorArrives(primary, fallback) ==
    /\ pc = "anchoring" /\ AttemptOutcome(primary, fallback) = "ok"
    /\ first' = FirstSample(chain[endBlock].ts)
    /\ last' = LastSample(chain[endBlock].ts)
    /\ pc' = "sampling" /\ attempt' = 0 /\ faults' = NoFaults
    /\ UNCHANGED <<env, config, endBlock, at, reading, rows, failedCalls>>

Stamp(primary, fallback) ==
    /\ pc = "stamping" /\ AttemptOutcome(primary, fallback) = "ok"
    /\ rows' = Append(rows, [visit |-> at, block |-> BlockAt(at),
                             state |-> reading, ts |-> chain[BlockAt(at)].ts])
    /\ at' = at + 1 /\ pc' = "sampling" /\ attempt' = 0 /\ faults' = NoFaults
    /\ UNCHANGED <<env, config, endBlock, first, last, reading, failedCalls>>

(* Mutant: the attempts are never used up.                                 *)
AttemptFailsForEver(primary, fallback) ==
    /\ pc \in {"anchoring", "stamping"}
    /\ AttemptOutcome(primary, fallback) = "retryable"
    /\ attempt' = (attempt + 1) % Attempts
    /\ UNCHANGED <<env, config, pc, progress, reading, rows, failedCalls, faults>>

(* An attempt fails: tried again, unless it was the last.                  *)
AttemptFails(primary, fallback) ==
    /\ pc \in {"anchoring", "stamping"}
    /\ AttemptOutcome(primary, fallback) = "retryable"
    /\ attempt' = attempt + 1
    /\ pc' = IF attempt' = Attempts THEN "aborted" ELSE pc
    /\ faults' = Noted(primary, fallback)
    /\ UNCHANGED <<env, config, progress, reading, rows, failedCalls>>

(* An error that is not retried ends the script at once.                   *)
AttemptRaises(primary, fallback) ==
    /\ pc \in {"anchoring", "stamping"}
    /\ AttemptOutcome(primary, fallback) = "other"
    /\ pc' = "aborted"
    /\ faults' = Noted(primary, fallback)
    /\ UNCHANGED <<env, config, progress, reading, attempt, rows, failedCalls>>

(* The contract call of a visit: it answers, about the block as it is.   *)
CallAnswers ==
    /\ pc = "sampling" /\ at <= Visits /\ Exists(at)
    /\ reading' = chain[BlockAt(at)]
    /\ pc' = "stamping"
    /\ UNCHANGED <<env, config, progress, attempt, rows, failedCalls, faults>>

(* Mutant: a market is given up at its first sample without an answer.     *)
CallFailsForMarket ==
    /\ pc = "sampling" /\ at <= Visits
    /\ at' = MarketAt(at) * Samples + 1
    /\ failedCalls' = IF Exists(at) THEN failedCalls \cup {at} ELSE failedCalls
    /\ UNCHANGED <<env, config, pc, endBlock, first, last, reading, attempt, rows, faults>>

(* It reverts, before the market was created, or fails in any other way    *)
(* (or the oracle says zero): the sample is skipped.                       *)
CallFails ==
    /\ pc = "sampling" /\ at <= Visits
    /\ at' = at + 1
    /\ failedCalls' = IF Exists(at) THEN failedCalls \cup {at} ELSE failedCalls
    /\ UNCHANGED <<env, config, pc, endBlock, first, last, reading, attempt, rows, faults>>

(* The file is written, unless there is nothing to write.                  *)
Finish ==
    /\ pc = "sampling" /\ at > Visits
    /\ pc' = IF rows = << >> THEN "failed" ELSE "done"
    /\ UNCHANGED <<env, config, progress, reading, attempt, rows, failedCalls, faults>>

GetBlock ==
    \E primary, fallback \in Outcomes :
        \/ AnchorArrives(primary, fallback) \/ Stamp(primary, fallback)
        \/ AttemptFails(primary, fallback) \/ AttemptRaises(primary, fallback)

ScriptStep ==
    \/ ReadLatest \/ LatestFails \/ GetBlock
    \/ CallAnswers \/ CallFails \/ Finish

ChainStep ==
    \E gap \in Gaps :
        Grow(gap) \/ \E depth \in 1 .. ReorgDepth : Reorganise(depth, gap)

Next == ScriptStep \/ ChainStep

Spec == Init /\ [][Next]_vars

(* Every request has a timeout, so the script never waits for ever; that   *)
(* an endpoint answers is not promised.                                    *)
FairSpec == Spec /\ WF_vars(ScriptStep)

-----------------------------------------------------------------------------
Row == [visit: Nat, block: Nat, state: Block, ts: Nat]

(* The variables have their types.                                         *)
TypeOK ==
    /\ DOMAIN chain = 0 .. Latest /\ \A b \in 0 .. Latest : chain[b] \in Block
    /\ growth \in 0 .. MaxGrowth /\ script \in Scripts /\ window \in Windows
    /\ pc \in {"starting", "anchoring", "sampling", "stamping", "done",
               "failed", "aborted"}
    /\ endBlock \in 0 .. Latest /\ first \in Nat \ {0} /\ last \in Int
    /\ at \in Nat \ {0} /\ reading \in Block /\ attempt \in 0 .. Attempts
    /\ rows \in Seq(Row) /\ failedCalls \subseteq Nat
    /\ faults \in [Endpoints -> Seq(Outcomes)]

(* What is recorded stays true: although the chain reorganises while the   *)
(* script runs, the state and the timestamp of every row, read one after   *)
(* the other, are those of the canonical block, then and ever after.       *)
RowsStayCanonical ==
    \A i \in DOMAIN rows :
        /\ rows[i].state = chain[rows[i].block]
        /\ rows[i].ts = chain[rows[i].block].ts

(* The script ends on a block it cannot get only if some endpoint gave an  *)
(* error outside the three classes, or every endpoint failed every attempt *)
(* at that block: a primary that is down does not stop it.                 *)
AbortsOnlyWhenAllFail ==
    pc = "aborted" =>
        \/ \E e \in Endpoints : "other" \in {faults[e][i] : i \in DOMAIN faults[e]}
        \/ \A e \in (IF HasFallback THEN Endpoints ELSE {"primary"}) :
              Len(faults[e]) = Attempts

(* A hole in a series is a call that failed: of the samples visited, those *)
(* at which the market existed have a row unless their own call failed.    *)
HoleMeansAFailedCall ==
    {k \in 1 .. at - 1 : Exists(k)} =
        {rows[i].visit : i \in DOMAIN rows} \cup failedCalls

(* Blocks never come faster than assumed, so the range reaches back to the *)
(* start of the window to within a block, and past its end by less than a  *)
(* block (fetch_market_state; the other script does not read the end).     *)
WindowCovered ==
    pc \in {"sampling", "stamping", "done"} =>
        /\ window.start <= chain[endBlock].ts /\ first # 1 =>
              chain[first].ts < window.start + BlockTime
        /\ \A i \in DOMAIN rows :
              /\ rows[i].block <= endBlock
              /\ script = "fetch_market_state" =>
                    rows[i].ts < window.end + BlockTime

(* The script ends, whatever fails and however the chain moves.            *)
SamplingEnds == <>(pc \in {"done", "failed", "aborted"})
=============================================================================
