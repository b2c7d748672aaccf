---------------------------- MODULE FetchPipeline ----------------------------
(***************************************************************************)
(* The acquisition scripts (scripts/fetch_*.py, select_markets.py) and     *)
(* what they share: the configuration, the Parquet files of data/cache and *)
(* data/manifest.json.  A script reads its inputs, fetches, writes each of *)
(* its files in place, then loads the manifest, appends its entry and      *)
(* writes the whole manifest back (Manifest).  No write is atomic, and an  *)
(* invocation may fail or be killed between any two steps.                 *)
(* select_markets rewrites the configuration itself, and records nothing.  *)
(*                                                                         *)
(* What a file holds is the invocation that wrote it, which is what its    *)
(* digest tells apart.  No two invocations of the same script overlap.     *)
(***************************************************************************)
EXTENDS Integers, SequencesExt

CONSTANTS Runs,         \* invocations
          Script,       \* the script each one runs
          EventTypes,   \* --event-types, as the files they go to, in order
          Serial,       \* whether invocations are run one at a time
          Given,        \* what a file written by hand holds
          Absent, Torn  \* a file not there, a file partly written

(* The files each script writes, in order, and those it reads.             *)
Outputs == [select_markets       |-> <<"markets_top", "config">>,
            fetch_markets        |-> <<"markets">>,
            fetch_market_state   |-> <<"market_state">>,
            fetch_events         |-> EventTypes,
            fetch_oracle_prices  |-> <<"oracle_prices">>,
            fetch_uniswap_quotes |-> <<"dex_slippage">>,
            fetch_tvl            |-> <<"tvl_daily">>]

(* Mutant: select_markets can do without a configuration.                  *)
InputsOfFetches ==
          [select_markets       |-> {},
           fetch_markets        |-> {"config"},
           fetch_market_state   |-> {"config", "markets"},
           fetch_events         |-> {"config", "markets"},
           fetch_oracle_prices  |-> {"config", "markets"},
           fetch_uniswap_quotes |-> {"config", "markets", "oracle_prices"},
           fetch_tvl            |-> {}]

Inputs == [select_markets       |-> {"config"},
           fetch_markets        |-> {"config"},
           fetch_market_state   |-> {"config", "markets"},
           fetch_events         |-> {"config", "markets"},
           fetch_oracle_prices  |-> {"config", "markets"},
           fetch_uniswap_quotes |-> {"config", "markets", "oracle_prices"},
           fetch_tvl            |-> {}]

Files == {"config", "markets_top", "markets", "market_state",
          "oracle_prices", "dex_slippage", "tvl_daily"}
           \cup {EventTypes[i] : i \in DOMAIN EventTypes}

ASSUME PipelineAssumption ==
    /\ Script \in [Runs -> DOMAIN Outputs]
    /\ EventTypes \in Seq(STRING) /\ Serial \in BOOLEAN
    /\ Absent # Torn /\ Given \notin {Absent, Torn}
    /\ {Given, Absent, Torn} \cap Runs = {}

VARIABLES
    disk,       \* what each file holds
    manifest,   \* data/manifest.json: [intact, runs]; an absent one is empty
    pc,         \* where each invocation is
    todo,       \* files it still has to fetch and write
    files,      \* manifest_files: its FileEntry's so far
    memory      \* Manifest._data["runs"], as loaded, then appended to

vars == <<disk, manifest, pc, todo, files, memory>>

(* Whether an invocation is to be recorded.                                *)
Records(r) == Script[r] # "select_markets"

(* Invocations inside main(), which returns or raises.                     *)
Ended == {"done", "failed"}
Active == {r \in Runs : pc[r] \notin Ended \cup {"idle"}}

Holds(file, run) == [file |-> file, by |-> run]
FileEntry == [file: Files, by: Runs]
RunEntry == [run: Runs, files: SUBSET FileEntry]

Readable(file) == disk[file] \notin {Absent, Torn}
TornManifest == [intact |-> FALSE, runs |-> << >>]

(* One invocation of a script at a time, and of all of them if serial.     *)
MayStart(r) ==
    /\ \A q \in Active : Script[q] # Script[r]
    /\ Serial => Active = {}

-----------------------------------------------------------------------------
Init ==
    /\ disk = [f \in Files |-> IF f = "config" THEN Given ELSE Absent]
    /\ manifest = [intact |-> TRUE, runs |-> << >>]
    /\ pc = [r \in Runs |-> "idle"]
    /\ todo = [r \in Runs |-> << >>]
    /\ files = [r \in Runs |-> {}]
    /\ memory = [r \in Runs |-> << >>]

(* The inputs are there and read; click refuses a missing one, read_table  *)
(* a torn one, and Config.load a configuration cut off before its text.    *)
Start(r) ==
    /\ pc[r] = "idle" /\ MayStart(r)
    /\ IF \A f \in Inputs[Script[r]] : Readable(f)
         THEN /\ pc' = [pc EXCEPT ![r] = "fetching"]
              /\ todo' = [todo EXCEPT ![r] = Outputs[Script[r]]]
         ELSE pc' = [pc EXCEPT ![r] = "failed"] /\ UNCHANGED todo
    /\ UNCHANGED <<disk, manifest, files, memory>>

(* Rows came: the file is opened to be written; its old content is gone.   *)
OpenFile(r) ==
    /\ pc[r] = "fetching" /\ todo[r] # << >>
    /\ disk' = [disk EXCEPT ![Head(todo[r])] = Torn]
    /\ pc' = [pc EXCEPT ![r] = "writing"]
    /\ UNCHANGED <<manifest, todo, files, memory>>

(* Mutant: only the last file written goes into the entry.                 *)
CloseFileForgetting(r) ==
    /\ pc[r] = "writing"
    /\ disk' = [disk EXCEPT ![Head(todo[r])] = r]
    /\ files' = [files EXCEPT ![r] = {Holds(Head(todo[r]), r)}]
    /\ todo' = [todo EXCEPT ![r] = Tail(@)]
    /\ pc' = [pc EXCEPT ![r] = "fetching"]
    /\ UNCHANGED <<manifest, memory>>

(* The file is complete; its digest goes into the entry to be, if any.     *)
CloseFile(r) ==
    /\ pc[r] = "writing"
    /\ disk' = [disk EXCEPT ![Head(todo[r])] = r]
    /\ files' = IF Records(r)
                  THEN [files EXCEPT ![r] = @ \cup {Holds(Head(todo[r]), r)}]
                  ELSE files
    /\ todo' = [todo EXCEPT ![r] = Tail(@)]
    /\ pc' = [pc EXCEPT ![r] = "fetching"]
    /\ UNCHANGED <<manifest, memory>>

(* fetch_events skips a type without events and leaves its file as it is;  *)
(* select_markets the configuration, unless told to change it in place.    *)
SkipFile(r) ==
    /\ pc[r] = "fetching" /\ todo[r] # << >>
    /\ \/ Script[r] = "fetch_events"
       \/ Script[r] = "select_markets" /\ Head(todo[r]) = "config"
    /\ todo' = [todo EXCEPT ![r] = Tail(@)]
    /\ UNCHANGED <<disk, manifest, pc, files, memory>>

(* The source fails after its retries, or (any other script) has no rows,  *)
(* or the process is killed: what is on disk stays as it is.               *)
Fail(r) ==
    /\ r \in Active
    /\ pc' = [pc EXCEPT ![r] = "failed"]
    /\ UNCHANGED <<disk, manifest, todo, files, memory>>

(* Mutants: a manifest that cannot be read, or any, is taken as empty.     *)
LoadManifestAnyway(r) ==
    /\ pc[r] = "fetching" /\ todo[r] = << >> /\ Records(r)
    /\ memory' = [memory EXCEPT ![r] = manifest.runs]
    /\ pc' = [pc EXCEPT ![r] = "loaded"]
    /\ UNCHANGED <<disk, manifest, todo, files>>

LoadManifestAfresh(r) ==
    /\ pc[r] = "fetching" /\ todo[r] = << >> /\ Records(r) /\ manifest.intact
    /\ memory' = [memory EXCEPT ![r] = << >>]
    /\ pc' = [pc EXCEPT ![r] = "loaded"]
    /\ UNCHANGED <<disk, manifest, todo, files>>

(* Manifest(): the whole file is loaded; json.loads refuses a torn one.    *)
LoadManifest(r) ==
    /\ pc[r] = "fetching" /\ todo[r] = << >> /\ Records(r) /\ manifest.intact
    /\ memory' = [memory EXCEPT ![r] = manifest.runs]
    /\ pc' = [pc EXCEPT ![r] = "loaded"]
    /\ UNCHANGED <<disk, manifest, todo, files>>

(* Mutant: the invocation waits for a manifest it can read.                *)
RefuseManifestNever(r) == FALSE /\ UNCHANGED vars

RefuseManifest(r) ==
    /\ pc[r] = "fetching" /\ todo[r] = << >> /\ Records(r) /\ ~manifest.intact
    /\ pc' = [pc EXCEPT ![r] = "failed"]
    /\ UNCHANGED <<disk, manifest, todo, files, memory>>

(* select_markets returns: its files are in no manifest.                   *)
EndUnrecorded(r) ==
    /\ pc[r] = "fetching" /\ todo[r] = << >> /\ ~Records(r)
    /\ pc' = [pc EXCEPT ![r] = "done"]
    /\ UNCHANGED <<disk, manifest, todo, files, memory>>

(* append_run: the entry is appended in memory, the file opened to write.  *)
OpenManifest(r) ==
    /\ pc[r] = "loaded"
    /\ memory' = [memory EXCEPT
                    ![r] = Append(@, [run |-> r, files |-> files[r]])]
    /\ manifest' = TornManifest
    /\ pc' = [pc EXCEPT ![r] = "recording"]
    /\ UNCHANGED <<disk, todo, files>>

(* What the file holds when r has written all of it: r's text, unless      *)
(* another invocation wrote since r opened it, when the shorter of the two *)
(* texts may leave the end of the longer.                                  *)
Rewritten(r) ==
    {[intact |-> TRUE, runs |-> memory[r]]}
      \cup (IF manifest.intact THEN {TornManifest} ELSE {})

WriteManifest(r) ==
    /\ pc[r] = "recording"
    /\ manifest' \in Rewritten(r)
    /\ pc' = [pc EXCEPT ![r] = "done"]
    /\ UNCHANGED <<disk, todo, files, memory>>

Proceed(r) ==
    \/ OpenFile(r) \/ CloseFile(r) \/ SkipFile(r) \/ EndUnrecorded(r)
    \/ LoadManifest(r) \/ RefuseManifest(r)
    \/ OpenManifest(r) \/ WriteManifest(r)

Next == \E r \in Runs : Start(r) \/ Proceed(r) \/ Fail(r)

Spec == Init /\ [][Next]_vars

(* An invocation that was started goes on: it is a process that waits for  *)
(* nobody (every request to a source has a timeout).  It need not fail.    *)
FairSpec == Spec /\ \A r \in Runs : WF_vars(Proceed(r))

-----------------------------------------------------------------------------
(* The variables have their types.                                         *)
TypeOK ==
    /\ disk \in [Files -> Runs \cup {Given, Absent, Torn}]
    /\ manifest.intact \in BOOLEAN /\ manifest.runs \in Seq(RunEntry)
    /\ pc \in [Runs -> {"idle", "fetching", "writing", "loaded", "recording"}
                         \cup Ended]
    /\ todo \in [Runs -> Seq(Files)]
    /\ files \in [Runs -> SUBSET FileEntry]
    /\ memory \in [Runs -> Seq(RunEntry)]

(* As long as the manifest can be read, the runs it records are those of   *)
(* the fetch scripts that returned, each once.                             *)
RecordsEverySuccess ==
    manifest.intact =>
        /\ \A r \in Runs : pc[r] = "done" /\ Records(r) <=>
              \E i \in DOMAIN manifest.runs : manifest.runs[i].run = r
        /\ \A i, j \in DOMAIN manifest.runs :
              manifest.runs[i].run = manifest.runs[j].run => i = j

(* The last record of a file: what the manifest says is on disk.           *)
Mentions(file) ==
    {i \in DOMAIN manifest.runs :
       \E e \in manifest.runs[i].files : e.file = file}
Recorded(file) ==
    IF Mentions(file) = {} THEN Absent
    ELSE LET last == Max(Mentions(file))
         IN  (CHOOSE e \in manifest.runs[last].files : e.file = file).by

(* Drift is explained: when nothing runs, a file of the cache that is not  *)
(* the one the manifest records is torn, or was written by an invocation   *)
(* that failed before it could record it.                                  *)
DriftMeansAFailedRun ==
    Active = {} /\ manifest.intact =>
        \A f \in Files \ {"config", "markets_top"} :
            disk[f] # Recorded(f) =>
                disk[f] = Torn \/ (disk[f] \in Runs /\ pc[disk[f]] = "failed")

(* The manifest file behaves as the log it is meant to be; while it is     *)
(* being rewritten the log is what the writer had loaded.                  *)
Recording == {r \in Runs : pc[r] = "recording"}
LogEntries ==
    IF manifest.intact THEN manifest.runs
    ELSE IF Recording = {} THEN << >>
    ELSE LET r == CHOOSE r \in Recording : TRUE IN Front(memory[r])
Log == INSTANCE ManifestLog
         WITH log <- LogEntries, lost <- ~manifest.intact /\ Recording = {}
ImplementsLog == Log!Spec

(* A kill while the configuration is rewritten is final: no invocation     *)
(* that starts afterwards succeeds or repairs it, not even select_markets, *)
(* which loads the configuration before it replaces it.  fetch_tvl alone   *)
(* does without.                                                           *)
NeedsConfig == {r \in Runs : Script[r] # "fetch_tvl"}
ConfigLost == disk["config"] = Torn /\ Active \cap NeedsConfig = {}
LostConfigStopsAll ==
    [][ConfigLost =>
          /\ ConfigLost'
          /\ \A r \in NeedsConfig : pc'[r] = "done" => pc[r] = "done"]_vars

(* Whatever is started ends, even when the manifest cannot be read.        *)
EveryRunEnds == \A r \in Runs : pc[r] = "fetching" ~> pc[r] \in Ended
=============================================================================
