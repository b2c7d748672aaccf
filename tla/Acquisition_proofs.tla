-------------------------- MODULE Acquisition_proofs --------------------------
(***************************************************************************)
(* Proofs about the acquisition of the data: the scripts with their files  *)
(* and the manifest (FetchPipeline), what the files say of each market     *)
(* (MarketData), and the paging of events and entities (MCEventPaging,     *)
(* with EventPaging and CursorPaging).  The three share no variable: each  *)
(* part is about one specification, for every value of its constants.      *)
(***************************************************************************)
EXTENDS FetchPipeline, MarketData, MCEventPaging, SumTheorems, TLAPS

-----------------------------------------------------------------------------
(***************************************************************************)
(* The scripts, their files and the manifest, for any number of            *)
(* invocations of any scripts and any list of event types.  Run one at a   *)
(* time, they use the manifest as the append-only log of ManifestLog,      *)
(* whatever fails and whenever.                                            *)
(***************************************************************************)

(* Every script writes to the files listed.                                *)
LEMMA OutputsAreFiles ==
    ASSUME NEW r \in Runs PROVE Outputs[Script[r]] \in Seq(Files)
<1>1. EventTypes \in Seq(Files)
  BY PipelineAssumption DEF Files
<1>2. <<"markets_top", "config">> \in Seq(Files)
  BY DEF Files
<1>3. \A f \in Files : <<f>> \in Seq(Files)
  OBVIOUS
<1>4. {"markets", "market_state", "oracle_prices", "dex_slippage", "tvl_daily"}
        \subseteq Files
  BY DEF Files
<1> HIDE DEF Files
<1>5. \A s \in DOMAIN Outputs : Outputs[s] \in Seq(Files)
  <2>1. Outputs["select_markets"] \in Seq(Files)
    BY <1>2 DEF Outputs
  <2>2. Outputs["fetch_events"] \in Seq(Files)
    BY <1>1 DEF Outputs
  <2>3. Outputs["fetch_markets"] \in Seq(Files)
    BY <1>3, <1>4 DEF Outputs
  <2>4. Outputs["fetch_market_state"] \in Seq(Files)
    BY <1>3, <1>4 DEF Outputs
  <2>5. Outputs["fetch_oracle_prices"] \in Seq(Files)
    BY <1>3, <1>4 DEF Outputs
  <2>6. Outputs["fetch_uniswap_quotes"] \in Seq(Files)
    BY <1>3, <1>4 DEF Outputs
  <2>7. Outputs["fetch_tvl"] \in Seq(Files)
    BY <1>3, <1>4 DEF Outputs
  <2>8. DOMAIN Outputs =
          {"select_markets", "fetch_events", "fetch_markets", "fetch_tvl",
           "fetch_market_state", "fetch_oracle_prices", "fetch_uniswap_quotes"}
    BY DEF Outputs
  <2> QED
    BY <2>1, <2>2, <2>3, <2>4, <2>5, <2>6, <2>7, <2>8
<1> QED
  BY <1>5, PipelineAssumption

(* A list with an entry appended is not empty, and is the list without it. *)
LEMMA FrontOfAppend ==
    ASSUME NEW S, NEW s \in Seq(S), NEW e \in S
    PROVE  Append(s, e) # << >> /\ Front(Append(s, e)) = s
<1> DEFINE t == Append(s, e)
<1>1. t \in Seq(S) /\ Len(t) = Len(s) + 1
  OBVIOUS
<1>2. \A i \in 1 .. Len(s) : t[i] = s[i]
  OBVIOUS
<1> HIDE DEF t
<1>3. Len(t) - 1 = Len(s) /\ Len(s) \in Nat
  BY <1>1
<1>4. Front(t) = [i \in 1 .. Len(s) |-> t[i]]
  BY <1>1, <1>3 DEF Front
<1>5. s = [i \in 1 .. Len(s) |-> s[i]]
  OBVIOUS
<1>6. t # << >>
  <2>1. Len(<< >>) = 0
    OBVIOUS
  <2> QED
    BY <1>3, <2>1
<1> QED
  BY <1>2, <1>4, <1>5, <1>6 DEF t

(* A list that is not empty extends the list without its last entry.       *)
LEMMA FrontOfNonEmpty ==
    ASSUME NEW S, NEW s \in Seq(S), s # << >>
    PROVE  /\ Len(s) = Len(Front(s)) + 1
           /\ \A i \in 1 .. Len(Front(s)) : s[i] = Front(s)[i]
<1> DEFINE n == Len(s) - 1
<1>1. n \in Nat /\ n + 1 = Len(s)
  OBVIOUS
<1>2. Front(s) = [i \in 1 .. n |-> s[i]]
  BY <1>1 DEF Front
<1> HIDE DEF n
<1>3. Len(Front(s)) = n
  BY <1>1, <1>2
<1> QED
  BY <1>1, <1>2, <1>3

-----------------------------------------------------------------------------
(* The types, and that a file is written only while one is left to write:  *)
(* both hold in parallel too.                                              *)
TInv == TypeOK /\ \A r \in Runs : pc[r] = "writing" => todo[r] # << >>

(* The initial state satisfies it.                                         *)
LEMMA InitTInv == Init => TInv
  BY DEF Init, TInv, TypeOK

(* Every step keeps it.                                                    *)
LEMMA NextTInv == TInv /\ [Next]_vars => TInv'
<1> SUFFICES ASSUME TInv, [Next]_vars PROVE TInv'
  OBVIOUS
<1> USE DEF TInv, TypeOK, Ended
<1>1. ASSUME NEW r \in Runs, Start(r) PROVE TInv'
  BY <1>1, OutputsAreFiles DEF Start
<1>2. ASSUME NEW r \in Runs, OpenFile(r) PROVE TInv'
  <2>1. Head(todo[r]) \in Files
    BY <1>2 DEF OpenFile
  <2> QED
    BY <1>2, <2>1 DEF OpenFile
<1>3. ASSUME NEW r \in Runs, CloseFile(r) PROVE TInv'
  <2>1. todo[r] \in Seq(Files) /\ todo[r] # << >>
    BY <1>3 DEF CloseFile
  <2>2. Head(todo[r]) \in Files /\ Tail(todo[r]) \in Seq(Files)
    BY <2>1
  <2>3. Holds(Head(todo[r]), r) \in FileEntry
    BY <2>2 DEF Holds, FileEntry
  <2> QED
    BY <1>3, <2>2, <2>3 DEF CloseFile
<1>4. ASSUME NEW r \in Runs, SkipFile(r) PROVE TInv'
  <2>1. Tail(todo[r]) \in Seq(Files)
    BY <1>4 DEF SkipFile
  <2> QED
    BY <1>4, <2>1 DEF SkipFile
<1>5. ASSUME NEW r \in Runs, Fail(r) PROVE TInv'
  BY <1>5 DEF Fail
<1>6. ASSUME NEW r \in Runs, LoadManifest(r) PROVE TInv'
  BY <1>6 DEF LoadManifest
<1>7. ASSUME NEW r \in Runs, RefuseManifest(r) PROVE TInv'
  BY <1>7 DEF RefuseManifest
<1>8. ASSUME NEW r \in Runs, OpenManifest(r) PROVE TInv'
  <2> DEFINE e == [run |-> r, files |-> files[r]]
  <2>1. e \in RunEntry
    BY DEF RunEntry
  <2>2. Append(memory[r], e) \in Seq(RunEntry)
    BY <2>1
  <2>3. manifest'.intact = FALSE /\ manifest'.runs = << >>
    BY <1>8 DEF OpenManifest, TornManifest
  <2> HIDE DEF e
  <2>4. /\ memory' = [memory EXCEPT ![r] = Append(memory[r], e)]
        /\ pc' = [pc EXCEPT ![r] = "recording"]
        /\ UNCHANGED <<disk, todo, files>>
    BY <1>8 DEF OpenManifest, e
  <2>5. /\ memory' \in [Runs -> Seq(RunEntry)]
        /\ pc' \in [Runs -> {"idle", "fetching", "writing", "loaded",
                             "recording"} \cup Ended]
    BY <2>2, <2>4
  <2>6. \A q \in Runs : pc'[q] = "writing" => todo'[q] # << >>
    BY <2>4
  <2>7. manifest'.intact \in BOOLEAN
    BY <2>3, Zenon
  <2>8. manifest'.runs \in Seq(RunEntry)
    BY <2>3
  <2> QED
    BY <2>4, <2>5, <2>6, <2>7, <2>8
<1>9. ASSUME NEW r \in Runs, WriteManifest(r) PROVE TInv'
  <2>1. \/ manifest' = [intact |-> TRUE, runs |-> memory[r]]
        \/ manifest' = [intact |-> FALSE, runs |-> << >>]
    BY <1>9 DEF WriteManifest, Rewritten, TornManifest
  <2>2. memory[r] \in Seq(RunEntry) /\ << >> \in Seq(RunEntry)
    OBVIOUS
  <2>3. CASE manifest' = [intact |-> TRUE, runs |-> memory[r]]
    <3>1. manifest'.intact = TRUE /\ manifest'.runs = memory[r]
      BY <2>3
    <3>2. manifest'.intact \in BOOLEAN
      BY <3>1, Zenon
    <3> QED
      BY <1>9, <2>2, <3>1, <3>2 DEF WriteManifest
  <2>4. CASE manifest' = [intact |-> FALSE, runs |-> << >>]
    <3>1. manifest'.intact = FALSE /\ manifest'.runs = << >>
      BY <2>4
    <3>2. manifest'.intact \in BOOLEAN
      BY <3>1, Zenon
    <3> QED
      BY <1>9, <2>2, <3>1, <3>2 DEF WriteManifest
  <2> QED
    BY <2>1, <2>3, <2>4
<1>10. ASSUME NEW r \in Runs, EndUnrecorded(r) PROVE TInv'
  BY <1>10 DEF EndUnrecorded
<1>11. CASE UNCHANGED vars
  BY <1>11 DEF vars
<1> QED
  BY <1>1, <1>2, <1>3, <1>4, <1>5, <1>6, <1>7, <1>8, <1>9, <1>10, <1>11
  DEF Next, Proceed

(* The fetch scripts keep the disk, the manifest and their own state well  *)
(* typed, one at a time or in parallel.                                    *)
THEOREM TypeCorrect == Spec => []TypeOK
<1>1. TInv => TypeOK
  BY DEF TInv
<1> QED
  BY <1>1, InitTInv, NextTInv, PTL DEF Spec

-----------------------------------------------------------------------------
(* Run one at a time, an invocation that has loaded the manifest still has *)
(* it as it is, and one that rewrites it was the only one to.              *)
SoleWriter ==
    /\ \A q, r \in Active : q = r
    /\ \A r \in Runs : pc[r] = "loaded" =>
          manifest.intact /\ memory[r] = manifest.runs
    /\ \A r \in Runs : pc[r] = "recording" =>
          ~manifest.intact /\ memory[r] # << >>

(* The initial state satisfies it.                                         *)
LEMMA InitSoleWriter == Init => SoleWriter
  BY DEF Init, SoleWriter, Active

(* One that rewrites it is alone.                                          *)
LEMMA SoleRecorder ==
    ASSUME TInv, SoleWriter, NEW r \in Runs, pc[r] = "recording"
    PROVE  Recording = {r}
<1>1. \A q \in Runs : pc[q] = "recording" => q \in Active
  BY DEF Active, Ended
<1>2. \A q \in Runs : pc[q] = "recording" => q = r
  BY <1>1 DEF SoleWriter
<1> QED
  BY <1>2 DEF Recording

(* Every step keeps it.                                                    *)
LEMMA NextSoleWriter ==
    ASSUME Serial PROVE TInv /\ SoleWriter /\ [Next]_vars => SoleWriter'
<1> SUFFICES ASSUME TInv, SoleWriter, [Next]_vars PROVE SoleWriter'
  OBVIOUS
<1> USE DEF TInv, TypeOK, SoleWriter, Active, Ended
<1>1. ASSUME NEW r \in Runs, Start(r) PROVE SoleWriter'
  <2>1. \A q \in Runs : pc[q] \in Ended \cup {"idle"}
    BY <1>1 DEF Start, MayStart
  <2>2. \/ pc' = [pc EXCEPT ![r] = "fetching"]
        \/ pc' = [pc EXCEPT ![r] = "failed"]
    BY <1>1 DEF Start
  <2>3. /\ \A q \in Runs \ {r} : pc'[q] = pc[q]
        /\ pc'[r] \in {"fetching", "failed"}
    BY <2>2
  <2> QED
    BY <2>1, <2>3
<1>2. ASSUME NEW r \in Runs, OpenFile(r) PROVE SoleWriter'
  BY <1>2 DEF OpenFile
<1>3. ASSUME NEW r \in Runs, CloseFile(r) PROVE SoleWriter'
  BY <1>3 DEF CloseFile
<1>4. ASSUME NEW r \in Runs, SkipFile(r) PROVE SoleWriter'
  BY <1>4 DEF SkipFile
<1>5. ASSUME NEW r \in Runs, Fail(r) PROVE SoleWriter'
  BY <1>5 DEF Fail
<1>6. ASSUME NEW r \in Runs, LoadManifest(r) PROVE SoleWriter'
  BY <1>6 DEF LoadManifest
<1>7. ASSUME NEW r \in Runs, RefuseManifest(r) PROVE SoleWriter'
  BY <1>7 DEF RefuseManifest
<1>8. ASSUME NEW r \in Runs, OpenManifest(r) PROVE SoleWriter'
  <2>1. ~manifest'.intact
    BY <1>8 DEF OpenManifest, TornManifest
  <2>2. memory'[r] # << >>
    <3>1. memory[r] \in Seq(RunEntry)
      OBVIOUS
    <3>2. [run |-> r, files |-> files[r]] \in RunEntry
      BY DEF RunEntry
    <3>3. Append(memory[r], [run |-> r, files |-> files[r]]) # << >>
      <4> DEFINE e == [run |-> r, files |-> files[r]]
      <4> HIDE DEF e, TInv, TypeOK, SoleWriter
      <4> QED
        BY <3>1, <3>2, FrontOfAppend DEF e
    <3>4. memory'[r] = Append(memory[r], [run |-> r, files |-> files[r]])
      BY <1>8 DEF OpenManifest
    <3> QED
      BY <3>3, <3>4
  <2>3. pc' = [pc EXCEPT ![r] = "recording"] /\ pc[r] = "loaded"
    BY <1>8 DEF OpenManifest
  <2>4. /\ \A q \in Runs \ {r} : pc'[q] = pc[q] /\ pc[q] \in Ended \cup {"idle"}
        /\ pc'[r] = "recording"
    BY <2>3
  <2> QED
    BY <2>1, <2>2, <2>4
<1>9. ASSUME NEW r \in Runs, WriteManifest(r) PROVE SoleWriter'
  <2>1. pc[r] = "recording" /\ pc' = [pc EXCEPT ![r] = "done"]
    BY <1>9 DEF WriteManifest
  <2>2. \A q \in Runs \ {r} : pc'[q] = pc[q] /\ pc[q] \in Ended \cup {"idle"}
    BY <2>1
  <2>3. pc'[r] = "done"
    BY <2>1
  <2> QED
    BY <2>2, <2>3
<1>10. ASSUME NEW r \in Runs, EndUnrecorded(r) PROVE SoleWriter'
  BY <1>10 DEF EndUnrecorded
<1>11. CASE UNCHANGED vars
  BY <1>11 DEF vars
<1> HIDE DEF TInv, TypeOK, SoleWriter, Active, Ended
<1> QED
  BY <1>1, <1>2, <1>3, <1>4, <1>5, <1>6, <1>7, <1>8, <1>9, <1>10, <1>11
  DEF Next, Proceed

-----------------------------------------------------------------------------
(* Steps that leave the manifest and its writer alone leave the log alone. *)
LEMMA LogUntouched ==
    ASSUME manifest' = manifest, Recording' = Recording,
           \A r \in Recording : memory'[r] = memory[r]
    PROVE  UNCHANGED <<LogEntries, ~manifest.intact /\ Recording = {}>>
<1>1. CASE manifest.intact \/ Recording = {}
  BY <1>1 DEF LogEntries
<1>2. CASE ~manifest.intact /\ Recording # {}
  <2> DEFINE w == CHOOSE r \in Recording : TRUE
  <2>1. w \in Recording
    BY <1>2
  <2> HIDE DEF w
  <2>2. memory'[w] = memory[w]
    BY <2>1
  <2> QED
    BY <1>2, <2>2 DEF LogEntries, w
<1> QED
  BY <1>1, <1>2

(* While one invocation rewrites the manifest, the log is what it loaded.  *)
LEMMA LogWhileRecording ==
    ASSUME NEW r \in Runs, Recording = {r}, ~manifest.intact
    PROVE  LogEntries = Front(memory[r])
<1>1. (CHOOSE q \in Recording : TRUE) = r
  OBVIOUS
<1> QED
  BY <1>1 DEF LogEntries

(* Every step is a step of the log, or leaves it alone.                    *)
LEMMA NextLog ==
    ASSUME TInv, SoleWriter, [Next]_vars
    PROVE  [Log!Next]_<<LogEntries, ~manifest.intact /\ Recording = {}>>
<1> DEFINE Untouched == UNCHANGED <<LogEntries, ~manifest.intact /\ Recording = {}>>
<1> USE DEF TInv, TypeOK, Ended, Active, SoleWriter
<1>1. ASSUME NEW r \in Runs,
             Start(r) \/ OpenFile(r) \/ CloseFile(r) \/ SkipFile(r)
               \/ EndUnrecorded(r) \/ LoadManifest(r) \/ RefuseManifest(r)
      PROVE  Untouched
  <2>1. manifest' = manifest /\ Recording' = Recording
    BY <1>1 DEF Start, OpenFile, CloseFile, SkipFile, EndUnrecorded,
                LoadManifest, RefuseManifest, Recording
  <2>2. \A q \in Recording : memory'[q] = memory[q]
    BY <1>1 DEF Start, OpenFile, CloseFile, SkipFile, EndUnrecorded,
                LoadManifest, RefuseManifest, Recording
  <2> QED
    BY <2>1, <2>2, LogUntouched
<1>2. ASSUME NEW r \in Runs, OpenManifest(r) PROVE Untouched
  <2>1. manifest.intact /\ memory[r] = manifest.runs /\ LogEntries = memory[r]
    BY <1>2 DEF OpenManifest, LogEntries
  <2>2. manifest'.intact = FALSE
    BY <1>2 DEF OpenManifest, TornManifest
  <2>3. Recording' = {r}
    <3>1. \A q \in Runs : q # r => pc[q] # "recording"
      BY <1>2 DEF OpenManifest
    <3> QED
      BY <1>2, <3>1 DEF OpenManifest, Recording
  <2>4. LogEntries' = Front(memory'[r])
    <3>1. (CHOOSE q \in Recording' : TRUE) = r
      BY <2>3
    <3> QED
      BY <2>2, <2>3, <3>1 DEF LogEntries
  <2>5. Front(memory'[r]) = memory[r]
    <3>1. [run |-> r, files |-> files[r]] \in RunEntry
      BY DEF RunEntry
    <3>2. memory'[r] = Append(memory[r], [run |-> r, files |-> files[r]])
      BY <1>2 DEF OpenManifest
    <3>3. memory[r] \in Seq(RunEntry)
      OBVIOUS
    <3> QED
      BY <3>1, <3>2, <3>3, FrontOfAppend
  <2> QED
    BY <2>1, <2>2, <2>3, <2>4, <2>5
<1>3. ASSUME NEW r \in Runs, WriteManifest(r) PROVE Log!AppendEntry
  <2>1. ~manifest.intact /\ memory[r] # << >> /\ pc[r] = "recording"
    BY <1>3 DEF WriteManifest
  <2>2. Recording = {r}
    BY <2>1, SoleRecorder
  <2>3. LogEntries = Front(memory[r])
    BY <2>1, <2>2, LogWhileRecording
  <2>4. manifest'.intact = TRUE /\ LogEntries' = memory[r]
    BY <1>3, <2>1 DEF WriteManifest, Rewritten, LogEntries
  <2>5. memory[r] \in Seq(RunEntry)
    OBVIOUS
  <2> QED
    BY <2>1, <2>2, <2>3, <2>4, <2>5, FrontOfNonEmpty DEF Log!AppendEntry
<1>4. ASSUME NEW r \in Runs, Fail(r) PROVE Untouched \/ Log!Lose
  <2>1. CASE pc[r] = "recording"
    <3>1. ~manifest.intact /\ Recording = {r}
      BY <2>1, SoleRecorder
    <3>2. manifest' = manifest /\ Recording' = {}
      BY <1>4, <3>1 DEF Fail, Recording
    <3> QED
      BY <3>1, <3>2 DEF Log!Lose, LogEntries
  <2>2. CASE pc[r] # "recording"
    <3>1. manifest' = manifest /\ Recording' = Recording /\ memory' = memory
      BY <1>4, <2>2 DEF Fail, Recording
    <3> QED
      BY <3>1, LogUntouched
  <2> QED
    BY <2>1, <2>2
<1>5. ASSUME UNCHANGED vars PROVE Untouched
  <2>1. manifest' = manifest /\ Recording' = Recording /\ memory' = memory
    BY <1>5 DEF vars, Recording
  <2> QED
    BY <2>1, LogUntouched
<1> HIDE DEF Untouched, TInv, TypeOK, Ended, Active, SoleWriter
<1>6. Untouched \/ Log!AppendEntry \/ Log!Lose
  <2>1. CASE UNCHANGED vars
    BY <2>1, <1>5
  <2>2. CASE Next
    BY <2>2, <1>1, <1>2, <1>3, <1>4 DEF Next, Proceed
  <2> QED
    BY <2>1, <2>2
<1> QED
  BY <1>6 DEF Untouched, Log!Next

(* The initial state is an empty log.                                      *)
LEMMA InitLog == Init => Log!Init
  BY DEF Init, Log!Init, LogEntries

(* Run one at a time, the scripts use the manifest as an append-only log,  *)
(* whatever fails: entries are never changed or dropped, and a manifest    *)
(* lost to a crash stays lost (manifest.py, "append-only").                *)
THEOREM SerialRunsImplementLog ==
    ASSUME Serial PROVE Spec => ImplementsLog
<1>1. Init => TInv /\ SoleWriter /\ Log!Init
  BY InitTInv, InitSoleWriter, InitLog
<1>2. TInv /\ SoleWriter /\ [Next]_vars
        => /\ TInv' /\ SoleWriter'
           /\ [Log!Next]_<<LogEntries, ~manifest.intact /\ Recording = {}>>
  BY NextTInv, NextSoleWriter, NextLog
<1> QED
  BY <1>1, <1>2, PTL DEF Spec, ImplementsLog, Log!Spec

-----------------------------------------------------------------------------
(* Only a script that needs the configuration has it to write.             *)
ConfigSafe ==
    \A r \in Runs : Script[r] = "fetch_tvl" =>
        \A i \in 1 .. Len(todo[r]) : todo[r][i] # "config"

(* The initial state satisfies it.                                         *)
LEMMA InitConfigSafe == Init => ConfigSafe
  BY DEF Init, ConfigSafe

(* Every step keeps it.                                                    *)
LEMMA NextConfigSafe == TInv /\ ConfigSafe /\ [Next]_vars => ConfigSafe'
<1> SUFFICES ASSUME TInv, ConfigSafe, [Next]_vars PROVE ConfigSafe'
  OBVIOUS
<1> USE DEF TInv, TypeOK, ConfigSafe
<1>1. ASSUME NEW r \in Runs, Start(r) PROVE ConfigSafe'
  <2>1. \/ todo' = todo
        \/ todo' = [todo EXCEPT ![r] = Outputs[Script[r]]]
    BY <1>1 DEF Start
  <2>2. Script[r] = "fetch_tvl" => Outputs[Script[r]] = <<"tvl_daily">>
    BY DEF Outputs
  <2>3. ASSUME NEW q \in Runs, Script[q] = "fetch_tvl",
               NEW i \in 1 .. Len(todo'[q])
        PROVE  todo'[q][i] # "config"
    <3>1. CASE todo'[q] = todo[q]
      BY <2>3, <3>1
    <3>2. CASE todo'[q] = <<"tvl_daily">>
      BY <2>3, <3>2
    <3> QED
      BY <2>1, <2>2, <2>3, <3>1, <3>2
  <2> QED
    BY <2>3
<1>2. ASSUME NEW r \in Runs, CloseFile(r) \/ SkipFile(r) PROVE ConfigSafe'
  <2>1. todo' = [todo EXCEPT ![r] = Tail(todo[r])] /\ todo[r] # << >>
    BY <1>2 DEF CloseFile, SkipFile
  <2>2. /\ Len(Tail(todo[r])) = Len(todo[r]) - 1
        /\ \A i \in 1 .. Len(Tail(todo[r])) : Tail(todo[r])[i] = todo[r][i + 1]
    BY <2>1
  <2>3. \A i \in 1 .. Len(todo'[r]) :
           /\ todo'[r][i] = todo[r][i + 1]
           /\ i + 1 \in 1 .. Len(todo[r])
    BY <2>1, <2>2
  <2>4. \A q \in Runs \ {r} : todo'[q] = todo[q]
    BY <2>1
  <2>5. ASSUME NEW q \in Runs, Script[q] = "fetch_tvl",
               NEW i \in 1 .. Len(todo'[q])
        PROVE  todo'[q][i] # "config"
    <3>1. CASE q = r
      BY <2>3, <2>5, <3>1
    <3>2. CASE q # r
      BY <2>4, <2>5, <3>2
    <3> QED
      BY <3>1, <3>2
  <2> QED
    BY <2>5
<1>3. ASSUME NEW r \in Runs, UNCHANGED todo PROVE ConfigSafe'
  BY <1>3
<1>4. CASE UNCHANGED vars
  BY <1>4 DEF vars
<1> QED
  BY <1>1, <1>2, <1>3, <1>4
  DEF Next, Proceed, OpenFile, EndUnrecorded, Fail, LoadManifest,
      RefuseManifest, OpenManifest, WriteManifest

(* A configuration lost to a kill stays lost and stops every script that   *)
(* needs one (select_markets.py, the file opened before it is dumped).     *)
THEOREM LostConfigIsFinal == Spec => LostConfigStopsAll
<1> DEFINE Final ==
      ConfigLost => /\ ConfigLost'
                    /\ \A r \in NeedsConfig : pc'[r] = "done" => pc[r] = "done"
<1>1. TInv /\ ConfigSafe /\ [Next]_vars => [Final]_vars
  <2> SUFFICES ASSUME TInv, ConfigSafe, ConfigLost, Next PROVE Final
    BY DEF ConfigLost
  <2> USE DEF ConfigLost, NeedsConfig, Active, Ended, TInv, TypeOK
  <2>1. ASSUME NEW r \in Runs, Start(r) PROVE Final
    <3>1. disk' = disk
      BY <2>1 DEF Start
    <3>2. CASE Script[r] = "fetch_tvl"
      <4>1. \A q \in Runs \ {r} : pc'[q] = pc[q]
        BY <2>1 DEF Start
      <4> QED
        BY <3>1, <3>2, <4>1
    <3>3. CASE Script[r] # "fetch_tvl"
      <4>1. "config" \in Inputs[Script[r]] /\ ~Readable("config")
        BY <3>3, PipelineAssumption DEF Inputs, Outputs, Readable
      <4>2. pc' = [pc EXCEPT ![r] = "failed"]
        BY <2>1, <4>1 DEF Start
      <4> QED
        BY <3>1, <4>2
    <3> QED
      BY <3>2, <3>3
  <2>2. ASSUME NEW r \in Runs, Proceed(r) \/ Fail(r) PROVE Final
    <3>1. r \in Active
      BY <2>2 DEF Proceed, Fail, OpenFile, CloseFile, SkipFile,
                  EndUnrecorded, LoadManifest, RefuseManifest,
                  OpenManifest, WriteManifest
    <3>2. Script[r] = "fetch_tvl"
      BY <3>1
    <3>3. \A q \in Runs \ {r} : pc'[q] = pc[q]
      BY <2>2 DEF Proceed, Fail, OpenFile, CloseFile, SkipFile,
                  EndUnrecorded, LoadManifest, RefuseManifest,
                  OpenManifest, WriteManifest
    <3>4. disk'["config"] = disk["config"]
      <4>1. CASE OpenFile(r) \/ CloseFile(r)
        <5>1. todo[r] # << >>
          BY <4>1 DEF OpenFile, CloseFile
        <5>2. Head(todo[r]) # "config"
          BY <3>2, <5>1 DEF ConfigSafe
        <5>3. \A f \in Files : f # Head(todo[r]) => disk'[f] = disk[f]
          BY <4>1 DEF OpenFile, CloseFile
        <5> QED
          BY <5>2, <5>3 DEF Files
      <4>2. CASE UNCHANGED disk
        BY <4>2
      <4> QED
        BY <2>2, <4>1, <4>2
        DEF Proceed, Fail, SkipFile, EndUnrecorded, LoadManifest,
            RefuseManifest, OpenManifest, WriteManifest
    <3> QED
      BY <3>2, <3>3, <3>4
  <2> QED
    BY <2>1, <2>2 DEF Next
<1> QED
  BY <1>1, InitTInv, NextTInv, InitConfigSafe, NextConfigSafe, PTL
  DEF Spec, LostConfigStopsAll

-----------------------------------------------------------------------------
(* The runs that have succeeded and are to be recorded.                    *)
Succeeded == {r \in Runs : pc[r] = "done" /\ Records(r)}

(* A list of entries is that of the runs of S, each once.                  *)
Lists(runs, S) ==
    /\ \A r \in Runs : r \in S <=> \E i \in DOMAIN runs : runs[i].run = r
    /\ \A i, j \in DOMAIN runs : runs[i].run = runs[j].run => i = j

(* What is recorded is what succeeded, and what a writer of the manifest   *)
(* has in memory is that and itself.                                       *)
RecordInv ==
    /\ manifest.intact => Lists(manifest.runs, Succeeded)
    /\ \A r \in Runs : pc[r] = "recording" => Lists(memory[r], Succeeded \cup {r})
    /\ \A r \in Runs : pc[r] \in {"loaded", "recording"} => Records(r)

(* What a list with one more entry is made of.                             *)
LEMMA EntriesAppended ==
    ASSUME NEW runs \in Seq(RunEntry), NEW e \in RunEntry
    PROVE  /\ DOMAIN Append(runs, e) = (DOMAIN runs) \cup {Len(runs) + 1}
           /\ DOMAIN runs = 1 .. Len(runs) /\ Len(runs) \in Nat
           /\ Append(runs, e)[Len(runs) + 1] = e
           /\ \A i \in DOMAIN runs : Append(runs, e)[i] = runs[i]
<1>1. /\ Append(runs, e) \in Seq(RunEntry)
      /\ Len(Append(runs, e)) = Len(runs) + 1 /\ Len(runs) \in Nat
  OBVIOUS
<1>2. /\ DOMAIN Append(runs, e) = 1 .. Len(runs) + 1
      /\ DOMAIN runs = 1 .. Len(runs)
  BY <1>1
<1>3. /\ Append(runs, e)[Len(runs) + 1] = e
      /\ \A i \in 1 .. Len(runs) : Append(runs, e)[i] = runs[i]
  OBVIOUS
<1>4. 1 .. Len(runs) + 1 = (1 .. Len(runs)) \cup {Len(runs) + 1}
  BY <1>1
<1> QED
  BY <1>1, <1>2, <1>3, <1>4

(* The entry of a run that is not listed makes a list of it and the rest.  *)
LEMMA ListsAppend ==
    ASSUME NEW runs \in Seq(RunEntry), NEW S, Lists(runs, S),
           NEW e \in RunEntry, e.run \notin S
    PROVE  Lists(Append(runs, e), S \cup {e.run})
<1> DEFINE t == Append(runs, e)
           n == Len(runs) + 1
<1>1. /\ DOMAIN t = (DOMAIN runs) \cup {n} /\ n \notin DOMAIN runs
      /\ t[n] = e
      /\ \A i \in DOMAIN runs : t[i] = runs[i]
  BY EntriesAppended
<1>2. e.run \in Runs
  BY DEF RunEntry
<1> HIDE DEF t, n
<1>3. \A i \in DOMAIN runs : runs[i].run # e.run
  BY <1>2 DEF Lists
<1>4. ASSUME NEW r \in Runs
      PROVE  r \in S \cup {e.run} <=> \E i \in DOMAIN t : t[i].run = r
  BY <1>1, <1>2 DEF Lists
<1>5. ASSUME NEW i \in DOMAIN t, NEW j \in DOMAIN t, t[i].run = t[j].run
      PROVE  i = j
  BY <1>1, <1>3, <1>5 DEF Lists
<1> QED
  BY <1>4, <1>5 DEF Lists, t

(* The initial state satisfies it.                                         *)
LEMMA InitRecordInv == Init => RecordInv
  BY DEF Init, RecordInv, Lists, Succeeded

(* Every step keeps it, when the scripts are run one at a time.            *)
LEMMA NextRecordInv ==
    TInv /\ SoleWriter /\ RecordInv /\ [Next]_vars => RecordInv'
<1> SUFFICES ASSUME TInv, SoleWriter, RecordInv, [Next]_vars PROVE RecordInv'
  OBVIOUS
<1> USE DEF TInv, TypeOK, Ended
<1>1. ASSUME NEW r \in Runs,
             Start(r) \/ OpenFile(r) \/ CloseFile(r) \/ SkipFile(r)
               \/ EndUnrecorded(r) \/ LoadManifest(r) \/ RefuseManifest(r)
               \/ Fail(r)
      PROVE  RecordInv'
  <2>1. manifest' = manifest
    BY <1>1 DEF Start, OpenFile, CloseFile, SkipFile, EndUnrecorded,
                LoadManifest, RefuseManifest, Fail
  <2>2. Succeeded' = Succeeded
    BY <1>1 DEF Start, OpenFile, CloseFile, SkipFile, EndUnrecorded,
                LoadManifest, RefuseManifest, Fail, Succeeded, Active
  <2>3. \A q \in Runs : pc'[q] = "recording" =>
           pc[q] = "recording" /\ memory'[q] = memory[q]
    BY <1>1 DEF Start, OpenFile, CloseFile, SkipFile, EndUnrecorded,
                LoadManifest, RefuseManifest, Fail
  <2>4. \A q \in Runs : pc'[q] \in {"loaded", "recording"} =>
           pc[q] \in {"loaded", "recording"} \/ Records(q)
    BY <1>1 DEF Start, OpenFile, CloseFile, SkipFile, EndUnrecorded,
                LoadManifest, RefuseManifest, Fail
  <2> QED
    BY <2>1, <2>2, <2>3, <2>4 DEF RecordInv
<1>2. ASSUME NEW r \in Runs, OpenManifest(r) PROVE RecordInv'
  <2> DEFINE e == [run |-> r, files |-> files[r]]
  <2>1. e \in RunEntry /\ e.run = r
    BY DEF RunEntry
  <2>2. pc[r] = "loaded" /\ pc' = [pc EXCEPT ![r] = "recording"]
    BY <1>2 DEF OpenManifest
  <2>3. memory[r] = manifest.runs /\ manifest.intact
    BY <2>2 DEF SoleWriter
  <2>4. Lists(memory[r], Succeeded) /\ r \notin Succeeded
    BY <2>2, <2>3 DEF RecordInv, Succeeded
  <2>5. memory[r] \in Seq(RunEntry) /\ memory'[r] = Append(memory[r], e)
    BY <1>2 DEF OpenManifest
  <2> HIDE DEF e
  <2>6. Lists(memory'[r], Succeeded \cup {r})
    <3>1. memory[r] \in Seq(RunEntry) /\ e.run \notin Succeeded
      BY <2>1, <2>4, <2>5
    <3>2. Lists(Append(memory[r], e), Succeeded \cup {e.run})
      BY <2>1, <2>4, <3>1, ListsAppend
    <3> QED
      BY <2>1, <2>5, <3>2
  <2>7. Succeeded' = Succeeded
    BY <2>2 DEF Succeeded
  <2>8. manifest'.intact = FALSE
    BY <1>2 DEF OpenManifest, TornManifest
  <2>9. \A q \in Runs \ {r} : pc[q] # "recording"
    BY <2>2 DEF SoleWriter, Active
  <2>10. Records(r)
    BY <2>2 DEF RecordInv
  <2> QED
    BY <2>2, <2>6, <2>7, <2>8, <2>9, <2>10 DEF RecordInv
<1>3. ASSUME NEW r \in Runs, WriteManifest(r) PROVE RecordInv'
  <2>1. pc[r] = "recording" /\ pc' = [pc EXCEPT ![r] = "done"]
    BY <1>3 DEF WriteManifest
  <2>2. ~manifest.intact /\ Recording = {r}
    BY <2>1, SoleRecorder DEF SoleWriter
  <2>3. manifest'.runs = memory[r]
    BY <1>3, <2>2 DEF WriteManifest, Rewritten
  <2>4. Succeeded' = Succeeded \cup {r}
    BY <2>1 DEF Succeeded, RecordInv
  <2>5. \A q \in Runs : pc'[q] # "recording"
    BY <2>1, <2>2 DEF Recording
  <2> QED
    BY <2>1, <2>3, <2>4, <2>5 DEF RecordInv
<1>4. CASE UNCHANGED vars
  BY <1>4 DEF vars, RecordInv, Succeeded
<1> HIDE DEF TInv, TypeOK, Ended
<1> QED
  BY <1>1, <1>2, <1>3, <1>4 DEF Next, Proceed

(* Run one at a time, the manifest records each successful run of a fetch  *)
(* script once and nothing else, as long as it can be read (manifest.py,   *)
(* the entry is appended after the files are written).                     *)
THEOREM SerialRunsAreAllRecorded ==
    ASSUME Serial PROVE Spec => []RecordsEverySuccess
<1>1. RecordInv => RecordsEverySuccess
  BY DEF RecordInv, RecordsEverySuccess, Lists, Succeeded
<1>2. Init => TInv /\ SoleWriter /\ RecordInv
  BY InitTInv, InitSoleWriter, InitRecordInv
<1>3. TInv /\ SoleWriter /\ RecordInv /\ [Next]_vars
        => TInv' /\ SoleWriter' /\ RecordInv'
  BY NextTInv, NextSoleWriter, NextRecordInv
<1> QED
  BY <1>1, <1>2, <1>3, PTL DEF Spec

-----------------------------------------------------------------------------
(* What a list of entries says last of a file.                             *)
MentionsIn(runs, f) ==
    {i \in DOMAIN runs : \E e \in runs[i].files : e.file = f}
RecordedIn(runs, f) ==
    IF MentionsIn(runs, f) = {} THEN Absent
    ELSE LET last == Max(MentionsIn(runs, f))
         IN  (CHOOSE e \in runs[last].files : e.file = f).by

(* The files of the cache that the manifest is about.                      *)
Cache == Files \ {"config", "markets_top"}

(* A file is the one a list of entries records, or is torn, or was written *)
(* by an invocation that failed or is about to record it.                  *)
Explained(runs) ==
    \A f \in Cache :
        \/ disk[f] = RecordedIn(runs, f)
        \/ disk[f] = Torn
        \/ disk[f] \in Runs /\ pc[disk[f]] = "failed"
        \/ disk[f] \in Active /\ Holds(f, disk[f]) \in files[disk[f]]

(* Whoever writes a file keeps it in its entry until it records or fails;  *)
(* select_markets, which records nothing, writes nothing of the cache.     *)
HeldInv ==
    /\ \A r \in Runs : \A e \in files[r] :
          e.by = r /\ (r \in Active => disk[e.file] \in {r, Torn})
    /\ \A r \in Runs : pc[r] = "idle" => files[r] = {}
    /\ \A r \in Runs : ~Records(r) =>
          /\ files[r] = {}
          /\ \A i \in 1 .. Len(todo[r]) : todo[r][i] \in {"config", "markets_top"}

(* The manifest explains the cache, and so does what a writer loaded.      *)
DriftInv ==
    /\ manifest.intact => Explained(manifest.runs)
    /\ \A r \in Runs : pc[r] = "recording" =>
          \E prior \in Seq(RunEntry) :
             /\ memory[r] = Append(prior, [run |-> r, files |-> files[r]])
             /\ Explained(prior)

(* An entry that does not mention a file leaves what is recorded of it.    *)
LEMMA RecordedUnlessMentioned ==
    ASSUME NEW runs \in Seq(RunEntry), NEW e \in RunEntry, NEW f,
           \A h \in e.files : h.file # f
    PROVE  RecordedIn(Append(runs, e), f) = RecordedIn(runs, f)
<1> DEFINE t == Append(runs, e)
           n == Len(runs) + 1
<1>1. /\ DOMAIN t = (DOMAIN runs) \cup {n} /\ t[n] = e
      /\ DOMAIN runs = 1 .. Len(runs)
      /\ \A i \in DOMAIN runs : t[i] = runs[i]
  BY EntriesAppended
<1> HIDE DEF t, n
<1>2. MentionsIn(t, f) = MentionsIn(runs, f)
  BY <1>1 DEF MentionsIn
<1>3. CASE MentionsIn(runs, f) = {}
  BY <1>2, <1>3 DEF RecordedIn, t
<1>4. CASE MentionsIn(runs, f) # {}
  <2> DEFINE last == Max(MentionsIn(runs, f))
  <2>1. IsFiniteSet(MentionsIn(runs, f)) /\ MentionsIn(runs, f) \subseteq Int
    <3>1. MentionsIn(runs, f) \subseteq 1 .. Len(runs)
      BY <1>1 DEF MentionsIn
    <3>2. Len(runs) \in Nat
      OBVIOUS
    <3>3. IsFiniteSet(1 .. Len(runs))
      BY <3>2, FS_Interval
    <3> QED
      BY <3>1, <3>2, <3>3, FS_Subset
  <2>2. last \in MentionsIn(runs, f)
    BY <1>4, <2>1, MaxOfFinite
  <2> HIDE DEF last
  <2>3. t[last] = runs[last]
    BY <1>1, <2>2 DEF MentionsIn
  <2> QED
    BY <1>2, <1>4, <2>3 DEF RecordedIn, last, t
<1> QED
  BY <1>3, <1>4

(* The files of an entry are recorded as that run's from then on.          *)
LEMMA RecordedOnceMentioned ==
    ASSUME NEW runs \in Seq(RunEntry), NEW e \in RunEntry, NEW g \in e.files,
           \A h \in e.files : h.by = g.by
    PROVE  RecordedIn(Append(runs, e), g.file) = g.by
<1> DEFINE t == Append(runs, e)
           n == Len(runs) + 1
<1>1. /\ DOMAIN t = (DOMAIN runs) \cup {n} /\ t[n] = e
      /\ DOMAIN runs = 1 .. Len(runs) /\ Len(runs) \in Nat
  BY EntriesAppended
<1>2. n \in Int /\ \A i \in DOMAIN t : i \in Int /\ n >= i
  BY <1>1
<1> HIDE DEF t, n
<1>3. n \in MentionsIn(t, g.file) /\ \A i \in MentionsIn(t, g.file) : i \in Int /\ n >= i
  BY <1>1, <1>2 DEF MentionsIn
<1>4. Max(MentionsIn(t, g.file)) = n
  <2> DEFINE m == Max(MentionsIn(t, g.file))
  <2>1. m \in MentionsIn(t, g.file) /\ \A i \in MentionsIn(t, g.file) : m >= i
    BY <1>3 DEF Max
  <2> HIDE DEF m
  <2>2. m = n
    BY <1>2, <1>3, <2>1
  <2> QED
    BY <2>2 DEF m
<1>5. RecordedIn(t, g.file) = (CHOOSE h \in e.files : h.file = g.file).by
  BY <1>1, <1>3, <1>4 DEF RecordedIn
<1>6. (CHOOSE h \in e.files : h.file = g.file) \in e.files
  OBVIOUS
<1> QED
  BY <1>5, <1>6 DEF t

(* The initial state satisfies it.                                         *)
LEMMA InitDriftInv == Init => HeldInv /\ DriftInv
<1> SUFFICES ASSUME Init PROVE HeldInv /\ DriftInv
  OBVIOUS
<1>1. HeldInv
  BY DEF Init, HeldInv
<1>2. \A f \in Cache : RecordedIn(<< >>, f) = Absent
  BY DEF RecordedIn, MentionsIn
<1>3. Explained(<< >>)
  BY <1>2 DEF Init, Explained, Cache
<1>4. DriftInv
  BY <1>3 DEF Init, DriftInv
<1> QED
  BY <1>1, <1>4

(* Every step keeps the entries in the making, run one at a time.          *)
LEMMA NextHeldInv ==
    TInv /\ SoleWriter /\ HeldInv /\ [Next]_vars => HeldInv'
<1> SUFFICES ASSUME TInv, SoleWriter, HeldInv, [Next]_vars PROVE HeldInv'
  OBVIOUS
<1> USE DEF TInv, TypeOK, Ended
<1> DEFINE Unrecorded == {"config", "markets_top"}
           TodoSafe(q) == \A i \in 1 .. Len(todo[q]) : todo[q][i] \in Unrecorded
<1>1. ASSUME NEW r \in Runs, Start(r) PROVE HeldInv'
  <2>1. /\ UNCHANGED <<disk, files>> /\ pc[r] = "idle"
        /\ \A q \in Runs \ {r} : pc'[q] = pc[q] /\ todo'[q] = todo[q]
        /\ pc'[r] \in {"fetching", "failed"}
        /\ todo'[r] \in {todo[r], Outputs[Script[r]]}
    BY <1>1 DEF Start
  <2>2. ASSUME ~Records(r), NEW i \in 1 .. Len(todo'[r])
        PROVE  todo'[r][i] \in Unrecorded
    <3>1. Outputs[Script[r]] = <<"markets_top", "config">>
      BY <2>2 DEF Records, Outputs
    <3>2. TodoSafe(r)
      BY <2>2 DEF HeldInv
    <3>3. CASE todo'[r] = todo[r]
      BY <2>2, <3>2, <3>3
    <3>4. CASE todo'[r] = <<"markets_top", "config">>
      <4>1. i \in {1, 2}
        BY <2>2, <3>4
      <4> QED
        BY <3>4, <4>1
    <3> QED
      BY <2>1, <3>1, <3>3, <3>4
  <2>3. files[r] = {} /\ \A q \in Runs \ {r} : todo'[q] = todo[q]
    BY <2>1 DEF HeldInv
  <2>4. \A q \in Runs : \A e \in files[q] :
           q # r /\ (q \in Active' => q \in Active)
    BY <2>1, <2>3 DEF Active
  <2>5. \A q \in Runs : pc'[q] = "idle" => pc[q] = "idle"
    BY <2>1
  <2>6. \A q \in Runs : ~Records(q) =>
           files[q] = {} /\ \A i \in 1 .. Len(todo'[q]) : todo'[q][i] \in Unrecorded
    <3> SUFFICES ASSUME NEW q \in Runs, ~Records(q)
                 PROVE  files[q] = {} /\ \A i \in 1 .. Len(todo'[q]) :
                                           todo'[q][i] \in Unrecorded
      OBVIOUS
    <3>1. files[q] = {} /\ TodoSafe(q)
      BY DEF HeldInv
    <3>2. CASE q = r
      BY <2>2, <3>1, <3>2
    <3>3. CASE q # r
      BY <2>3, <3>1, <3>3
    <3> QED
      BY <3>2, <3>3
  <2> QED
    BY <2>1, <2>4, <2>5, <2>6 DEF HeldInv
<1>2. ASSUME NEW r \in Runs, OpenFile(r) PROVE HeldInv'
  <2>1. UNCHANGED <<files, todo>> /\ pc' = [pc EXCEPT ![r] = "writing"]
    BY <1>2 DEF OpenFile
  <2>2. \A f : disk[f] = disk'[f] \/ disk'[f] = Torn \/ f \notin Files
    BY <1>2 DEF OpenFile
  <2>3. \A q \in Runs : q \in Active' => q \in Active
    BY <1>2, <2>1 DEF OpenFile, Active
  <2>4. \A q \in Runs : \A e \in files[q] : e.file \in Files
    BY DEF FileEntry
  <2>5. \A q \in Runs : pc'[q] = "idle" => pc[q] = "idle"
    BY <2>1
  <2> QED
    BY <2>1, <2>2, <2>3, <2>4, <2>5 DEF HeldInv
<1>3. ASSUME NEW r \in Runs, CloseFile(r) PROVE HeldInv'
  <2> DEFINE g == Head(todo[r])
  <2>1. todo[r] \in Seq(Files) /\ todo[r] # << >>
    BY <1>3 DEF CloseFile
  <2>2. /\ g \in Files
        /\ Len(Tail(todo[r])) = Len(todo[r]) - 1
        /\ \A i \in 1 .. Len(Tail(todo[r])) : Tail(todo[r])[i] = todo[r][i + 1]
    BY <2>1
  <2>3. /\ pc[r] = "writing" /\ pc' = [pc EXCEPT ![r] = "fetching"]
        /\ disk' = [disk EXCEPT ![g] = r]
        /\ todo' = [todo EXCEPT ![r] = Tail(todo[r])]
        /\ files' = IF Records(r)
                      THEN [files EXCEPT ![r] = files[r] \cup {Holds(g, r)}]
                      ELSE files
    BY <1>3 DEF CloseFile
  <2> HIDE DEF g
  <2>4. \A q \in Runs : q \in Active' <=> q = r
    BY <2>3 DEF Active, SoleWriter
  <2>5. ASSUME NEW q \in Runs, NEW e \in files'[q]
        PROVE  e.by = q /\ (q \in Active' => disk'[e.file] \in {q, Torn})
    <3>1. CASE e \in files[q]
      <4>1. e.file \in Files
        BY <3>1 DEF FileEntry
      <4>2. e.by = q /\ (q \in Active => disk[e.file] \in {q, Torn})
        BY <3>1 DEF HeldInv
      <4>3. q = r => disk'[e.file] \in {r, Torn}
        BY <2>3, <4>1, <4>2 DEF Active
      <4> QED
        BY <2>4, <4>2, <4>3
    <3>2. CASE e \notin files[q]
      <4>1. q = r /\ e = Holds(g, r)
        BY <2>3, <3>2
      <4> QED
        BY <2>2, <2>3, <4>1 DEF Holds
    <3> QED
      BY <3>1, <3>2
  <2>6. \A q \in Runs : pc'[q] = "idle" => files'[q] = {}
    <3>1. \A q \in Runs : pc'[q] = "idle" => q # r /\ pc[q] = "idle"
      BY <2>3
    <3> QED
      BY <2>3, <3>1 DEF HeldInv
  <2>7. ASSUME NEW q \in Runs, ~Records(q) PROVE files'[q] = {} /\ TodoSafe(q)'
    <3>1. files[q] = {} /\ TodoSafe(q)
      BY <2>7 DEF HeldInv
    <3>2. files'[q] = {}
      BY <2>3, <2>7, <3>1
    <3>3. CASE q = r
      <4>1. \A i \in 1 .. Len(Tail(todo[r])) : i + 1 \in 1 .. Len(todo[r])
        BY <2>1, <2>2
      <4>2. \A i \in 1 .. Len(Tail(todo[r])) : Tail(todo[r])[i] \in Unrecorded
        BY <2>2, <3>1, <3>3, <4>1
      <4>3. todo'[r] = Tail(todo[r])
        BY <2>3
      <4> QED
        BY <3>2, <3>3, <4>2, <4>3
    <3>4. CASE q # r
      BY <2>3, <3>1, <3>2, <3>4
    <3> QED
      BY <3>3, <3>4
  <2> QED
    BY <2>5, <2>6, <2>7 DEF HeldInv
<1>4. ASSUME NEW r \in Runs, SkipFile(r) PROVE HeldInv'
  <2>1. todo[r] \in Seq(Files) /\ todo[r] # << >>
    BY <1>4 DEF SkipFile
  <2>2. /\ Len(Tail(todo[r])) = Len(todo[r]) - 1
        /\ \A i \in 1 .. Len(Tail(todo[r])) : Tail(todo[r])[i] = todo[r][i + 1]
    BY <2>1
  <2>3. /\ UNCHANGED <<disk, pc, files>>
        /\ todo' = [todo EXCEPT ![r] = Tail(todo[r])]
    BY <1>4 DEF SkipFile
  <2>4. ASSUME NEW q \in Runs, ~Records(q) PROVE TodoSafe(q)'
    <3>1. TodoSafe(q)
      BY <2>4 DEF HeldInv
    <3>2. CASE q = r
      <4>1. \A i \in 1 .. Len(Tail(todo[r])) : i + 1 \in 1 .. Len(todo[r])
        BY <2>1, <2>2
      <4>2. \A i \in 1 .. Len(Tail(todo[r])) : Tail(todo[r])[i] \in Unrecorded
        BY <2>2, <3>1, <3>2, <4>1
      <4>3. todo'[r] = Tail(todo[r])
        BY <2>3
      <4> QED
        BY <3>2, <4>2, <4>3
    <3>3. CASE q # r
      BY <2>3, <3>1, <3>3
    <3> QED
      BY <3>2, <3>3
  <2> QED
    BY <2>3, <2>4 DEF HeldInv, Active
<1>5. ASSUME NEW r \in Runs, UNCHANGED <<disk, todo, files>>,
             r \in Active, pc' = [pc EXCEPT ![r] = pc'[r]], pc'[r] # "idle"
      PROVE  HeldInv'
  <2>1. \A q \in Runs : q \in Active' => q \in Active
    BY <1>5 DEF Active
  <2>2. \A q \in Runs : pc'[q] = "idle" => pc[q] = "idle"
    BY <1>5
  <2> QED
    BY <1>5, <2>1, <2>2 DEF HeldInv
<1>6. ASSUME NEW r \in Runs,
             EndUnrecorded(r) \/ LoadManifest(r) \/ RefuseManifest(r)
               \/ OpenManifest(r) \/ WriteManifest(r) \/ Fail(r)
      PROVE  HeldInv'
  <2>1. /\ UNCHANGED <<disk, todo, files>> /\ r \in Active
        /\ pc' = [pc EXCEPT ![r] = pc'[r]] /\ pc'[r] # "idle"
    BY <1>6 DEF EndUnrecorded, LoadManifest, RefuseManifest, OpenManifest,
                WriteManifest, Fail, Active
  <2> QED
    BY <2>1, <1>5
<1>7. CASE UNCHANGED vars
  BY <1>7 DEF vars, HeldInv, Active
<1> HIDE DEF TInv, TypeOK, Ended
<1> QED
  BY <1>1, <1>2, <1>3, <1>4, <1>6, <1>7 DEF Next, Proceed

(* What explains the files goes on doing so as long as they are kept, torn *)
(* or written by an invocation that fails or keeps them in its entry.      *)
LEMMA StillExplained ==
    ASSUME NEW runs, Explained(runs),
           \A f \in Cache : \/ disk'[f] \in {disk[f], Torn}
                            \/ /\ disk'[f] \in Active'
                               /\ Holds(f, disk'[f]) \in files'[disk'[f]],
           \A q \in Runs : pc[q] = "failed" => pc'[q] = "failed",
           \A q \in Active : \/ pc'[q] = "failed" \/ files[q] = {}
                             \/ q \in Active' /\ files[q] \subseteq files'[q]
    PROVE  \A f \in Cache :
              \/ disk'[f] = RecordedIn(runs, f)
              \/ disk'[f] = Torn
              \/ disk'[f] \in Runs /\ pc'[disk'[f]] = "failed"
              \/ disk'[f] \in Active' /\ Holds(f, disk'[f]) \in files'[disk'[f]]
<1> SUFFICES ASSUME NEW f \in Cache, disk'[f] = disk[f]
             PROVE  \/ disk'[f] = RecordedIn(runs, f)
                    \/ disk'[f] = Torn
                    \/ disk'[f] \in Runs /\ pc'[disk'[f]] = "failed"
                    \/ /\ disk'[f] \in Active'
                       /\ Holds(f, disk'[f]) \in files'[disk'[f]]
  OBVIOUS
<1>1. \A q \in Active : q \in Runs
  BY DEF Active
<1> QED
  BY <1>1 DEF Explained

(* Every step keeps it, run one at a time.                                 *)
LEMMA NextDriftInv ==
    TInv /\ SoleWriter /\ RecordInv /\ HeldInv /\ DriftInv /\ [Next]_vars
      => DriftInv'
<1> SUFFICES ASSUME TInv, SoleWriter, RecordInv, HeldInv, DriftInv, [Next]_vars
             PROVE  DriftInv'
  OBVIOUS
<1> USE DEF TInv, TypeOK, Ended
<1> DEFINE KeepsBoth ==
      /\ \A f \in Cache : \/ disk'[f] \in {disk[f], Torn}
                          \/ /\ disk'[f] \in Active'
                             /\ Holds(f, disk'[f]) \in files'[disk'[f]]
      /\ \A q \in Runs : pc[q] = "failed" => pc'[q] = "failed"
      /\ \A q \in Active : \/ pc'[q] = "failed" \/ files[q] = {}
                           \/ q \in Active' /\ files[q] \subseteq files'[q]
<1>1. ASSUME NEW runs, KeepsBoth, Explained(runs)
      PROVE  \A f \in Cache :
                \/ disk'[f] = RecordedIn(runs, f)
                \/ disk'[f] = Torn
                \/ disk'[f] \in Runs /\ pc'[disk'[f]] = "failed"
                \/ /\ disk'[f] \in Active'
                   /\ Holds(f, disk'[f]) \in files'[disk'[f]]
  BY <1>1, StillExplained
<1>2. ASSUME NEW r \in Runs,
             Start(r) \/ OpenFile(r) \/ CloseFile(r) \/ SkipFile(r)
               \/ EndUnrecorded(r) \/ LoadManifest(r) \/ RefuseManifest(r)
               \/ Fail(r) \/ OpenManifest(r)
      PROVE  KeepsBoth
  <2>1. CASE Start(r)
    <3>1. /\ UNCHANGED <<disk, files>> /\ pc[r] = "idle"
          /\ \A q \in Runs \ {r} : pc'[q] = pc[q]
      BY <2>1 DEF Start
    <3> QED
      BY <3>1 DEF Active
  <2>2. CASE OpenFile(r)
    <3>1. /\ UNCHANGED files /\ pc[r] = "fetching"
          /\ \A q \in Runs \ {r} : pc'[q] = pc[q]
          /\ pc'[r] = "writing"
          /\ \A f \in Files : disk'[f] \in {disk[f], Torn}
      BY <2>2 DEF OpenFile
    <3> QED
      BY <3>1 DEF Active, Cache
  <2>3. CASE CloseFile(r)
    <3> DEFINE g == Head(todo[r])
    <3>1. todo[r] \in Seq(Files) /\ todo[r] # << >>
      BY <2>3 DEF CloseFile
    <3>2. g \in Files /\ 1 \in 1 .. Len(todo[r]) /\ g = todo[r][1]
      BY <3>1
    <3>3. /\ pc[r] = "writing" /\ pc' = [pc EXCEPT ![r] = "fetching"]
          /\ disk' = [disk EXCEPT ![g] = r]
          /\ files' = IF Records(r)
                        THEN [files EXCEPT ![r] = files[r] \cup {Holds(g, r)}]
                        ELSE files
      BY <2>3 DEF CloseFile
    <3>4. ~Records(r) => g \notin Cache
      BY <3>2 DEF HeldInv, Cache
    <3> HIDE DEF g
    <3>5. /\ r \in Active' /\ \A q \in Runs \ {r} : pc'[q] = pc[q]
          /\ pc[r] # "failed"
      BY <3>3 DEF Active
    <3>6. \A q \in Runs : files[q] \subseteq files'[q]
      BY <3>3
    <3>7. Records(r) => Holds(g, r) \in files'[r]
      BY <3>3
    <3>8. \A f \in Cache : f # g => disk'[f] = disk[f]
      BY <3>3 DEF Cache
    <3>9. g \in Cache => disk'[g] = r
      BY <3>2, <3>3
    <3>10. ASSUME NEW f \in Cache
           PROVE  \/ disk'[f] \in {disk[f], Torn}
                  \/ disk'[f] \in Active' /\ Holds(f, disk'[f]) \in files'[disk'[f]]
      BY <3>4, <3>5, <3>7, <3>8, <3>9
    <3>11. \A q \in Active : q \in Active' /\ files[q] \subseteq files'[q]
      BY <3>5, <3>6 DEF Active
    <3>12. \A q \in Runs : pc[q] = "failed" => pc'[q] = "failed"
      BY <3>5
    <3> QED
      BY <3>10, <3>11, <3>12
  <2>4. CASE SkipFile(r)
    BY <2>4 DEF SkipFile, Active
  <2>5. CASE EndUnrecorded(r)
    <3>1. /\ UNCHANGED <<disk, files>> /\ files[r] = {} /\ pc[r] = "fetching"
          /\ \A q \in Runs \ {r} : pc'[q] = pc[q]
      BY <2>5 DEF EndUnrecorded, HeldInv
    <3> QED
      BY <3>1 DEF Active
  <2>6. CASE LoadManifest(r) \/ OpenManifest(r)
    <3>1. /\ UNCHANGED <<disk, files>> /\ pc[r] \in {"fetching", "loaded"}
          /\ \A q \in Runs \ {r} : pc'[q] = pc[q]
          /\ pc'[r] \in {"loaded", "recording"}
      BY <2>6 DEF LoadManifest, OpenManifest
    <3> QED
      BY <3>1 DEF Active
  <2>7. CASE RefuseManifest(r) \/ Fail(r)
    <3>1. /\ UNCHANGED <<disk, files>>
          /\ \A q \in Runs \ {r} : pc'[q] = pc[q]
          /\ pc'[r] = "failed"
      BY <2>7 DEF RefuseManifest, Fail
    <3> QED
      BY <3>1 DEF Active
  <2> QED
    BY <1>2, <2>1, <2>2, <2>3, <2>4, <2>5, <2>6, <2>7
<1>3. ASSUME NEW r \in Runs,
             Start(r) \/ OpenFile(r) \/ CloseFile(r) \/ SkipFile(r)
               \/ EndUnrecorded(r) \/ LoadManifest(r) \/ RefuseManifest(r)
               \/ Fail(r)
      PROVE  DriftInv'
  <2>1. KeepsBoth
    BY <1>2, <1>3
  <2>2. manifest' = manifest
    BY <1>3 DEF Start, OpenFile, CloseFile, SkipFile, EndUnrecorded,
                LoadManifest, RefuseManifest, Fail
  <2> HIDE DEF KeepsBoth
  <2>3. ASSUME manifest'.intact PROVE Explained(manifest.runs)'
    <3>1. Explained(manifest.runs)
      BY <2>2, <2>3 DEF DriftInv
    <3> QED
      BY <1>1, <2>1, <2>2, <3>1 DEF Explained
  <2>4. ASSUME NEW q \in Runs, pc'[q] = "recording"
        PROVE  \E prior \in Seq(RunEntry) :
                  /\ memory'[q] = Append(prior, [run |-> q, files |-> files'[q]])
                  /\ Explained(prior)'
    <3>1. /\ pc[q] = "recording" /\ memory'[q] = memory[q]
          /\ files'[q] = files[q]
      BY <1>3, <2>4 DEF Start, OpenFile, CloseFile, SkipFile, EndUnrecorded,
                        LoadManifest, RefuseManifest, Fail
    <3>2. PICK prior \in Seq(RunEntry) :
             /\ memory[q] = Append(prior, [run |-> q, files |-> files[q]])
             /\ Explained(prior)
      BY <3>1 DEF DriftInv
    <3>3. Explained(prior)'
      BY <1>1, <2>1, <3>2 DEF Explained
    <3> QED
      BY <3>1, <3>2, <3>3
  <2> QED
    BY <2>3, <2>4 DEF DriftInv
<1>4. ASSUME NEW r \in Runs, OpenManifest(r) PROVE DriftInv'
  <2>1. KeepsBoth
    BY <1>2, <1>4
  <2> HIDE DEF KeepsBoth
  <2>2. pc[r] = "loaded" /\ pc' = [pc EXCEPT ![r] = "recording"]
    BY <1>4 DEF OpenManifest
  <2>3. memory[r] = manifest.runs /\ manifest.intact
    BY <2>2 DEF SoleWriter
  <2>4. Explained(memory[r])
    BY <2>3 DEF DriftInv
  <2>5. /\ memory'[r] = Append(memory[r], [run |-> r, files |-> files'[r]])
        /\ memory[r] \in Seq(RunEntry)
    BY <1>4 DEF OpenManifest
  <2>6. PICK prior \in Seq(RunEntry) : prior = memory[r]
    BY <2>5
  <2>7. Explained(prior)'
    BY <1>1, <2>1, <2>4, <2>6 DEF Explained
  <2>8. manifest'.intact = FALSE
    BY <1>4 DEF OpenManifest, TornManifest
  <2>9. \A q \in Runs : pc'[q] = "recording" => q = r
    BY <2>2 DEF SoleWriter, Active
  <2> QED
    BY <2>5, <2>6, <2>7, <2>8, <2>9 DEF DriftInv
<1>5. ASSUME NEW r \in Runs, WriteManifest(r) PROVE DriftInv'
  <2>1. pc[r] = "recording" /\ pc' = [pc EXCEPT ![r] = "done"]
    BY <1>5 DEF WriteManifest
  <2>2. ~manifest.intact /\ Recording = {r}
    BY <2>1, SoleRecorder DEF SoleWriter
  <2>3. manifest'.runs = memory[r] /\ UNCHANGED <<disk, files>>
    BY <1>5, <2>2 DEF WriteManifest, Rewritten
  <2> DEFINE e == [run |-> r, files |-> files[r]]
  <2>4. PICK prior \in Seq(RunEntry) :
           memory[r] = Append(prior, e) /\ Explained(prior)
    BY <2>1 DEF DriftInv
  <2>5. e \in RunEntry /\ e.files = files[r]
    BY DEF RunEntry
  <2> HIDE DEF e
  <2>6. r \in Active /\ \A q \in Active : q = r
    BY <2>1 DEF SoleWriter, Active
  <2>7. \A h \in e.files : h.by = r /\ disk[h.file] \in {r, Torn}
    BY <2>5, <2>6 DEF HeldInv
  <2>8. \A q \in Runs : pc[q] = "failed" => pc'[q] = "failed"
    BY <2>1
  <2>9. ASSUME NEW f \in Cache
        PROVE  \/ disk'[f] = RecordedIn(memory[r], f)
               \/ disk'[f] = Torn
               \/ disk'[f] \in Runs /\ pc'[disk'[f]] = "failed"
    <3>1. CASE \E h \in e.files : h.file = f
      <4>1. RecordedIn(Append(prior, e), f) = r
        <5>1. PICK h \in e.files : h.file = f
          BY <3>1
        <5>2. h.by = r /\ \A g \in e.files : g.by = h.by
          BY <2>7
        <5>3. RecordedIn(Append(prior, e), h.file) = h.by
          BY <2>5, <5>2, RecordedOnceMentioned
        <5> QED
          BY <5>1, <5>2, <5>3
      <4> QED
        BY <2>3, <2>4, <2>7, <3>1, <4>1
    <3>2. CASE \A h \in e.files : h.file # f
      <4>1. RecordedIn(Append(prior, e), f) = RecordedIn(prior, f)
        BY <2>5, <3>2, RecordedUnlessMentioned
      <4>2. Holds(f, r) \notin e.files
        BY <3>2 DEF Holds
      <4>3. \/ disk[f] = RecordedIn(prior, f)
            \/ disk[f] = Torn
            \/ disk[f] \in Runs /\ pc[disk[f]] = "failed"
            \/ disk[f] = r /\ Holds(f, r) \in files[r]
        BY <2>4, <2>6 DEF Explained
      <4> QED
        BY <2>3, <2>4, <2>5, <2>8, <4>1, <4>2, <4>3
    <3> QED
      BY <3>1, <3>2
  <2>10. Explained(manifest.runs)'
    BY <2>3, <2>9 DEF Explained
  <2>11. \A q \in Runs : pc'[q] # "recording"
    BY <2>1, <2>2 DEF Recording
  <2> QED
    BY <2>10, <2>11 DEF DriftInv
<1>6. CASE UNCHANGED vars
  <2>1. /\ manifest' = manifest /\ pc' = pc /\ memory' = memory
        /\ files' = files /\ disk' = disk
    BY <1>6 DEF vars
  <2> QED
    BY <2>1 DEF DriftInv, Explained, Active
<1> HIDE DEF TInv, TypeOK, Ended
<1> QED
  BY <1>3, <1>4, <1>5, <1>6 DEF Next, Proceed

(* Run one at a time, a file of the cache that is not the one the manifest *)
(* records is torn or was written by a run that failed: a digest that does *)
(* not match is never the mark of a run that went well (manifest.py:5).    *)
THEOREM SerialDriftMeansAFailedRun ==
    ASSUME Serial PROVE Spec => []DriftMeansAFailedRun
<1>1. TInv /\ DriftInv => DriftMeansAFailedRun
  <2>1. \A f : Recorded(f) = RecordedIn(manifest.runs, f)
    BY DEF Recorded, RecordedIn, Mentions, MentionsIn
  <2> QED
    BY <2>1 DEF DriftInv, DriftMeansAFailedRun, Explained, Cache
<1>2. Init => TInv /\ SoleWriter /\ RecordInv /\ HeldInv /\ DriftInv
  BY InitTInv, InitSoleWriter, InitRecordInv, InitDriftInv
<1>3. TInv /\ SoleWriter /\ RecordInv /\ HeldInv /\ DriftInv /\ [Next]_vars
        => TInv' /\ SoleWriter' /\ RecordInv' /\ HeldInv' /\ DriftInv'
  BY NextTInv, NextSoleWriter, NextRecordInv, NextHeldInv, NextDriftInv
<1> QED
  BY <1>1, <1>2, <1>3, PTL DEF Spec

-----------------------------------------------------------------------------
(***************************************************************************)
(* What the files say, for every set of markets, all decimals and prices,  *)
(* and every order of the scripts and of their failed reads.               *)
(*                                                                         *)
(* A row does not depend on the market list of today but on the one it was *)
(* scaled under: the invariant gives every number of every row in terms of *)
(* those decimals, right or wrong, and says that the rows all of whose     *)
(* reads answered were scaled under the right ones.                        *)
(***************************************************************************)

(* A price scaled under some decimals, as an exponent.                     *)
PriceUnder(m, under) == TruePrice[m] + Loan[m] - Coll[m] - under[1] + under[2]

TrueDecimals(m) == <<Loan[m], Coll[m]>>

MarketsInv == \A m \in Markets : markets[m] \in RowsOf(m) \cup {NoRows}

PricesInv ==
    \A m \in Markets : prices[m] # NoRows =>
        /\ prices[m] \in PriceRows
        /\ prices[m].price = PriceUnder(m, prices[m].under)

EventsInv ==
    \A m \in Markets : events[m] # NoRows =>
        /\ events[m] \in EventRows
        /\ events[m].repaid = Loan[m] - events[m].under[1]
        /\ events[m].seized = Coll[m] - events[m].under[2]

QuoteScaled(m, row) ==
    /\ row \in QuoteRows
    /\ row.gap = PriceUnder(m, row.under) - PriceUnder(m, row.priceUnder)
    /\ row.sold = row.under[2] - PriceUnder(m, row.priceUnder)
                    - Coll[m] + TruePrice[m] + UsdPerLoan[m]

QuotesInv ==
    \A m \in Markets : quotes[m] # NoRows => QuoteScaled(m, quotes[m])

TrustedInv ==
    /\ trusted \in [prices: SUBSET (Markets \ Idle), quotes: SUBSET (Markets \ Idle)]
    /\ \A m \in trusted.prices :
         prices[m] # NoRows /\ prices[m].under = TrueDecimals(m)
    /\ \A m \in trusted.quotes :
         /\ quotes[m] # NoRows /\ quotes[m].under = TrueDecimals(m)
         /\ quotes[m].priceUnder = TrueDecimals(m)

DataInv ==
    /\ configured \in SUBSET Markets \ {{}}
    /\ MarketsInv /\ PricesInv /\ EventsInv /\ QuotesInv /\ TrustedInv

-----------------------------------------------------------------------------
(* The true decimals and prices are numbers.                               *)
LEMMA ConstantTypes ==
    ASSUME NEW m \in Markets
    PROVE  /\ Loan[m] \in Nat /\ Coll[m] \in Nat
           /\ TruePrice[m] \in Int /\ UsdPerLoan[m] \in Int
           /\ DefaultDecimals \in Nat
  BY MarketDataAssumption DEF DefaultDecimals

(* Right or wrong, the decimals of a row are numbers.                      *)
LEMMA RowTypes ==
    ASSUME NEW m \in Markets, NEW row \in RowsOf(m)
    PROVE  /\ row # NoRows /\ row.loan \in Nat /\ row.coll \in Nat
           /\ Decimals(row) \in Pair
           /\ Decimals(row)[1] = row.loan /\ Decimals(row)[2] = row.coll
<1>1. row # NoRows
  BY NoRowsAssumption
<1>2. row.loan \in DecimalsRead(Loan[m])
      /\ row.coll \in IF m \in Idle THEN {0} ELSE DecimalsRead(Coll[m])
  BY DEF RowsOf
<1>3. row.loan \in Nat /\ row.coll \in Nat
  BY <1>2, ConstantTypes DEF DecimalsRead
<1> QED
  BY <1>1, <1>3 DEF Decimals, Pair

(* Scaling a price down by the exponent of the decimals that were read.    *)
LEMMA Rescaled ==
    ASSUME NEW t \in Int, NEW l \in Nat, NEW c \in Nat,
           NEW rl \in Nat, NEW rc \in Nat
    PROVE  /\ (t + 36 + l - c) - (36 + rl - rc) \in Int
           /\ (t + 36 + l - c) - (36 + rl - rc) = t + l - c - rl + rc
  OBVIOUS

(* A price row is the true price, off by the decimals it was scaled under. *)
LEMMA PriceRowIs ==
    ASSUME NEW m \in Markets, markets[m] \in RowsOf(m)
    PROVE  /\ PriceRow(m) # NoRows /\ PriceRow(m) \in PriceRows
           /\ PriceRow(m).under = Decimals(markets[m])
           /\ PriceRow(m).price = PriceUnder(m, PriceRow(m).under)
<1> DEFINE row == markets[m]
           u == Decimals(row)
           p == RawPrice(m) - ScaleExponent(row)
<1>1. /\ row.loan \in Nat /\ row.coll \in Nat /\ u \in Pair
      /\ u[1] = row.loan /\ u[2] = row.coll
  BY RowTypes
<1>2. /\ Loan[m] \in Nat /\ Coll[m] \in Nat /\ TruePrice[m] \in Int
  BY ConstantTypes
<1>3. p = (TruePrice[m] + 36 + Loan[m] - Coll[m]) - (36 + row.loan - row.coll)
  BY DEF RawPrice, ScaleExponent
<1>4. PriceRow(m) = [price |-> p, under |-> u]
  BY DEF PriceRow
<1> HIDE DEF row, u, p
<1>5. p \in Int /\ p = PriceUnder(m, u)
  <2> DEFINE t == TruePrice[m]
             l == Loan[m]
             c == Coll[m]
             rl == row.loan
             rc == row.coll
  <2>1. /\ t \in Int /\ l \in Nat /\ c \in Nat /\ rl \in Nat /\ rc \in Nat
        /\ p = (t + 36 + l - c) - (36 + rl - rc)
    BY <1>1, <1>2, <1>3
  <2>2. PriceUnder(m, u) = t + l - c - rl + rc
    BY <1>1 DEF PriceUnder
  <2> HIDE DEF t, l, c, rl, rc
  <2> QED
    BY <2>1, <2>2, Rescaled
<1>6. PriceRow(m) \in PriceRows
  BY <1>1, <1>4, <1>5 DEF PriceRows
<1> QED
  BY <1>4, <1>5, <1>6, NoRowsAssumption DEF u, row

(* An event row is off by the decimals of each token.                      *)
LEMMA EventRowIs ==
    ASSUME NEW m \in Markets, markets[m] \in RowsOf(m)
    PROVE  /\ EventRow(m) # NoRows /\ EventRow(m) \in EventRows
           /\ EventRow(m).repaid = Loan[m] - EventRow(m).under[1]
           /\ EventRow(m).seized = Coll[m] - EventRow(m).under[2]
<1> DEFINE row == markets[m]
           u == Decimals(row)
<1>1. /\ row.loan \in Nat /\ row.coll \in Nat /\ u \in Pair
      /\ u[1] = row.loan /\ u[2] = row.coll
  BY RowTypes
<1>2. /\ Loan[m] \in Nat /\ Coll[m] \in Nat
  BY ConstantTypes
<1>3. EventRow(m) = [repaid |-> Loan[m] - row.loan, seized |-> Coll[m] - row.coll,
                     under |-> u]
  BY DEF EventRow
<1> HIDE DEF row, u
<1>4. EventRow(m) \in EventRows
  BY <1>1, <1>2, <1>3 DEF EventRows
<1> QED
  BY <1>1, <1>3, <1>4, NoRowsAssumption

(* A quote row compares the decimals of the market list with those of the  *)
(* price it started from.                                                  *)
LEMMA QuoteRowIs ==
    ASSUME NEW m \in Markets, markets[m] \in RowsOf(m), prices[m] # NoRows,
           PricesInv
    PROVE  /\ QuoteRow(m) # NoRows /\ QuoteScaled(m, QuoteRow(m))
           /\ QuoteRow(m).under = Decimals(markets[m])
           /\ QuoteRow(m).priceUnder = prices[m].under
<1> DEFINE row == markets[m]
           u == Decimals(row)
           pu == prices[m].under
           p == prices[m].price
           gap == Realized(m) - p
           sold == AmountIn(m) - Coll[m] + TruePrice[m] + UsdPerLoan[m]
<1>1. /\ row.loan \in Nat /\ row.coll \in Nat /\ u \in Pair
      /\ u[1] = row.loan /\ u[2] = row.coll
  BY RowTypes
<1>2. /\ Loan[m] \in Nat /\ Coll[m] \in Nat /\ TruePrice[m] \in Int
      /\ UsdPerLoan[m] \in Int
  BY ConstantTypes
<1>3. p \in Int /\ pu \in Pair /\ p = PriceUnder(m, pu)
  BY DEF PricesInv, PriceRows
<1>4. /\ VolumeNative(m) = 0 - p
      /\ AmountIn(m) = VolumeNative(m) + row.coll
      /\ Realized(m) = (AmountIn(m) - Coll[m] + TruePrice[m] + Loan[m])
                         - row.loan - VolumeNative(m)
  BY Zenon DEF AmountIn, VolumeNative, Realized, AmountOut
<1>5. QuoteRow(m) = [sold |-> sold, gap |-> gap, under |-> u, priceUnder |-> pu]
  BY DEF QuoteRow
<1> DEFINE a == AmountIn(m)
           z == Realized(m)
<1>6. a = (0 - p) + row.coll
  BY <1>4, Zenon
<1>7. z = (a - Coll[m] + TruePrice[m] + Loan[m]) - row.loan - (0 - p)
  BY <1>4, Zenon
<1>8. gap = z - p /\ sold = a - Coll[m] + TruePrice[m] + UsdPerLoan[m]
  OBVIOUS
<1> HIDE DEF row, u, pu, p, gap, sold, a, z
<1>9. gap \in Int /\ sold \in Int
  BY <1>1, <1>2, <1>3, <1>6, <1>7, <1>8
<1>10. gap = PriceUnder(m, u) - p
  BY <1>1, <1>2, <1>3, <1>6, <1>7, <1>8 DEF PriceUnder
<1>11. sold = u[2] - p - Coll[m] + TruePrice[m] + UsdPerLoan[m]
  BY <1>1, <1>2, <1>3, <1>6, <1>8
<1>12. QuoteRow(m) \in QuoteRows
  BY <1>1, <1>3, <1>5, <1>9 DEF QuoteRows
<1>13. QuoteScaled(m, QuoteRow(m))
  BY <1>3, <1>5, <1>10, <1>11, <1>12 DEF QuoteScaled
<1> QED
  BY <1>5, <1>12, <1>13, NoRowsAssumption DEF u, pu, row

-----------------------------------------------------------------------------
(* The invariant.                                                          *)
LEMMA InitDataInv == DataInit => DataInv
<1> SUFFICES ASSUME DataInit PROVE DataInv
  OBVIOUS
<1>1. \A m \in Markets : /\ markets[m] = NoRows /\ prices[m] = NoRows
                         /\ events[m] = NoRows /\ quotes[m] = NoRows
  BY DEF DataInit, Empty
<1> QED
  BY <1>1 DEF DataInit, DataInv, MarketsInv, PricesInv, EventsInv, QuotesInv, TrustedInv

(* Every script, failing or not, keeps the invariant.                      *)
LEMMA NextDataInv == DataInv /\ [DataNext]_dataVars => DataInv'
<1> SUFFICES ASSUME DataInv, [DataNext]_dataVars PROVE DataInv'
  OBVIOUS
<1>1. CASE SelectMarkets
  BY <1>1 DEF SelectMarkets, DataInv, MarketsInv, PricesInv, EventsInv, QuotesInv,
              TrustedInv, QuoteScaled
<1>2. CASE FetchMarkets
  <2>1. PICK row \in [configured -> UNION {RowsOf(m) : m \in Markets} \cup {NoRows}] :
          /\ \A m \in configured : row[m] \in RowsOf(m) \cup {NoRows}
          /\ markets' = [m \in Markets |-> IF m \in configured THEN row[m] ELSE NoRows]
    BY <1>2 DEF FetchMarkets
  <2>2. MarketsInv'
    BY <2>1 DEF MarketsInv
  <2>3. UNCHANGED <<configured, prices, events, quotes, trusted>>
    BY <1>2 DEF FetchMarkets
  <2> QED
    BY <2>2, <2>3 DEF DataInv, PricesInv, EventsInv, QuotesInv, TrustedInv, QuoteScaled
<1>3. CASE FetchOraclePrices
  <2>1. PICK silent \in SUBSET Rowed(markets) :
          LET found == {m \in Rowed(markets) \ silent : Priceable(m)}
          IN  /\ prices' = [m \in Markets |-> IF m \in found THEN PriceRow(m) ELSE NoRows]
              /\ trusted' = [trusted EXCEPT !.prices = Faithful \ (silent \cup Idle)]
    BY <1>3 DEF FetchOraclePrices
  <2> DEFINE found == {m \in Rowed(markets) \ silent : Priceable(m)}
             sure == Faithful \ (silent \cup Idle)
  <2>2. \A m \in found : m \in Markets /\ markets[m] \in RowsOf(m)
    BY DEF DataInv, MarketsInv, Rowed
  <2>3. \A m \in sure : m \in Markets \ Idle /\ m \in found
                        /\ Decimals(markets[m]) = TrueDecimals(m)
    <3> SUFFICES ASSUME NEW m \in sure
                 PROVE  m \in Markets \ Idle /\ m \in found
                        /\ Decimals(markets[m]) = TrueDecimals(m)
      OBVIOUS
    <3>1. /\ m \in Markets \ Idle /\ m \notin silent
          /\ markets[m] = [loan |-> Loan[m], coll |-> Coll[m], oracle |-> "morpho_oracle"]
      BY DEF Faithful, TrueRow
    <3>2. TrueRow(m) \in RowsOf(m)
      BY <3>1 DEF TrueRow, RowsOf, DecimalsRead, OracleTypes
    <3>3. markets[m] # NoRows
      BY <3>1, <3>2, NoRowsAssumption DEF TrueRow
    <3>4. Priceable(m)
      BY <3>1 DEF Priceable
    <3> QED
      BY <3>1, <3>3, <3>4 DEF Rowed, Decimals, TrueDecimals
  <2>4. /\ prices' = [m \in Markets |-> IF m \in found THEN PriceRow(m) ELSE NoRows]
        /\ trusted' = [trusted EXCEPT !.prices = sure]
    BY <2>1
  <2> HIDE DEF found, sure
  <2>5. UNCHANGED <<configured, markets, events, quotes>>
    BY <1>3 DEF FetchOraclePrices
  <2>6. \A m \in found :
          /\ prices'[m] # NoRows /\ prices'[m] \in PriceRows
          /\ prices'[m].under = Decimals(markets[m])
          /\ prices'[m].price = PriceUnder(m, prices'[m].under)
    BY <2>2, <2>4, PriceRowIs
  <2>7. PricesInv'
    <3>1. \A m \in Markets : prices'[m] # NoRows => m \in found
      BY <2>4
    <3> QED
      BY <2>6, <3>1 DEF PricesInv
  <2>8. TrustedInv'
    <3>1. trusted'.prices = sure /\ trusted'.quotes = trusted.quotes
          /\ trusted' \in [prices: SUBSET (Markets \ Idle), quotes: SUBSET (Markets \ Idle)]
      BY <2>3, <2>4 DEF DataInv, TrustedInv
    <3>2. \A m \in sure : prices'[m] # NoRows /\ prices'[m].under = TrueDecimals(m)
      BY <2>3, <2>6
    <3> QED
      BY <2>5, <3>1, <3>2 DEF DataInv, TrustedInv
  <2> QED
    BY <2>5, <2>7, <2>8 DEF DataInv, MarketsInv, EventsInv, QuotesInv, QuoteScaled
<1>4. CASE FetchEvents
  <2>1. PICK found \in SUBSET (Rowed(markets) \ Idle) :
          events' = [m \in Markets |-> IF m \in found THEN EventRow(m) ELSE NoRows]
    BY <1>4 DEF FetchEvents
  <2>2. \A m \in found : m \in Markets /\ markets[m] \in RowsOf(m)
    BY <2>1 DEF DataInv, MarketsInv, Rowed
  <2>3. EventsInv'
    <3>1. \A m \in found : /\ events'[m] \in EventRows
                           /\ events'[m].repaid = Loan[m] - events'[m].under[1]
                           /\ events'[m].seized = Coll[m] - events'[m].under[2]
      BY <2>1, <2>2, EventRowIs
    <3>2. \A m \in Markets : events'[m] # NoRows => m \in found
      BY <2>1
    <3> QED
      BY <3>1, <3>2 DEF EventsInv
  <2>4. UNCHANGED <<configured, markets, prices, quotes, trusted>>
    BY <1>4 DEF FetchEvents
  <2> QED
    BY <2>3, <2>4 DEF DataInv, MarketsInv, PricesInv, QuotesInv, TrustedInv, QuoteScaled
<1>5. CASE FetchQuotes
  <2>1. PICK silent \in SUBSET Rowed(markets) :
          LET found == (Rowed(markets) \ (silent \cup Idle)) \cap Rowed(prices)
          IN  /\ quotes' = [m \in Markets |-> IF m \in found THEN QuoteRow(m) ELSE NoRows]
              /\ trusted' = [trusted EXCEPT
                               !.quotes = (Faithful \cap trusted.prices) \ silent]
    BY <1>5 DEF FetchQuotes
  <2> DEFINE found == (Rowed(markets) \ (silent \cup Idle)) \cap Rowed(prices)
             sure == (Faithful \cap trusted.prices) \ silent
  <2>2. \A m \in found : /\ m \in Markets /\ markets[m] \in RowsOf(m)
                         /\ prices[m] # NoRows
    BY DEF DataInv, MarketsInv, Rowed
  <2>3. \A m \in sure : /\ m \in Markets \ Idle /\ m \in found
                        /\ Decimals(markets[m]) = TrueDecimals(m)
                        /\ prices[m].under = TrueDecimals(m)
    <3> SUFFICES ASSUME NEW m \in sure
                 PROVE  /\ m \in Markets \ Idle /\ m \in found
                        /\ Decimals(markets[m]) = TrueDecimals(m)
                        /\ prices[m].under = TrueDecimals(m)
      OBVIOUS
    <3>1. /\ m \in trusted.prices /\ m \notin silent /\ m \in Markets \ Idle
          /\ prices[m] # NoRows /\ prices[m].under = TrueDecimals(m)
      BY DEF DataInv, TrustedInv
    <3>2. markets[m] = [loan |-> Loan[m], coll |-> Coll[m], oracle |-> "morpho_oracle"]
      BY <3>1 DEF Faithful, TrueRow
    <3>3. TrueRow(m) \in RowsOf(m)
      BY <3>1 DEF TrueRow, RowsOf, DecimalsRead, OracleTypes
    <3>4. markets[m] # NoRows
      BY <3>1, <3>2, <3>3, NoRowsAssumption DEF TrueRow
    <3> QED
      BY <3>1, <3>2, <3>4 DEF Rowed, Decimals, TrueDecimals
  <2>4. /\ quotes' = [m \in Markets |-> IF m \in found THEN QuoteRow(m) ELSE NoRows]
        /\ trusted' = [trusted EXCEPT !.quotes = sure]
    BY <2>1
  <2> HIDE DEF found, sure
  <2>5. UNCHANGED <<configured, markets, prices, events>>
    BY <1>5 DEF FetchQuotes
  <2>6. \A m \in found :
          /\ quotes'[m] # NoRows /\ QuoteScaled(m, quotes'[m])
          /\ quotes'[m].under = Decimals(markets[m])
          /\ quotes'[m].priceUnder = prices[m].under
    <3> SUFFICES ASSUME NEW m \in found
                 PROVE  /\ QuoteRow(m) # NoRows /\ QuoteScaled(m, QuoteRow(m))
                        /\ QuoteRow(m).under = Decimals(markets[m])
                        /\ QuoteRow(m).priceUnder = prices[m].under
      BY <2>2, <2>4
    <3> QED
      BY <2>2, QuoteRowIs DEF DataInv
  <2>7. QuotesInv'
    <3>1. \A m \in Markets : quotes'[m] # NoRows => m \in found
      BY <2>4
    <3>2. \A m \in Markets : quotes'[m] # NoRows => QuoteScaled(m, quotes'[m])
      BY <2>6, <3>1
    <3> QED
      BY <3>2 DEF QuotesInv, QuoteScaled
  <2>8. TrustedInv'
    <3>1. trusted'.quotes = sure /\ trusted'.prices = trusted.prices
          /\ trusted' \in [prices: SUBSET (Markets \ Idle), quotes: SUBSET (Markets \ Idle)]
      BY <2>3, <2>4 DEF DataInv, TrustedInv
    <3>2. \A m \in sure : /\ quotes'[m] # NoRows
                          /\ quotes'[m].under = TrueDecimals(m)
                          /\ quotes'[m].priceUnder = TrueDecimals(m)
      BY <2>3, <2>6
    <3> QED
      BY <2>5, <3>1, <3>2 DEF DataInv, TrustedInv
  <2> QED
    BY <2>5, <2>7, <2>8 DEF DataInv, MarketsInv, PricesInv, EventsInv
<1>6. CASE UNCHANGED dataVars
  BY <1>6 DEF dataVars, DataInv, MarketsInv, PricesInv, EventsInv, QuotesInv, TrustedInv,
              QuoteScaled
<1> QED
  BY <1>1, <1>2, <1>3, <1>4, <1>5, <1>6 DEF DataNext

(* So it always holds.                                                     *)
LEMMA DataInvInvariant == DataSpec => []DataInv
  BY InitDataInv, NextDataInv, PTL DEF DataSpec

-----------------------------------------------------------------------------
(* The files keep their schemas, whatever fails.                           *)
THEOREM DataTypeCorrect == DataSpec => []DataTypeOK
<1>1. DataInv => DataTypeOK
  <2> SUFFICES ASSUME DataInv PROVE DataTypeOK
    OBVIOUS
  <2>1. \A m \in Markets :
          /\ markets[m] \in RowsOf(m) \cup {NoRows}
          /\ prices[m] \in PriceRows \cup {NoRows}
          /\ events[m] \in EventRows \cup {NoRows}
          /\ quotes[m] \in QuoteRows \cup {NoRows}
    BY DEF DataInv, MarketsInv, PricesInv, EventsInv, QuotesInv, QuoteScaled
  <2>2. trusted \in [prices: SUBSET Markets, quotes: SUBSET Markets]
    BY DEF DataInv, TrustedInv
  <2> QED
    BY <2>1, <2>2 DEF DataInv, DataTypeOK
<1> QED
  BY <1>1, DataInvInvariant, PTL

(* Decimals read wrongly (rpc.py's default of 18 after an error) cancel    *)
(* out of a quote's slippage and of what a liquidation repays for what it  *)
(* seizes, as long as the rows compared were scaled under the same ones.   *)
THEOREM WrongDecimalsCancel == DataSpec => []RatiosSurviveWrongDecimals
<1>1. DataInv => RatiosSurviveWrongDecimals
  <2> SUFFICES ASSUME DataInv, NEW m \in Markets
               PROVE  /\ quotes[m] # NoRows /\ quotes[m].under = quotes[m].priceUnder
                           => quotes[m].gap = 0
                      /\ events[m] # NoRows /\ prices[m] # NoRows
                           /\ events[m].under = prices[m].under
                           => events[m].seized + prices[m].price
                                = events[m].repaid + TruePrice[m]
    BY DEF RatiosSurviveWrongDecimals
  <2>1. /\ Loan[m] \in Nat /\ Coll[m] \in Nat /\ TruePrice[m] \in Int
    BY ConstantTypes
  <2>2. ASSUME quotes[m] # NoRows, quotes[m].under = quotes[m].priceUnder
        PROVE  quotes[m].gap = 0
    <3> DEFINE u == quotes[m].under
    <3>1. quotes[m].gap = PriceUnder(m, u) - PriceUnder(m, u) /\ u \in Pair
      BY <2>2 DEF DataInv, QuotesInv, QuoteScaled, QuoteRows
    <3> HIDE DEF u
    <3>2. PriceUnder(m, u) \in Int
      BY <2>1, <3>1 DEF PriceUnder, Pair
    <3> QED
      BY <3>1, <3>2
  <2>3. ASSUME events[m] # NoRows, prices[m] # NoRows,
               events[m].under = prices[m].under
        PROVE  events[m].seized + prices[m].price = events[m].repaid + TruePrice[m]
    <3> DEFINE u == prices[m].under
    <3>1. /\ prices[m].price = PriceUnder(m, u) /\ u \in Pair
          /\ events[m].repaid = Loan[m] - u[1] /\ events[m].seized = Coll[m] - u[2]
      BY <2>3 DEF DataInv, PricesInv, PriceRows, EventsInv
    <3> HIDE DEF u
    <3>2. u[1] \in Nat /\ u[2] \in Nat
      BY <3>1 DEF Pair
    <3> QED
      BY <2>1, <3>1, <3>2 DEF PriceUnder
  <2> QED
    BY <2>2, <2>3
<1> QED
  BY <1>1, DataInvInvariant, PTL

(* They do not cancel out of the size of the trade that was quoted: the    *)
(* decimals of the loan asset, and a loan asset that is not a dollar, move *)
(* it by exactly that much.                                                *)
THEOREM VolumeIsOff == DataSpec => []VolumeOffByLoanAsset
<1>1. DataInv => VolumeOffByLoanAsset
  <2> SUFFICES ASSUME DataInv, NEW m \in Markets, quotes[m] # NoRows,
                      quotes[m].under = quotes[m].priceUnder
               PROVE  quotes[m].sold = (quotes[m].under[1] - Loan[m]) + UsdPerLoan[m]
    BY DEF VolumeOffByLoanAsset
  <2> DEFINE u == quotes[m].under
             sold == quotes[m].sold
  <2>1. /\ sold = u[2] - PriceUnder(m, u) - Coll[m] + TruePrice[m] + UsdPerLoan[m]
        /\ u \in Pair
    BY DEF DataInv, QuotesInv, QuoteScaled, QuoteRows
  <2>2. /\ Loan[m] \in Nat /\ Coll[m] \in Nat /\ TruePrice[m] \in Int
        /\ UsdPerLoan[m] \in Int
    BY ConstantTypes
  <2> HIDE DEF u, sold
  <2>3. u[1] \in Nat /\ u[2] \in Nat
    BY <2>1 DEF Pair
  <2>4. sold = (u[1] - Loan[m]) + UsdPerLoan[m]
    BY <2>1, <2>2, <2>3 DEF PriceUnder
  <2> QED
    BY <2>4 DEF u, sold
<1> QED
  BY <1>1, DataInvInvariant, PTL

(* Where every read answered nothing is missing and nothing is wrong, in   *)
(* whatever order the scripts ran and however often they were run again.   *)
THEOREM AnsweredMeansComplete == DataSpec => []TrustedIsComplete
<1>1. DataInv => TrustedIsComplete
  <2> SUFFICES ASSUME DataInv PROVE TrustedIsComplete
    OBVIOUS
  <2>1. \A m \in Markets : PriceUnder(m, TrueDecimals(m)) = TruePrice[m]
    BY ConstantTypes DEF PriceUnder, TrueDecimals
  <2>2. ASSUME NEW m \in trusted.prices
        PROVE  prices[m] # NoRows /\ prices[m].price = TruePrice[m]
    <3>1. m \in Markets /\ prices[m] # NoRows /\ prices[m].under = TrueDecimals(m)
      BY DEF DataInv, TrustedInv
    <3> QED
      BY <2>1, <3>1 DEF DataInv, PricesInv
  <2>3. ASSUME NEW m \in trusted.quotes
        PROVE  quotes[m] # NoRows /\ quotes[m].gap = 0
               /\ quotes[m].sold = UsdPerLoan[m]
    <3>1. /\ m \in Markets /\ quotes[m] # NoRows /\ quotes[m].under = TrueDecimals(m)
          /\ quotes[m].priceUnder = TrueDecimals(m)
      BY DEF DataInv, TrustedInv
    <3>2. /\ Loan[m] \in Nat /\ Coll[m] \in Nat /\ TruePrice[m] \in Int
          /\ UsdPerLoan[m] \in Int
      BY <3>1, ConstantTypes
    <3>3. QuoteScaled(m, quotes[m])
      BY <3>1 DEF DataInv, QuotesInv
    <3>4. /\ quotes[m].gap = TruePrice[m] - TruePrice[m]
          /\ quotes[m].sold = TrueDecimals(m)[2] - TruePrice[m] - Coll[m]
                                + TruePrice[m] + UsdPerLoan[m]
      BY <2>1, <3>1, <3>3 DEF QuoteScaled
    <3>5. TrueDecimals(m)[2] = Coll[m]
      BY DEF TrueDecimals
    <3> DEFINE gap == quotes[m].gap
               sold == quotes[m].sold
    <3>6. gap = 0 /\ sold = UsdPerLoan[m]
      <4>1. gap = TruePrice[m] - TruePrice[m]
            /\ sold = Coll[m] - TruePrice[m] - Coll[m] + TruePrice[m] + UsdPerLoan[m]
        BY <3>4, <3>5
      <4> HIDE DEF gap, sold
      <4> QED
        BY <3>2, <4>1
    <3> QED
      BY <3>1, <3>6
  <2> QED
    BY <2>2, <2>3 DEF TrustedIsComplete
<1> QED
  BY <1>1, DataInvInvariant, PTL

-----------------------------------------------------------------------------
(***************************************************************************)
(* Fetching page by page, for every page size, window and order of what    *)
(* arrives meanwhile.                                                      *)
(*                                                                         *)
(* By offset, the invariant is about an index of the chain from which on   *)
(* all that there was at the beginning has been walked through: an offset  *)
(* falls back by what arrives, and never skips.  By cursor, it is about what*)
(* there is up to the cursor.                                              *)
(***************************************************************************)

(* In a finite set with a strict total order, the number of members before *)
(* a member tells them apart, takes every value, and grows with the order. *)
Preceding(S, R, e) == {d \in S : <<d, e>> \in R}

(* In a finite set under a strict total order there is one element of      *)
(* every rank, and none beyond.                                            *)
LEMMA RanksInOrder ==
    ASSUME NEW S, IsFiniteSet(S), NEW R,
           \A d \in S : <<d, d>> \notin R,
           \A a, b, c \in S : <<a, b>> \in R /\ <<b, c>> \in R => <<a, c>> \in R,
           \A a, b \in S : a # b => <<a, b>> \in R \/ <<b, a>> \in R
    PROVE  /\ \A n \in 1 .. Cardinality(S) :
                \E e \in S : Cardinality(Preceding(S, R, e)) = n - 1
           /\ \A e \in S : Cardinality(Preceding(S, R, e)) \in 0 .. Cardinality(S) - 1
           /\ \A a, b \in S : <<a, b>> \in R =>
                Cardinality(Preceding(S, R, a))
                  < Cardinality(Preceding(S, R, b))
<1> DEFINE Below(e) == {d \in S : <<d, e>> \in R}
           rank == [e \in S |-> Cardinality(Below(e)) + 1]
           N == Cardinality(S)
<1>1. N \in Nat
  BY FS_CardinalityType
<1>2. ASSUME NEW e \in S PROVE /\ Cardinality(Below(e)) \in Nat /\ rank[e] \in 1 .. N
                             /\ Cardinality(Below(e)) \in 0 .. N - 1
  <2>1. Below(e) \in SUBSET (S \ {e})
    OBVIOUS
  <2>2. IsFiniteSet(S \ {e}) /\ Cardinality(S \ {e}) = N - 1
    BY FS_RemoveElement
  <2> HIDE DEF Below, N
  <2>3. IsFiniteSet(Below(e)) /\ Cardinality(Below(e)) <= N - 1
    BY <2>1, <2>2, FS_Subset
  <2>4. Cardinality(Below(e)) \in Nat
    BY <2>3, FS_CardinalityType
  <2> QED
    BY <2>3, <2>4, <1>1
<1>3. ASSUME NEW a \in S, NEW b \in S, <<a, b>> \in R
      PROVE  Cardinality(Below(a)) < Cardinality(Below(b))
  <2>1. Below(a) \in SUBSET Below(b)
    BY <1>3
  <2>2. a \in Below(b) /\ a \notin Below(a)
    BY <1>3
  <2>3. Below(b) \in SUBSET S
    OBVIOUS
  <2>4. IsFiniteSet(Below(b))
    BY <2>3, FS_Subset
  <2>5. Cardinality(Below(a)) <= Cardinality(Below(b))
          /\ (Cardinality(Below(b)) = Cardinality(Below(a)) => Below(b) = Below(a))
    <3> HIDE DEF Below
    <3> QED
      BY <2>1, <2>4, FS_Subset
  <2>6. Cardinality(Below(b)) # Cardinality(Below(a))
    BY <2>2, <2>5
  <2> HIDE DEF Below
  <2> QED
    BY <2>5, <2>6, <1>2
<1>4. rank \in Injection(S, 1 .. N)
  <2>1. ASSUME NEW a \in S, NEW b \in S, a # b PROVE rank[a] # rank[b]
    <3> HIDE DEF Below
    <3>1. CASE <<a, b>> \in R
      BY <3>1, <1>2, <1>3
    <3>2. CASE <<b, a>> \in R
      BY <3>2, <1>2, <1>3
    <3> QED
      BY <3>1, <3>2, <2>1
  <2>2. rank \in [S -> 1 .. N]
    <3> HIDE DEF Below, N
    <3> QED
      BY <1>2
  <2> HIDE DEF rank
  <2> QED
    BY <2>1, <2>2 DEF Injection, IsInjective
<1>5. rank \in Surjection(S, 1 .. N)
  <2>1. IsFiniteSet(1 .. N) /\ Cardinality(1 .. N) = N
    BY <1>1, FS_Interval
  <2> HIDE DEF rank
  <2> QED
    BY <1>4, <2>1, FS_Injection
<1>6. ASSUME NEW n \in 1 .. N PROVE \E e \in S : Cardinality(Below(e)) = n - 1
  <2>1. PICK e \in S : rank[e] = n
    <3> HIDE DEF rank
    <3> QED
      BY <1>5 DEF Surjection
  <2> HIDE DEF Below
  <2> QED
    BY <2>1, <1>2
<1> QED
  <2>1. \A e \in S : Cardinality(Below(e)) \in 0 .. N - 1
    <3> HIDE DEF Below, N
    <3> QED
      BY <1>2
  <2> QED
    BY <1>3, <1>6, <2>1 DEF Preceding

(* The members of a finite set, the newest first: each of them, once.      *)
LEMMA NewestFirstIs ==
    ASSUME NEW S, IsFiniteSet(S), S \subseteq Int
    PROVE  /\ NewestFirst(S) \in Seq(S)
           /\ Len(NewestFirst(S)) = Cardinality(S)
           /\ {NewestFirst(S)[n] : n \in DOMAIN NewestFirst(S)} = S
<1> DEFINE R == {p \in S \X S : p[1] > p[2]}
           N == Cardinality(S)
           s == NewestFirst(S)
           After(i) == {j \in S : j > i}
<1>1. N \in Nat
  BY FS_CardinalityType
<1>2. ASSUME NEW i \in S PROVE Preceding(S, R, i) = After(i)
  BY DEF Preceding
<1>3. /\ \A d \in S : <<d, d>> \notin R
      /\ \A a, b, c \in S : <<a, b>> \in R /\ <<b, c>> \in R => <<a, c>> \in R
      /\ \A a, b \in S : a # b => <<a, b>> \in R \/ <<b, a>> \in R
  OBVIOUS
<1>4. /\ \A n \in 1 .. N :
            \E e \in S : Cardinality(Preceding(S, R, e)) = n - 1
      /\ \A e \in S : Cardinality(Preceding(S, R, e)) \in 0 .. N - 1
      /\ \A a, b \in S : <<a, b>> \in R =>
           Cardinality(Preceding(S, R, a))
             < Cardinality(Preceding(S, R, b))
  <2> HIDE DEF R
  <2> QED
    BY <1>3, RanksInOrder
<1>5. /\ \A n \in 1 .. N : \E i \in S : Cardinality(After(i)) = n - 1
      /\ \A i \in S : Cardinality(After(i)) \in 0 .. N - 1
      /\ \A a, b \in S : a > b => Cardinality(After(a)) < Cardinality(After(b))
  <2>1. \A i \in S : Cardinality(Preceding(S, R, i)) = Cardinality(After(i))
    BY <1>2
  <2>2. \A a, b \in S : a > b => <<a, b>> \in R
    OBVIOUS
  <2> HIDE DEF R, After
  <2> QED
    BY <1>4, <2>1, <2>2
<1>6. s = [n \in 1 .. N |-> CHOOSE i \in S : Cardinality(After(i)) = n - 1]
  BY DEF NewestFirst
<1>7. ASSUME NEW n \in 1 .. N
      PROVE  s[n] \in S /\ Cardinality(After(s[n])) = n - 1
  <2>1. s[n] = CHOOSE i \in S : Cardinality(After(i)) = n - 1
    BY <1>6
  <2>2. \E i \in S : Cardinality(After(i)) = n - 1
    BY <1>5
  <2> HIDE DEF s, After
  <2> QED
    BY <2>1, <2>2
<1>8. s \in [1 .. N -> S]
  <2> HIDE DEF After
  <2>1. \A n \in 1 .. N : s[n] \in S
    BY <1>7
  <2> QED
    BY <1>6, <2>1
<1>9. ASSUME NEW i \in S PROVE \E n \in 1 .. N : s[n] = i
  <2>1. PICK c \in 0 .. N - 1 : c = Cardinality(After(i))
    <3> HIDE DEF After
    <3> QED
      BY <1>1, <1>5
  <2>2. PICK n \in 1 .. N : n = c + 1
    <3>1. c + 1 \in 1 .. N
      <4> HIDE DEF N
      <4> QED
        BY <1>1
    <3> QED
      BY <3>1
  <2>3. PICK j \in S : j = s[n]
    BY <1>7
  <2>4. Cardinality(After(j)) = c
    <3> HIDE DEF After, s
    <3>1. Cardinality(After(j)) = n - 1
      BY <1>7, <2>3
    <3> QED
      BY <2>1, <2>2, <3>1
  <2>5. j \in Int /\ i \in Int
    OBVIOUS
  <2>6. j = i
    <3> HIDE DEF After
    <3> QED
      BY <1>5, <2>1, <2>4, <2>5
  <2> QED
    BY <2>3, <2>6
<1>10. DOMAIN s = 1 .. N /\ Len(s) = N /\ s \in Seq(S)
  <2> HIDE DEF s, N
  <2> QED
    BY <1>1, <1>8
<1> HIDE DEF s, N
<1>11. {s[n] : n \in DOMAIN s} = S
  BY <1>7, <1>9, <1>10
<1> QED
  BY <1>10, <1>11 DEF s, N

-----------------------------------------------------------------------------
(* The greater of 1 and another integer, as Max chooses it.                *)
LEMMA OldestOfPage ==
    ASSUME NEW a \in Int PROVE Max({1, a}) = (IF a >= 1 THEN a ELSE 1)
<1> DEFINE S == {1, a}
<1>1. \E x \in S : \A y \in S : x >= y
  <2>1. CASE a >= 1
    BY <2>1
  <2>2. CASE ~(a >= 1)
    BY <2>2
  <2> QED
    BY <2>1, <2>2
<1>2. Max(S) \in S /\ \A y \in S : Max(S) >= y
  BY <1>1 DEF Max
<1> QED
  BY <1>2

(* A page is the run of indices that ends, downwards, after PageSize of    *)
(* them or at the oldest event.                                            *)
LEMMA PageIs ==
    ASSUME NEW newest \in Int, newest <= Len(chain), chain \in Seq(Event),
           NEW offset, offset = Len(chain) - newest
    PROVE  \E n \in 0 .. PageSize :
              /\ Page(offset) = [k \in 1 .. n |-> newest - k + 1]
              /\ n < PageSize => newest <= n
              /\ n <= newest \/ n = 0
<1> DEFINE oldest == Max({1, newest - PageSize + 1})
           n == IF newest < 1 THEN 0 ELSE newest - oldest + 1
<1>1. PageSize \in Nat \ {0} /\ newest - PageSize + 1 \in Int
  BY PagingAssumption
<1>2. oldest = IF newest - PageSize + 1 >= 1 THEN newest - PageSize + 1 ELSE 1
  BY <1>1, OldestOfPage
<1>3. Page(offset) = [k \in 1 .. n |-> newest - k + 1]
  <2>1. Len(chain) \in Nat
    OBVIOUS
  <2>2. Len(chain) - offset = newest
    BY <2>1
  <2> QED
    BY <2>2 DEF Page
<1> HIDE DEF oldest
<1>4. /\ n \in 0 .. PageSize
      /\ n < PageSize => newest <= n
      /\ n <= newest \/ n = 0
  BY <1>1, <1>2
<1> QED
  BY <1>3, <1>4

(* What an answer adds: the indices of a run down from the newest event    *)
(* beyond the offset that are kept, each once; the run stops before an     *)
(* event that ends the loop, or with the page.                             *)
Run(newest, f) == {i \in newest - f + 2 .. newest : Keeps(i)}

(* The position in a page of an index above the one at position f.         *)
LEMMA PositionOf ==
    ASSUME NEW newest \in Int, NEW n \in Nat, NEW f \in Int, NEW i \in Int,
           f <= n + 1, newest - f + 2 <= i, i <= newest
    PROVE  /\ newest - i + 1 \in 1 .. n /\ newest - i + 1 < f
           /\ newest - (newest - i + 1) + 1 = i
  OBVIOUS

(* What a page is, where it stops and what is kept of it.                  *)
LEMMA KeptIs ==
    ASSUME PagingTypeOK, NEW newest \in Int, newest = Len(chain) - skip
    PROVE  \E n \in 0 .. PageSize : \E f \in 1 .. n + 1 :
              /\ Len(Page(skip)) = n /\ FirstOlder(Page(skip)) = f
              /\ n < PageSize => newest <= n
              /\ n <= newest \/ n = 0
              /\ f <= n => Ends(newest - f + 1)
              /\ \A i \in newest - f + 2 .. newest : ~Ends(i)
              /\ IsFiniteSet(Run(newest, f))
              /\ Kept(Page(skip)) \in Seq(Run(newest, f))
              /\ Len(Kept(Page(skip))) = Cardinality(Run(newest, f))
              /\ {Kept(Page(skip))[k] : k \in DOMAIN Kept(Page(skip))} = Run(newest, f)
<1> DEFINE page == Page(skip)
<1>1. chain \in Seq(Event) /\ skip \in Nat /\ Len(chain) \in Nat /\ newest <= Len(chain)
        /\ skip = Len(chain) - newest
  BY DEF PagingTypeOK
<1>2. PICK n \in 0 .. PageSize :
        /\ page = [k \in 1 .. n |-> newest - k + 1]
        /\ n < PageSize => newest <= n
        /\ n <= newest \/ n = 0
  BY <1>1, PageIs
<1>3. n \in Nat /\ Len(page) = n /\ DOMAIN page = 1 .. n
  <2>1. PageSize \in Nat
    BY PagingAssumption
  <2>2. n \in Nat
    BY <2>1
  <2> HIDE DEF page
  <2> QED
    BY <1>2, <2>2
<1> DEFINE older == {k \in 1 .. n : Ends(page[k])} \cup {n + 1}
           f == Min(older)
<1>4. f \in older /\ \A k \in older : f <= k
  <2>1. older \in SUBSET (1 .. n + 1) /\ older # {} /\ older \subseteq Int
    BY <1>3
  <2>2. IsFiniteSet(1 .. n + 1)
    BY <1>3, FS_Interval
  <2> HIDE DEF older
  <2>3. IsFiniteSet(older)
    BY <2>1, <2>2, FS_Subset
  <2> QED
    BY <2>1, <2>3, MinOfFinite
<1>5. FirstOlder(page) = f
  <2>1. {k \in DOMAIN page : Ends(page[k])} \cup {Len(page) + 1} = older
    <3> HIDE DEF page
    <3> QED
      BY <1>3
  <2> QED
    BY <2>1 DEF FirstOlder
<1> HIDE DEF page, f
<1>6. f \in 1 .. n + 1 /\ f \in Int
  BY <1>3, <1>4
<1>7. f <= n => Ends(newest - f + 1)
  <2> SUFFICES ASSUME f <= n PROVE Ends(newest - f + 1)
    OBVIOUS
  <2>1. f # n + 1
    BY <1>3, <1>6
  <2>2. Ends(page[f]) /\ f \in 1 .. n
    BY <1>4, <2>1
  <2> QED
    BY <1>2, <2>2
<1>8. ASSUME NEW i \in newest - f + 2 .. newest PROVE ~Ends(i)
  <2> DEFINE k == newest - i + 1
  <2>1. k \in 1 .. n /\ k < f /\ newest - k + 1 = i
    <3>1. i \in Int /\ newest - f + 2 <= i /\ i <= newest
      BY <1>6
    <3>2. f \in Int /\ f <= n + 1
      BY <1>3, <1>6
    <3> QED
      BY <1>3, <3>1, <3>2, PositionOf
  <2>2. k \notin older
    <3>1. k \in Int
      BY <2>1
    <3> HIDE DEF k, older
    <3> QED
      BY <1>4, <1>6, <2>1, <3>1
  <2>3. ~Ends(page[k])
    BY <2>1, <2>2
  <2> HIDE DEF k
  <2> QED
    BY <1>2, <2>1, <2>3
<1>9. {i \in {page[k] : k \in 1 .. f - 1} : Keeps(i)} = Run(newest, f)
  <2>1. \A k \in 1 .. f - 1 : page[k] = newest - k + 1
    BY <1>2, <1>3, <1>6
  <2>2. {page[k] : k \in 1 .. f - 1} = newest - f + 2 .. newest
    <3>1. \A k \in 1 .. f - 1 : newest - k + 1 \in newest - f + 2 .. newest
      BY <1>6
    <3>2. \A i \in newest - f + 2 .. newest :
            newest - i + 1 \in 1 .. f - 1 /\ i = newest - (newest - i + 1) + 1
      BY <1>6
    <3>3. \A i \in newest - f + 2 .. newest : \E k \in 1 .. f - 1 : i = page[k]
      BY <2>1, <3>2, SMTT(30)
    <3>4. {page[k] : k \in 1 .. f - 1} \subseteq newest - f + 2 .. newest
      BY <2>1, <3>1
    <3>5. newest - f + 2 .. newest \subseteq {page[k] : k \in 1 .. f - 1}
      BY <3>3
    <3> QED
      BY <3>4, <3>5, Zenon
  <2> QED
    BY <2>2 DEF Run
<1>10. Kept(page) = NewestFirst(Run(newest, f))
  BY <1>5, <1>9 DEF Kept
<1>11. IsFiniteSet(Run(newest, f)) /\ Run(newest, f) \subseteq Int
  <2>1. newest - f + 2 \in Int
    BY <1>6
  <2>2. IsFiniteSet(newest - f + 2 .. newest)
    BY <2>1, FS_Interval
  <2> DEFINE all == newest - f + 2 .. newest
  <2>3. Run(newest, f) \in SUBSET all /\ Run(newest, f) \subseteq Int
    BY DEF Run
  <2> HIDE DEF all
  <2>4. IsFiniteSet(all)
    BY <2>2 DEF all
  <2> QED
    BY <2>3, <2>4, FS_Subset
<1>12. /\ Kept(page) \in Seq(Run(newest, f))
       /\ Len(Kept(page)) = Cardinality(Run(newest, f))
       /\ {Kept(page)[k] : k \in DOMAIN Kept(page)} = Run(newest, f)
  BY <1>10, <1>11, NewestFirstIs
<1> HIDE DEF older
<1>13. /\ Len(page) = n /\ FirstOlder(page) = f
       /\ n < PageSize => newest <= n
       /\ n <= newest \/ n = 0
  BY <1>2, <1>3, <1>5
<1>14. \A i \in newest - f + 2 .. newest : ~Ends(i)
  BY <1>8
<1> QED
  BY <1>6, <1>7, <1>11, <1>12, <1>13, <1>14 DEF page

-----------------------------------------------------------------------------
(* The invariant of a fetch by offset.  Events come in the order in which  *)
(* they happened; and all the events there were at the beginning, from     *)
(* `low` on, have been walked through, where `low` is at most one page     *)
(* after another below the end of the chain: an offset can only fall back. *)
(* What was walked twice came twice, no more.                              *)
InOrder == \A i, j \in DOMAIN chain : i <= j => chain[i].ts <= chain[j].ts

Walked(low, from) ==
    /\ low + skip <= Len(chain) + 1 /\ from <= low + skip - 1
    /\ \A i \in low .. from : ~Ends(i) /\ (Keeps(i) => i \in Fetched)
    /\ \A j \in Fetched : low <= j
    /\ Len(rows) - Cardinality(Fetched) <= low + skip - 1 - from

PostingInv ==
    phase \in {"posting", "truncated"} =>
        \/ skip = 0 /\ rows = << >> /\ known = 0 /\ phase = "posting"
        \/ skip # 0 /\ \E low \in Nat \ {0} : Walked(low, known)

AttemptsLeft == phase = "posting" => attempt < Attempts

PagingInv ==
    /\ PagingTypeOK /\ AttemptsLeft /\ InOrder /\ PostingInv
    /\ NothingMissed /\ RepeatsBoundedByArrivals

(* Before an answer, the events known at the beginning, or known by then   *)
(* if this is the first answer, have been walked from some index on.       *)
LEMMA WalkedSoFar ==
    ASSUME PagingInv, phase = "posting",
           NEW from, from = IF skip = 0 THEN Len(chain) ELSE known
    PROVE  from \in 0 .. Len(chain) /\ \E low \in Nat \ {0} : Walked(low, from)
<1>1. Len(chain) \in Nat /\ known \in 0 .. Len(chain)
  BY DEF PagingInv, PagingTypeOK
<1>2. CASE skip = 0
  <2>1. rows = << >> /\ from = Len(chain)
    BY <1>2 DEF PagingInv, PostingInv
  <2>2. Fetched = {} /\ Len(rows) = 0 /\ Cardinality({}) = 0
    BY <2>1, FS_EmptySet DEF Fetched
  <2>3. Len(rows) - Cardinality(Fetched) = 0
    BY <2>2
  <2>4. Len(chain) + 1 .. Len(chain) = {}
    BY <1>1
  <2>5. Walked(Len(chain) + 1, Len(chain))
    BY <1>1, <1>2, <2>2, <2>3, <2>4 DEF Walked
  <2> QED
    BY <1>1, <2>1, <2>5
<1>3. CASE skip # 0
  BY <1>1, <1>3 DEF PagingInv, PostingInv
<1> QED
  BY <1>2, <1>3

(* What was fetched are indices of events, finitely many of them.          *)
LEMMA FetchedFinite ==
    PagingTypeOK =>
        /\ IsFiniteSet(Fetched) /\ Fetched \subseteq 1 .. Len(chain)
        /\ Cardinality(Fetched) \in Nat /\ Len(rows) \in Nat
<1> SUFFICES ASSUME PagingTypeOK
    PROVE  /\ IsFiniteSet(Fetched) /\ Fetched \subseteq 1 .. Len(chain)
           /\ Cardinality(Fetched) \in Nat /\ Len(rows) \in Nat
  OBVIOUS
<1>1. rows \in Seq(1 .. Len(chain)) /\ Len(chain) \in Nat
  BY DEF PagingTypeOK
<1>2. Fetched \in SUBSET (1 .. Len(chain)) /\ Len(rows) \in Nat
  BY <1>1 DEF Fetched
<1>3. IsFiniteSet(1 .. Len(chain))
  BY <1>1, FS_Interval
<1>4. IsFiniteSet(Fetched)
  BY <1>2, <1>3, FS_Subset
<1> QED
  BY <1>2, <1>4, FS_CardinalityType

(* Counting what comes twice.                                              *)
LEMMA RepeatsAdd ==
    ASSUME NEW a \in Int, NEW b \in Int, NEW k \in Int, NEW c \in Int, NEW m \in Int,
           a - b <= m
    PROVE  (a + k) - (b + k - c) <= m + c
  OBVIOUS

(* What an answer does: everything about the page and about what it adds.  *)
Answered(newest, n, f, low, from) ==
    /\ n \in 0 .. PageSize /\ f \in 1 .. n + 1
    /\ low \in Nat \ {0} /\ from \in 0 .. Len(chain)
    /\ newest = Len(chain) - skip /\ low + skip <= Len(chain) + 1
    /\ chain' = chain /\ known' = from /\ from <= low + skip - 1
    /\ n < PageSize => newest <= n
    /\ n <= newest \/ n = 0
    /\ phase' = (IF f <= n \/ n < PageSize THEN "done"
                 ELSE IF NextSkip >= MaxSkip THEN "truncated" ELSE "posting")
    /\ skip' = (IF phase' = "done" THEN skip ELSE NextSkip)
    /\ f <= n => Ends(newest - f + 1)
    /\ \A i \in newest - f + 2 .. newest : ~Ends(i)
    /\ \A i \in low .. from : ~Ends(i) /\ (Keeps(i) => i \in Fetched)
    /\ \A j \in Fetched : low <= j
    /\ rows' \in Seq(Fetched \cup Run(newest, f))
    /\ Fetched' = Fetched \cup Run(newest, f)
    /\ \E c \in Nat :
         /\ Len(rows') - Cardinality(Fetched') <= low + skip - 1 - from + c
         /\ c <= n /\ c <= newest - low + 1

(* An answer of the service is of the form above.                          *)
LEMMA AnswerDoes ==
    ASSUME PagingInv, phase = "posting", Answer
    PROVE  \E newest, n, f, low, from \in Int : Answered(newest, n, f, low, from)
<1>1. PagingTypeOK /\ chain \in Seq(Event) /\ skip \in Nat /\ Len(chain) \in Nat
  BY DEF PagingInv, PagingTypeOK
<1>2. PICK newest \in Int : newest = Len(chain) - skip
  BY <1>1
<1>3. PICK n \in 0 .. PageSize : \E f \in 1 .. n + 1 :
        /\ Len(Page(skip)) = n /\ FirstOlder(Page(skip)) = f
        /\ n < PageSize => newest <= n
        /\ n <= newest \/ n = 0
        /\ f <= n => Ends(newest - f + 1)
        /\ \A i \in newest - f + 2 .. newest : ~Ends(i)
        /\ IsFiniteSet(Run(newest, f))
        /\ Kept(Page(skip)) \in Seq(Run(newest, f))
        /\ Len(Kept(Page(skip))) = Cardinality(Run(newest, f))
        /\ {Kept(Page(skip))[k] : k \in DOMAIN Kept(Page(skip))} = Run(newest, f)
  BY <1>1, <1>2, KeptIs
<1>4. PICK f \in 1 .. n + 1 :
        /\ Len(Page(skip)) = n /\ FirstOlder(Page(skip)) = f
        /\ n < PageSize => newest <= n
        /\ n <= newest \/ n = 0
        /\ f <= n => Ends(newest - f + 1)
        /\ \A i \in newest - f + 2 .. newest : ~Ends(i)
        /\ IsFiniteSet(Run(newest, f))
        /\ Kept(Page(skip)) \in Seq(Run(newest, f))
        /\ Len(Kept(Page(skip))) = Cardinality(Run(newest, f))
        /\ {Kept(Page(skip))[k] : k \in DOMAIN Kept(Page(skip))} = Run(newest, f)
  BY <1>3
<1> DEFINE K == Run(newest, f)
           added == Kept(Page(skip))
           from == IF skip = 0 THEN Len(chain) ELSE known
<1>5. from \in 0 .. Len(chain) /\ \E low \in Nat \ {0} : Walked(low, from)
  BY WalkedSoFar
<1>6. PICK low \in Nat \ {0} : Walked(low, from)
  BY <1>5
<1> HIDE DEF from
<1>7. /\ IsFiniteSet(Fetched) /\ Fetched \subseteq 1 .. Len(chain)
      /\ Cardinality(Fetched) \in Nat /\ Len(rows) \in Nat /\ rows \in Seq(1 .. Len(chain))
  BY <1>1, FetchedFinite DEF PagingTypeOK
<1>8. rows' = rows \o added /\ chain' = chain /\ known' = from
  BY DEF Answer, from
<1>9. /\ phase' = (IF f <= n \/ n < PageSize THEN "done"
                   ELSE IF NextSkip >= MaxSkip THEN "truncated" ELSE "posting")
      /\ skip' = (IF phase' = "done" THEN skip ELSE NextSkip)
  BY <1>4 DEF Answer, AfterPage
<1>10. added \in Seq(K) /\ Len(added) = Cardinality(K) /\ IsFiniteSet(K)
         /\ {added[k] : k \in DOMAIN added} = K
  BY <1>4
<1> HIDE DEF K, added
<1>11. /\ rows' \in Seq(Fetched \cup K) /\ Len(rows') = Len(rows) + Cardinality(K)
       /\ Fetched' = Fetched \cup K
  <2>1. Fetched = {rows[k] : k \in DOMAIN rows}
    BY DEF Fetched
  <2>2. rows \in Seq(Fetched) /\ added \in Seq(Fetched \cup K)
    <3>1. \A k \in 1 .. Len(rows) : rows[k] \in Fetched
      BY <1>7, <2>1
    <3>2. rows \in Seq(Fetched)
      <4>1. rows \in [1 .. Len(rows) -> Fetched] /\ Len(rows) \in Nat
        <5>1. rows = [k \in 1 .. Len(rows) |-> rows[k]]
          BY <1>7
        <5> QED
          BY <1>7, <3>1, <5>1
      <4> QED
        BY <4>1
    <3> QED
      BY <1>10, <3>2
  <2>3. rows \in Seq(Fetched \cup K)
    BY <2>2
  <2>4. rows \o added \in Seq(Fetched \cup K)
          /\ Len(rows \o added) = Len(rows) + Len(added)
    BY <2>2, <2>3
  <2>5. Fetched' = {(rows \o added)[k] : k \in DOMAIN (rows \o added)}
    BY <1>8 DEF Fetched
  <2>6. {(rows \o added)[k] : k \in DOMAIN (rows \o added)}
          = {rows[k] : k \in DOMAIN rows} \cup {added[k] : k \in DOMAIN added}
    <3>1. Len(rows) \in Nat /\ Len(added) \in Nat /\ DOMAIN rows = 1 .. Len(rows)
            /\ DOMAIN added = 1 .. Len(added)
            /\ DOMAIN (rows \o added) = 1 .. Len(rows) + Len(added)
      BY <2>2, <2>3, <2>4
    <3>2. \A k \in 1 .. Len(rows) : (rows \o added)[k] = rows[k]
      BY <2>2, <2>3
    <3>3. \A k \in 1 .. Len(added) : (rows \o added)[Len(rows) + k] = added[k]
      BY <2>2, <2>3
    <3>4. ASSUME NEW k \in 1 .. Len(rows) + Len(added)
          PROVE  (rows \o added)[k] \in {rows[i] : i \in DOMAIN rows}
                                        \cup {added[i] : i \in DOMAIN added}
      <4>1. CASE k <= Len(rows)
        BY <3>1, <3>2, <4>1
      <4>2. CASE ~(k <= Len(rows))
        <5>1. k - Len(rows) \in 1 .. Len(added) /\ k = Len(rows) + (k - Len(rows))
          BY <3>1, <4>2
        <5> QED
          BY <3>1, <3>3, <5>1
      <4> QED
        BY <4>1, <4>2
    <3>5. ASSUME NEW i \in 1 .. Len(rows)
          PROVE  rows[i] \in {(rows \o added)[k] : k \in DOMAIN (rows \o added)}
      BY <3>1, <3>2
    <3>6. ASSUME NEW i \in 1 .. Len(added)
          PROVE  added[i] \in {(rows \o added)[k] : k \in DOMAIN (rows \o added)}
      <4>1. Len(rows) + i \in 1 .. Len(rows) + Len(added)
        BY <3>1
      <4> QED
        BY <3>1, <3>3, <4>1
    <3> DEFINE A == {(rows \o added)[k] : k \in DOMAIN (rows \o added)}
               B == {rows[k] : k \in DOMAIN rows} \cup {added[k] : k \in DOMAIN added}
    <3>7. A \subseteq B
      BY <3>1, <3>4
    <3>8. B \subseteq A
      BY <3>1, <3>5, <3>6
    <3> QED
      BY <3>7, <3>8, Zenon
  <2> QED
    BY <1>8, <1>10, <2>1, <2>4, <2>5, <2>6
<1>12. K \subseteq newest - f + 2 .. newest
  BY DEF K, Run
<1> DEFINE c == Cardinality(Fetched \cap K)
<1>13. /\ c \in Nat /\ Cardinality(K) \in Nat
       /\ Cardinality(Fetched \cup K) = Cardinality(Fetched) + Cardinality(K) - c
  <2>1. IsFiniteSet(Fetched \cap K)
    BY <1>7, FS_Intersection
  <2> QED
    BY <1>7, <1>10, <2>1, FS_Union, FS_CardinalityType
<1>14. c <= n /\ c <= newest - low + 1
  <2>1. low + skip <= Len(chain) + 1 /\ \A j \in Fetched : low <= j
    BY <1>6 DEF Walked
  <2>2. newest - low + 1 >= 0 /\ n \in Nat /\ f \in 1 .. n + 1
    <3>1. PageSize \in Nat
      BY PagingAssumption
    <3> QED
      BY <1>1, <1>2, <2>1, <3>1
  <2> DEFINE I == newest - f + 2 .. newest
             J == low .. newest
  <2>3. IsFiniteSet(I) /\ Cardinality(I) <= n
    <3>1. newest - f + 2 \in Int
      BY <2>2
    <3>2. IsFiniteSet(I) /\ Cardinality(I) = IF newest - f + 2 > newest THEN 0
                                              ELSE newest - (newest - f + 2) + 1
      BY <3>1, FS_Interval
    <3> QED
      BY <2>2, <3>2
  <2>4. IsFiniteSet(J) /\ Cardinality(J) <= newest - low + 1
    <3>1. IsFiniteSet(J) /\ Cardinality(J) = IF low > newest THEN 0 ELSE newest - low + 1
      BY FS_Interval
    <3> QED
      BY <2>2, <3>1
  <2>5. Fetched \cap K \in SUBSET I /\ Fetched \cap K \in SUBSET J
    <3>1. \A j \in Fetched \cap K : j \in Int /\ low <= j /\ j <= newest
      BY <1>7, <1>12, <2>1
    <3> QED
      BY <1>12, <3>1
  <2> HIDE DEF I, J
  <2>6. c <= Cardinality(I) /\ c <= Cardinality(J)
    BY <2>3, <2>4, <2>5, FS_Subset
  <2>7. Cardinality(I) \in Nat /\ Cardinality(J) \in Nat
    BY <2>3, <2>4, FS_CardinalityType
  <2> HIDE DEF c
  <2> QED
    BY <1>13, <2>2, <2>3, <2>4, <2>6, <2>7
<1>15. Len(rows') - Cardinality(Fetched') <= low + skip - 1 - from + c
  <2>1. Len(rows) - Cardinality(Fetched) <= low + skip - 1 - from
    BY <1>6 DEF Walked
  <2>2. low + skip - 1 - from \in Int
    BY <1>1, <1>5
  <2>3. Cardinality(Fetched') = Cardinality(Fetched) + Cardinality(K) - c
    BY <1>11, <1>13
  <2> HIDE DEF c
  <2>4. (Len(rows) + Cardinality(K)) - (Cardinality(Fetched) + Cardinality(K) - c)
          <= low + skip - 1 - from + c
    BY <1>7, <1>13, <2>1, <2>2, RepeatsAdd
  <2> QED
    BY <1>11, <2>3, <2>4
<1>16. /\ low + skip <= Len(chain) + 1 /\ from <= low + skip - 1
       /\ \A i \in low .. from : ~Ends(i) /\ (Keeps(i) => i \in Fetched)
       /\ \A j \in Fetched : low <= j
  BY <1>6 DEF Walked
<1> HIDE DEF c
<1>17. \E d \in Nat :
         /\ Len(rows') - Cardinality(Fetched') <= low + skip - 1 - from + d
         /\ d <= n /\ d <= newest - low + 1
  BY <1>13, <1>14, <1>15
<1>18. Answered(newest, n, f, low, from)
  BY <1>5, <1>2, <1>4, <1>8, <1>9, <1>11, <1>16, <1>17 DEF Answered, K
<1>19. n \in Int /\ f \in Int /\ low \in Int /\ from \in Int
  <2>1. PageSize \in Nat
    BY PagingAssumption
  <2> QED
    BY <1>1, <1>5, <2>1
<1> QED
  BY <1>18, <1>19

(* Nothing that the chain says of an event changes while it is there.      *)
LEMMA SameChain ==
    ASSUME chain' = chain
    PROVE  /\ \A i : (Keeps(i))' = Keeps(i) /\ (Ends(i))' = Ends(i)
                      /\ (InWindow(i))' = InWindow(i)
           /\ Unstamped' = Unstamped /\ InOrder' = InOrder
  BY DEF Keeps, Ends, InWindow, ReadTs, Unstamped, InOrder

(* An answer keeps the types.                                              *)
LEMMA AnswerKeepsTypes ==
    ASSUME PagingInv, phase = "posting", Answer
    PROVE  PagingTypeOK'
<1>1. PICK newest, n, f, low, from \in Int : Answered(newest, n, f, low, from)
  BY AnswerDoes
<1>2. /\ n \in 0 .. PageSize /\ f \in 1 .. n + 1
      /\ low \in Nat \ {0} /\ from \in 0 .. Len(chain)
  BY <1>1 DEF Answered
<1>3. /\ chain \in Seq(Event) /\ skip \in Nat /\ Len(chain) \in Nat
      /\ PageSize \in Nat /\ Attempts \in Nat \ {0} /\ n \in Nat
  BY <1>2, PagingAssumption DEF PagingInv, PagingTypeOK
<1>4. Fetched \cup Run(newest, f) \subseteq 1 .. Len(chain)
  <2>1. Fetched \subseteq 1 .. Len(chain)
    BY FetchedFinite DEF PagingInv
  <2>2. ASSUME NEW i \in newest - f + 2 .. newest PROVE i \in 1 .. Len(chain)
    <3>1. newest <= Len(chain) /\ (n <= newest \/ n = 0)
      BY <1>1, <1>2, <1>3 DEF Answered
    <3> QED
      BY <1>2, <1>3, <3>1
  <2> QED
    BY <2>1, <2>2 DEF Run
<1>5. rows' \in Seq(1 .. Len(chain))
  <2>1. rows' \in Seq(Fetched \cup Run(newest, f))
    BY <1>1, <1>2 DEF Answered
  <2> QED
    BY <1>4, <2>1
<1>6. skip' \in Nat /\ phase' \in {"posting", "done", "truncated", "failed"}
  BY <1>1, <1>2, <1>3 DEF Answered, NextSkip
<1>7. attempt' \in 0 .. Attempts
  BY <1>3 DEF Answer
<1>8. chain' = chain /\ known' \in 0 .. Len(chain)
  BY <1>1, <1>2 DEF Answered
<1> QED
  BY <1>2, <1>3, <1>5, <1>6, <1>7, <1>8 DEF PagingTypeOK

(* The lowest index walked after one more page of P indices, c of which    *)
(* had been walked before.                                                 *)
LowAfter(next, L, s, P, low, c) ==
    /\ next <= low /\ next <= L - s - P + 1
    /\ next + (s + P) <= L + 1
    /\ low <= next + P /\ low + c <= next + P
    /\ next = low \/ next = L - s - P + 1

(* After a full page the fetch has come down to some event, as the new     *)
(* offset says.                                                            *)
LEMMA NextLow ==
    ASSUME NEW L \in Int, NEW s \in Int, NEW P \in Int, NEW low \in Int, NEW c \in Int,
           P > 0, low >= 1, low + s <= L + 1, P <= L - s, c <= P, c <= L - s - low + 1
    PROVE  \E next \in Nat \ {0} : LowAfter(next, L, s, P, low, c)
<1> DEFINE end == L - s - P + 1
<1>1. CASE end < low
  <2>1. end \in Nat \ {0} /\ end <= low /\ end + (s + P) <= L + 1
    BY <1>1
  <2>2. low <= end + P /\ low + c <= end + P /\ end <= L - s - P + 1 /\ end = L - s - P + 1
    BY <1>1
  <2> HIDE DEF end
  <2> QED
    BY <2>1, <2>2 DEF LowAfter
<1>2. CASE ~(end < low)
  <2>1. low \in Nat \ {0} /\ low <= end /\ low + (s + P) <= L + 1
    BY <1>2
  <2>2. low <= low + P /\ low + c <= low + P /\ low <= L - s - P + 1
    BY <1>2
  <2> HIDE DEF end
  <2> QED
    BY <2>1, <2>2 DEF LowAfter
<1> QED
  BY <1>1, <1>2

(* An answer that does not end the fetch walks on by a whole page.         *)
LEMMA AnswerWalks ==
    ASSUME PagingInv, phase = "posting", Answer, phase' \in {"posting", "truncated"}
    PROVE  skip' # 0 /\ \E low \in Nat \ {0} : Walked(low, known)'
<1>1. PICK newest, n, f, low, from \in Int : Answered(newest, n, f, low, from)
  BY AnswerDoes
<1>2. /\ skip \in Nat /\ Len(chain) \in Nat /\ PageSize \in Nat \ {0} /\ from \in Nat
      /\ low \in Nat \ {0}
  BY <1>1, PagingAssumption DEF PagingInv, PagingTypeOK, Answered
<1>3. n = PageSize /\ f = n + 1 /\ skip' = skip + PageSize /\ n <= newest
  BY <1>1, <1>2 DEF Answered, NextSkip
<1>4. /\ newest = Len(chain) - skip /\ low + skip <= Len(chain) + 1
      /\ chain' = chain /\ known' = from /\ from <= low + skip - 1
  BY <1>1 DEF Answered
<1>5. PICK c \in Nat :
        /\ Len(rows') - Cardinality(Fetched') <= low + skip - 1 - from + c
        /\ c <= n /\ c <= newest - low + 1
  BY <1>1 DEF Answered
<1>6. \E next \in Nat \ {0} : LowAfter(next, Len(chain), skip, PageSize, low, c)
  <2>1. PageSize > 0 /\ low >= 1 /\ PageSize <= Len(chain) - skip
          /\ c <= PageSize /\ c <= Len(chain) - skip - low + 1
    BY <1>2, <1>3, <1>4, <1>5
  <2>2. Len(chain) \in Int /\ skip \in Int /\ PageSize \in Int /\ c \in Int
    BY <1>2
  <2> QED
    BY <1>4, <2>1, <2>2, NextLow
<1>7. PICK next \in Nat \ {0} : LowAfter(next, Len(chain), skip, PageSize, low, c)
  BY <1>6
<1>8. /\ next <= low /\ next <= Len(chain) - skip - PageSize + 1
      /\ next + (skip + PageSize) <= Len(chain) + 1
      /\ low <= next + PageSize /\ low + c <= next + PageSize
      /\ next = low \/ next = Len(chain) - skip - PageSize + 1
  BY <1>7 DEF LowAfter
<1>9. next + skip' <= Len(chain) + 1 /\ from <= next + skip' - 1
  BY <1>2, <1>3, <1>4, <1>8
<1>10. ASSUME NEW i \in next .. from PROVE ~Ends(i) /\ (Keeps(i) => i \in Fetched')
  <2>1. CASE low <= i
    BY <1>1, <2>1 DEF Answered
  <2>2. CASE ~(low <= i)
    <3>1. i \in newest - f + 2 .. newest
      BY <1>2, <1>3, <1>4, <1>8, <2>2
    <3> QED
      BY <1>1, <3>1 DEF Answered, Run
  <2> QED
    BY <2>1, <2>2
<1>11. ASSUME NEW j \in Fetched' PROVE next <= j
  <2>1. CASE j \in Fetched
    <3>1. Fetched \subseteq 1 .. Len(chain)
      BY FetchedFinite DEF PagingInv
    <3>2. low <= j /\ j \in Int
      BY <1>1, <2>1, <3>1 DEF Answered
    <3> QED
      BY <1>2, <1>8, <3>2
  <2>2. CASE j \notin Fetched
    <3>1. j \in newest - f + 2 .. newest
      BY <1>1, <2>2 DEF Answered, Run
    <3> QED
      BY <1>2, <1>3, <1>4, <1>8, <3>1
  <2> QED
    BY <2>1, <2>2
<1>12. Len(rows') - Cardinality(Fetched') <= next + skip' - 1 - from
  <2>1. PagingTypeOK'
    BY AnswerKeepsTypes
  <2>2. (Len(rows) \in Nat /\ Cardinality(Fetched) \in Nat)'
    <3>1. (/\ IsFiniteSet(Fetched) /\ Fetched \subseteq 1 .. Len(chain)
           /\ Cardinality(Fetched) \in Nat /\ Len(rows) \in Nat)'
      BY <2>1, FetchedFinite, PTL
    <3> QED
      BY <3>1
  <2>3. low + skip - 1 - from + c <= next + (skip + PageSize) - 1 - from
    BY <1>2, <1>8
  <2> QED
    BY <1>2, <1>3, <1>5, <2>2, <2>3
<1>13. Walked(next, known)'
  <2>1. \A i \in next .. from : ~(Ends(i))' /\ ((Keeps(i))' => i \in Fetched')
    BY <1>4, <1>10, SameChain
  <2> QED
    BY <1>4, <1>9, <1>11, <1>12, <2>1 DEF Walked
<1> QED
  BY <1>2, <1>3, <1>13

(* Events happen in order: an event before one that is older than the      *)
(* window is not in the window.                                            *)
LEMMA OlderAreOutside ==
    ASSUME PagingTypeOK, InOrder, NEW e \in 1 .. Len(chain), Ends(e), chain[e].stamped,
           NEW i \in 1 .. Len(chain), i <= e
    PROVE  ~InWindow(i)
<1>1. DOMAIN chain = 1 .. Len(chain) /\ chain[e] \in Event /\ chain[i] \in Event
  BY DEF PagingTypeOK
<1>2. chain[i].ts <= chain[e].ts
  BY <1>1 DEF InOrder
<1>3. chain[e].ts < StartTs
  BY DEF Ends, ReadTs
<1>4. chain[i].ts \in Nat /\ chain[e].ts \in Nat /\ StartTs \in Nat
  BY <1>1, PagingAssumption DEF Event
<1> QED
  BY <1>2, <1>3, <1>4 DEF InWindow

(* An event in the window that is not kept has no timestamp.               *)
LEMMA NotKept ==
    ASSUME PagingTypeOK, NEW i \in 1 .. Len(chain), InWindow(i), ~Keeps(i)
    PROVE  i \in Unstamped
<1>1. DOMAIN chain = 1 .. Len(chain)
  BY DEF PagingTypeOK
<1> QED
  BY <1>1 DEF InWindow, Keeps, ReadTs, Unstamped

(* An answer that ends the fetch leaves out only what an event without a   *)
(* timestamp hides.                                                        *)
LEMMA AnswerMisses ==
    ASSUME PagingInv, phase = "posting", Answer, phase' = "done"
    PROVE  /\ \A i \in Missed' : \E j \in Unstamped : i <= j
           /\ Len(rows') - Cardinality(Fetched') <= Len(chain) - known'
<1>1. PICK newest, n, f, low, from \in Int : Answered(newest, n, f, low, from)
  BY AnswerDoes
<1>2. /\ skip \in Nat /\ Len(chain) \in Nat /\ PageSize \in Nat \ {0} /\ from \in 0 .. Len(chain)
      /\ low \in Nat \ {0} /\ n \in 0 .. PageSize /\ f \in 1 .. n + 1
  BY <1>1, PagingAssumption DEF PagingInv, PagingTypeOK, Answered
<1>3. /\ newest = Len(chain) - skip /\ low + skip <= Len(chain) + 1
      /\ chain' = chain /\ known' = from /\ from <= low + skip - 1
      /\ n <= newest \/ n = 0
      /\ f <= n \/ newest <= n
      /\ f <= n => Ends(newest - f + 1)
      /\ Fetched' = Fetched \cup Run(newest, f)
  BY <1>1 DEF Answered
<1>4. PICK c \in Nat :
        /\ Len(rows') - Cardinality(Fetched') <= low + skip - 1 - from + c
        /\ c <= n /\ c <= newest - low + 1
  BY <1>1 DEF Answered
<1>5. Len(rows') - Cardinality(Fetched') <= Len(chain) - known'
  <2>1. PagingTypeOK'
    BY AnswerKeepsTypes
  <2>2. (/\ IsFiniteSet(Fetched) /\ Fetched \subseteq 1 .. Len(chain)
         /\ Cardinality(Fetched) \in Nat /\ Len(rows) \in Nat)'
    BY <2>1, FetchedFinite, PTL
  <2>3. low + skip - 1 - from + c <= Len(chain) - from
    BY <1>2, <1>3, <1>4
  <2>4. Len(rows') \in Nat /\ Cardinality(Fetched') \in Nat
    BY <2>2
  <2> QED
    BY <1>2, <1>3, <1>4, <2>3, <2>4
<1>6. ASSUME NEW i \in 1 .. from, InWindow(i), i \notin Fetched'
      PROVE  \E j \in Unstamped : i <= j
  <2>1. i \in 1 .. Len(chain) /\ i \in Int
    BY <1>2
  <2>2. CASE ~Keeps(i)
    <3>1. i \in Unstamped
      BY <1>6, <2>1, <2>2, NotKept DEF PagingInv
    <3> QED
      BY <2>1, <3>1
  <2>3. CASE Keeps(i)
    <3>1. i \notin Fetched /\ i \notin newest - f + 2 .. newest
      BY <1>3, <1>6, <2>3 DEF Run
    <3>2. ~(low <= i)
      BY <1>1, <1>6, <2>1, <2>3, <3>1 DEF Answered
    <3>3. i <= newest - f + 1
      BY <1>2, <1>3, <2>1, <3>1, <3>2
    <3>4. f <= n
      BY <1>2, <1>3, <1>6, <3>3
    <3> DEFINE e == newest - f + 1
    <3>5. e \in 1 .. Len(chain) /\ Ends(e) /\ i <= e
      BY <1>2, <1>3, <2>1, <3>3, <3>4
    <3> HIDE DEF e
    <3>6. ~chain[e].stamped
      BY <1>6, <2>1, <3>5, OlderAreOutside DEF PagingInv
    <3>7. e \in Unstamped
      BY <3>5, <3>6 DEF Unstamped, PagingInv, PagingTypeOK
    <3> QED
      BY <3>5, <3>7
  <2> QED
    BY <2>2, <2>3
<1>7. Missed' = {i \in 1 .. from : InWindow(i)} \ Fetched'
  BY <1>3, SameChain DEF Missed
<1> QED
  BY <1>5, <1>6, <1>7

(* An arriving event is the last of the order and moves no index.          *)
LEMMA ArriveKeeps ==
    ASSUME PagingInv, NEW event \in Event, Arrive(event)
    PROVE  PagingInv'
<1>1. /\ phase = "posting" /\ chain \in Seq(Event) /\ Len(chain) \in Nat
      /\ chain' = Append(chain, event)
      /\ skip' = skip /\ rows' = rows /\ phase' = phase /\ known' = known /\ attempt' = attempt
      /\ rows \in Seq(1 .. Len(chain)) /\ known \in 0 .. Len(chain)
      /\ chain # << >> => chain[Len(chain)].ts <= event.ts
  BY DEF Arrive, PagingInv, PagingTypeOK
<1>2. /\ Len(chain') = Len(chain) + 1 /\ chain' \in Seq(Event)
      /\ chain'[Len(chain) + 1] = event
      /\ \A i \in 1 .. Len(chain) : chain'[i] = chain[i]
  BY <1>1
<1>3. /\ \A i \in 1 .. Len(chain) : (Keeps(i))' = Keeps(i) /\ (Ends(i))' = Ends(i)
      /\ Fetched' = Fetched
  BY <1>1, <1>2 DEF Keeps, Ends, ReadTs, Fetched
<1>4. PagingTypeOK'
  <2>1. 1 .. Len(chain) \subseteq 1 .. Len(chain')
    BY <1>1, <1>2
  <2>2. rows' \in Seq(1 .. Len(chain'))
    BY <1>1, <2>1
  <2>3. known' \in 0 .. Len(chain')
    BY <1>1, <1>2
  <2> QED
    BY <1>1, <1>2, <2>2, <2>3 DEF PagingInv, PagingTypeOK
<1>5. InOrder'
  <2> SUFFICES ASSUME NEW i \in 1 .. Len(chain) + 1, NEW j \in 1 .. Len(chain) + 1, i <= j
               PROVE  chain'[i].ts <= chain'[j].ts
    BY <1>2 DEF InOrder
  <2>1. \A k \in 1 .. Len(chain) + 1 : chain'[k].ts \in Nat
    <3>1. DOMAIN chain' = 1 .. Len(chain) + 1
      BY <1>2
    <3>2. \A k \in 1 .. Len(chain) + 1 : chain'[k] \in Event
      BY <1>2, <3>1
    <3> QED
      BY <3>2, PagingAssumption DEF Event
  <2>2. CASE j \in 1 .. Len(chain)
    <3>1. i \in 1 .. Len(chain)
      BY <2>2
    <3> QED
      BY <1>1, <1>2, <2>2, <3>1 DEF PagingInv, InOrder
  <2>3. CASE j = Len(chain) + 1
    <3>1. CASE i = Len(chain) + 1
      BY <2>1, <2>3, <3>1
    <3>2. CASE i \in 1 .. Len(chain)
      <4>1. Len(chain) \in 1 .. Len(chain) /\ i <= Len(chain) /\ chain # << >>
        BY <1>1, <3>2
      <4>2. chain[i].ts <= chain[Len(chain)].ts
        BY <1>1, <3>2, <4>1 DEF PagingInv, InOrder
      <4>3. chain[Len(chain)].ts <= event.ts
        BY <1>1, <4>1
      <4>4. chain'[i].ts = chain[i].ts /\ chain'[Len(chain)].ts = chain[Len(chain)].ts
              /\ chain'[j].ts = event.ts
        BY <1>2, <2>3, <3>2, <4>1
      <4>5. chain'[i].ts \in Nat /\ chain'[Len(chain)].ts \in Nat /\ chain'[j].ts \in Nat
        <5>1. /\ i \in 1 .. Len(chain) + 1 /\ j \in 1 .. Len(chain) + 1
              /\ Len(chain) \in 1 .. Len(chain) + 1
          BY <1>1, <4>1
        <5> QED
          BY <2>1, <5>1
      <4> QED
        BY <4>2, <4>3, <4>4, <4>5
    <3> QED
      BY <1>1, <3>1, <3>2
  <2> QED
    BY <1>1, <2>2, <2>3
<1>6. PostingInv'
  <2>1. CASE skip = 0
    BY <1>1, <2>1 DEF PagingInv, PostingInv
  <2>2. CASE skip # 0
    <3>1. PICK low \in Nat \ {0} : Walked(low, known)
      BY <1>1, <2>2 DEF PagingInv, PostingInv
    <3>2. \A i \in low .. known : i \in 1 .. Len(chain)
      BY <1>1
    <3>3. low + skip <= Len(chain') + 1
      <4>1. low + skip <= Len(chain) + 1 /\ skip \in Nat
        BY <3>1 DEF Walked, PagingInv, PagingTypeOK
      <4> QED
        BY <1>1, <1>2, <4>1
    <3>4. Walked(low, known)'
      BY <1>1, <1>3, <3>1, <3>2, <3>3 DEF Walked
    <3> QED
      BY <1>1, <2>2, <3>4 DEF PostingInv
  <2> QED
    BY <2>1, <2>2
<1>7. NothingMissed'
  BY <1>1 DEF NothingMissed
<1>8. RepeatsBoundedByArrivals'
  <2>1. Len(rows) - Cardinality(Fetched) <= Len(chain) - known
    BY DEF PagingInv, RepeatsBoundedByArrivals
  <2>2. Len(rows) \in Nat /\ Cardinality(Fetched) \in Nat
    BY FetchedFinite DEF PagingInv
  <2>3. Len(rows) - Cardinality(Fetched) <= Len(chain) + 1 - known
    BY <1>1, <2>1, <2>2
  <2> QED
    BY <1>1, <1>2, <1>3, <2>3 DEF RepeatsBoundedByArrivals
<1>9. AttemptsLeft'
  BY <1>1 DEF PagingInv, AttemptsLeft
<1> QED
  BY <1>4, <1>5, <1>6, <1>7, <1>8, <1>9 DEF PagingInv

(* A failed request changes nothing but the count of attempts, or ends the *)
(* fetch in failure; and without a step of the fetch nothing changes.      *)
LEMMA FailureKeeps ==
    ASSUME PagingInv,
           UNCHANGED <<chain, skip, rows, known>>,
           attempt' \in 0 .. Attempts, phase' \in {phase, "failed"}, AttemptsLeft'
    PROVE  PagingInv'
<1>1. chain' = chain /\ skip' = skip /\ rows' = rows /\ known' = known
  OBVIOUS
<1>2. Fetched' = Fetched
  BY <1>1 DEF Fetched
<1>3. /\ \A i : (Keeps(i))' = Keeps(i) /\ (Ends(i))' = Ends(i)
      /\ Unstamped' = Unstamped /\ InOrder' = InOrder
      /\ \A i : (InWindow(i))' = InWindow(i)
  BY <1>1, SameChain
<1>4. PagingTypeOK' /\ InOrder'
  BY <1>1, <1>3 DEF PagingInv, PagingTypeOK
<1>5. \A low \in Nat \ {0} : Walked(low, known) => Walked(low, known)'
  BY <1>1, <1>2, <1>3 DEF Walked
<1>6. PostingInv'
  BY <1>1, <1>5 DEF PagingInv, PostingInv
<1>7. Missed' = Missed
  BY <1>1, <1>2, <1>3 DEF Missed
<1>8. NothingMissed'
  BY <1>3, <1>7 DEF PagingInv, NothingMissed
<1>9. RepeatsBoundedByArrivals'
  BY <1>1, <1>2 DEF PagingInv, RepeatsBoundedByArrivals
<1> QED
  BY <1>4, <1>6, <1>8, <1>9 DEF PagingInv

(* The rows that repeat one another are no more than the arrivals.         *)
LEMMA WalkedBounds ==
    ASSUME NEW r \in Nat, NEW c \in Nat, NEW k \in Nat, NEW s \in Nat, NEW L \in Nat,
           NEW low \in Nat, low + s <= L + 1, r - c <= low + s - 1 - k
    PROVE  r - c <= L - k
  OBVIOUS

(* An answer keeps the invariant.                                          *)
LEMMA AnswerKeeps ==
    ASSUME PagingInv, Answer
    PROVE  PagingInv'
<1>1. phase = "posting" /\ chain' = chain
  BY DEF Answer
<1>2. PagingTypeOK' /\ phase' \in {"posting", "truncated", "done"}
  BY <1>1, AnswerKeepsTypes DEF Answer, AfterPage
<1>3. InOrder' /\ Unstamped' = Unstamped /\ AttemptsLeft'
  <2>1. attempt' = 0 /\ 0 < Attempts
    BY PagingAssumption DEF Answer
  <2> QED
    BY <1>1, <2>1, SameChain DEF PagingInv, AttemptsLeft
<1>4. CASE phase' = "done"
  BY <1>1, <1>2, <1>3, <1>4, AnswerMisses
     DEF PagingInv, PostingInv, NothingMissed, RepeatsBoundedByArrivals
<1>5. CASE phase' \in {"posting", "truncated"}
  <2>1. skip' # 0 /\ \E low \in Nat \ {0} : Walked(low, known)'
    BY <1>1, <1>5, AnswerWalks
  <2>2. PostingInv' /\ NothingMissed'
    BY <1>5, <2>1 DEF PostingInv, NothingMissed
  <2>3. PICK low \in Nat \ {0} : Walked(low, known)'
    BY <2>1
  <2>4. low + skip' <= Len(chain) + 1
          /\ Len(rows') - Cardinality(Fetched') <= low + skip' - 1 - known'
    BY <1>1, <2>3 DEF Walked
  <2>5. (/\ IsFiniteSet(Fetched) /\ Fetched \subseteq 1 .. Len(chain)
         /\ Cardinality(Fetched) \in Nat /\ Len(rows) \in Nat)'
    BY <1>2, FetchedFinite, PTL
  <2>6. Len(rows') \in Nat /\ Cardinality(Fetched') \in Nat
          /\ skip' \in Nat /\ known' \in Nat /\ Len(chain) \in Nat
    BY <1>1, <1>2, <2>5 DEF PagingTypeOK
  <2>7. Len(rows') - Cardinality(Fetched') <= Len(chain) - known'
    BY <2>4, <2>6, WalkedBounds
  <2>8. RepeatsBoundedByArrivals'
    BY <1>1, <2>7 DEF RepeatsBoundedByArrivals
  <2> QED
    BY <1>2, <1>3, <2>2, <2>8 DEF PagingInv
<1> QED
  BY <1>2, <1>4, <1>5

(* The invariant of a fetch that has kept nothing yet.                     *)
LEMMA NothingFetched ==
    ASSUME chain \in Seq(Event), InOrder, skip = 0, rows = << >>, attempt = 0, known = 0,
           phase \in {"posting", "done"}
    PROVE  PagingInv
<1>1. Len(chain) \in Nat /\ Attempts \in Nat
  BY PagingAssumption
<1>2. PagingTypeOK /\ AttemptsLeft
  BY <1>1, PagingAssumption DEF PagingTypeOK, AttemptsLeft
<1>3. Fetched = {} /\ Cardinality({}) = 0 /\ Len(rows) = 0
  BY FS_EmptySet DEF Fetched
<1>4. RepeatsBoundedByArrivals
  BY <1>1, <1>3 DEF RepeatsBoundedByArrivals
<1>5. Missed = {}
  BY DEF Missed
<1>6. NothingMissed /\ PostingInv
  BY <1>5 DEF NothingMissed, PostingInv
<1> QED
  BY <1>2, <1>4, <1>6 DEF PagingInv

(* A fetch that has not begun, or that does not take place.                *)
LEMMA PagingInvInitially == PagingInit \/ NoOffsetFetch => PagingInv
<1>1. ASSUME PagingInit PROVE PagingInv
  <2>1. PICK n \in 0 .. MaxEvents, ts \in UNION {[1 .. m -> Timestamps] : m \in 0 .. MaxEvents} :
          /\ ts \in [1 .. n -> Timestamps]
          /\ \A i, j \in DOMAIN ts : i <= j => ts[i] <= ts[j]
          /\ \E bare \in SUBSET DOMAIN ts :
               chain = [i \in DOMAIN ts |-> [ts |-> ts[i], stamped |-> i \notin bare]]
    BY <1>1 DEF PagingInit
  <2>2. PICK bare \in SUBSET DOMAIN ts :
          chain = [i \in DOMAIN ts |-> [ts |-> ts[i], stamped |-> i \notin bare]]
    BY <2>1
  <2>3. DOMAIN ts = 1 .. n /\ n \in Nat
    BY <2>1, PagingAssumption
  <2>4. chain \in [1 .. n -> Event]
    BY <2>1, <2>2, <2>3 DEF Event
  <2>5. chain \in Seq(Event) /\ DOMAIN chain = 1 .. n
    BY <2>3, <2>4
  <2>6. InOrder
    BY <2>1, <2>2, <2>3, <2>5 DEF InOrder
  <2>7. skip = 0 /\ rows = << >> /\ attempt = 0 /\ phase = "posting" /\ known = 0
    BY <1>1 DEF PagingInit
  <2> QED
    BY <2>5, <2>6, <2>7, NothingFetched
<1>2. ASSUME NoOffsetFetch PROVE PagingInv
  <2>1. chain = << >> /\ skip = 0 /\ rows = << >> /\ attempt = 0 /\ phase = "done" /\ known = 0
    BY <1>2 DEF NoOffsetFetch
  <2>2. chain \in Seq(Event) /\ InOrder
    BY <2>1 DEF InOrder
  <2> QED
    BY <2>1, <2>2, NothingFetched
<1> QED
  BY <1>1, <1>2

(* Every step of either fetch keeps the invariant.                         *)
LEMMA PagingInvNext == PagingInv /\ [MCNext]_<<pagingVars, cursorVars>> => PagingInv'
<1> SUFFICES ASSUME PagingInv, [MCNext]_<<pagingVars, cursorVars>>
             PROVE  PagingInv'
  OBVIOUS
<1>1. CASE Answer
  BY <1>1, AnswerKeeps
<1>2. CASE PostFails
  <2>1. /\ phase = "posting" /\ attempt \in 0 .. Attempts /\ attempt < Attempts
        /\ Attempts \in Nat
    BY <1>2, PagingAssumption DEF PostFails, PagingInv, PagingTypeOK, AttemptsLeft
  <2>2. attempt' \in 0 .. Attempts /\ phase' \in {phase, "failed"} /\ AttemptsLeft'
    BY <1>2, <2>1 DEF PostFails, AttemptsLeft
  <2> QED
    BY <1>2, <2>2, FailureKeeps DEF PostFails
<1>3. ASSUME NEW event \in Event, Arrive(event) PROVE PagingInv'
  BY <1>3, ArriveKeeps
<1>4. CASE UNCHANGED pagingVars
  <2>1. /\ UNCHANGED <<chain, skip, rows, known>> /\ attempt' \in 0 .. Attempts
        /\ phase' \in {phase, "failed"} /\ AttemptsLeft'
    BY <1>4 DEF pagingVars, PagingInv, PagingTypeOK, AttemptsLeft
  <2> QED
    BY <2>1, FailureKeeps
<1> QED
  BY <1>1, <1>2, <1>3, <1>4 DEF MCNext, PagingNext

(* So it always holds.                                                     *)
LEMMA PagingInvInvariant == MCSpec => []PagingInv
<1>1. MCInit => PagingInv
  BY PagingInvInitially DEF MCInit
<1> QED
  BY <1>1, PagingInvNext, PTL DEF MCSpec

(* The variables of a fetch by offset keep their types, and no request is  *)
(* attempted more often than allowed.                                      *)
THEOREM PagingTypeCorrect == MCSpec => []PagingTypeOK
  BY PagingInvInvariant, PTL DEF PagingInv

(* A fetch that ends without the warning of fetch_events.py:223 has every  *)
(* event of the window that there was when it began, however many arrive   *)
(* meanwhile, but for those that an event without a timestamp hides.       *)
THEOREM NothingIsMissed == MCSpec => []NothingMissed
  BY PagingInvInvariant, PTL DEF PagingInv

(* Events that come twice are no more than those that have arrived.        *)
THEOREM RepeatsAreBounded == MCSpec => []RepeatsBoundedByArrivals
  BY PagingInvInvariant, PTL DEF PagingInv

(* When the fetch gives up at the maximal offset, what it has missed is    *)
(* older than all it has.  The window is taken to begin after the epoch:   *)
(* the 0 the script reads for a missing timestamp then is before it.       *)
LEMMA TruncatedMisses ==
    ASSUME PagingInv, StartTs > 0
    PROVE  MissesTheOldest
<1> SUFFICES ASSUME phase = "truncated", NEW i \in Missed, NEW j \in Fetched
             PROVE  i < j
  BY DEF MissesTheOldest
<1>1. PICK low \in Nat \ {0} : Walked(low, known)
  BY DEF PagingInv, PostingInv
<1>2. i \in 1 .. known /\ InWindow(i) /\ i \notin Fetched /\ i \in 1 .. Len(chain)
        /\ known \in Nat /\ Len(chain) \in Nat
  BY DEF Missed, PagingInv, PagingTypeOK
<1>3. j \in 1 .. Len(chain) /\ low <= j
  BY <1>1, FetchedFinite DEF Walked, PagingInv
<1>4. ~(i \in low .. known)
  <2> SUFFICES ASSUME i \in low .. known PROVE FALSE
    OBVIOUS
  <2>1. ~Ends(i) /\ ~Keeps(i)
    BY <1>1, <1>2 DEF Walked
  <2>2. i \in Unstamped
    BY <1>2, <2>1, NotKept DEF PagingInv
  <2>3. Ends(i)
    BY <2>2, PagingAssumption DEF Ends, ReadTs, Unstamped
  <2> QED
    BY <2>1, <2>3
<1> QED
  BY <1>1, <1>2, <1>3, <1>4

(* A fetch that gives up at the maximal offset, with the warning of        *)
(* fetch_events.py:223, has missed only events older than all it has.      *)
THEOREM TruncationMissesTheOldest ==
    ASSUME StartTs > 0
    PROVE  MCSpec => []MissesTheOldest
<1>1. PagingInv => MissesTheOldest
  BY TruncatedMisses
<1> QED
  BY <1>1, PagingInvInvariant, PTL

-----------------------------------------------------------------------------
(* Paging by cursor.  Entities are ordered by the cursor field and the id. *)
LEMMA BeforeIsAnOrder ==
    ASSUME NEW a \in ByCursor!Entity, NEW b \in ByCursor!Entity, NEW c \in ByCursor!Entity
    PROVE  /\ ~ByCursor!Before(a, a)
           /\ ByCursor!Before(a, b) /\ ByCursor!Before(b, c) => ByCursor!Before(a, c)
           /\ a # b => ByCursor!Before(a, b) \/ ByCursor!Before(b, a)
<1>1. /\ a.key \in Nat /\ b.key \in Nat /\ c.key \in Nat
      /\ a.id \in Nat /\ b.id \in Nat /\ c.id \in Nat
  BY MCCursorAssumption DEF ByCursor!Entity, ByCursor!CursorAssumption
<1>2. a # b => a.key # b.key \/ a.id # b.id
  BY DEF ByCursor!Entity
<1> QED
  BY <1>1, <1>2 DEF ByCursor!Before

Beyond(from) == {e \in entities : e.key > from}

(* A page beyond a cursor: in order, and of what is beyond it only what    *)
(* comes after a full page is not on it.                                   *)
CursorPage(page, from) ==
    /\ page \in Seq(Beyond(from)) /\ Len(page) \in 0 .. PageSize
    /\ \A k, m \in 1 .. Len(page) : k < m => ByCursor!Before(page[k], page[m])
    /\ \A e \in Beyond(from) :
         \/ \E k \in 1 .. Len(page) : page[k] = e
         \/ Len(page) = PageSize /\ \A k \in 1 .. Len(page) : ByCursor!Before(page[k], e)

(* The page that paginate is given is of the form above.                   *)
LEMMA CursorPageIs ==
    ASSUME entities \subseteq ByCursor!Entity, IsFiniteSet(entities), NEW from
    PROVE  CursorPage(ByCursor!Page(from), from)
<1> DEFINE S == Beyond(from)
           N == Cardinality(S)
           R == {p \in ByCursor!Entity \X ByCursor!Entity : ByCursor!Before(p[1], p[2])}
           Rank(e) == Cardinality(Preceding(S, R, e))
           P == Min({PageSize, N})
           page == [k \in 1 .. P |-> CHOOSE e \in S : Rank(e) = k - 1]
<1>1. S \subseteq entities /\ IsFiniteSet(S) /\ N \in Nat
  <2>1. S \in SUBSET entities
    BY DEF Beyond
  <2>2. IsFiniteSet(S)
    BY <2>1, FS_Subset
  <2> QED
    BY <2>1, <2>2, FS_CardinalityType
<1>2. P \in Nat /\ P <= PageSize /\ P <= N /\ (P = PageSize \/ P = N) /\ PageSize \in Nat
  <2> HIDE DEF N
  <2>1. PageSize \in Nat
    BY PagingAssumption
  <2>2. \E x \in {PageSize, N} : \A y \in {PageSize, N} : x <= y
    BY <1>1, <2>1
  <2> QED
    BY <1>1, <2>1, <2>2 DEF Min
<1>3. \A d, e \in S : <<d, e>> \in R <=> ByCursor!Before(d, e)
  BY <1>1
<1>4. \A e \in S : Preceding(S, R, e) = {d \in S : ByCursor!Before(d, e)}
  BY <1>3 DEF Preceding
<1>5. /\ \A d \in S : <<d, d>> \notin R
      /\ \A a, b, c \in S : <<a, b>> \in R /\ <<b, c>> \in R => <<a, c>> \in R
      /\ \A a, b \in S : a # b => <<a, b>> \in R \/ <<b, a>> \in R
  <2> HIDE DEF S, R
  <2>1. S \subseteq ByCursor!Entity
    BY <1>1
  <2> QED
    BY <1>3, <2>1, BeforeIsAnOrder
<1>6. /\ \A n \in 1 .. N : \E e \in S : Rank(e) = n - 1
      /\ \A e \in S : Rank(e) \in 0 .. N - 1
      /\ \A a, b \in S : <<a, b>> \in R => Rank(a) < Rank(b)
  <2> HIDE DEF S, R
  <2> QED
    BY <1>1, <1>5, RanksInOrder
<1>7. ByCursor!Page(from) = page
  <2>1. ByCursor!Page(from)
          = [k \in 1 .. P |-> CHOOSE e \in S : Cardinality({d \in S : ByCursor!Before(d, e)}) = k - 1]
    BY Zenon DEF ByCursor!Page, Beyond, ByCursor!Min, Min, ByCursor!Cardinality, Cardinality
  <2>2. ASSUME NEW k \in 1 .. P
        PROVE  (CHOOSE e \in S : Cardinality({d \in S : ByCursor!Before(d, e)}) = k - 1)
                 = CHOOSE e \in S : Rank(e) = k - 1
    <3>1. \A e \in S : Cardinality({d \in S : ByCursor!Before(d, e)}) = k - 1 <=> Rank(e) = k - 1
      BY <1>4
    <3> HIDE DEF S, Rank
    <3> QED
      BY <3>1
  <2> HIDE DEF S, P, R, Rank
  <2> QED
    BY <2>1, <2>2
<1> HIDE DEF S, P, N, Rank, R
<1>8. \A k \in 1 .. P : page[k] \in S /\ Rank(page[k]) = k - 1
  <2> SUFFICES ASSUME NEW k \in 1 .. P PROVE page[k] \in S /\ Rank(page[k]) = k - 1
    OBVIOUS
  <2>1. k \in 1 .. N
    BY <1>1, <1>2
  <2>2. \E e \in S : Rank(e) = k - 1
    BY <1>6, <2>1
  <2> QED
    BY <2>2
<1>9. page \in Seq(S) /\ Len(page) = P
  BY <1>2, <1>8
<1> HIDE DEF page
<1>10. \A a, b \in S : Rank(a) < Rank(b) => ByCursor!Before(a, b)
  <2> SUFFICES ASSUME NEW a \in S, NEW b \in S, Rank(a) < Rank(b)
               PROVE  <<a, b>> \in R
    BY <1>3
  <2>1. Rank(a) \in Int /\ Rank(b) \in Int
    BY <1>1, <1>6
  <2>2. a # b /\ ~(<<b, a>> \in R)
    BY <1>6, <2>1
  <2> QED
    BY <1>5, <2>2
<1>11. ASSUME NEW k \in 1 .. P, NEW m \in 1 .. P, k < m
       PROVE  ByCursor!Before(page[k], page[m])
  BY <1>2, <1>8, <1>10, <1>11
<1>12. ASSUME NEW e \in S
       PROVE  \/ \E k \in 1 .. P : page[k] = e
              \/ P = PageSize /\ \A k \in 1 .. P : ByCursor!Before(page[k], e)
  <2>1. Rank(e) \in 0 .. N - 1
    BY <1>6
  <2>2. CASE Rank(e) + 1 <= P
    <3>1. Rank(e) + 1 \in 1 .. P /\ (Rank(e) + 1) - 1 = Rank(e)
      BY <1>1, <1>2, <2>1, <2>2
    <3> DEFINE d == page[Rank(e) + 1]
    <3>2. d \in S /\ Rank(d) = Rank(e)
      BY <1>8, <3>1
    <3>3. d = e
      <4>1. ~(Rank(d) < Rank(e)) /\ ~(Rank(e) < Rank(d))
        BY <1>1, <2>1, <3>2
      <4> HIDE DEF d
      <4>2. ~(<<d, e>> \in R) /\ ~(<<e, d>> \in R)
        BY <1>6, <3>2, <4>1
      <4> QED
        BY <1>5, <3>2, <4>2
    <3> QED
      BY <3>1, <3>3
  <2>3. CASE ~(Rank(e) + 1 <= P)
    <3>1. P = PageSize
      BY <1>1, <1>2, <2>1, <2>3
    <3>2. ASSUME NEW k \in 1 .. P PROVE ByCursor!Before(page[k], e)
      <4>1. k - 1 < Rank(e)
        BY <1>1, <1>2, <2>1, <2>3
      <4> QED
        BY <1>8, <1>10, <4>1
    <3> QED
      BY <3>1, <3>2
  <2> QED
    BY <2>2, <2>3
<1>13. CursorPage(page, from)
  <2>1. \A e \in Beyond(from) : e \in S
    BY DEF S
  <2>2. page \in Seq(Beyond(from))
    BY <1>9 DEF S
  <2> QED
    BY <1>2, <1>9, <1>11, <1>12, <2>1, <2>2 DEF CursorPage
<1> QED
  BY <1>7, <1>13

(* The invariant of a fetch by cursor: the rows come in order; while it    *)
(* goes on they are whole pages, none of them beyond the cursor, and of    *)
(* the entities there were at the beginning those up to the cursor have    *)
(* come, or share its value with the end of a page.                        *)
Came(e) ==
    \/ e \in ByCursor!Yielded
    \/ \E last \in ByCursor!PageEnds : last.key = e.key

CursorPosting ==
    cursorPc = "posting" =>
        /\ cursor = 0 => yielded = << >> /\ cursorKnown = {}
        /\ Len(yielded) % PageSize = 0 /\ cursorAttempt < Attempts
        /\ \A k \in DOMAIN yielded : yielded[k].key <= cursor
        /\ \A e \in cursorKnown : e.key <= cursor => Came(e)

CursorInv ==
    /\ ByCursor!TypeOK /\ IsFiniteSet(entities)
    /\ CursorPosting /\ YieldsEachOnce

(* A multiple leaves no remainder.                                         *)
LEMMA MultipleOf ==
    ASSUME NEW q \in Nat, NEW P \in Nat \ {0}
    PROVE  (q * P) % P = 0
  OBVIOUS

(* One more whole page is again a number of whole pages.                   *)
LEMMA WholePages ==
    ASSUME NEW m \in Nat, NEW P \in Nat \ {0}, m % P = 0
    PROVE  (m + P) % P = 0
<1> DEFINE q == m \div P
<1>1. q \in Nat /\ m = q * P
  OBVIOUS
<1> HIDE DEF q
<1>2. m + P = (q + 1) * P /\ q + 1 \in Nat
  BY <1>1
<1>3. ((q + 1) * P) % P = 0
  BY <1>2, MultipleOf, Zenon
<1> QED
  BY <1>2, <1>3

(* The invariant holds at the beginning, of either kind of fetch.          *)
LEMMA CursorInitially ==
    ByCursor!Init \/ NoCursorFetch => CursorInv
<1> SUFFICES ASSUME ByCursor!Init \/ NoCursorFetch PROVE CursorInv
  OBVIOUS
<1>1. /\ entities \subseteq ByCursor!Entity /\ IsFiniteSet(entities)
      /\ cursor = 0 /\ yielded = << >> /\ cursorAttempt = 0 /\ cursorKnown = {}
      /\ cursorPc \in {"posting", "done"}
  BY FS_EmptySet DEF ByCursor!Init, NoCursorFetch, ByCursor!IsFiniteSet, IsFiniteSet
<1>2. Attempts \in Nat \ {0} /\ PageSize \in Nat \ {0}
  BY PagingAssumption
<1>3. ByCursor!TypeOK
  BY <1>1, <1>2 DEF ByCursor!TypeOK
<1>4. Len(yielded) % PageSize = 0 /\ DOMAIN yielded = {}
  BY <1>1, <1>2
<1>5. CursorPosting
  BY <1>1, <1>2, <1>4 DEF CursorPosting
<1>6. YieldsEachOnce
  BY <1>1, <1>4 DEF YieldsEachOnce, ByCursor!YieldsEachOnce
<1> QED
  BY <1>1, <1>3, <1>5, <1>6 DEF CursorInv

(* Where no rows come, the invariant speaks of the same rows.              *)
LEMMA CursorWaits ==
    ASSUME CursorInv, UNCHANGED <<cursor, yielded, cursorKnown>>,
           entities \subseteq entities', entities' \subseteq ByCursor!Entity,
           IsFiniteSet(entities'),
           cursorAttempt' \in 0 .. Attempts, cursorPc' \in {cursorPc, "failed"},
           cursorPc' = "posting" => cursorAttempt' < Attempts
    PROVE  CursorInv'
<1>1. ByCursor!TypeOK'
  BY DEF CursorInv, ByCursor!TypeOK
<1>2. \A e : (Came(e))' = Came(e)
  BY DEF Came, ByCursor!Yielded, ByCursor!PageEnds
<1>3. CursorPosting'
  BY <1>2 DEF CursorInv, CursorPosting
<1>4. ByCursor!Yielded' = ByCursor!Yielded /\ ByCursor!PageEnds' = ByCursor!PageEnds
  BY DEF ByCursor!Yielded, ByCursor!PageEnds
<1>5. YieldsEachOnce'
  BY <1>4 DEF CursorInv, YieldsEachOnce, ByCursor!YieldsEachOnce
<1> QED
  BY <1>1, <1>3, <1>5 DEF CursorInv

(* A page that is yielded keeps the invariant.                             *)
LEMMA CursorAnswerKeeps ==
    ASSUME CursorInv, ByCursor!Answer
    PROVE  CursorInv'
<1> DEFINE page == ByCursor!Page(cursor)
           n == Len(page)
           m == Len(yielded)
<1>1. /\ entities \subseteq ByCursor!Entity /\ IsFiniteSet(entities) /\ cursorPc = "posting"
      /\ yielded \in Seq(ByCursor!Entity) /\ m \in Nat /\ cursor \in Nat
      /\ cursor \in Keys \cup {0}
      /\ Attempts \in Nat \ {0} /\ PageSize \in Nat \ {0} /\ Keys \subseteq Nat \ {0}
  BY PagingAssumption, MCCursorAssumption
     DEF CursorInv, ByCursor!TypeOK, ByCursor!Answer, ByCursor!CursorAssumption
<1>2. /\ page \in Seq(Beyond(cursor)) /\ n \in 0 .. PageSize
      /\ \A k, l \in 1 .. n : k < l => ByCursor!Before(page[k], page[l])
      /\ \A e \in Beyond(cursor) :
           \/ \E k \in 1 .. n : page[k] = e
           \/ n = PageSize /\ \A k \in 1 .. n : ByCursor!Before(page[k], e)
  BY <1>1, CursorPageIs DEF CursorPage
<1>3. /\ yielded' = yielded \o page /\ entities' = entities /\ cursorAttempt' = 0
      /\ cursorKnown' = IF cursor = 0 THEN entities ELSE cursorKnown
      /\ n < PageSize => cursorPc' = "done" /\ cursor' = cursor
      /\ ~(n < PageSize) => cursor' = page[n].key /\ cursorPc' = cursorPc
  BY DEF ByCursor!Answer, ByCursor!NextCursor, Last, ByCursor!Last
<1> HIDE DEF page
<1>4. /\ \A k \in 1 .. n : page[k] \in entities /\ page[k] \in ByCursor!Entity
                           /\ page[k].key > cursor /\ page[k].key \in Nat /\ page[k].key \in Keys
      /\ \A k \in 1 .. m : yielded[k] \in ByCursor!Entity /\ yielded[k].key \in Nat
                           /\ yielded[k].key <= cursor
  <2>1. \A k \in 1 .. n : page[k] \in Beyond(cursor)
    BY <1>2
  <2>2. \A k \in 1 .. m : yielded[k] \in ByCursor!Entity /\ k \in DOMAIN yielded
    BY <1>1
  <2>3. \A e \in ByCursor!Entity : e.key \in Keys /\ e.key \in Nat
    BY <1>1 DEF ByCursor!Entity
  <2> QED
    BY <1>1, <2>1, <2>2, <2>3 DEF Beyond, CursorInv, CursorPosting
<1>5. /\ yielded' \in Seq(ByCursor!Entity) /\ Len(yielded') = m + n
      /\ n \in Nat /\ DOMAIN yielded' = 1 .. m + n
      /\ \A k \in 1 .. m : yielded'[k] = yielded[k]
      /\ \A k \in 1 .. n : yielded'[m + k] = page[k]
  <2>1. page \in Seq(ByCursor!Entity) /\ n \in Nat
    BY <1>1, <1>2 DEF Beyond
  <2> QED
    BY <1>1, <1>3, <2>1
<1>6. ASSUME NEW i \in 1 .. m + n, NEW j \in 1 .. m + n, i < j
      PROVE  ByCursor!Before(yielded'[i], yielded'[j])
  <2>1. CASE j \in 1 .. m
    <3>1. i \in 1 .. m /\ i \in DOMAIN yielded /\ j \in DOMAIN yielded
      BY <1>1, <1>5, <1>6, <2>1
    <3> QED
      BY <1>5, <1>6, <2>1, <3>1 DEF CursorInv, YieldsEachOnce, ByCursor!YieldsEachOnce
  <2>2. CASE ~(j \in 1 .. m)
    <3>1. PICK l \in 1 .. n : j = m + l
      <4>1. j - m \in 1 .. n /\ j = m + (j - m)
        BY <1>1, <1>5, <2>2
      <4> QED
        BY <4>1
    <3>2. CASE i \in 1 .. m
      <4>1. yielded'[i] = yielded[i] /\ yielded'[j] = page[l]
        BY <1>5, <3>1, <3>2
      <4>2. yielded[i].key < page[l].key
        BY <1>1, <1>4, <3>1, <3>2
      <4> QED
        BY <4>1, <4>2 DEF ByCursor!Before
    <3>3. CASE ~(i \in 1 .. m)
      <4>1. i - m \in 1 .. n /\ i = m + (i - m) /\ i - m < l
        BY <1>1, <1>5, <1>6, <3>1, <3>3
      <4> QED
        BY <1>2, <1>5, <3>1, <4>1
    <3> QED
      BY <3>2, <3>3
  <2> QED
    BY <2>1, <2>2
<1>7. cursorKnown' \subseteq entities
  BY <1>3 DEF CursorInv, ByCursor!TypeOK
<1>8. cursor' \in Keys \cup {0} /\ cursorPc' \in {"posting", "done"}
  <2>1. CASE n < PageSize
    BY <1>1, <1>3, <2>1
  <2>2. CASE ~(n < PageSize)
    <3>1. n \in 1 .. n
      BY <1>1, <1>5, <2>2
    <3> QED
      BY <1>1, <1>3, <1>4, <2>2, <3>1
  <2> QED
    BY <2>1, <2>2
<1>9. ByCursor!TypeOK'
  BY <1>1, <1>3, <1>5, <1>7, <1>8 DEF ByCursor!TypeOK
<1>10. /\ ByCursor!Yielded \subseteq ByCursor!Yielded'
       /\ \A k \in 1 .. n : page[k] \in ByCursor!Yielded'
  <2>1. \A k \in 1 .. m : yielded[k] \in ByCursor!Yielded'
    BY <1>1, <1>5 DEF ByCursor!Yielded
  <2>2. DOMAIN yielded = 1 .. m
    BY <1>1
  <2>3. \A k \in 1 .. n : m + k \in DOMAIN yielded' /\ yielded'[m + k] = page[k]
    BY <1>1, <1>5
  <2> QED
    BY <2>1, <2>2, <2>3 DEF ByCursor!Yielded
<1>11. ByCursor!PageEnds \subseteq ByCursor!PageEnds'
  <2>1. DOMAIN yielded = 1 .. m /\ 1 .. m \subseteq DOMAIN yielded'
    BY <1>1, <1>5
  <2> QED
    BY <1>5, <2>1 DEF ByCursor!PageEnds
<1>12. ASSUME NEW e PROVE Came(e) => (Came(e))'
  BY <1>10, <1>11 DEF Came
<1>13. ASSUME NEW e \in cursorKnown', e.key <= cursor PROVE Came(e)
  <2>1. e.key \in Nat \ {0}
    BY <1>1, <1>7 DEF ByCursor!Entity
  <2>2. cursor # 0
    BY <1>1, <1>13, <2>1
  <2> QED
    BY <1>1, <1>3, <1>13, <2>2 DEF CursorInv, CursorPosting
<1>14. CASE n < PageSize
  <2>1. cursorPc' = "done"
    BY <1>3, <1>14
  <2>2. ASSUME NEW e \in cursorKnown' PROVE (Came(e))'
    <3>1. e \in ByCursor!Entity /\ e.key \in Nat
      BY <1>1, <1>7 DEF ByCursor!Entity
    <3>2. CASE e.key <= cursor
      BY <1>12, <1>13, <3>2
    <3>3. CASE ~(e.key <= cursor)
      <4>1. e \in Beyond(cursor)
        BY <1>1, <1>7, <3>1, <3>3 DEF Beyond
      <4>2. PICK k \in 1 .. n : page[k] = e
        BY <1>1, <1>2, <1>14, <4>1
      <4> QED
        BY <1>10, <4>2 DEF Came
    <3> QED
      BY <3>2, <3>3
  <2>3. CursorPosting'
    BY <2>1 DEF CursorPosting
  <2>4. YieldsEachOnce'
    BY <1>5, <1>6, <2>2 DEF YieldsEachOnce, ByCursor!YieldsEachOnce, Came
  <2> QED
    BY <1>1, <1>3, <1>9, <2>3, <2>4 DEF CursorInv
<1>15. CASE ~(n < PageSize)
  <2>1. n = PageSize /\ n \in 1 .. n /\ cursorPc' = "posting" /\ cursor' = page[n].key
    BY <1>1, <1>2, <1>3, <1>5, <1>15
  <2>2. /\ cursor' \in Nat \ {0} /\ cursor < cursor'
        /\ \A k \in 1 .. n : page[k].key <= cursor'
    <3>1. cursor' \in Nat \ {0} /\ cursor < cursor'
      BY <1>1, <1>4, <2>1
    <3>2. ASSUME NEW k \in 1 .. n PROVE page[k].key <= cursor'
      <4>1. CASE k = n
        BY <1>4, <2>1, <4>1
      <4>2. CASE k # n
        <5>1. k < n
          BY <1>5, <4>2
        <5>2. ByCursor!Before(page[k], page[n])
          BY <1>2, <2>1, <5>1
        <5> QED
          BY <1>4, <2>1, <5>2 DEF ByCursor!Before
      <4> QED
        BY <4>1, <4>2
    <3> QED
      BY <3>1, <3>2
  <2>3. Len(yielded') % PageSize = 0
    <3>1. m % PageSize = 0
      BY <1>1 DEF CursorInv, CursorPosting
    <3> QED
      BY <1>1, <1>5, <2>1, <3>1, WholePages
  <2>4. page[n] \in ByCursor!PageEnds'
    <3>1. m + n \in DOMAIN yielded' /\ (m + n) % PageSize = 0
      BY <1>1, <1>5, <2>1, <2>3
    <3>2. yielded'[m + n] = page[n]
      BY <1>5, <2>1
    <3> QED
      BY <3>1, <3>2 DEF ByCursor!PageEnds
  <2>5. ASSUME NEW k \in 1 .. m + n PROVE yielded'[k].key <= cursor'
    <3>1. CASE k \in 1 .. m
      BY <1>1, <1>4, <1>5, <2>2, <3>1
    <3>2. CASE ~(k \in 1 .. m)
      <4>1. k - m \in 1 .. n /\ k = m + (k - m)
        BY <1>1, <1>5, <3>2
      <4> QED
        BY <1>5, <2>2, <4>1
    <3> QED
      BY <3>1, <3>2
  <2>6. ASSUME NEW e \in cursorKnown', e.key <= cursor' PROVE (Came(e))'
    <3>1. e \in ByCursor!Entity /\ e.key \in Nat
      BY <1>1, <1>7 DEF ByCursor!Entity
    <3>2. CASE e.key <= cursor
      BY <1>12, <1>13, <3>2
    <3>3. CASE ~(e.key <= cursor)
      <4>1. e \in Beyond(cursor)
        BY <1>1, <1>7, <3>1, <3>3 DEF Beyond
      <4>2. CASE \E k \in 1 .. n : page[k] = e
        BY <1>10, <4>2 DEF Came
      <4>3. CASE \A k \in 1 .. n : ByCursor!Before(page[k], e)
        <5>1. ByCursor!Before(page[n], e)
          BY <2>1, <4>3
        <5>2. page[n].key = e.key
          BY <1>4, <2>1, <2>6, <3>1, <5>1 DEF ByCursor!Before
        <5> QED
          BY <2>4, <5>2 DEF Came
      <4> QED
        BY <1>2, <4>1, <4>2, <4>3
    <3> QED
      BY <3>2, <3>3
  <2>7. CursorPosting'
    BY <1>1, <1>3, <1>5, <2>1, <2>2, <2>3, <2>5, <2>6 DEF CursorPosting
  <2>8. YieldsEachOnce'
    BY <1>5, <1>6, <2>1 DEF YieldsEachOnce, ByCursor!YieldsEachOnce
  <2> QED
    BY <1>1, <1>3, <1>9, <2>7, <2>8 DEF CursorInv
<1> QED
  BY <1>14, <1>15

(* Every step of either fetch keeps it.                                    *)
LEMMA CursorInvNext == CursorInv /\ [MCNext]_<<pagingVars, cursorVars>> => CursorInv'
<1> SUFFICES ASSUME CursorInv, [MCNext]_<<pagingVars, cursorVars>>
             PROVE  CursorInv'
  OBVIOUS
<1>1. /\ entities \subseteq ByCursor!Entity /\ IsFiniteSet(entities)
      /\ cursorAttempt \in 0 .. Attempts /\ Attempts \in Nat
      /\ cursorPc = "posting" => cursorAttempt < Attempts
  BY PagingAssumption DEF CursorInv, CursorPosting, ByCursor!TypeOK
<1>2. CASE ByCursor!Answer
  BY <1>2, CursorAnswerKeeps
<1>3. CASE ByCursor!PostFails
  BY <1>1, <1>3, CursorWaits DEF ByCursor!PostFails
<1>4. ASSUME NEW e \in ByCursor!Entity, ByCursor!Arrive(e) PROVE CursorInv'
  <2>1. entities' = entities \cup {e} /\ IsFiniteSet(entities \cup {e})
    BY <1>1, <1>4, FS_AddElement DEF ByCursor!Arrive
  <2> QED
    BY <1>1, <1>4, <2>1, CursorWaits DEF ByCursor!Arrive
<1>5. CASE UNCHANGED cursorVars
  BY <1>1, <1>5, CursorWaits DEF cursorVars
<1> QED
  BY <1>2, <1>3, <1>4, <1>5 DEF MCNext, ByCursor!Next

(* SubgraphClient.paginate yields the entities in order and none twice,    *)
(* and of those there were at the beginning it leaves out only those that  *)
(* share the value of the cursor field with the end of a page.             *)
THEOREM YieldsInOrderOnce == MCSpec => []YieldsEachOnce
<1>1. MCInit => CursorInv
  BY CursorInitially DEF MCInit
<1>2. CursorInv => YieldsEachOnce
  BY DEF CursorInv
<1> QED
  BY <1>1, <1>2, CursorInvNext, PTL DEF MCSpec

=============================================================================
