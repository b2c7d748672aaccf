--------------------------- MODULE MonteCarloStream ---------------------------
(***************************************************************************)
(* run_monte_carlo and joint_mc: one generator is seeded, and every shock  *)
(* parameter takes its samples for all the paths from it, one parameter    *)
(* after another.  A study is run, its parameters or its number of paths   *)
(* are changed, and it is run again with the same seed: which of its paths *)
(* are the same as before?                                                 *)
(*                                                                         *)
(* A sample is the index of an observation, and a path's result is its     *)
(* shocks: the scenario is a function of them.                             *)
(***************************************************************************)
EXTENDS Integers, Sequences, FiniteSetsExt

CONSTANTS Parameters,   \* [name, size: number of observations, block: block_size]
          Words,        \* what a generator may return, 0 .. Words - 1
          Streams,      \* what it returns first, after a seed; then only 0
          MaxPaths      \* bound: n_paths

Parameter == [name: STRING, size: Nat \ {0}, block: Nat \ {0}]

(* EmpiricalDistribution rejects a block longer than the observations.     *)
ASSUME StreamAssumption ==
    /\ Parameters \subseteq Parameter /\ IsFiniteSet(Parameters)
    /\ \A p \in Parameters : p.block <= p.size /\ p.size <= Words
    /\ \A p, q \in Parameters : p.name = q.name => p = q
    /\ Words \in Nat \ {0} /\ Streams \subseteq Seq(0 .. Words - 1)
    /\ MaxPaths \in Nat \ {0}

(* Dictionaries of parameters: their entries in order.                     *)
Studies ==
    {ps \in UNION {[1 .. n -> Parameters] : n \in 1 .. Cardinality(Parameters)} :
        \A i, j \in DOMAIN ps : ps[i] = ps[j] => i = j}

VARIABLES
    stream,     \* the generator's words for the seed
    study,      \* the parameters, in the order of the dictionary
    paths,      \* n_paths
    position,   \* how many words the generator has given
    sampled,    \* the arrays sampled so far, in the order of the study
    results,    \* the paths run so far
    pc,         \* "sampling", "running" or "done"
    earlier     \* the study before the change: << >>, or its study and results

streamVars == <<stream, study, paths, position, sampled, results, pc, earlier>>

Word(p) == IF p \in DOMAIN stream THEN stream[p] ELSE 0

-----------------------------------------------------------------------------
(* Generator.integers(0, n): words that would favour some numbers are      *)
(* rejected, and a range of one number takes no word at all.               *)
Accepted(word, n) == word < n * (Words \div n)

(* The position after a draw that starts at a position.                    *)
AfterDraw(p, n) ==
    IF n = 1 THEN p
    ELSE Min({q \in p + 1 .. p + Len(stream) + 1 : Accepted(Word(q), n)})

Drawn(p, n) == IF n = 1 THEN 0 ELSE Word(AfterDraw(p, n)) % n

(* The positions after 0, 1, ..., count draws.                             *)
Positions(from, n, count) ==
    LET after[k \in 0 .. count] ==
          IF k = 0 THEN from ELSE AfterDraw(after[k - 1], n)
    IN  after

-----------------------------------------------------------------------------
(* EmpiricalDistribution.sample.                                           *)

(* Mutant: a block may start at any observation.                           *)
StartRangeWhole(p) == p.size

(* Observations a block may start at; with blocks of one, any of them.     *)
StartRange(p) == p.size - p.block + 1

Starts(p, count) == (count + p.block - 1) \div p.block

(* Sample i is in block number (i - 1) \div block.                         *)
SampleOf(p, from, count) ==
    LET after == Positions(from, StartRange(p), Starts(p, count))
    IN  [i \in 1 .. count |->
            Drawn(after[(i - 1) \div p.block], StartRange(p))
              + ((i - 1) % p.block)]

-----------------------------------------------------------------------------
StreamInit ==
    /\ stream \in Streams
    /\ study \in Studies /\ paths \in 1 .. MaxPaths
    /\ position = 0 /\ sampled = << >> /\ results = << >>
    /\ pc = "sampling" /\ earlier = << >>

(* Mutant: the parameters are sampled from the last to the first.          *)
NextParameterLast == study[Len(study) - Len(sampled)]

NextParameter == study[Len(sampled) + 1]

(* The next parameter of the dictionary is sampled, for all the paths.     *)
Sample ==
    /\ pc = "sampling" /\ Len(sampled) < Len(study)
    /\ LET p == NextParameter
       IN  /\ sampled' = Append(sampled,
                           [name |-> p.name, values |-> SampleOf(p, position, paths)])
           /\ position' = Positions(position, StartRange(p), Starts(p, paths))[Starts(p, paths)]
    /\ UNCHANGED <<stream, study, paths, results, pc, earlier>>

AllSampled ==
    /\ pc = "sampling" /\ Len(sampled) = Len(study)
    /\ pc' = "running"
    /\ UNCHANGED <<stream, study, paths, position, sampled, results, earlier>>

(* The scenario of one path is run with its shocks.                        *)
RunPath ==
    /\ pc = "running"
    /\ results' = Append(results,
         [name \in {sampled[k].name : k \in DOMAIN sampled} |->
            (CHOOSE s \in {sampled[k] : k \in DOMAIN sampled} :
                s.name = name).values[Len(results) + 1]])
    /\ pc' = IF Len(results') = paths THEN "done" ELSE pc
    /\ UNCHANGED <<stream, study, paths, position, sampled, earlier>>

(* Somebody edits the study, and it is run again, from default_rng(seed).  *)
Edit(newStudy, newPaths) ==
    /\ pc = "done" /\ earlier = << >>
    /\ earlier' = <<[study |-> study, results |-> results]>>
    /\ study' = newStudy /\ paths' = newPaths
    /\ position' = 0 /\ sampled' = << >> /\ results' = << >>
    /\ pc' = "sampling"
    /\ UNCHANGED stream

StreamNext ==
    \/ Sample \/ AllSampled \/ RunPath
    \/ \E ps \in Studies, n \in 1 .. MaxPaths : Edit(ps, n)

StreamSpec == StreamInit /\ [][StreamNext]_streamVars

-----------------------------------------------------------------------------
(* The variables have their types.                                         *)
StreamTypeOK ==
    /\ stream \in Streams /\ study \in Studies /\ paths \in 1 .. MaxPaths
    /\ position \in Nat
    /\ sampled \in Seq([name: STRING, values: Seq(Nat)])
    /\ Len(results) <= paths
    /\ pc \in {"sampling", "running", "done"}
    /\ Len(earlier) <= 1

(* Up to which parameter the two studies take the same words: as long as   *)
(* they list the same ones and, if the number of paths changed, only those *)
(* that take none come before.                                             *)
SharedPrefix(before) ==
    {k \in DOMAIN study \cap DOMAIN before.study :
        \A j \in 1 .. k :
            /\ study[j] = before.study[j]
            /\ j < k /\ Len(before.results) # paths => StartRange(study[j]) = 1}

(* A path can be generated again: whatever is added behind a parameter,    *)
(* and for the first one whatever the number of paths, each path that both *)
(* studies have gets the same shock.  (The documents promise it of any     *)
(* path; a changed order, or number of paths, leaves it to the first.)     *)
PathsReproduced ==
    pc = "done" /\ earlier # << >> =>
        \A k \in SharedPrefix(earlier[1]) :
            \A i \in 1 .. Min({paths, Len(earlier[1].results)}) :
                results[i][study[k].name] = earlier[1].results[i][study[k].name]

(* Blocks are kept together: within a block every sample is the            *)
(* observation after the one before, and none is beyond the last.          *)
BlocksContiguous ==
    \A k \in DOMAIN sampled : LET p == study[k] v == sampled[k].values IN
        \A i \in DOMAIN v :
            /\ v[i] < p.size
            /\ i % p.block # 0 /\ i < Len(v) => v[i + 1] = v[i] + 1
=============================================================================
