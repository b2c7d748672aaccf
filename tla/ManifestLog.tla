----------------------------- MODULE ManifestLog -----------------------------
(***************************************************************************)
(* What the manifest promises: a log of the runs that succeeded, to which  *)
(* entries are appended and whose past entries never change.  A crash may  *)
(* lose it as a whole, and then for good: nothing is recorded after that.  *)
(***************************************************************************)
EXTENDS Integers, Sequences

VARIABLES log,      \* the entries, oldest first
          lost      \* the manifest cannot be read any more

Init == log = << >> /\ lost = FALSE

AppendEntry ==
    /\ ~lost /\ Len(log') = Len(log) + 1
    /\ \A i \in 1 .. Len(log) : log'[i] = log[i]
    /\ UNCHANGED lost

Lose == ~lost /\ lost' = TRUE /\ log' = << >>

Next == AppendEntry \/ Lose

Spec == Init /\ [][Next]_<<log, lost>>
=============================================================================
