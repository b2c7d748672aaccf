----------------------------- MODULE OracleFeed -----------------------------
(***************************************************************************)
(* What any oracle of the simulator promises: a reading that lies between  *)
(* the lowest and the highest of the last `window` prices it accepted.     *)
(***************************************************************************)
EXTENDS Integers, Sequences

VARIABLES fed,      \* every price accepted so far, the initial one first
          window,   \* how many of the last prices may still count
          reading   \* the price reported

vars == <<fed, window, reading>>

RecentIndexes(n) == {i \in 1 .. n : i > n - window}

(* r is within the range of the recent prices of f.                        *)
WithinRecent(r, f) ==
    \E i, j \in RecentIndexes(Len(f)) : f[i] <= r /\ r <= f[j]

Init ==
    /\ window \in Nat \ {0} /\ reading \in Nat \ {0}
    /\ fed = <<reading>>

(* One more price p is accepted, and the reading follows it in any way.    *)
Accept ==
    LET p == fed'[Len(fed')]
    IN  /\ fed' = Append(fed, p) /\ p \in Nat \ {0}
        /\ reading' \in Nat /\ WithinRecent(reading', fed')
        /\ UNCHANGED window

Next == Accept

Spec == Init /\ [][Next]_vars
=============================================================================
