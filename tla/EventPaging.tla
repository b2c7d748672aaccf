----------------------------- MODULE EventPaging -----------------------------
(***************************************************************************)
(* _fetch_event_type_for_market: the events of one type and market, asked  *)
(* for page by page, newest first, by offset (`skip`), and cut to the      *)
(* window on the client.  The market goes on meanwhile: every event that   *)
(* arrives shifts the ones before it to higher offsets.  The service may   *)
(* also leave out the timestamp of an event; the script reads that as 0.   *)
(***************************************************************************)
EXTENDS Integers, SequencesExt

CONSTANTS PageSize,         \* page_size
          MaxSkip,          \* the offset at which the fetch gives up
          Attempts,         \* stop_after_attempt of SubgraphClient._post
          StartTs, EndTs,   \* the configured window
          Timestamps,       \* when events happen
          MaxEvents,        \* bound: events of the market
          MaxUnstamped      \* bound: of them, without a timestamp

ASSUME PagingAssumption ==
    /\ PageSize \in Nat \ {0} /\ MaxSkip \in Nat /\ Attempts \in Nat \ {0}
    /\ StartTs \in Nat /\ EndTs \in Nat /\ Timestamps \subseteq Nat
    /\ MaxEvents \in Nat /\ MaxUnstamped \in Nat

VARIABLES
    chain,      \* the market's events, oldest first
    skip,       \* offset of the next page
    rows,       \* the events kept, as indices into chain
    attempt,    \* failed attempts at the current request
    phase,      \* "posting", "done", "truncated" or "failed"
    known       \* history: events there were when the first page came

pagingVars == <<chain, skip, rows, attempt, phase, known>>

Event == [ts: Timestamps, stamped: BOOLEAN]

(* The timestamp as the script reads it, and when the event happened.      *)
ReadTs(i) == IF chain[i].stamped THEN chain[i].ts ELSE 0
InWindow(i) == chain[i].ts \in StartTs .. EndTs

(* What the loop keeps, and what ends it.                                  *)
Keeps(i) == chain[i].stamped /\ ReadTs(i) \in StartTs .. EndTs
Ends(i) == ReadTs(i) < StartTs

(* The page at an offset: indices into chain, newest event first.          *)
Page(offset) ==
    LET newest == Len(chain) - offset
        oldest == Max({1, newest - PageSize + 1})
    IN  [k \in 1 .. (IF newest < 1 THEN 0 ELSE newest - oldest + 1) |->
            newest - k + 1]

(* The first event of a page that reads as older than the window, where    *)
(* the loop breaks; one past the end if there is none.                     *)
FirstOlder(page) ==
    Min({k \in DOMAIN page : Ends(page[k])} \cup {Len(page) + 1})

(* A finite set of indices in the order of a page: the newest first.       *)
NewestFirst(S) ==
    [n \in 1 .. Cardinality(S) |->
        CHOOSE i \in S : Cardinality({j \in S : j > i}) = n - 1]

(* Mutant: an event too recent ends the loop instead of being skipped.     *)
KeptUpToRecent(page) ==
    NewestFirst({page[k] : k \in
        1 .. Min({k \in DOMAIN page : ~Keeps(page[k])} \cup {Len(page) + 1}) - 1})

(* What is kept of a page: the events in the window, up to that one.       *)
Kept(page) ==
    NewestFirst({i \in {page[k] : k \in 1 .. FirstOlder(page) - 1} : Keeps(i)})

(* Mutant: the offset one too far, or one too short.                       *)
NextSkipFar == skip + PageSize + 1
NextSkipShort == skip + PageSize - 1

NextSkip == skip + PageSize

-----------------------------------------------------------------------------
PagingInit ==
    /\ \E ts \in UNION {[1 .. n -> Timestamps] : n \in 0 .. MaxEvents} :
         /\ \A i, j \in DOMAIN ts : i <= j => ts[i] <= ts[j]
         /\ \E bare \in SUBSET DOMAIN ts :
              /\ Cardinality(bare) <= MaxUnstamped
              /\ chain = [i \in DOMAIN ts |-> [ts |-> ts[i], stamped |-> i \notin bare]]
    /\ skip = 0 /\ rows = << >> /\ attempt = 0 /\ phase = "posting" /\ known = 0

Unstamped == {i \in DOMAIN chain : ~chain[i].stamped}

(* An event happens in the market: it is the newest one.                   *)
Arrive(event) ==
    /\ phase = "posting" /\ Len(chain) < MaxEvents
    /\ chain # << >> => chain[Len(chain)].ts <= event.ts
    /\ ~event.stamped => Cardinality(Unstamped) < MaxUnstamped
    /\ chain' = Append(chain, event)
    /\ UNCHANGED <<skip, rows, attempt, phase, known>>

(* Mutant: the attempts are never given up.                                *)
PostFailsForEver ==
    /\ phase = "posting"
    /\ attempt' = (attempt + 1) % Attempts
    /\ UNCHANGED <<chain, skip, rows, phase, known>>

(* _post: an error is retried, the last one raised.                        *)
PostFails ==
    /\ phase = "posting"
    /\ attempt' = attempt + 1
    /\ phase' = IF attempt' = Attempts THEN "failed" ELSE phase
    /\ UNCHANGED <<chain, skip, rows, known>>

(* Where a page leaves the loop.                                           *)
AfterPage(page) ==
    IF FirstOlder(page) <= Len(page) \/ Len(page) < PageSize THEN "done"
    ELSE IF NextSkip >= MaxSkip THEN "truncated"
    ELSE "posting"

(* _post answers: the page is filtered and the loop stops or moves on.     *)
Answer ==
    /\ phase = "posting"
    /\ LET page == Page(skip)
       IN  /\ rows' = rows \o Kept(page)
           /\ phase' = AfterPage(page)
           /\ skip' = IF phase' = "done" THEN skip ELSE NextSkip
    /\ attempt' = 0
    /\ known' = IF skip = 0 THEN Len(chain) ELSE known
    /\ UNCHANGED chain

PagingNext == Answer \/ PostFails \/ \E event \in Event : Arrive(event)

PagingSpec == PagingInit /\ [][PagingNext]_pagingVars

(* A request has a timeout: it is answered, or fails.                      *)
PagingFairness == WF_pagingVars(Answer \/ PostFails)

-----------------------------------------------------------------------------
(* The variables have their types; no more attempts than allowed.          *)
PagingTypeOK ==
    /\ chain \in Seq(Event) /\ skip \in Nat
    /\ rows \in Seq(1 .. Len(chain)) /\ known \in 0 .. Len(chain)
    /\ attempt \in 0 .. Attempts
    /\ phase \in {"posting", "done", "truncated", "failed"}

Fetched == {rows[k] : k \in DOMAIN rows}
Missed == {i \in 1 .. known : InWindow(i)} \ Fetched

(* A fetch that ends without the warning has every event of the window     *)
(* that there was when it began, whatever arrives meanwhile, except those  *)
(* at or before an event whose timestamp the service left out: such an     *)
(* event ends the fetch as one before the window does, and says nothing.   *)
NothingMissed ==
    phase = "done" => \A i \in Missed : \E j \in Unstamped : i <= j

(* One that gives up has missed only events older than all it has.         *)
MissesTheOldest ==
    phase = "truncated" => \A i \in Missed, j \in Fetched : i < j

(* An event comes twice only because another arrived: there are no more    *)
(* repetitions than events have arrived since the first page.              *)
RepeatsBoundedByArrivals ==
    Len(rows) - Cardinality(Fetched) <= Len(chain) - known

(* The fetch ends, however many events arrive and requests fail.           *)
Terminates == <>(phase # "posting")

=============================================================================
