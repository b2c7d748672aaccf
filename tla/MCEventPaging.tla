---------------------------- MODULE MCEventPaging ----------------------------
(* A fetch by offset, or one by cursor; the one that does not take place   *)
(* is a fetch that has ended on an empty market.                           *)
EXTENDS EventPaging

CONSTANTS Keys, Ids

VARIABLES entities, cursor, yielded, cursorAttempt, cursorPc, cursorKnown
cursorVars ==
    <<entities, cursor, yielded, cursorAttempt, cursorPc, cursorKnown>>

ByCursor == INSTANCE CursorPaging
              WITH attempt <- cursorAttempt, pc <- cursorPc, known <- cursorKnown

ASSUME MCCursorAssumption == ByCursor!CursorAssumption

NoOffsetFetch ==
    /\ chain = << >> /\ skip = 0 /\ rows = << >> /\ attempt = 0
    /\ phase = "done" /\ known = 0

NoCursorFetch ==
    /\ entities = {} /\ cursor = 0 /\ yielded = << >> /\ cursorAttempt = 0
    /\ cursorPc = "done" /\ cursorKnown = {}

MCInit ==
    \/ PagingInit /\ NoCursorFetch
    \/ NoOffsetFetch /\ ByCursor!Init

MCNext ==
    \/ PagingNext /\ UNCHANGED cursorVars
    \/ ByCursor!Next /\ UNCHANGED pagingVars

MCSpec ==
    /\ MCInit /\ [][MCNext]_<<pagingVars, cursorVars>>
    /\ PagingFairness

YieldsEachOnce == ByCursor!YieldsEachOnce
=============================================================================
