----------------------------- MODULE CursorPaging -----------------------------
(***************************************************************************)
(* SubgraphClient.paginate: entities asked for page by page, ascending by  *)
(* one field and beyond the last value seen, while others are added at any *)
(* place in that order.  The field need not tell all entities apart: the   *)
(* service orders those that share a value by their ids.                   *)
(***************************************************************************)
EXTENDS Integers, SequencesExt, FiniteSetsExt

CONSTANTS PageSize,         \* page_size
          Attempts,         \* stop_after_attempt of _post
          Keys,             \* values of the cursor field; "" comes before them
          Ids               \* entities that may share one

CursorAssumption ==
    /\ PageSize \in Nat \ {0} /\ Attempts \in Nat \ {0}
    /\ Keys \subseteq Nat \ {0} /\ Ids \subseteq Nat

VARIABLES
    entities,   \* what the service holds
    cursor,     \* the last value seen, 0 for ""
    yielded,    \* the rows, as they were yielded
    attempt,    \* failed attempts at the current request
    pc,         \* "posting", "done" or "failed"
    known       \* history: what there was when the first page came

vars == <<entities, cursor, yielded, attempt, pc, known>>

Entity == [key: Keys, id: Ids]

Before(d, e) == d.key < e.key \/ (d.key = e.key /\ d.id < e.id)

(* The page beyond a cursor.                                               *)
Page(from) ==
    LET beyond == {e \in entities : e.key > from}
        Nth(k) == CHOOSE e \in beyond :
                    Cardinality({d \in beyond : Before(d, e)}) = k - 1
    IN  [k \in 1 .. Min({PageSize, Cardinality(beyond)}) |-> Nth(k)]

Init ==
    /\ entities \in SUBSET Entity /\ IsFiniteSet(entities)
    /\ cursor = 0 /\ yielded = << >> /\ attempt = 0 /\ pc = "posting"
    /\ known = {}

(* An entity is indexed, anywhere in the order.                            *)
Arrive(e) ==
    /\ pc = "posting" /\ e \notin entities
    /\ entities' = entities \cup {e}
    /\ UNCHANGED <<cursor, yielded, attempt, pc, known>>

(* _post: an error is retried, the last one raised.                        *)
PostFails ==
    /\ pc = "posting"
    /\ attempt' = attempt + 1
    /\ pc' = IF attempt' = Attempts THEN "failed" ELSE pc
    /\ UNCHANGED <<entities, cursor, yielded, known>>

(* Mutant: the cursor is taken from the other end of the page.             *)
NextCursorFirst(page) == Head(page).key

NextCursor(page) == Last(page).key

(* A page comes and is yielded; a short one is the last.                   *)
Answer ==
    /\ pc = "posting"
    /\ LET page == Page(cursor)
       IN  /\ yielded' = yielded \o page
           /\ IF Len(page) < PageSize
                THEN pc' = "done" /\ UNCHANGED cursor
                ELSE cursor' = NextCursor(page) /\ UNCHANGED pc
    /\ attempt' = 0
    /\ known' = IF cursor = 0 THEN entities ELSE known
    /\ UNCHANGED entities

Next == Answer \/ PostFails \/ \E e \in Entity : Arrive(e)

Spec == Init /\ [][Next]_vars

-----------------------------------------------------------------------------
(* The variables have their types.                                         *)
TypeOK ==
    /\ entities \subseteq Entity /\ known \subseteq entities
    /\ cursor \in Keys \cup {0} /\ yielded \in Seq(Entity)
    /\ attempt \in 0 .. Attempts /\ pc \in {"posting", "done", "failed"}

Yielded == {yielded[k] : k \in DOMAIN yielded}

(* The rows that ended a full page.                                        *)
PageEnds == {yielded[k] : k \in {n \in DOMAIN yielded : n % PageSize = 0}}

(* Whatever is indexed meanwhile, rows come in order, none of them twice;  *)
(* and a fetch that ends has all there was when it began, except entities  *)
(* that share the value of the cursor field with the end of a page.  With  *)
(* a field of distinct values, as the ids of the default, none is missed.  *)
YieldsEachOnce ==
    /\ \A i, j \in DOMAIN yielded : i < j => Before(yielded[i], yielded[j])
    /\ pc = "done" =>
         \A e \in known \ Yielded : \E last \in PageEnds : last.key = e.key
=============================================================================
