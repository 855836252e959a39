------------------------------ MODULE Listing ------------------------------
(***************************************************************************)
(* Reading a list page by page, as every list of the API is read: so many  *)
(* rows are skipped and so many taken, in the order of a column, while the *)
(* total is counted by a query of its own, and rows come and go between    *)
(* two pages and between the two queries of one.  The column is a day:     *)
(* rows of one day come in any order, another one in every query.          *)
(***************************************************************************)
EXTENDS Integers, FiniteSets

CONSTANTS Items,     \* rows that may be on the list
          DayOn,     \* the day of a row
          Limits,    \* what a request may ask for
          MaxPage    \* MAX_PAGE_SIZE

ASSUME ListingAssumption ==
    /\ IsFiniteSet(Items) /\ DayOn \in [Items -> Nat]
    /\ Limits \subseteq Nat \ {0} /\ MaxPage \in Nat \ {0}

VARIABLES onList,    \* the rows on file
          reading,   \* where the reader is: the page, its size, what of it has answered
          seen,      \* the rows the reader has been shown
          stood,     \* ghost: rows on file ever since the reader began
          shaken     \* ghost: a row was removed, or the list changed within a page

listVars == <<onList, reading, seen, stood, shaken>>

AtRest == [pc |-> "rest", page |-> 0, limit |-> 0, rows |-> FALSE, count |-> FALSE, total |-> 0]

----------------------------------------------------------------------------
\* The latest day first, ties any way.
Orders(S) ==
    {s \in [1 .. Cardinality(S) -> S] :
        /\ \A i, k \in DOMAIN s : i < k => s[i] # s[k] /\ DayOn[s[i]] >= DayOn[s[k]]}

Capped(limit) == IF limit > MaxPage THEN MaxPage ELSE limit
PageSlice(page, limit) == (page - 1) * limit + 1 .. page * limit

TotalPages(total, limit) == (total + limit - 1) \div limit

\* No limit is no paging: one query, and its length is the total.
OpenWhole ==
    /\ reading = AtRest
    /\ seen' = onList /\ stood' = onList /\ shaken' = FALSE
    /\ reading' = [AtRest EXCEPT !.pc = "done", !.total = Cardinality(onList)]
    /\ UNCHANGED onList

OpenPaged ==
    /\ reading = AtRest
    /\ \E n \in Limits : reading' = [AtRest EXCEPT !.pc = "page", !.page = 1, !.limit = Capped(n)]
    /\ seen' = {} /\ stood' = onList /\ shaken' = FALSE
    /\ UNCHANGED onList

FindRows ==
    /\ reading.pc = "page" /\ ~reading.rows
    /\ \E s \in Orders(onList) :
          seen' = seen \cup {s[i] : i \in PageSlice(reading.page, reading.limit) \cap DOMAIN s}
    /\ reading' = [reading EXCEPT !.rows = TRUE]
    /\ UNCHANGED <<onList, stood, shaken>>

CountRows ==
    /\ reading.pc = "page" /\ ~reading.count
    /\ reading' = [reading EXCEPT !.count = TRUE, !.total = Cardinality(onList)]
    /\ UNCHANGED <<onList, seen, stood, shaken>>

\* The reader asks on for as long as there are pages.
TurnPage ==
    /\ reading.pc = "page" /\ reading.rows /\ reading.count
    /\ reading' = IF reading.page < TotalPages(reading.total, reading.limit)
                  THEN [reading EXCEPT !.page = @ + 1, !.rows = FALSE, !.count = FALSE]
                  ELSE [reading EXCEPT !.pc = "done"]
    /\ UNCHANGED <<onList, seen, stood, shaken>>

PutAway == reading.pc = "done" /\ reading' = AtRest /\ UNCHANGED <<onList, seen, stood, shaken>>

\* One of the two queries of a page has answered and the other has not.
MidPage == reading.pc = "page" /\ reading.rows # reading.count

AddItem ==
    /\ \E x \in Items \ onList : onList' = onList \cup {x}
    /\ shaken' = (shaken \/ MidPage)
    /\ UNCHANGED <<reading, seen, stood>>

RemoveItem ==
    /\ \E x \in onList : onList' = onList \ {x} /\ stood' = stood \ {x}
    /\ shaken' = TRUE
    /\ UNCHANGED <<reading, seen>>

ListingInit ==
    /\ onList \in SUBSET Items
    /\ reading = AtRest /\ seen = {} /\ stood = {} /\ shaken = FALSE

ListingNext ==
    \/ OpenWhole \/ OpenPaged \/ FindRows \/ CountRows \/ TurnPage \/ PutAway
    \/ AddItem \/ RemoveItem

ListingSpec == ListingInit /\ [][ListingNext]_listVars

----------------------------------------------------------------------------
ListingTypeOK ==
    /\ onList \subseteq Items /\ seen \subseteq Items /\ stood \subseteq onList
    /\ reading.limit \in 0 .. MaxPage /\ shaken \in BOOLEAN

Tied(x) == \E y \in Items \ {x} : DayOn[y] = DayOn[x]

(***************************************************************************)
(* Who reads a list to its last page has seen every row that was there all *)
(* the while, whatever was added meanwhile (it pushes rows to the pages    *)
(* ahead, never behind), unless a row was removed, something changed       *)
(* between the rows of a page and the total beside them, or the row shares *)
(* its day with another: their order is the database's, anew every page.   *)
(***************************************************************************)
PagesMissNothingUnlessShaken ==
    reading.pc = "done" =>
        \A x \in stood \ seen : reading.limit > 0 /\ (shaken \/ Tied(x))
=============================================================================
