---------------------------- MODULE SearchPaging ----------------------------
(***************************************************************************)
(* The search page and the REST search: filters, the order of the results, *)
(* the slice of rows a page shows and the pagination bar, read page after  *)
(* page while the executors of the daemon insert rows.                     *)
(*                                                                         *)
(* A page is the set of its rows.  Rows are never changed or deleted.      *)
(***************************************************************************)
EXTENDS Integers, FiniteSets

CONSTANTS
    Rows,               \* every row the table may ever hold
    User,               \* its user name; stands for queue and job type as well
    Severity,           \* its worst severity
    Analysis,           \* its severity in each heuristic, -1 without a result
    StartTime,
    FinishTime,
    Searches,           \* the search parameters readers use
    TieBreaks,          \* orders in which a query may return rows of equal time
    PageLength,         \* PAGE_LENGTH
    PageBarLength,      \* PAGE_BAR_LENGTH
    RestPageLength,     \* REST_PAGE_LENGTH
    IntMax,             \* Integer.MAX_VALUE
    Anything            \* a parameter that is absent or empty

Absent == -1            \* a number that is absent

Parameters == {"user", "severity", "analysis", "startBegin", "startEnd",
               "finishBegin", "finishEnd"}

ASSUME SearchAssumption ==
    /\ IsFiniteSet(Rows)
    /\ StartTime \in [Rows -> Nat]
    /\ FinishTime \in [Rows -> Nat]
    /\ \A t \in TieBreaks :
          /\ t \in [Rows -> Nat]
          /\ \A r, s \in Rows : t[r] = t[s] => r = s
    /\ \A q \in Searches : DOMAIN q = Parameters
    /\ PageLength \in Nat \ {0}
    /\ RestPageLength \in Nat \ {0}
    /\ PageBarLength \in Nat /\ PageBarLength % 2 = 1 /\ PageBarLength > 1
    /\ IntMax \in Nat

VARIABLES
    table,              \* rows inserted so far
    kind,               \* how the reader searches: "none", "html" or "rest"
    search,             \* the parameters of the search
    page,               \* the page to ask for next
    seen,               \* rows on the pages shown
    atStart,            \* rows of the result when the reader started
    done                \* there is no next page

readerVars == <<kind, search, page, seen, atStart, done>>
vars == <<table, readerVars>>

-----------------------------------------------------------------------------
(* generateSearchQuery.  A time is Absent when it is not given and 0 when  *)
(* it is given but no positive number.                                     *)
AtLeast(value, bound) == bound > 0 => value >= bound
AtMost(value, bound) == bound > 0 => value <= bound

Matches(r, q) ==
    /\ q.user # Anything => User[r] = q.user
    /\ q.severity # Absent =>
          IF q.analysis # Anything
          THEN Analysis[r][q.analysis] >= q.severity
          ELSE Severity[r] >= q.severity
    /\ AtLeast(StartTime[r], q.startBegin) /\ AtMost(StartTime[r], q.startEnd)
    /\ AtLeast(FinishTime[r], q.finishBegin) /\ AtMost(FinishTime[r], q.finishEnd)

Result(q) == {r \in table : Matches(r, q)}

SortKey(q) ==
    IF q.startBegin # Absent \/ q.startEnd # Absent THEN StartTime ELSE FinishTime

(* Rows that come before row r in the descending order of the sort key. *)
Before(S, key, t, r) ==
    {x \in S : key[x] > key[r] \/ (key[x] = key[r] /\ t[x] > t[r])}

Rank(S, key, t, r) == Cardinality(Before(S, key, t, r))

(* setFirstRow, which ignores a negative number, and setMaxRows. *)
Fetch(S, key, t, first, max) ==
    LET from == IF first > 0 THEN first ELSE 0
    IN  {r \in S : LET rank == Rank(S, key, t, r) IN from <= rank /\ rank < from + max}

-----------------------------------------------------------------------------
(* 32 bit arithmetic, and the slice a page shows *)

Wrap(n) == ((n + IntMax + 1) % (2 * (IntMax + 1))) - (IntMax + 1)

Larger(a, b) == IF a >= b THEN a ELSE b
Smaller(a, b) == IF a <= b THEN a ELSE b

(* getPaginationBarStartIndex; the mutant lets the bar start before page 1. *)
BarStartUnclamped(p) == p - PageBarLength \div 2

BarStart(p) == Larger(p - PageBarLength \div 2, 1)

(* The "Next" link of the bar; the mutant follows "Previous". *)
PreviousPage(p) == p - 1

NextPage(p) == p + 1

(* restSearch.  The mutant counts pages from 0. *)
RestPageFromZero(S, key, t, p) ==
    Fetch(S, key, t, Wrap(p * RestPageLength), RestPageLength)

RestPage(S, key, t, p) ==
    Fetch(S, key, t, Wrap((p - 1) * RestPageLength), RestPageLength)

(* search: the rows of every page of the bar are fetched at once, and one  *)
(* more.  The first mutant fetches only as far as the page shown.          *)
HtmlFetchTooFew(S, key, t, p) ==
    Fetch(S, key, t, Wrap((BarStart(p) - 1) * PageLength),
          (PageBarLength \div 2 + 1) * PageLength)

HtmlFetch(S, key, t, p) ==
    Fetch(S, key, t, Wrap((BarStart(p) - 1) * PageLength),
          (PageBarLength - 1) * PageLength + 1)

(* computePaginationBarEndIndex for a result that is not empty; the mutant *)
(* forgets the rounding.                                                   *)
BarEndWithoutRounding(p, size) == Wrap(BarStart(p) + size \div PageLength)

BarEnd(p, size) == Wrap(BarStart(p) + (size - 1) \div PageLength)

(* results.subList of the rows fetched. *)
HtmlPage(S, key, t, p) ==
    LET results == HtmlFetch(S, key, t, p)
        size == Cardinality(results)
        first == (p - BarStart(p)) * PageLength
        last == Smaller(size, first + PageLength)
    IN  IF results = {} \/ p > BarEnd(p, size) THEN {}
        ELSE {r \in results :
                 LET rank == Rank(results, key, t, r) IN first <= rank /\ rank < last}

-----------------------------------------------------------------------------
TypeOK ==
    /\ table \subseteq Rows
    /\ kind \in {"none", "html", "rest"}
    /\ DOMAIN search = Parameters
    /\ page \in Nat \ {0}
    /\ seen \subseteq Rows
    /\ atStart \subseteq Rows
    /\ done \in BOOLEAN

Init ==
    /\ table = {}
    /\ kind = "none"
    /\ search \in Searches
    /\ page = 1
    /\ seen = {}
    /\ atStart = {}
    /\ done = FALSE

(* An executor saves a row. *)
Insert(r) ==
    /\ r \notin table
    /\ table' = table \cup {r}
    /\ UNCHANGED readerVars

(* The first search of a reader; both searches start with page 1. *)
Begin ==
    /\ kind = "none"
    /\ kind' \in {"html", "rest"}
    /\ atStart' = Result(search)
    /\ UNCHANGED <<table, search, page, seen, done>>

(* A client of the REST search asks for pages until "No records". *)
RestSearch ==
    /\ kind = "rest"
    /\ ~done
    /\ \E t \in TieBreaks :
          LET shown == RestPage(Result(search), SortKey(search), t, page)
          IN  /\ seen' = seen \cup shown
              /\ done' = (shown = {})
              /\ page' = IF shown = {} THEN page ELSE page + 1
    /\ UNCHANGED <<table, kind, search, atStart>>

(* A reader of the page follows "Next", which is disabled on the page that *)
(* ends the bar.                                                           *)
HtmlSearch ==
    /\ kind = "html"
    /\ ~done
    /\ \E t \in TieBreaks :
          LET S == Result(search)
              key == SortKey(search)
              shown == HtmlPage(S, key, t, page)
              last == \/ shown = {}
                      \/ page = BarEnd(page, Cardinality(HtmlFetch(S, key, t, page)))
          IN  /\ seen' = seen \cup shown
              /\ done' = last
              /\ page' = IF last THEN page ELSE NextPage(page)
    /\ UNCHANGED <<table, kind, search, atStart>>

Next ==
    \/ \E r \in Rows : Insert(r)
    \/ Begin
    \/ RestSearch
    \/ HtmlSearch

Spec == Init /\ [][Next]_vars

-----------------------------------------------------------------------------
(* Properties *)

(* A reader who goes through all pages has been shown every row that was   *)
(* there when he started, although every page is a query of its own and    *)
(* rows are inserted in between: rows only move to later pages.  Rows that *)
(* share their time with others may be skipped: their order may differ     *)
(* from one query to the next.                                             *)
UniqueTime(r) ==
    \A s \in Rows : SortKey(search)[s] = SortKey(search)[r] => s = r

WalkComplete ==
    done => \A r \in atStart : UniqueTime(r) => r \in seen

(* Any page number a URL carries, as long as the offset fits into an int,  *)
(* shows exactly the rows that the whole result has at that place, and     *)
(* nothing exactly when the result ends before it.                         *)
PageExact ==
    \A t \in TieBreaks, p \in 1 .. IntMax :
        LET S == Result(search)
            key == SortKey(search)
            Slice(length) == {r \in S : LET rank == Rank(S, key, t, r)
                                        IN  (p - 1) * length <= rank /\ rank < p * length}
        IN  /\ (p - 1) * RestPageLength <= IntMax =>
                   RestPage(S, key, t, p) = Slice(RestPageLength)
            /\ (p - 1) * PageLength <= IntMax =>
                   HtmlPage(S, key, t, p) = Slice(PageLength)

(* The bar under a page that is shown has a link to each page around it    *)
(* that has rows, and to no other.                                         *)
BarExact ==
    \A t \in TieBreaks, p \in 1 .. IntMax :
        LET S == Result(search)
            key == SortKey(search)
            size == Cardinality(HtmlFetch(S, key, t, p))
        IN  (p - 1) * PageLength <= IntMax /\ HtmlPage(S, key, t, p) # {} =>
                BarStart(p) .. BarEnd(p, size)
                  = {q \in BarStart(p) .. BarStart(p) + PageBarLength - 1 :
                        (q - 1) * PageLength < Cardinality(S)}
=============================================================================
