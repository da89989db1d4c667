------------------------------ MODULE LogPages ------------------------------
(***************************************************************************)
(* The iterators that walk a log page by page while the log goes on:       *)
(*   page    iter_access_log, iter_gate_status_log: page numbers           *)
(*   window  iter_history: page numbers in a window that the first page    *)
(*           pins                                                          *)
(*   cursor  iter_directory_calls: "older than" cursors                    *)
(*                                                                         *)
(* Rows are numbered in the order in which they arrive, and a row's number *)
(* stands for its time as well.  The log holds rows oldest..newest and is  *)
(* read newest first.                                                      *)
(*                                                                         *)
(* External: the server, which cuts the pages, echoes the window it used,  *)
(* drops rows at the retention floor, and, if Faulty, may say has_more of  *)
(* the page after the last one or hand out the cursor it was given.        *)
(***************************************************************************)
EXTENDS Integers, FiniteSets

CONSTANTS
    PageSize,  \* rows of a page
    MaxRows,   \* bound: rows ever written
    Faulty     \* TRUE: the server may mislead the walks

ASSUME PageAssumption == PageSize \in Nat \ {0} /\ MaxRows \in Nat
ASSUME FaultAssumption == Faulty \in BOOLEAN

VARIABLES
    newest,  \* server: number of the latest row, 0 if there never was one
    oldest,  \* server: number of the oldest row kept
    walk,    \* which of the three iterators this is
    pc,      \* "walking", "done" (returned) or "raised"
    page,    \* the page to ask for next
    from,    \* date_from, None until it is given or pinned
    to,      \* date_to, None until it is given or pinned
    before,  \* the cursor to ask with next, None for the first page
    got,     \* rows yielded
    again,   \* history: rows yielded more than once
    owed,    \* history: the rows a walk without interference would yield
    start,   \* history: newest when the first page was cut, None before
    parity,  \* history: turns over with each page, so that fetching a page
             \* again is a step
    misled   \* history: the server misled the walk with the last page

log == <<newest, oldest>>
arguments == <<page, from, to, before>>
history == <<got, again, owed, start, parity, misled>>
vars == <<log, walk, pc, arguments, history>>

None == -1
Or(x, default) == IF x = None THEN default ELSE x

----------------------------------------------------------------------------
(* A page, as the server cuts it.                                          *)

Least(x, y) == IF x < y THEN x ELSE y
Greatest(x, y) == IF x < y THEN y ELSE x

\* The rows asked about, between low and high.
Low == Greatest(oldest, Or(from, oldest))
High == IF walk = "cursor" THEN Or(before, newest + 1) - 1
        ELSE Least(newest, Or(to, newest))

\* The first row of the page, and the first row of the next.
PageTop == High - page * PageSize
NextTop == PageTop - PageSize

Rows(low, high) == {r \in 1..MaxRows : low <= r /\ r <= high}

PageRows == Rows(Greatest(Low, NextTop + 1), PageTop)

MoreRows == Rows(Low, NextTop) # {}

----------------------------------------------------------------------------

\* The arguments of the caller: a page to begin with, a window, a cursor.
Init ==
    /\ newest \in 0..MaxRows
    /\ oldest \in 1..newest + 1
    /\ walk \in {"page", "window", "cursor"}
    /\ pc = "walking"
    /\ page \in IF walk = "cursor" THEN {0} ELSE {0, 1}
    /\ from \in IF walk = "window" THEN {None} \cup oldest..newest ELSE {None}
    /\ to \in IF walk = "window" THEN {None} \cup oldest..MaxRows ELSE {None}
    /\ before \in IF walk = "cursor" THEN {None} \cup oldest..newest ELSE {None}
    /\ got = {}
    /\ again = {}
    /\ owed = {}
    /\ start = None
    /\ parity = FALSE
    /\ misled = FALSE

\* An open is logged, a visitor calls.
Write ==
    /\ newest < MaxRows
    /\ newest' = newest + 1
    /\ UNCHANGED <<oldest, walk, pc, arguments, history>>

\* The retention floor passes the oldest row.
Expire ==
    /\ oldest <= newest
    /\ oldest' = oldest + 1
    /\ UNCHANGED <<newest, walk, pc, arguments, history>>

----------------------------------------------------------------------------
(* The iterators: one page is fetched, its rows are yielded, and the walk  *)
(* goes on or returns.                                                     *)

Yield ==
    /\ got' = got \cup PageRows
    /\ again' = again \cup (got \cap PageRows)
    /\ start' = Or(start, newest)
    /\ parity' = ~parity
    /\ owed' = IF start = None THEN Rows(Low, PageTop) ELSE owed

Fetch(kind) == walk = kind /\ pc = "walking" /\ Yield

Return ==
    /\ pc' = "done"
    /\ UNCHANGED arguments

\* The page number moves on.
NextPage ==
    /\ page' = page + 1
    /\ UNCHANGED <<pc, before>>

\* Bound: page numbers.  No page from this one on has rows.
LastPage == MaxRows + 1

\* Mutants of WalkPages: the page number starts again; has_more is ignored.
WalkPagesFromTheTop ==
    /\ Fetch("page")
    /\ IF MoreRows
       THEN page' = 0 /\ UNCHANGED <<pc, from, to, before>>
       ELSE Return
    /\ misled' = FALSE
    /\ UNCHANGED <<log, walk>>

WalkPagesWithoutEnd ==
    /\ Fetch("page")
    /\ NextPage
    /\ misled' = FALSE
    /\ UNCHANGED <<log, walk, from, to>>

\* has_more alone decides, though the page has no rows.
WalkPages ==
    /\ Fetch("page")
    /\ \/ /\ MoreRows
          /\ NextPage
          /\ UNCHANGED <<from, to>>
          /\ misled' = FALSE
       \/ /\ ~MoreRows
          /\ Return
          /\ misled' = FALSE
       \/ /\ ~MoreRows /\ Faulty
          /\ page' = Least(page + 1, LastPage)
          /\ UNCHANGED <<pc, from, to, before>>
          /\ misled' = TRUE
    /\ UNCHANGED <<log, walk>>

\* Mutant of WalkWindow: the window is left as the caller gave it.
WalkOpenWindow ==
    /\ Fetch("window")
    /\ IF MoreRows /\ PageRows # {}
       THEN NextPage /\ UNCHANGED <<from, to>>
       ELSE Return
    /\ misled' = FALSE
    /\ UNCHANGED <<log, walk>>

\* The window of the first page is pinned; a page without rows ends the walk
\* whatever has_more says.
WalkWindow ==
    /\ Fetch("window")
    /\ \E more \in {MoreRows, MoreRows \/ Faulty} :
         /\ IF more /\ PageRows # {}
            THEN /\ NextPage
                 /\ from' = Or(from, Low)
                 /\ to' = Or(to, High)
            ELSE Return
         /\ misled' = (more # MoreRows)
    /\ UNCHANGED <<log, walk>>

\* next_before: the oldest row of the page if there are older ones.
NextBefore ==
    IF MoreRows THEN {NextTop + 1} \cup (IF Faulty THEN {before} ELSE {})
    ELSE {None}

\* Mutants of WalkCursor: no check that the cursor moves; a cursor one row
\* too far.
WalkCursorUnguarded ==
    /\ Fetch("cursor")
    /\ \E next \in NextBefore :
         /\ IF next = None \/ PageRows = {}
            THEN Return
            ELSE before' = next /\ UNCHANGED <<pc, page, from, to>>
         /\ misled' = (MoreRows /\ next = before)
    /\ UNCHANGED <<log, walk>>

WalkCursorTooFar ==
    /\ Fetch("cursor")
    /\ \E next \in NextBefore :
         /\ IF next = None \/ PageRows = {} \/ next = before
            THEN Return
            ELSE before' = next - 1 /\ UNCHANGED <<pc, page, from, to>>
         /\ misled' = (MoreRows /\ next = before)
    /\ UNCHANGED <<log, walk>>

\* A cursor that is missing, that comes with no rows, or that does not move
\* ends the walk.
WalkCursor ==
    /\ Fetch("cursor")
    /\ \E next \in NextBefore :
         /\ IF next = None \/ PageRows = {} \/ next = before
            THEN Return
            ELSE before' = next /\ UNCHANGED <<pc, page, from, to>>
         /\ misled' = (MoreRows /\ next = before)
    /\ UNCHANGED <<log, walk>>

\* Any exception of the page's request comes out of the iterator.
Raise ==
    /\ pc = "walking"
    /\ pc' = "raised"
    /\ UNCHANGED <<log, walk, arguments, history>>

Walk == WalkPages \/ WalkWindow \/ WalkCursor

Next == Write \/ Expire \/ Walk \/ Raise

Spec == Init /\ [][Next]_vars

\* The consumer keeps asking for rows.
FairSpec == Spec /\ WF_vars(Walk)

----------------------------------------------------------------------------
(* Properties.                                                             *)

TypeOK ==
    /\ newest \in 0..MaxRows /\ oldest \in 1..newest + 1
    /\ walk \in {"page", "window", "cursor"}
    /\ pc \in {"walking", "done", "raised"}
    /\ page \in 0..MaxRows + 1
    /\ {from, to, before} \subseteq 0..MaxRows + 1 \cup {None}
    /\ got \subseteq 1..MaxRows /\ again \subseteq got /\ owed \subseteq 1..MaxRows
    /\ start \in 0..MaxRows \cup {None}
    /\ {parity, misled} \subseteq BOOLEAN

\* "Yield every ... row": rows that arrive push others to later pages and the
\* retention floor cuts off the end, but a walk that returns has yielded each
\* row it owed that is still there, unless the server cut a cursor walk short.
NothingIsSkipped ==
    pc = "done" /\ (walk = "cursor" => ~misled)
        => {r \in owed : r >= oldest} \subseteq got

\* A pinned window and a cursor that moves never yield a row twice, whatever
\* arrives between two pages ("a defaulted to of now would otherwise slide
\* between pages", _sync.py, iter_history).  A date_to of the caller's own is
\* kept as it is, so that one that lies ahead pins nothing.
WindowsDoNotRepeat ==
    walk # "page" /\ (start = None \/ to <= start) => again = {}

\* Page numbers alone do repeat rows, but no more of them than arrived since
\* the walk began.
RepeatsAreArrivals ==
    start # None => Cardinality(again) <= newest - start

\* Every walk comes to an end, though the log grows under it.  iter_history and
\* iter_directory_calls do so whatever the server says: "A cursor that does not
\* advance would re-yield the same page forever".  iter_access_log and
\* iter_gate_status_log have no such guard: they may go on for as long as the
\* server promises rows that are not there, and no longer.
WalksEnd ==
    \/ <>(pc # "walking")
    \/ walk = "page" /\ []<>misled

=============================================================================
