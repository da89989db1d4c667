--------------------------- MODULE LogPagesProofs ---------------------------
(***************************************************************************)
(* What the iterators keep while the log goes on, for every size of a page *)
(* and of the log.                                                         *)
(***************************************************************************)
EXTENDS LogPages, FiniteSetTheorems, TLAPS

USE PageAssumption, FaultAssumption

----------------------------------------------------------------------------
(* Types, and what a walk has pinned after its first page.                 *)

Walks == {"page", "window", "cursor"}
Optional == {None} \cup 0..MaxRows + 1

Typed ==
    /\ newest \in 0..MaxRows /\ oldest \in 1..newest + 1
    /\ walk \in Walks
    /\ pc \in {"walking", "done", "raised"}
    /\ page \in Nat /\ page <= MaxRows + 1
    /\ from \in Optional /\ to \in Optional /\ before \in Optional
    /\ got \subseteq 1..MaxRows /\ again \subseteq got /\ owed \subseteq 1..MaxRows
    /\ start \in {None} \cup 0..newest
    /\ parity \in BOOLEAN /\ misled \in BOOLEAN

Pinned ==
    /\ walk # "window" => from = None /\ to = None
    /\ walk = "cursor" => page = 0 /\ before <= newest
    /\ walk = "window" /\ pc = "walking" /\ start # None => from # None /\ to # None
    /\ walk = "cursor" /\ pc = "walking" /\ start # None => before # None
    /\ start = None => got = {} /\ again = {} /\ owed = {} /\ pc # "done"

TypeInv == Typed /\ Pinned

----------------------------------------------------------------------------
(* The bounds of a page.                                                   *)

\* A product of its own: the provers handle the rest as linear arithmetic.
Before(p) == p * PageSize

LEMMA Products ==
    /\ PageSize \in Nat /\ PageSize >= 1
    /\ \A p \in Nat : /\ Before(p) \in Nat /\ Before(p) >= p
                      /\ Before(p + 1) = Before(p) + PageSize
    /\ Before(0) = 0
BY DEF Before

LEMMA Bounds ==
    ASSUME TypeInv
    PROVE  /\ Low \in Nat /\ Low >= oldest /\ Low >= 1
           /\ High \in Int /\ High <= newest
           /\ PageTop \in Int /\ PageTop = High - Before(page) /\ PageTop <= newest
           /\ NextTop \in Int /\ NextTop = PageTop - PageSize
<1>1. Low \in Nat /\ Low >= oldest
    BY DEF TypeInv, Typed, Low, Greatest, Or, Optional, None
<1>2. High \in Int /\ High <= newest
    BY DEF TypeInv, Typed, Pinned, High, Least, Or, Optional, None, Walks
<1>3. PageTop = High - Before(page) /\ NextTop = PageTop - PageSize
    BY DEF PageTop, NextTop, Before
<1>4. Before(page) \in Nat
    BY Products DEF TypeInv, Typed
<1> QED
    BY <1>1, <1>2, <1>3, <1>4, Products DEF TypeInv, Typed

\* A row is on the page, before it, after it, or expired.
LEMMA RowsOfPage ==
    ASSUME TypeInv
    PROVE  /\ PageRows \subseteq 1..MaxRows
           /\ \A r \in PageRows : Low <= r /\ NextTop < r /\ r <= PageTop
           /\ \A r \in 1..MaxRows : Low <= r /\ NextTop < r /\ r <= PageTop => r \in PageRows
           /\ PageRows = Greatest(Low, NextTop + 1)..PageTop
           /\ MoreRows => NextTop >= 1 /\ NextTop >= Low
           /\ ~MoreRows => \A r \in 1..MaxRows : Low <= r => r > NextTop
<1>1. /\ Low \in Nat /\ Low >= 1 /\ PageTop \in Int /\ PageTop <= MaxRows
      /\ NextTop \in Int /\ NextTop <= PageTop
    BY Bounds, Products DEF TypeInv, Typed
<1>2. PageRows = Greatest(Low, NextTop + 1)..PageTop
    BY <1>1 DEF PageRows, Rows, Greatest
<1>3. MoreRows => \E r \in 1..MaxRows : Low <= r /\ r <= NextTop
    BY DEF MoreRows, Rows
<1>4. ~MoreRows => \A r \in 1..MaxRows : ~(Low <= r /\ r <= NextTop)
    BY DEF MoreRows, Rows
<1>5. /\ PageRows \subseteq 1..MaxRows
      /\ \A r \in PageRows : Low <= r /\ NextTop < r /\ r <= PageTop
      /\ \A r \in 1..MaxRows : Low <= r /\ NextTop < r /\ r <= PageTop => r \in PageRows
    BY <1>1, <1>2 DEF Greatest
<1> QED
    BY <1>1, <1>2, <1>3, <1>4, <1>5

\* If anything is left below a page, then the page has rows.
LEMMA EmptyPageIsLast ==
    ASSUME TypeInv, PageRows = {}
    PROVE  \A r \in 1..MaxRows : Low <= r => r > PageTop
<1>1. /\ Low \in Nat /\ Low >= 1 /\ PageTop \in Int /\ PageTop <= MaxRows
      /\ NextTop \in Int /\ NextTop < PageTop
    BY Bounds, Products DEF TypeInv, Typed
<1> SUFFICES ASSUME NEW r \in 1..MaxRows, Low <= r, r <= PageTop
             PROVE  FALSE
    BY <1>1
<1>2. PageTop \in 1..MaxRows /\ Low <= PageTop
    BY <1>1
<1> QED
    BY <1>1, <1>2, RowsOfPage

\* There are no more pages than rows.
LEMMA FewPages == ASSUME TypeInv, PageTop >= 1 PROVE page + 1 <= MaxRows + 1
<1>1. Before(page) >= page /\ Before(page) \in Nat
    BY Products DEF TypeInv, Typed
<1> QED
    BY <1>1, Bounds DEF TypeInv, Typed

----------------------------------------------------------------------------
(* A step of a walk: it goes on at the row below the page, it waits behind *)
(* the last page for rows that are not there, or it returns because        *)
(* nothing is left or because the server has misled it.                    *)

GoesOn ==
    /\ pc' = "walking"
    /\ page' \in Nat /\ page' <= MaxRows + 1
    /\ PageTop' = NextTop /\ Low' = Low
    /\ Pinned'

Waits ==
    /\ walk = "page" /\ pc' = "walking"
    /\ page' \in Nat /\ page' <= MaxRows + 1
    /\ PageTop' = PageTop /\ PageTop < 1 /\ Low' = Low
    /\ Pinned'

Returns ==
    /\ pc' = "done"
    /\ UNCHANGED arguments
    /\ \/ \A r \in 1..MaxRows : Low <= r /\ r <= PageTop => r \in PageRows
       \/ walk = "cursor" /\ misled'

Steps ==
    /\ pc = "walking" /\ Yield
    /\ UNCHANGED <<log, walk>>
    /\ from' \in Optional /\ to' \in Optional /\ before' \in Optional
    /\ misled' \in BOOLEAN
    /\ walk # "window" => to' = to
    /\ walk = "window" => to' = IF pc' = "walking" THEN Or(to, High) ELSE to
    /\ GoesOn \/ Waits \/ Returns

LEMMA NothingBelow ==
    ASSUME TypeInv, ~MoreRows \/ PageRows = {}
    PROVE  \A r \in 1..MaxRows : Low <= r /\ r <= PageTop => r \in PageRows
BY RowsOfPage, EmptyPageIsLast, Bounds

\* What a first page leaves in start.
LEMMA Started == ASSUME TypeInv, Yield PROVE start' # None
BY DEF TypeInv, Typed, Yield, Or, None

LEMMA PagesStep == TypeInv /\ WalkPages => Steps
<1> SUFFICES ASSUME TypeInv, WalkPages PROVE Steps
    OBVIOUS
<1>1. /\ walk = "page" /\ pc = "walking" /\ Yield /\ UNCHANGED <<log, walk>>
      /\ from = None /\ to = None /\ start' # None
    BY Started DEF WalkPages, Fetch, TypeInv, Pinned
<1>2. \/ MoreRows /\ page' = page + 1 /\ misled' = FALSE
      \/ ~MoreRows /\ Return /\ misled' = FALSE
      \/ ~MoreRows /\ page' = Least(page + 1, MaxRows + 1) /\ misled' = TRUE
    BY DEF WalkPages, NextPage, LastPage
<1>3. CASE ~MoreRows /\ Return /\ misled' = FALSE
    <2>1. Returns
        BY <1>3, NothingBelow DEF Return, Returns
    <2> QED
        BY <1>1, <1>3, <2>1 DEF Steps, Returns, TypeInv, Typed, arguments
<1>4. CASE ~(~MoreRows /\ Return /\ misled' = FALSE)
    <2>1. /\ UNCHANGED <<pc, from, to, before, newest, oldest, walk>>
          /\ misled' \in BOOLEAN
        BY <1>1, <1>2, <1>4 DEF WalkPages, NextPage, log
    <2>2. High' = High /\ Low' = Low /\ High \in Int /\ High <= MaxRows
        BY <1>1, <2>1, Bounds DEF High, Low, Or, TypeInv, Typed
    <2>3. /\ PageTop' = High - Before(page') /\ PageTop = High - Before(page)
          /\ NextTop = PageTop - PageSize
        BY <2>2, Bounds DEF PageTop, Before
    <2>4. Pinned'
        BY <1>1, <2>1, <1>2 DEF TypeInv, Pinned
    <2>5. CASE page' = page + 1 /\ page + 1 <= MaxRows + 1
        <3>1. page' \in Nat /\ PageTop' = NextTop
            BY <2>2, <2>3, <2>5, Products DEF TypeInv, Typed
        <3> QED
            BY <1>1, <2>1, <2>2, <2>4, <2>5, <3>1 DEF Steps, GoesOn, TypeInv, Typed
    <2>6. CASE page' = page /\ page = MaxRows + 1
        <3>1. Before(page) >= page /\ Before(page) \in Nat
            BY <2>6, Products
        <3>2. PageTop' = PageTop /\ PageTop < 1
            BY <2>2, <2>3, <2>6, <3>1
        <3> QED
            BY <1>1, <2>1, <2>2, <2>4, <2>6, <3>2 DEF Steps, Waits, TypeInv, Typed
    <2>7. MoreRows => page + 1 <= MaxRows + 1
        <3>1. MoreRows => NextTop >= 1
            BY RowsOfPage
        <3> QED
            BY <3>1, FewPages, Bounds, Products
    <2> QED
        BY <1>2, <1>4, <2>5, <2>6, <2>7 DEF Least, TypeInv, Typed
<1> QED
    BY <1>3, <1>4

LEMMA WindowStep == TypeInv /\ WalkWindow => Steps
<1> SUFFICES ASSUME TypeInv, WalkWindow PROVE Steps
    OBVIOUS
<1>1. /\ walk = "window" /\ pc = "walking" /\ Yield /\ UNCHANGED <<log, walk>>
      /\ start' # None
    BY Started DEF WalkWindow, Fetch
<1>2. PICK more \in {MoreRows, MoreRows \/ Faulty} :
         /\ IF more /\ PageRows # {}
            THEN /\ NextPage
                 /\ from' = Or(from, Low)
                 /\ to' = Or(to, High)
            ELSE Return
         /\ misled' = (more # MoreRows)
    BY DEF WalkWindow
<1>3. misled' \in BOOLEAN
    BY <1>2 DEF TypeInv, Typed
<1>4. CASE more /\ PageRows # {}
    <2>1. /\ page' = page + 1 /\ UNCHANGED <<pc, before, newest, oldest, walk>>
          /\ from' = Or(from, Low) /\ to' = Or(to, High)
        BY <1>1, <1>2, <1>4 DEF NextPage, log
    <2>2. /\ Low \in Nat /\ Low >= 1 /\ PageTop \in Int /\ PageTop <= newest
          /\ High \in Int /\ High <= newest
        BY Bounds
    <2>3. \E r \in PageRows : Low <= r /\ r <= PageTop /\ r \in 1..MaxRows
        BY <1>4, RowsOfPage
    <2>4. PageTop <= High
        BY Bounds, Products DEF TypeInv, Typed
    <2>5. Low <= MaxRows /\ High >= 1
        BY <2>2, <2>3, <2>4
    <2>6. from' \in Optional \ {None} /\ to' \in Optional \ {None}
        BY <2>1, <2>2, <2>5 DEF Or, Optional, None, TypeInv, Typed
    <2>7. High' = High
        BY <1>1, <2>1, <2>2, <2>5 DEF High, Least, Or, None, TypeInv, Typed, Optional
    <2>8. Low' = Low
        BY <1>1, <2>1, <2>2, <2>5 DEF Low, Greatest, Or, None, TypeInv, Typed, Optional
    <2>9. PageTop' = NextTop
        <3>1. PageTop' = High' - Before(page')
            BY DEF PageTop, Before
        <3> QED
            BY <2>1, <2>7, <3>1, Bounds, Products DEF TypeInv, Typed
    <2>10. Pinned'
        BY <1>1, <2>1, <2>6 DEF TypeInv, Pinned
    <2>11. page' <= MaxRows + 1
        BY <2>1, <2>2, <2>3, FewPages
    <2> QED
        BY <1>1, <1>3, <2>1, <2>6, <2>8, <2>9, <2>10, <2>11 DEF Steps, GoesOn, TypeInv, Typed
<1>5. CASE ~(more /\ PageRows # {})
    <2>1. pc' = "done" /\ UNCHANGED arguments
        BY <1>2, <1>5 DEF Return
    <2>2. ~MoreRows \/ PageRows = {}
        BY <1>5
    <2> QED
        BY <1>1, <1>3, <2>1, <2>2, NothingBelow DEF Steps, Returns, TypeInv, Typed, arguments
<1> QED
    BY <1>4, <1>5

LEMMA CursorStep == TypeInv /\ WalkCursor => Steps
<1> SUFFICES ASSUME TypeInv, WalkCursor PROVE Steps
    OBVIOUS
<1>1. /\ walk = "cursor" /\ pc = "walking" /\ Yield /\ UNCHANGED <<log, walk>>
      /\ start' # None /\ page = 0 /\ from = None /\ to = None
    BY Started DEF WalkCursor, Fetch, TypeInv, Pinned
<1>2. PICK next \in NextBefore :
         /\ IF next = None \/ PageRows = {} \/ next = before
            THEN Return
            ELSE before' = next /\ UNCHANGED <<pc, page, from, to>>
         /\ misled' = (MoreRows /\ next = before)
    BY DEF WalkCursor
<1>3. misled' \in BOOLEAN
    BY <1>2 DEF TypeInv, Typed
<1>4. CASE next = None \/ PageRows = {} \/ next = before
    <2>1. pc' = "done" /\ UNCHANGED arguments
        BY <1>2, <1>4 DEF Return
    <2>2. ~MoreRows \/ PageRows = {} \/ misled'
        <3>1. CASE next = None /\ MoreRows /\ next # before
            <4>1. next = NextTop + 1
                BY <3>1 DEF NextBefore
            <4> QED
                BY <3>1, <4>1, RowsOfPage, Bounds DEF None
        <3> QED
            BY <1>2, <1>4, <3>1
    <2> QED
        BY <1>1, <1>3, <2>1, <2>2, NothingBelow DEF Steps, Returns, TypeInv, Typed, arguments
<1>5. CASE ~(next = None \/ PageRows = {} \/ next = before)
    <2>1. before' = next /\ UNCHANGED <<pc, page, from, to, newest, oldest, walk>>
        BY <1>1, <1>2, <1>5 DEF log
    <2>2. MoreRows /\ next = NextTop + 1
        BY <1>5 DEF NextBefore
    <2>3. /\ NextTop \in Int /\ NextTop >= 1 /\ NextTop < newest
          /\ newest \in Nat /\ newest <= MaxRows
        <3>1. NextTop >= 1
            BY <2>2, RowsOfPage
        <3>2. /\ PageTop \in Int /\ PageTop <= newest
              /\ NextTop \in Int /\ NextTop = PageTop - PageSize
            BY Bounds
        <3>3. newest \in Nat /\ newest <= MaxRows
            BY DEF TypeInv, Typed
        <3> QED
            BY <3>1, <3>2, <3>3, Products
    <2>4. before' \in Optional \ {None} /\ before' <= newest'
        BY <2>1, <2>2, <2>3 DEF Optional, None
    <2>5. High' = NextTop /\ Low' = Low
        BY <1>1, <2>1, <2>2, <2>3 DEF High, Low, Or, None
    <2>6. PageTop' = NextTop
        <3>1. PageTop' = High' - Before(page')
            BY DEF PageTop, Before
        <3> QED
            BY <1>1, <2>1, <2>3, <2>5, <3>1, Products
    <2>7. Pinned'
        BY <1>1, <2>1, <2>4 DEF TypeInv, Pinned
    <2> QED
        BY <1>1, <1>3, <2>1, <2>4, <2>5, <2>6, <2>7 DEF Steps, GoesOn, TypeInv, Typed
<1> QED
    BY <1>4, <1>5

LEMMA WalkSteps == ASSUME TypeInv, Walk PROVE Steps
BY PagesStep, WindowStep, CursorStep DEF Walk

THEOREM TypeInvHolds == Spec => []TypeInv
<1>1. ASSUME Init PROVE TypeInv
    <2>1. /\ newest \in 0..MaxRows /\ oldest \in 1..newest + 1
          /\ walk \in Walks /\ pc = "walking"
          /\ got = {} /\ again = {} /\ owed = {} /\ start = None
          /\ parity \in BOOLEAN /\ misled \in BOOLEAN
        BY <1>1 DEF Init, Walks
    <2>2. page \in {0, 1} /\ (walk = "cursor" => page = 0)
        BY <1>1 DEF Init
    <2>3. /\ from \in {None} \cup oldest..newest /\ to \in {None} \cup oldest..MaxRows
          /\ before \in {None} \cup oldest..newest
          /\ walk # "window" => from = None /\ to = None
        BY <1>1 DEF Init
    <2>4. from \in Optional /\ to \in Optional /\ before \in Optional /\ before <= newest
        BY <2>1, <2>3 DEF Optional, None
    <2>5. Typed
        BY <2>1, <2>2, <2>4 DEF Typed
    <2>6. Pinned
        BY <2>1, <2>2, <2>3, <2>4 DEF Pinned
    <2> QED
        BY <2>5, <2>6 DEF TypeInv
<1>2. TypeInv /\ [Next]_vars => TypeInv'
    <2> SUFFICES ASSUME TypeInv, [Next]_vars PROVE TypeInv'
        OBVIOUS
    <2>1. CASE Write
        BY <2>1 DEF Write, TypeInv, Typed, Pinned, arguments, history, Optional, None
    <2>2. CASE Expire
        BY <2>2 DEF Expire, TypeInv, Typed, Pinned, arguments, history, Optional, None
    <2>3. CASE Walk
        <3>1. Steps /\ PageRows \subseteq 1..MaxRows
            BY <2>3, WalkSteps, RowsOfPage
        <3>2. /\ got' = got \cup PageRows /\ again' = again \cup (got \cap PageRows)
              /\ start' = Or(start, newest) /\ parity' = ~parity
              /\ owed' \subseteq 1..MaxRows
              /\ UNCHANGED <<newest, oldest, walk>>
            BY <3>1 DEF Steps, Yield, Rows, log, TypeInv, Typed
        <3>3. start' \in 0..newest
            BY <3>2 DEF Or, TypeInv, Typed, None
        <3>4. Typed'
            BY <3>1, <3>2, <3>3
               DEF Steps, GoesOn, Waits, Returns, arguments, TypeInv, Typed
        <3>5. Pinned'
            BY <3>1, <3>2, <3>3
               DEF Steps, GoesOn, Waits, Returns, arguments, TypeInv, Typed, Pinned, None
        <3> QED
            BY <3>4, <3>5 DEF TypeInv
    <2>4. CASE Raise
        BY <2>4 DEF Raise, TypeInv, Typed, Pinned, log, arguments, history
    <2>5. CASE UNCHANGED vars
        BY <2>5 DEF vars, TypeInv, Typed, Pinned, log, arguments, history
    <2> QED
        BY <2>1, <2>2, <2>3, <2>4, <2>5 DEF Next
<1> QED
    BY <1>1, <1>2, PTL DEF Spec

\* The types of LogPages (TypeOK): there are no more pages than rows.
THEOREM TypeCorrect == Spec => []TypeOK
<1>1. TypeInv => TypeOK
    BY DEF TypeInv, Typed, TypeOK, Optional, Walks, None
<1> QED
    BY <1>1, TypeInvHolds, PTL

----------------------------------------------------------------------------
(* Nothing owed is lost, and nothing pinned comes twice.                   *)

\* What is owed and still kept has been yielded or lies below the next page.
Owing ==
    start # None =>
        \A r \in owed : r >= oldest =>
            /\ pc = "walking" => r >= Low /\ (r \in got \/ r <= PageTop)
            /\ pc = "done" => r \in got \/ (walk = "cursor" /\ misled)

\* What a pinned walk has yielded lies above the next page.
Apart ==
    walk # "page" /\ (start = None \/ to <= start) =>
        /\ again = {}
        /\ pc = "walking" => \A r \in got : r > PageTop

\* What arrives moves no page up; what was pinned does not move at all.
LEMMA WriteMoves ==
    ASSUME TypeInv, Write, start # None, pc = "walking"
    PROVE  /\ Low' = Low /\ PageTop' \in Int /\ PageTop' >= PageTop
           /\ PageTop' <= PageTop + 1
           /\ walk # "page" /\ to <= start => PageTop' = PageTop
<1>1. /\ newest' = newest + 1
      /\ UNCHANGED <<oldest, walk, pc, page, from, to, before, got, again, owed, start>>
    BY DEF Write, arguments, history
<1>2. /\ High' \in Int /\ High' >= High /\ High' <= High + 1 /\ High \in Int
      /\ walk # "page" /\ to <= start => High' = High
    <2>1. CASE walk = "cursor"
        BY <1>1, <2>1 DEF High, Or, TypeInv, Typed, Pinned, Optional, None
    <2>2. CASE walk # "cursor"
        BY <1>1, <2>2 DEF High, Or, Least, TypeInv, Typed, Pinned, Optional, None, Walks
    <2> QED
        BY <2>1, <2>2
<1>3. PageTop' = High' - Before(page) /\ PageTop = High - Before(page)
    BY <1>1 DEF PageTop, Before
<1>4. Low' = Low
    BY <1>1 DEF Low
<1> QED
    BY <1>2, <1>3, <1>4, Products DEF TypeInv, Typed

LEMMA ExpireMoves ==
    ASSUME TypeInv, Expire
    PROVE  /\ PageTop' = PageTop /\ oldest' = oldest + 1
           /\ \A r \in 1..MaxRows : r >= oldest' /\ r >= Low => r >= Low'
<1>1. /\ oldest' = oldest + 1
      /\ UNCHANGED <<newest, walk, pc, page, from, to, before>>
    BY DEF Expire, arguments
<1>2. PageTop' = PageTop
    BY <1>1 DEF PageTop, High
<1> QED
    BY <1>1, <1>2 DEF Low, Greatest, Or, None, TypeInv, Typed, Optional

\* What a step of a walk does with a row that is owed.
LEMMA OwedRow ==
    ASSUME TypeInv, Owing, Steps, NEW r \in owed', r >= oldest
    PROVE  /\ r \in 1..MaxRows /\ r >= Low
           /\ r \in got \/ r <= PageTop
<1>1. CASE start = None
    BY <1>1 DEF Steps, Yield, Rows
<1>2. CASE start # None
    BY <1>2 DEF Steps, Yield, Owing, TypeInv, Typed
<1> QED
    BY <1>1, <1>2

LEMMA OwingKept == TypeInv /\ Owing /\ [Next]_vars => Owing'
<1> SUFFICES ASSUME TypeInv, Owing, [Next]_vars PROVE Owing'
    OBVIOUS
<1>1. CASE Write
    <2> SUFFICES ASSUME start' # None, NEW r \in owed', r >= oldest'
                 PROVE  /\ pc' = "walking" => r >= Low' /\ (r \in got' \/ r <= PageTop')
                        /\ pc' = "done" => r \in got' \/ (walk' = "cursor" /\ misled')
        BY DEF Owing
    <2>1. UNCHANGED <<oldest, walk, pc, got, owed, start, misled>>
        BY <1>1 DEF Write, history
    <2>2. CASE pc = "walking"
        <3>1. /\ Low' = Low /\ PageTop' \in Int /\ PageTop' >= PageTop
              /\ PageTop \in Int /\ r \in Int
            BY <1>1, <2>1, <2>2, WriteMoves, Bounds DEF TypeInv, Typed
        <3>2. r >= Low /\ (r \in got \/ r <= PageTop)
            BY <2>1, <2>2 DEF Owing
        <3> QED
            BY <2>1, <2>2, <3>1, <3>2
    <2>3. CASE pc # "walking"
        BY <2>1, <2>3 DEF Owing
    <2> QED
        BY <2>2, <2>3
<1>2. CASE Expire
    <2> SUFFICES ASSUME start' # None, NEW r \in owed', r >= oldest'
                 PROVE  /\ pc' = "walking" => r >= Low' /\ (r \in got' \/ r <= PageTop')
                        /\ pc' = "done" => r \in got' \/ (walk' = "cursor" /\ misled')
        BY DEF Owing
    <2>1. UNCHANGED <<walk, pc, got, owed, start, misled>>
        BY <1>2 DEF Expire, history
    <2>2. r \in 1..MaxRows /\ r >= oldest
        BY <1>2, <2>1, ExpireMoves DEF TypeInv, Typed
    <2> QED
        BY <1>2, <2>1, <2>2, ExpireMoves DEF Owing
<1>3. CASE Walk
    <2>1. Steps
        BY <1>3, WalkSteps
    <2> SUFFICES ASSUME start' # None, NEW r \in owed', r >= oldest'
                 PROVE  /\ pc' = "walking" => r >= Low' /\ (r \in got' \/ r <= PageTop')
                        /\ pc' = "done" => r \in got' \/ (walk' = "cursor" /\ misled')
        BY DEF Owing
    <2>2. /\ got' = got \cup PageRows /\ UNCHANGED <<newest, oldest, walk>>
        BY <2>1 DEF Steps, Yield, log
    <2>3. r \in 1..MaxRows /\ r >= Low /\ (r \in got \/ r <= PageTop)
        BY <2>1, <2>2, OwedRow
    <2>4. CASE GoesOn
        <3>1. r \in PageRows \/ r \in got \/ r <= NextTop
            BY <2>3, RowsOfPage, Bounds
        <3> QED
            BY <2>2, <2>3, <2>4, <3>1 DEF GoesOn
    <2>5. CASE Waits
        <3>1. PageTop \in Int /\ Low \in Int
            BY Bounds
        <3> QED
            BY <2>2, <2>3, <2>5, <3>1 DEF Waits
    <2>6. CASE Returns
        BY <2>2, <2>3, <2>6 DEF Returns
    <2> QED
        BY <2>1, <2>4, <2>5, <2>6 DEF Steps
<1>4. CASE Raise
    BY <1>4 DEF Raise, Owing, log, history
<1>5. CASE UNCHANGED vars
    BY <1>5 DEF vars, Owing, log, arguments, history, Low, PageTop, High
<1> QED
    BY <1>1, <1>2, <1>3, <1>4, <1>5 DEF Next

LEMMA ApartKept == TypeInv /\ Apart /\ [Next]_vars => Apart'
<1> SUFFICES ASSUME TypeInv, Apart, [Next]_vars PROVE Apart'
    OBVIOUS
<1>1. CASE Write
    <2>1. UNCHANGED <<walk, pc, to, got, again, start>>
        BY <1>1 DEF Write, arguments, history
    <2>2. CASE pc = "walking" /\ start # None
        BY <1>1, <2>1, <2>2, WriteMoves DEF Apart
    <2>3. CASE pc # "walking"
        BY <2>1, <2>3 DEF Apart
    <2>4. CASE start = None
        BY <2>1, <2>4 DEF Apart, TypeInv, Pinned
    <2> QED
        BY <2>2, <2>3, <2>4
<1>2. CASE Expire
    <2>1. UNCHANGED <<walk, pc, to, got, again, start>>
        BY <1>2 DEF Expire, arguments, history
    <2> QED
        BY <1>2, <2>1, ExpireMoves DEF Apart
<1>3. CASE Walk
    <2>1. Steps
        BY <1>3, WalkSteps
    <2>2. /\ pc = "walking" /\ walk' = walk
          /\ got' = got \cup PageRows /\ again' = again \cup (got \cap PageRows)
          /\ start' = Or(start, newest)
        BY <2>1 DEF Steps, Yield
    <2> SUFFICES ASSUME walk # "page", start' = None \/ to' <= start'
                 PROVE  /\ again' = {}
                        /\ pc' = "walking" => \A r \in got' : r > PageTop'
        BY <2>2 DEF Apart
    <2>3. again = {} /\ \A r \in got : r > PageTop
        <3>1. CASE start = None
            BY <3>1 DEF TypeInv, Pinned
        <3>2. CASE start # None
            <4>1. start' = start /\ to' = to
                <5>1. CASE walk = "window"
                    BY <2>1, <2>2, <3>2, <5>1 DEF Steps, Or, TypeInv, Pinned
                <5>2. CASE walk # "window"
                    BY <2>1, <2>2, <3>2, <5>2 DEF Steps, Or
                <5> QED
                    BY <5>1, <5>2
            <4> QED
                BY <2>2, <4>1 DEF Apart
        <3> QED
            BY <3>1, <3>2
    <2>4. /\ got \subseteq 1..MaxRows /\ PageRows \subseteq 1..MaxRows
          /\ \A r \in PageRows : NextTop < r /\ r <= PageTop
          /\ PageTop \in Int /\ NextTop \in Int /\ NextTop < PageTop
        <3>1. got \subseteq 1..MaxRows
            BY DEF TypeInv, Typed
        <3>2. PageTop \in Int /\ NextTop \in Int /\ NextTop < PageTop
            BY Bounds, Products
        <3>3. /\ PageRows \subseteq 1..MaxRows
              /\ \A r \in PageRows : NextTop < r /\ r <= PageTop
            BY RowsOfPage
        <3> QED
            BY <3>1, <3>2, <3>3
    <2>5. got \cap PageRows = {}
        BY <2>3, <2>4
    <2>6. \A r \in got' : r > NextTop
        BY <2>2, <2>3, <2>4
    <2>7. pc' = "walking" => PageTop' = NextTop
        BY <2>1, <2>2 DEF Steps, GoesOn, Waits, Returns
    <2> QED
        BY <2>2, <2>3, <2>5, <2>6, <2>7
<1>4. CASE Raise
    BY <1>4 DEF Raise, Apart, log, arguments, history
<1>5. CASE UNCHANGED vars
    BY <1>5 DEF vars, Apart, log, arguments, history, PageTop, High
<1> QED
    BY <1>1, <1>2, <1>3, <1>4, <1>5 DEF Next

THEOREM OwingHolds == Spec => [](Owing /\ Apart)
<1>1. Init => Owing /\ Apart
    BY DEF Init, Owing, Apart
<1> QED
    BY <1>1, OwingKept, ApartKept, TypeInvHolds, PTL DEF Spec

\* A walk that returns has yielded every row it owed that is still kept
\* (NothingIsSkipped), whatever arrives and expires between two pages of
\* iter_access_log, iter_gate_status_log, iter_history, iter_directory_calls.
THEOREM NothingSkipped == Spec => []NothingIsSkipped
<1>1. TypeInv /\ Owing => NothingIsSkipped
    BY DEF TypeInv, Typed, Pinned, Owing, NothingIsSkipped, None
<1> QED
    BY <1>1, TypeInvHolds, OwingHolds, PTL

\* A pinned window and a cursor never yield a row twice (WindowsDoNotRepeat):
\* iter_history and iter_directory_calls.
THEOREM NoRepeats == Spec => []WindowsDoNotRepeat
<1>1. Apart => WindowsDoNotRepeat
    BY DEF Apart, WindowsDoNotRepeat
<1> QED
    BY <1>1, OwingHolds, PTL

----------------------------------------------------------------------------
(* No more comes twice than has arrived: c counts the rows of the pages so *)
(* far, top is the first row of the first page.                            *)

Counted(c, top) ==
    /\ top <= MaxRows
    /\ Cardinality(again) + Cardinality(got) <= c
    /\ Cardinality(again) <= newest - start
    /\ pc = "walking" => c + PageTop - top <= newest - start
    /\ pc = "walking" => \A r \in 1..MaxRows : Low <= r /\ r <= top => r \in owed

Repeats ==
    start # None /\ walk # "cursor" => \E c, top \in Int : Counted(c, top)

LEMMA Finite ==
    ASSUME NEW S \in SUBSET (1..MaxRows)
    PROVE  IsFiniteSet(S) /\ Cardinality(S) \in Nat
<1>1. 1 \in Int /\ MaxRows \in Int
    OBVIOUS
<1>2. IsFiniteSet(1..MaxRows)
    BY <1>1, FS_Interval
<1>3. IsFiniteSet(S)
    BY <1>2, FS_Subset
<1> QED
    BY <1>3, FS_CardinalityType

\* Rows yielded twice and rows yielded: a page adds at most its own.
LEMMA PageCounts ==
    ASSUME NEW A \in SUBSET (1..MaxRows), NEW G \in SUBSET (1..MaxRows),
           NEW P \in SUBSET (1..MaxRows)
    PROVE  Cardinality(A \cup (G \cap P)) + Cardinality(G \cup P)
             <= Cardinality(A) + Cardinality(G) + Cardinality(P)
<1>1. /\ IsFiniteSet(A) /\ IsFiniteSet(G) /\ IsFiniteSet(P) /\ IsFiniteSet(G \cap P)
      /\ IsFiniteSet(A \cap (G \cap P))
    BY Finite
<1>2. /\ Cardinality(A) \in Nat /\ Cardinality(G) \in Nat /\ Cardinality(P) \in Nat
      /\ Cardinality(G \cap P) \in Nat /\ Cardinality(A \cap (G \cap P)) \in Nat
    BY <1>1, FS_CardinalityType
<1>3. Cardinality(G \cup P) = Cardinality(G) + Cardinality(P) - Cardinality(G \cap P)
    BY <1>1, FS_Union
<1>4. Cardinality(A \cup (G \cap P))
        = Cardinality(A) + Cardinality(G \cap P) - Cardinality(A \cap (G \cap P))
    BY <1>1, FS_Union
<1> QED
    BY <1>2, <1>3, <1>4

\* The rows of a page, counted: at most PageSize of them.
LEMMA PageSizes ==
    ASSUME TypeInv
    PROVE  /\ Cardinality(PageRows) \in Nat /\ Cardinality(PageRows) <= PageSize
           /\ PageRows # {} =>
                Cardinality(PageRows) = PageTop - Greatest(Low, NextTop + 1) + 1
<1> DEFINE B == Greatest(Low, NextTop + 1)
<1>1. /\ B \in Int /\ PageTop \in Int /\ B >= PageTop - PageSize + 1 /\ PageSize \in Nat
    BY Bounds, Products DEF Greatest
<1>2. PageRows = B..PageTop /\ PageRows \in SUBSET (1..MaxRows)
    BY RowsOfPage
<1>3. Cardinality(PageRows) = IF B > PageTop THEN 0 ELSE PageTop - B + 1
    BY <1>1, <1>2, FS_Interval
<1>4. PageRows # {} => ~(B > PageTop)
    BY <1>1, <1>2
<1> HIDE DEF B
<1>5. Cardinality(PageRows) \in Nat /\ Cardinality(PageRows) <= PageSize
    BY <1>1, <1>3
<1> QED
    BY <1>3, <1>4, <1>5 DEF B

\* The rows of a page, against the way to the next.
LEMMA PageAdds ==
    ASSUME TypeInv, Steps
    PROVE  \E d \in Nat : /\ Cardinality(PageRows) <= d
                          /\ pc' = "walking" =>
                               /\ PageTop' \in Int /\ d + PageTop' <= PageTop
                               /\ Low' = Low
<1>1. /\ PageTop \in Int /\ NextTop = PageTop - PageSize /\ PageSize \in Nat
      /\ Low \in Int /\ Low >= 1
      /\ Cardinality(PageRows) \in Nat /\ Cardinality(PageRows) <= PageSize
    BY Bounds, Products, PageSizes
<1>2. CASE Waits
    <2>1. PageRows = {}
        BY <1>1, <1>2, RowsOfPage DEF Waits
    <2>2. Cardinality(PageRows) = 0
        BY <2>1, FS_EmptySet
    <2> QED
        BY <1>1, <1>2, <2>2 DEF Waits
<1>3. CASE ~Waits
    <2>1. pc' = "walking" => PageTop' = NextTop /\ Low' = Low
        BY <1>3 DEF Steps, GoesOn, Returns
    <2> QED
        BY <1>1, <2>1
<1> QED
    BY <1>2, <1>3

LEMMA FirstPageCounts ==
    ASSUME TypeInv, Steps, start = None, walk # "cursor"
    PROVE  Repeats'
<1>1. /\ got' = PageRows /\ again' = {} /\ start' = newest /\ newest' = newest
      /\ oldest' = oldest /\ owed' = Rows(Low, PageTop)
    BY DEF Steps, Yield, Or, log, TypeInv, Pinned
<1>2. Cardinality(again') = 0
    BY <1>1, FS_EmptySet
<1>3. /\ PageTop \in Int /\ PageTop <= MaxRows /\ newest \in Nat
      /\ NextTop = PageTop - PageSize
    BY Bounds DEF TypeInv, Typed
<1>4. PICK d \in Nat : /\ Cardinality(PageRows) <= d
                       /\ pc' = "walking" =>
                            /\ PageTop' \in Int /\ d + PageTop' <= PageTop
                            /\ Low' = Low
    BY PageAdds
<1>5. Cardinality(again') + Cardinality(got') <= d
    BY <1>1, <1>2, <1>4, PageSizes
<1>6. Cardinality(again') <= newest' - start'
    BY <1>1, <1>2, <1>3
<1>7. pc' = "walking" => \A r \in 1..MaxRows : Low' <= r /\ r <= PageTop => r \in owed'
    BY <1>1, <1>4 DEF Rows
<1>8. PICK top \in Int : top = PageTop
    BY <1>3
<1>9. pc' = "walking" => d + PageTop' - top <= newest' - start'
    BY <1>1, <1>3, <1>4, <1>8
<1>10. Counted(d, top)'
    BY <1>3, <1>5, <1>6, <1>7, <1>8, <1>9 DEF Counted
<1> QED
    BY <1>10 DEF Repeats

LEMMA LaterPageCounts ==
    ASSUME TypeInv, Owing, Steps, start # None, walk # "cursor",
           NEW c \in Int, NEW top \in Int, Counted(c, top)
    PROVE  Repeats'
<1>1. /\ got' = got \cup PageRows /\ again' = again \cup (got \cap PageRows)
      /\ UNCHANGED <<newest, oldest, walk, start, owed>> /\ pc = "walking"
    BY DEF Steps, Yield, Or, log
<1>2. /\ got \in SUBSET (1..MaxRows) /\ again \in SUBSET (1..MaxRows)
      /\ PageRows \in SUBSET (1..MaxRows) /\ newest \in Int /\ start \in Int
    BY RowsOfPage DEF TypeInv, Typed, None
<1> DEFINE a == Cardinality(again)
           g == Cardinality(got)
           p == Cardinality(PageRows)
           aa == Cardinality(again')
           gg == Cardinality(got')
           B == Greatest(Low, NextTop + 1)
<1>3. /\ a \in Nat /\ g \in Nat /\ p \in Nat /\ p <= PageSize
    BY <1>2, Finite, PageSizes
<1>d. PICK d \in Nat : /\ p <= d
                       /\ pc' = "walking" =>
                            /\ PageTop' \in Int /\ d + PageTop' <= PageTop
                            /\ Low' = Low
    BY PageAdds
<1>4. got' \in SUBSET (1..MaxRows) /\ again' \in SUBSET (1..MaxRows)
    BY <1>1, <1>2
<1>5. aa \in Nat /\ gg \in Nat
    BY <1>4, Finite
<1>6. aa + gg <= a + g + p
    BY <1>1, <1>2, PageCounts
<1>7. /\ a + g <= c /\ a <= newest - start /\ c + PageTop - top <= newest - start
      /\ top <= MaxRows
    BY <1>1 DEF Counted
<1>8. /\ PageTop \in Int /\ NextTop = PageTop - PageSize /\ PageSize \in Nat
      /\ Low \in Nat /\ Low >= 1 /\ Low >= oldest /\ NextTop \in Int
    BY Bounds, Products
<1>9. aa <= newest - start
    <2>1. CASE PageRows = {}
        BY <1>1, <1>7, <2>1
    <2>2. CASE PageRows # {}
        <3>1. B \in Int /\ B >= Low /\ B > NextTop
            BY <1>8 DEF Greatest
        <3>2. p = PageTop - B + 1
            BY <2>2, PageSizes
        <3>3. B..top \subseteq got'
            <4> SUFFICES ASSUME NEW r \in B..top PROVE r \in got'
                OBVIOUS
            <4> HIDE DEF B
            <4>1. r \in 1..MaxRows /\ Low <= r /\ r <= top /\ r > NextTop
                BY <1>7, <1>8, <3>1
            <4>2. r \in owed' /\ r >= oldest
                <5>1. r \in owed'
                    BY <1>1, <4>1 DEF Counted
                <5>2. oldest \in Int
                    BY DEF TypeInv, Typed
                <5> QED
                    BY <1>8, <4>1, <5>1, <5>2
            <4>3. r \in got \/ r <= PageTop
                BY <4>2, OwedRow
            <4> QED
                BY <1>1, <4>1, <4>3, RowsOfPage
        <3>4. Cardinality(B..top) = (IF B > top THEN 0 ELSE top - B + 1)
            BY <3>1, FS_Interval
        <3>5. Cardinality(B..top) <= gg
            BY <1>4, <3>3, Finite, FS_Subset
        <3> HIDE DEF B, a, g, p, aa, gg
        <3>6. top - B + 1 <= gg
            BY <1>5, <3>1, <3>4, <3>5
        <3> QED
            BY <1>2, <1>3, <1>5, <1>6, <1>7, <1>8, <3>1, <3>2, <3>6
    <2> QED
        BY <2>1, <2>2
<1> HIDE DEF a, g, p, aa, gg, B
<1>10. aa + gg <= c + d
    BY <1>3, <1>5, <1>6, <1>7, <1>d
<1>11. pc' = "walking" => /\ c + d + PageTop' - top <= newest' - start'
                          /\ Low' = Low
    BY <1>1, <1>2, <1>7, <1>8, <1>d
<1>12. pc' = "walking" => \A r \in 1..MaxRows : Low' <= r /\ r <= top => r \in owed'
    BY <1>1, <1>11 DEF Counted
<1>13. Counted(c + d, top)'
    BY <1>1, <1>7, <1>9, <1>10, <1>11, <1>12 DEF Counted, aa, gg
<1>14. c + d \in Int
    OBVIOUS
<1> QED
    BY <1>13, <1>14 DEF Repeats

LEMMA RepeatsKept == TypeInv /\ Owing /\ Repeats /\ [Next]_vars => Repeats'
<1> SUFFICES ASSUME TypeInv, Owing, Repeats, [Next]_vars PROVE Repeats'
    OBVIOUS
<1>1. CASE Walk
    <2>1. Steps /\ walk' = walk
        BY <1>1, WalkSteps DEF Steps
    <2>2. CASE walk = "cursor"
        BY <2>1, <2>2 DEF Repeats
    <2>3. CASE walk # "cursor" /\ start = None
        BY <2>1, <2>3, FirstPageCounts
    <2>4. CASE walk # "cursor" /\ start # None
        BY <2>1, <2>4, LaterPageCounts DEF Repeats
    <2> QED
        BY <2>2, <2>3, <2>4
<1>2. CASE ~Walk
    <2>1. UNCHANGED <<walk, got, again, owed, start>> /\ (pc' = "walking" => pc = "walking")
        BY <1>2 DEF Next, Write, Expire, Raise, vars, arguments, history
    <2> SUFFICES ASSUME start # None, walk # "cursor"
                 PROVE  \E c, top \in Int : Counted(c, top)'
        BY <2>1 DEF Repeats
    <2>2. PICK c \in Int, top \in Int : Counted(c, top)
        BY DEF Repeats
    <2>3. /\ newest' \in Int /\ newest' >= newest /\ newest \in Int /\ start \in Int
          /\ Cardinality(again) \in Nat
        <3>1. newest' = newest \/ newest' = newest + 1
            BY <1>2 DEF Next, Write, Expire, Raise, vars, log
        <3>2. again \in SUBSET (1..MaxRows)
            BY DEF TypeInv, Typed
        <3> QED
            BY <3>1, <3>2, Finite DEF TypeInv, Typed, None
    <2>4. pc = "walking" =>
            /\ PageTop' \in Int /\ PageTop \in Int
            /\ PageTop' - PageTop <= newest' - newest
            /\ \A r \in 1..MaxRows : Low' <= r => Low <= r
        <3>1. CASE Write
            BY <3>1, <2>3, WriteMoves, Bounds DEF Write
        <3>2. CASE Expire
            <4>1. Low' \in Int /\ Low' >= Low
                BY <3>2 DEF Expire, arguments, Low, Greatest, Or, None, TypeInv, Typed, Optional
            <4> QED
                BY <3>2, <4>1, <2>3, ExpireMoves, Bounds DEF Expire
        <3>3. CASE UNCHANGED <<log, walk, arguments>>
            BY <3>3, <2>3, Bounds DEF log, arguments, PageTop, High, Low
        <3> QED
            BY <1>2, <3>1, <3>2, <3>3 DEF Next, Raise, vars
    <2>5. Counted(c, top)'
        <3>1. /\ top <= MaxRows
              /\ Cardinality(again') + Cardinality(got') <= c
              /\ Cardinality(again') <= newest' - start'
            BY <2>1, <2>2, <2>3 DEF Counted
        <3>2. pc' = "walking" => c + PageTop' - top <= newest' - start'
            BY <2>1, <2>2, <2>3, <2>4 DEF Counted
        <3>3. pc' = "walking" => \A r \in 1..MaxRows : Low' <= r /\ r <= top => r \in owed'
            BY <2>1, <2>2, <2>4 DEF Counted
        <3> QED
            BY <3>1, <3>2, <3>3 DEF Counted
    <2> QED
        BY <2>5
<1> QED
    BY <1>1, <1>2

\* No walk yields more rows twice than arrived since its first page
\* (RepeatsAreArrivals), whatever expires meanwhile.
THEOREM RepeatsBounded == Spec => []RepeatsAreArrivals
<1>1. Init => Repeats
    BY DEF Init, Repeats
<1>2. TypeInv /\ Apart /\ Repeats => RepeatsAreArrivals
    <2> SUFFICES ASSUME TypeInv, Apart, Repeats, start # None
                 PROVE  Cardinality(again) <= newest - start
        BY DEF RepeatsAreArrivals
    <2>1. CASE walk = "cursor"
        <3>1. again = {}
            BY <2>1 DEF Apart, TypeInv, Typed, Pinned, None
        <3> QED
            BY <3>1, FS_EmptySet DEF TypeInv, Typed, None
    <2>2. CASE walk # "cursor"
        BY <2>2 DEF Repeats, Counted
    <2> QED
        BY <2>1, <2>2
<1> QED
    BY <1>1, <1>2, RepeatsKept, TypeInvHolds, OwingHolds, PTL DEF Spec
=============================================================================
