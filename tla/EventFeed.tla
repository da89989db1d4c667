------------------------------ MODULE EventFeed ------------------------------
(***************************************************************************)
(* What a consumer of stream_events() may rely on: events come in the      *)
(* order in which they were published, none twice, and none is skipped     *)
(* except where a StreamReset, or the start of a stream that resumes       *)
(* nothing, says so.  Events are numbered in the order of publication.     *)
(***************************************************************************)
EXTENDS Naturals

CONSTANT MaxEvents  \* bound: events ever published

VARIABLES
    published,  \* number of the latest event
    last,       \* number of the last event the consumer got
    gap         \* a reset, or a start from nowhere, since that event

vars == <<published, last, gap>>

Init ==
    /\ published \in 0..MaxEvents
    /\ \/ last = 0 /\ gap = TRUE
       \/ last \in 1..published /\ gap = FALSE

Publish ==
    /\ published < MaxEvents
    /\ published' = published + 1
    /\ UNCHANGED <<last, gap>>

Deliver(n) ==
    /\ n <= published
    /\ IF gap THEN n > last ELSE n = last + 1
    /\ last' = n
    /\ gap' = FALSE
    /\ UNCHANGED published

Reset ==
    /\ gap' = TRUE
    /\ UNCHANGED <<published, last>>

Next == Publish \/ Reset \/ \E n \in 1..MaxEvents : Deliver(n)

Spec == Init /\ [][Next]_vars

==============================================================================
