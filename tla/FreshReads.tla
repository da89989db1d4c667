----------------------------- MODULE FreshReads -----------------------------
(***************************************************************************)
(* What the client promises of a read, whatever is cached behind it:       *)
(* "It can never serve you stale data" (README.md, Conditional requests).  *)
(* A read that returns data returns content its resource had at some       *)
(* moment between the call and the return, exactly as if nothing were      *)
(* cached.  How the value is found is left open here; ConditionalGet is    *)
(* how the code finds it.                                                  *)
(***************************************************************************)
CONSTANTS
    Keys,    \* the resources that can be read
    Bodies,  \* what a resource can contain
    Calls,   \* calls of the client; each one reads once
    NoBody   \* what a call that raised returned

VARIABLES
    content,  \* content[k]: what resource k contains now
    phase,    \* phase[t]: "idle", "reading" or "done"
    target,   \* target[t]: the resource call t reads, the same throughout
    seen,     \* seen[t]: every content target[t] had while t was reading
    answer    \* answer[t]: what call t returned

vars == <<content, phase, target, seen, answer>>

Init ==
    /\ content \in [Keys -> Bodies]
    /\ phase = [t \in Calls |-> "idle"]
    /\ target \in [Calls -> Keys]
    /\ seen = [t \in Calls |-> {}]
    /\ answer = [t \in Calls |-> NoBody]

Begin(t) ==
    /\ phase[t] = "idle"
    /\ phase' = [phase EXCEPT ![t] = "reading"]
    /\ seen' = [seen EXCEPT ![t] = {content[target[t]]}]
    /\ UNCHANGED <<content, target, answer>>

\* The resource changes; every read of it now under way may see the change.
Change(k, b) ==
    /\ content' = [content EXCEPT ![k] = b]
    /\ seen' = [t \in Calls |->
                  IF phase[t] = "reading" /\ target[t] = k
                  THEN seen[t] \cup {b} ELSE seen[t]]
    /\ UNCHANGED <<phase, target, answer>>

Return(t) ==
    /\ phase[t] = "reading"
    /\ phase' = [phase EXCEPT ![t] = "done"]
    /\ \E b \in seen[t] \cup {NoBody} : answer' = [answer EXCEPT ![t] = b]
    /\ UNCHANGED <<content, target, seen>>

Next ==
    \/ \E t \in Calls : Begin(t) \/ Return(t)
    \/ \E k \in Keys, b \in Bodies : Change(k, b)

Spec == Init /\ [][Next]_vars

=============================================================================
