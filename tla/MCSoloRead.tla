----------------------------- MODULE MCSoloRead -----------------------------
(***************************************************************************)
(* ConditionalGet with one more history variable: which calls overlapped   *)
(* no other call of their key.  A read made all alone is the case in which *)
(* nobody would look for a race; what it returns depends on entries that   *)
(* earlier, overlapping reads left behind.                                 *)
(***************************************************************************)
EXTENDS MCConditionalGet

VARIABLE solo

SoloInit == Init /\ solo = [t \in Calls |-> TRUE]

SoloNext ==
    /\ Next
    /\ solo' = [t \in Calls |->
                  /\ solo[t]
                  /\ ~ \E u \in Calls \ {t} : /\ key[u] = key[t]
                                             /\ InFlight(t)'
                                             /\ InFlight(u)']

SoloSpec == SoloInit /\ [][SoloNext]_<<vars, solo>>

\* A read that nothing overlapped returns content the resource had while it
\* ran: "the cache can never serve stale data" (_cache.py), "nothing is
\* returned from the cache without the server confirming it" (_sync.py).
SoloReadsAreFresh ==
    \A t \in Calls :
        solo[t] /\ result[t].status = "ok" => result[t].body \in seen[t]

=============================================================================
