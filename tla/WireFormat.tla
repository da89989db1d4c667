----------------------------- MODULE WireFormat -----------------------------
(***************************************************************************)
(* How an argument of a method becomes a field of a request body, and how  *)
(* a field of an answer becomes an attribute of a result.  A JSON object   *)
(* is a function from field names to values: a field that is not sent is   *)
(* not in its domain, null is None.                                        *)
(***************************************************************************)
EXTENDS Integers, FiniteSets

CONSTANTS
    Gates,   \* the community's gates, by latch_id
    None,    \* Python's None and JSON's null
    Unset,   \* the sentinel UNSET: the argument was not given at all
    Truthy,  \* a true value that is not True: "false", "no", 1, ...
    Never,   \* a server-assigned identifier still to be assigned
    Gone     \* one whose object has been removed: it is not used again

ASSUME NoneAssumption == None # Unset /\ None # Truthy /\ None \notin BOOLEAN
ASSUME TruthyAssumption == Truthy \notin BOOLEAN
ASSUME SlotAssumption == Never # Gone
ASSUME GatesAssumption == IsFiniteSet(Gates) /\ \A gates \in SUBSET Gates : gates # None

\* bool(x)
Bool(x) == x \in {TRUE, Truthy}

\* x is True
IsTrue(x) == x = TRUE

\* Fields that are always sent, and those for which the builder asks first:
\* "if x is not None: body[x] = x".
Body(always, optional) ==
    LET given == {f \in DOMAIN optional : optional[f] # None}
    IN  [f \in DOMAIN always \cup given |->
            IF f \in DOMAIN always THEN always[f] ELSE optional[f]]

NoFields == [f \in {} |-> None]

\* d.get(f, default); "d.get(f) or default" when null counts as missing.
Get(d, f, default) == IF f \in DOMAIN d THEN d[f] ELSE default
GetOr(d, f, default) ==
    IF f \in DOMAIN d /\ d[f] # None THEN d[f] ELSE default

\* The object under an envelope's name, or the answer itself (a bare row).
Unwrap(d, name) == Get(d, name, d)

\* The identifiers that name something, and the one that is assigned next.
Live(slots) == {i \in DOMAIN slots : slots[i] \notin {Never, Gone}}
Unused(slots) == {i \in DOMAIN slots : slots[i] = Never}
NextUnused(slots) == CHOOSE i \in Unused(slots) : \A j \in Unused(slots) : i <= j

\* What a server says: the state it is left in, a status and a body.
Says(to, status, body) == [to |-> to, status |-> status, body |-> body]
Refuses(o, status, code) == Says(o, status, [code |-> code])

\* What a call may raise once it has been sent.
Exceptions == {"GateNotOpenedError", "BadRequestError", "AuthenticationError",
               "PermissionDeniedError", "NotFoundError", "ConflictError",
               "RateLimitError", "UpstreamError", "ServerError", "APIError",
               "APITimeoutError"}

ASSUME ExceptionsAssumption == None \notin Exceptions \cup {"did_not_open"}

\* The exception for a status that is not 2xx.
exception_for(status, code) ==
    IF code = "did_not_open" \/ status = 504 THEN "GateNotOpenedError"
    ELSE CASE status = 400 -> "BadRequestError"
           [] status = 401 -> "AuthenticationError"
           [] status = 403 -> "PermissionDeniedError"
           [] status = 404 -> "NotFoundError"
           [] status = 409 -> "ConflictError"
           [] status = 429 -> "RateLimitError"
           [] status \in {502, 503} -> "UpstreamError"
           [] status \in (500..599) \ {502, 503} -> "ServerError"
           [] OTHER -> "APIError"
=============================================================================
