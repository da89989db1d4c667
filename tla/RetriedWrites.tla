--------------------------- MODULE RetriedWrites ---------------------------
(***************************************************************************)
(* Writes through _request: the same send-loop as a read, without a cache  *)
(* key, that sends a POST, PUT or DELETE again on 429, 500, 502, 503 and   *)
(* 504 and never after a transport error.                                  *)
(*                                                                         *)
(* Four writes stand for the registry, one for each way in which a         *)
(* repetition can matter:                                                  *)
(*   set     set_guest_view_entry_enabled: a PUT of the state wanted       *)
(*   open    open: a POST that fires a gate, with an idempotency key or    *)
(*           without one                                                   *)
(*   remove  remove_hold_open_recurring: a DELETE, 404 if nothing is there *)
(*   resend  retry_failed_deliveries: a POST that enqueues a batch of what *)
(*           has failed, and answers how many those are                    *)
(*                                                                         *)
(* External: the server behind its gateway, and the receiver of its        *)
(* webhook.  A request may be lost on its way, refused, applied and        *)
(* answered, applied and reported as failed, or given up by the gateway    *)
(* (502, 504) while it is still on its way.                                *)
(***************************************************************************)
EXTENDS Integers, FiniteSets

CONSTANTS
    Calls,       \* the writes of a behaviour
    MaxRetries,  \* max_retries
    IdKeys,      \* idempotency keys callers use
    NoKey,       \* idempotency_key=None
    NoCall,
    Backlog,     \* bound: events the webhook has had, 1 the oldest
    Sinces,      \* bound: since, the oldest event that a batch takes
    Limits       \* bound: limit, the events that it takes at most

ASSUME RetriesAssumption == MaxRetries \in Nat /\ Backlog \in Nat
ASSUME BatchAssumption == Sinces \subseteq Nat /\ Limits \subseteq Nat
ASSUME KeyAssumption == NoKey \notin IdKeys
ASSUME CallAssumption == NoCall \notin Calls

VARIABLES
    allowed,     \* server: guest entry is permitted
    present,     \* server: the recurring schedule exists
    delivery,    \* server: what became of the last delivery of each event
    spent,       \* server: idempotency keys it has seen
    pc,          \* "idle", "sent", "answered" or "done"
    write,       \* the write each call makes
    attempt,     \* _request's attempt
    travelling,  \* the request of the current attempt is on its way
    abandoned,   \* requests of earlier attempts that are still on their way
    resp,        \* the response the call holds
    result,      \* how the call ended
    fired,       \* history: how often the call's requests fired the gate
    queued,      \* history: deliveries the call's requests enqueued
    latest,      \* history: the set that was begun last
    late         \* history: a set arrived after its attempt was over

server == <<allowed, present, delivery, spent>>
net == <<travelling, abandoned>>
history == <<fired, queued, latest, late>>
vars == <<server, pc, write, attempt, net, resp, result, history>>

----------------------------------------------------------------------------
(* The writes.                                                             *)

NoWrite == [kind |-> "none", on |-> FALSE, key |-> NoKey, since |-> 0, limit |-> 0]

SetAllowed(on) == [NoWrite EXCEPT !.kind = "set", !.on = on]
OpenGate(k) == [NoWrite EXCEPT !.kind = "open", !.key = k]
RemoveSchedule == [NoWrite EXCEPT !.kind = "remove"]
RetryFailed(since, limit) ==
    [NoWrite EXCEPT !.kind = "resend", !.since = since, !.limit = limit]

Writes == {SetAllowed(on) : on \in BOOLEAN}
            \cup {OpenGate(k) : k \in IdKeys \cup {NoKey}}
            \cup {RemoveSchedule}
            \cup {RetryFailed(since, limit) : since \in Sinces, limit \in Limits}

Statuses == {"none", "ok", "notFound", "retryable", "error", "transport"}

Events == 1..Backlog

\* The terminal states, and "pending" while Nimbio still tries.
Deliveries == {"pending", "delivered", "failed"}

\* count is the replayed_count of a resend.
Response == [status : Statuses, count : 0..Backlog]

Answer(status, count) == [status |-> status, count |-> count]
NoResponse == Answer("none", 0)

\* Mutant of Sent: each attempt goes out under a new idempotency key.
SentAfresh(t, attempts) ==
    IF attempts = 0 THEN write[t] ELSE [write[t] EXCEPT !.key = NoKey]

\* Every attempt sends the request _prepare made, body and all.
Sent(t, attempts) == write[t]

\* Mutant of Wanted: the endpoint is a toggle.
Toggled(w) == ~allowed

\* An explicit setter: the request carries the state it wants.
Wanted(w) == w.on

----------------------------------------------------------------------------

Init ==
    /\ allowed \in BOOLEAN
    /\ present = TRUE
    /\ delivery \in [Events -> Deliveries]
    /\ spent = {}
    /\ pc = [t \in Calls |-> "idle"]
    /\ write = [t \in Calls |-> NoWrite]
    /\ attempt = [t \in Calls |-> 0]
    /\ travelling = [t \in Calls |-> FALSE]
    /\ abandoned = [t \in Calls |-> 0]
    /\ resp = [t \in Calls |-> NoResponse]
    /\ result = [t \in Calls |-> NoResponse]
    /\ fired = [t \in Calls |-> 0]
    /\ queued = [t \in Calls |-> 0]
    /\ latest = NoCall
    /\ late = FALSE

----------------------------------------------------------------------------
(* The server.                                                             *)

\* Of the deliveries that have failed, from since on, the oldest limit ones;
\* those that are still tried are skipped.
Batch(w) ==
    LET due == {e \in Events : delivery[e] = "failed" /\ e >= w.since}
    IN  {e \in due : Cardinality({d \in due : d < e}) < w.limit}

\* What request w of call t does when it gets there, and the answer to it.
Apply(t, w, outcome) ==
    CASE w.kind = "set" ->
           /\ allowed' = Wanted(w)
           /\ outcome = Answer("ok", 0)
           /\ UNCHANGED <<present, delivery, spent, fired, queued>>
      [] w.kind = "open" /\ w.key \in spent ->
           /\ outcome = Answer("ok", 0)
           /\ UNCHANGED <<server, fired, queued>>
      [] w.kind = "open" /\ w.key \notin spent ->
           /\ fired' = [fired EXCEPT ![t] = @ + 1]
           /\ spent' = spent \cup ({w.key} \ {NoKey})
           /\ outcome = Answer("ok", 0)
           /\ UNCHANGED <<allowed, present, delivery, queued>>
      [] w.kind = "remove" ->
           /\ present' = FALSE
           /\ outcome = Answer(IF present THEN "ok" ELSE "notFound", 0)
           /\ UNCHANGED <<allowed, delivery, spent, fired, queued>>
      [] w.kind = "resend" ->
           /\ delivery' = [e \in Events |->
                             IF e \in Batch(w) THEN "pending" ELSE delivery[e]]
           /\ queued' = [queued EXCEPT ![t] = @ + Cardinality(Batch(w))]
           /\ outcome = Answer("ok", Cardinality(Batch(w)))
           /\ UNCHANGED <<allowed, present, spent, fired>>

Respond(t, r) ==
    /\ pc' = [pc EXCEPT ![t] = "answered"]
    /\ resp' = [resp EXCEPT ![t] = r]

Rest == UNCHANGED <<write, attempt, result, latest>>

\* The request of the current attempt is applied.  Its answer, or a failure
\* of the server after the effect (500, or 504 did_not_open), comes back, or
\* nothing does.
Arrive(t) ==
    /\ travelling[t]
    /\ travelling' = [travelling EXCEPT ![t] = FALSE]
    /\ \E outcome \in Response :
         /\ Apply(t, Sent(t, attempt[t]), outcome)
         /\ \/ /\ pc[t] = "sent"
               /\ \E r \in {outcome, Answer("retryable", 0)} : Respond(t, r)
            \/ UNCHANGED <<pc, resp>>
    /\ late' = (late \/ (pc[t] # "sent" /\ write[t].kind = "set"))
    /\ UNCHANGED abandoned /\ Rest

\* A request of an earlier attempt, or of a call that is over, is applied.
ArriveLate(t) ==
    /\ abandoned[t] > 0
    /\ abandoned' = [abandoned EXCEPT ![t] = @ - 1]
    /\ \E outcome \in Response : Apply(t, Sent(t, attempt[t]), outcome)
    /\ late' = (late \/ write[t].kind = "set")
    /\ UNCHANGED <<travelling, pc, resp>> /\ Rest

\* 429 and 503 before anything is done, or a refusal for good.
Refuse(t) ==
    /\ pc[t] = "sent" /\ travelling[t]
    /\ travelling' = [travelling EXCEPT ![t] = FALSE]
    /\ \E s \in {"retryable", "error"} : Respond(t, Answer(s, 0))
    /\ UNCHANGED <<server, abandoned, fired, queued, late>> /\ Rest

\* The gateway answers 502 or 504 for a request that is still on its way.
GiveUp(t) ==
    /\ pc[t] = "sent" /\ travelling[t]
    /\ travelling' = [travelling EXCEPT ![t] = FALSE]
    /\ abandoned' = [abandoned EXCEPT ![t] = @ + 1]
    /\ Respond(t, Answer("retryable", 0))
    /\ UNCHANGED <<server, fired, queued, late>> /\ Rest

\* A request never gets there.
Vanish(t) ==
    /\ \/ /\ travelling[t]
          /\ travelling' = [travelling EXCEPT ![t] = FALSE]
          /\ UNCHANGED abandoned
       \/ /\ abandoned[t] > 0
          /\ abandoned' = [abandoned EXCEPT ![t] = @ - 1]
          /\ UNCHANGED travelling
    /\ UNCHANGED <<server, pc, resp, fired, queued, late>> /\ Rest

\* The receiver takes an event that has been enqueued, or fails it for good.
Conclude(e) ==
    /\ delivery[e] = "pending"
    /\ \E outcome \in {"delivered", "failed"} :
         delivery' = [delivery EXCEPT ![e] = outcome]
    /\ UNCHANGED <<allowed, present, spent, pc, net, resp, history>>
    /\ UNCHANGED <<write, attempt, result>>

Server(t) == Arrive(t) \/ ArriveLate(t) \/ Refuse(t) \/ GiveUp(t) \/ Vanish(t)

----------------------------------------------------------------------------
(* The client: _request for anything but a GET.                            *)

InFlight(t) == pc[t] \in {"sent", "answered"}

\* The callers of one setting take turns: a set is begun when no other runs.
Begin(t, w) ==
    /\ pc[t] = "idle"
    /\ w.kind = "set" => ~ \E u \in Calls : InFlight(u) /\ write[u].kind = "set"
    /\ pc' = [pc EXCEPT ![t] = "sent"]
    /\ write' = [write EXCEPT ![t] = w]
    /\ travelling' = [travelling EXCEPT ![t] = TRUE]
    /\ latest' = IF w.kind = "set" THEN t ELSE latest
    /\ UNCHANGED <<server, attempt, abandoned, resp, result, fired, queued, late>>

Finish(t, r) ==
    /\ pc' = [pc EXCEPT ![t] = "done"]
    /\ result' = [result EXCEPT ![t] = r]
    /\ resp' = [resp EXCEPT ![t] = NoResponse]
    /\ UNCHANGED <<server, write, attempt, net, history>>

\* Mutant of Lose: a timeout is retried like a 503.
LoseAndRetry(t) ==
    /\ pc[t] = "sent"
    /\ abandoned' = [abandoned EXCEPT ![t] = @ + (IF travelling[t] THEN 1 ELSE 0)]
    /\ travelling' = [travelling EXCEPT ![t] = TRUE]
    /\ abandoned[t] < 2  \* bound of this mutant alone
    /\ UNCHANGED <<server, pc, write, attempt, resp, result, history>>

\* TimeoutException or another HTTPError: _request raises, and whatever is on
\* its way stays on its way.
Lose(t) ==
    /\ pc[t] = "sent"
    /\ Finish(t, Answer("transport", 0))

\* Mutant of ShouldRetry: one retry too many.
ShouldRetryOnceMore(t) ==
    resp[t].status = "retryable" /\ attempt[t] <= MaxRetries

\* _should_retry asks for the status and the attempt, not for the method.
ShouldRetry(t) == resp[t].status = "retryable" /\ attempt[t] < MaxRetries

Retry(t) ==
    /\ pc[t] = "answered"
    /\ ShouldRetry(t)
    /\ pc' = [pc EXCEPT ![t] = "sent"]
    /\ attempt' = [attempt EXCEPT ![t] = @ + 1]
    /\ travelling' = [travelling EXCEPT ![t] = TRUE]
    /\ resp' = [resp EXCEPT ![t] = NoResponse]
    /\ UNCHANGED <<server, write, abandoned, result, history>>

\* Mutant of Parsed: a status that ran out of retries is not raised.
ParsedLeniently(r) ==
    IF r.status = "retryable" THEN Answer("ok", r.count) ELSE r

\* _parse: 2xx is returned, everything else is raised as what it is.
Parsed(r) == r

Return(t) ==
    /\ pc[t] = "answered"
    /\ ~ShouldRetry(t)
    /\ Finish(t, Parsed(resp[t]))

Client(t) == Lose(t) \/ Retry(t) \/ Return(t)

Next == \/ \E t \in Calls : \/ \E w \in Writes : Begin(t, w)
                            \/ Server(t)
                            \/ Client(t)
        \/ \E e \in Events : Conclude(e)

Spec == Init /\ [][Next]_vars

----------------------------------------------------------------------------
(* Properties.                                                             *)

TypeOK ==
    /\ allowed \in BOOLEAN /\ present \in BOOLEAN
    /\ delivery \in [Events -> Deliveries]
    /\ spent \subseteq IdKeys
    /\ pc \in [Calls -> {"idle", "sent", "answered", "done"}]
    /\ write \in [Calls -> Writes \cup {NoWrite}]
    /\ attempt \in [Calls -> 0..MaxRetries]
    /\ travelling \in [Calls -> BOOLEAN]
    /\ abandoned \in [Calls -> Nat]
    /\ resp \in [Calls -> Response]
    /\ result \in [Calls -> Response]
    /\ fired \in [Calls -> Nat]
    /\ queued \in [Calls -> Nat]
    /\ latest \in Calls \cup {NoCall}
    /\ late \in BOOLEAN

\* A write takes effect at most once for each request its call has sent, so
\* 1 + max_retries times in all, counting what arrives after the call has
\* ended: a request that may have been applied is sent again on the answers
\* of _should_retry alone, and never after a timeout.
EffectsAreBounded ==
    \A t \in Calls : fired[t] <= 1 + attempt[t] /\ attempt[t] <= MaxRetries

\* All requests under one idempotency key, those of a retry and those of a
\* caller that makes the call again, fire the gate at most once.
OneOpenPerKey ==
    \A k \in IdKeys :
        LET Users == {t \in Calls : write[t].kind = "open" /\ write[t].key = k}
        IN  \A t, u \in Users : fired[t] + (IF u = t THEN 0 ELSE fired[u]) <= 1

\* Callers that take turns end up with the state the last of them asked for,
\* however often its PUT was applied: "an explicit setter rather than a
\* toggle: this call is retryable" (_base.py, set_guest_view_entry_enabled).
\* A request that arrives after its attempt was given up is the exception.
LastSetterWins ==
    latest # NoCall /\ result[latest].status = "ok" /\ ~late
        => allowed = write[latest].on

\* No call reports what is not so: an open that returned has fired the gate,
\* it or another one under its key; a removal that returned, or raised
\* NotFoundError, has left no schedule behind that holds a gate open; a resend
\* that returned has enqueued as many deliveries as it counts, and exactly as
\* many if it was not retried.  A retried one may have enqueued more: what the
\* last request counts is neither what the earlier ones enqueued, nor what is
\* left to do beyond the limit.
AnswersAreTrue ==
    \A t \in Calls :
        /\ result[t].status = "ok" /\ write[t].kind = "open"
             => fired[t] > 0 \/ write[t].key \in spent
        /\ result[t].status \in {"ok", "notFound"} /\ write[t].kind = "remove"
             => ~present
        /\ result[t].status = "ok" /\ write[t].kind = "resend"
             => IF attempt[t] = 0 THEN result[t].count = queued[t]
                ELSE result[t].count <= queued[t]

=============================================================================
