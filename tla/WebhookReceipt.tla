--------------------------- MODULE WebhookReceipt ---------------------------
(***************************************************************************)
(* One webhook from the event to the receiver that uses webhooks.py, and   *)
(* the owner who keeps it working through client.community: rotates the    *)
(* secret, enables the webhook again, has missed events sent again.        *)
(*                                                                         *)
(* The server (Nimbio's outbox) and the receiver's own storage are         *)
(* external and follow the docstrings of webhooks.py, _sync.py and         *)
(* models.py: a delivery is tried a few times, failures in a row disable   *)
(* the webhook, a replay is a new delivery of the same event with the same *)
(* body.  Of an event's deliveries the latest one is kept.  Whether the    *)
(* receiver acts twice on an event that comes twice is its own affair.     *)
(***************************************************************************)
EXTENDS Integers, FiniteSets

CONSTANTS
    Events,        \* in the order of their creation
    None,
    Secrets,       \* those that can be minted
    Tolerance,     \* tolerance_seconds, or None
    Skews,         \* how far the receiver's clock may be ahead of the server's
    MaxAttempts,   \* the server's attempts at a delivery
    DisableAfter,  \* failed attempts in a row that disable the webhook
    Limit,         \* the limit of retry_failed_deliveries
    MaxRetries,    \* max_retries of the client
    MaxCalls,      \* bound: calls of the owner that repair nothing
    MaxFaults,     \* bound: attempts of the client's requests that fail
    MaxDrops,      \* bound: POSTs that are lost, late or met by a receiver down
    MaxTime        \* bound on time

ASSUME NumbersAssumption ==
    /\ {Limit, MaxRetries, MaxCalls, MaxFaults, MaxDrops, MaxTime} \subseteq Nat
    /\ Events \subseteq Nat /\ MaxAttempts \in Nat \ {0} /\ DisableAfter \in Nat \ {0}
ASSUME NoneAssumption == None \notin [id : Events]

\* One is always unused: the webhook, the receiver and the owner have one each,
\* and a POST that is under way is the open attempt at an event's delivery, or
\* had a fault.
ASSUME SecretsAssumption ==
    /\ None \notin Secrets
    /\ \/ ~IsFiniteSet(Secrets)
       \/ /\ IsFiniteSet(Secrets) /\ IsFiniteSet(Events)
          /\ Cardinality(Secrets) > 3 + Cardinality(Events) + MaxDrops
ASSUME ClockAssumption == Tolerance \in Nat \cup {None} /\ Skews \subseteq Int

Statuses == {"none", "pending", "delivered", "failed"}

VARIABLES
    time,      \* by the server's clock, up to MaxTime
    skew,
    webhook,   \* the server's: its secret, whether active, failures in a row
    delivery,  \* the latest delivery of each event
    posts,     \* POSTs under way
    drops,     \* how many POSTs have had a fault
    stored,    \* the receiver's: the secret that it verifies with
    processed, \* history: the events that the receiver has processed
    owner,     \* the owner: the call under way and the secret last learned
    budget,    \* calls begun that repair nothing, and failed attempts
    late,      \* rotations that a gateway or the client has given up, and that
               \* the server may yet apply
    astray     \* history: since the last rotation that returned, one has raised
               \* or a late one has been applied

vars == <<time, skew, webhook, delivery, posts, drops, stored, processed,
          owner, budget, late, astray>>
outbox == <<delivery, posts, drops>>
receiver == <<stored, processed>>
client == <<owner, budget, late, astray>>

Idle == [op |-> None, mode |-> None, event |-> None]
Call(op, mode, e) == [op |-> op, mode |-> mode, event |-> e]

\* The one that create_webhook has returned.
FirstSecret == CHOOSE secret \in Secrets : TRUE

Init ==
    /\ time = 0
    /\ skew \in Skews
    /\ webhook = [secret |-> FirstSecret, active |-> TRUE, failures |-> 0]
    /\ stored = FirstSecret
    /\ owner = [call |-> Idle, attempt |-> 0, secret |-> FirstSecret]
    /\ delivery = [e \in Events |->
                     [status |-> "none", attempts |-> 0, open |-> FALSE]]
    /\ posts = {}
    /\ drops = 0
    /\ processed = {}
    /\ budget = [calls |-> 0, faults |-> 0]
    /\ late = 0
    /\ astray = FALSE

----------------------------------------------------------------------------
(* webhooks.py, in the receiver.                                           *)

Abs(n) == IF n < 0 THEN -n ELSE n

\* An HMAC stands for all that goes into it.
compute_signature(secret, timestamp, body) == <<secret, timestamp, body>>

\* Mutant of WithinTolerance: only a timestamp of the future is refused.
NotAhead(reference, ts) == Tolerance = None \/ ts - reference <= Tolerance

\* Mutant of WithinTolerance: a timestamp right on the bound is refused.
StrictlyWithin(reference, ts) == Tolerance = None \/ Abs(reference - ts) < Tolerance

\* "if abs(reference - ts) > tolerance_seconds: return False"
WithinTolerance(reference, ts) == Tolerance = None \/ Abs(reference - ts) <= Tolerance

verify_signature(secret, timestamp, body, signature, now) ==
    /\ signature = compute_signature(secret, timestamp, body)
    /\ WithinTolerance(now, timestamp)

\* The decoded body of a POST, which has the id of the event.
envelope(body) == [id |-> body.event]

\* The envelope, or None for a WebhookSignatureError.
construct_event(p, secret) ==
    IF verify_signature(secret, p.timestamp, p.body, p.signature, time + skew)
    THEN envelope(p.body)
    ELSE None

----------------------------------------------------------------------------
(* The server's outbox (external).                                         *)

Post(e, timestamp, secret) ==
    LET body == [event |-> e]
    IN  [body |-> body, timestamp |-> timestamp, open |-> TRUE,
         signature |-> compute_signature(secret, timestamp, body)]

\* A secret like no other that anybody still has.
NewSecret ==
    CHOOSE secret \in Secrets :
        /\ secret \notin {webhook.secret, stored, owner.secret}
        /\ \A p \in posts :
             p.signature # compute_signature(secret, p.timestamp, p.body)

Redelivered == [status |-> "pending", attempts |-> 0, open |-> FALSE]

\* An event happens while the webhook is active.
Emit(e) ==
    /\ delivery[e].status = "none"
    /\ webhook.active
    /\ \A x \in Events : x < e => delivery[x].status # "none"
    /\ delivery' = [delivery EXCEPT ![e].status = "pending"]
    /\ UNCHANGED <<time, skew, webhook, posts, drops, receiver, client>>

\* An attempt is signed with the current secret and the present time.
Attempt(e) ==
    /\ delivery[e].status = "pending" /\ ~delivery[e].open
    /\ webhook.active
    /\ posts' = posts \cup {Post(e, time, webhook.secret)}
    /\ delivery' = [delivery EXCEPT ![e].open = TRUE]
    /\ UNCHANGED <<time, skew, webhook, drops, receiver, client>>

\* A disabled webhook's deliveries are discarded unsent.
Discard(e) ==
    /\ delivery[e].status = "pending" /\ ~delivery[e].open
    /\ ~webhook.active
    /\ delivery' = [delivery EXCEPT ![e].status = "failed"]
    /\ UNCHANGED <<time, skew, webhook, posts, drops, receiver, client>>

Concluded(d, ok) ==
    [d EXCEPT !.open = FALSE, !.attempts = @ + 1,
              !.status = IF ok THEN "delivered"
                         ELSE IF d.attempts + 1 = MaxAttempts THEN "failed"
                         ELSE @]

\* The outcome of the open attempt at e's delivery.
Concludes(e, ok) ==
    /\ delivery' = [delivery EXCEPT ![e] = Concluded(@, ok)]
    /\ webhook' = IF ok THEN [webhook EXCEPT !.failures = 0]
                  ELSE [webhook EXCEPT
                          !.failures = IF @ < DisableAfter THEN @ + 1 ELSE @,
                          !.active = @ /\ webhook.failures + 1 < DisableAfter]

Drops == drops < MaxDrops /\ drops' = drops + 1

\* The server stops waiting for the answer: the POST is lost or still to come.
Timeout(p) ==
    /\ p \in posts /\ p.open
    /\ Drops
    /\ \E comes \in BOOLEAN :
         posts' = (posts \ {p}) \cup {[q EXCEPT !.open = FALSE] : q \in IF comes THEN {p} ELSE {}}
    /\ Concludes(p.body.event, FALSE)
    /\ UNCHANGED <<time, skew, receiver, client>>

----------------------------------------------------------------------------
(* The receiver (external, but for construct_event).                       *)

\* A POST arrives: what can be verified is processed and answered 2xx.
Arrive(p) ==
    /\ p \in posts
    /\ posts' = posts \ {p}
    /\ LET event == construct_event(p, stored) IN
         /\ processed' = processed \cup IF event # None THEN {event.id} ELSE {}
         /\ IF p.open THEN Concludes(p.body.event, event # None)
            ELSE UNCHANGED <<delivery, webhook>>
    /\ UNCHANGED <<time, skew, drops, stored, client>>

\* The receiver is down, or it is broken and answers 5xx.
Unavailable(p) ==
    /\ p \in posts
    /\ Drops
    /\ posts' = posts \ {p}
    /\ IF p.open THEN Concludes(p.body.event, FALSE) ELSE UNCHANGED <<delivery, webhook>>
    /\ UNCHANGED <<time, skew, receiver, client>>

\* The owner gives the receiver the secret that was returned last.
Deploy ==
    /\ stored # owner.secret
    /\ stored' = owner.secret
    /\ UNCHANGED <<time, skew, webhook, outbox, processed, client>>

----------------------------------------------------------------------------
(* The client: the results of the owner's calls.                           *)

\* Mutant of simulated: a result that never says so.
NeverSimulated(d) == FALSE

simulated(d) == d.result = "simulated"

\* WebhookSecret.from_dict
WebhookSecret(d) == [secret |-> d.secret, simulated |-> simulated(d)]

\* Mutant of failed: a status that no delivery has.
FailedByName(d) == d.status = "error"

\* WebhookDelivery.failed
failed(d) == d.status = "failed"

\* What webhooks() and webhook_deliveries() show, and the receiver's own log.
Disabled == ~webhook.active
Missed == {e \in Events : failed(delivery[e])}
Rejecting == stored # webhook.secret

\* The calls that put something right, one thing after another.
Repairs ==
    {c \in {Call("rotate", "live", None), Call("enable", "live", None),
            Call("retry_failed", "live", None)} :
        CASE c.op = "rotate" -> Rejecting /\ stored = owner.secret
          [] c.op = "enable" -> ~Rejecting /\ Disabled
          [] c.op = "retry_failed" -> ~Rejecting /\ ~Disabled /\ Missed # {}}

\* The calls that an owner may make at any time.
AtWill ==
    {Call("rotate", mode, None) : mode \in {"live", "test"}}
      \cup {Call("retry_failed", "live", None)}
      \cup {Call("replay", "live", e) : e \in {x \in Events : delivery[x].status # "none"}}

Begins(c) ==
    /\ owner.call = Idle
    /\ owner' = [owner EXCEPT !.call = c, !.attempt = 0]

Begin(c) ==
    /\ c \in AtWill
    /\ budget.calls < MaxCalls
    /\ Begins(c)
    /\ budget' = [budget EXCEPT !.calls = @ + 1]
    /\ UNCHANGED <<time, skew, webhook, outbox, receiver, late, astray>>

Repair(c) ==
    /\ c \in Repairs
    /\ Begins(c)
    /\ UNCHANGED <<time, skew, webhook, outbox, receiver, budget, late, astray>>

----------------------------------------------------------------------------
(* The server's endpoints (external).                                      *)

Says(hook, rows, status, body) ==
    [webhook |-> hook, delivery |-> rows, status |-> status, body |-> body]

\* The oldest of the missed events, as many as the limit allows.
Oldest(missed) == {e \in missed : Cardinality({x \in missed : x < e}) < Limit}

Resend(es) ==
    Says(webhook, [e \in Events |-> IF e \in es THEN Redelivered
                                    ELSE delivery[e]],
         200, [result |-> "ok", secret |-> None])

Serve(c) ==
    LET Refuses(status) == Says(webhook, delivery, status, None) IN
    CASE c.mode = "test" ->
           Says(webhook, delivery, 200, [result |-> "simulated", secret |-> None])
      [] c.mode = "live" /\ c.op = "rotate" ->
           Says([webhook EXCEPT !.secret = NewSecret], delivery, 200,
                [result |-> "ok", secret |-> NewSecret])
      [] c.mode = "live" /\ c.op = "enable" ->
           Says([webhook EXCEPT !.active = TRUE, !.failures = 0], delivery, 200,
                [result |-> "ok", secret |-> None])
      [] c.mode = "live" /\ c.op = "retry_failed" ->
           IF ~webhook.active THEN Refuses(409)
           ELSE Resend(Oldest({e \in Events : delivery[e].status = "failed"}))
      [] c.mode = "live" /\ c.op = "replay" ->
           IF ~webhook.active \/ delivery[c.event].status = "pending"
           THEN Refuses(409)
           ELSE Resend({c.event})

----------------------------------------------------------------------------
(* The client: _request.                                                   *)

Reaches(applied) ==
    LET a == Serve(owner.call)
    IN  /\ webhook' = IF applied THEN a.webhook ELSE webhook
        /\ delivery' = IF applied THEN a.delivery ELSE delivery

\* The secret that the owner knows when the call has returned its result.
Learns(a) ==
    IF owner.call.op = "rotate" /\ ~WebhookSecret(a.body).simulated
    THEN WebhookSecret(a.body).secret
    ELSE owner.secret

\* A rotation that changes the secret.
Rotating == owner.call.op = "rotate" /\ owner.call.mode = "live"

Answer ==
    /\ owner.call # Idle
    /\ Reaches(TRUE)
    /\ LET a == Serve(owner.call) IN
         owner' = [call |-> Idle, attempt |-> 0,
                   secret |-> IF a.status = 200 THEN Learns(a) ELSE owner.secret]
    /\ astray' = (astray /\ ~Rotating)
    /\ UNCHANGED <<time, skew, posts, drops, receiver, budget, late>>

Fails == budget.faults < MaxFaults /\ budget' = [budget EXCEPT !.faults = @ + 1]

Raises ==
    /\ owner' = [owner EXCEPT !.call = Idle, !.attempt = 0]
    /\ astray' = (astray \/ Rotating)

\* A request whose answer did not come from the server (502, 504, a timeout) may
\* still be on its way to it.  Of the late ones only a rotation is followed.
MayComeLate(applied) == late' = IF Rotating /\ ~applied THEN late + 1 ELSE late

\* Mutant of ShouldRetry: one attempt too many.
ShouldRetryOnceMore == owner.attempt <= MaxRetries

ShouldRetry == owner.attempt < MaxRetries

\* 429 and 5xx, before the effect, after it or without it so far: again, or
\* raised at last.
ServerError(applied) ==
    /\ owner.call # Idle
    /\ Fails
    /\ Reaches(applied)
    /\ IF ShouldRetry
       THEN owner' = [owner EXCEPT !.attempt = @ + 1] /\ UNCHANGED astray
       ELSE Raises
    /\ MayComeLate(applied)
    /\ UNCHANGED <<time, skew, posts, drops, receiver>>

\* A timeout or a broken connection is raised at once.
Lose(applied) ==
    /\ owner.call # Idle
    /\ Fails
    /\ Reaches(applied)
    /\ Raises
    /\ MayComeLate(applied)
    /\ UNCHANGED <<time, skew, posts, drops, receiver>>

\* A rotation is applied although nobody waits for its secret any more.
LateRotation ==
    /\ late > 0
    /\ late' = late - 1
    /\ webhook' = [webhook EXCEPT !.secret = NewSecret]
    /\ astray' = TRUE
    /\ UNCHANGED <<time, skew, outbox, receiver, owner, budget>>

Tick ==
    /\ time < MaxTime
    /\ time' = time + 1
    /\ UNCHANGED <<skew, webhook, outbox, receiver, client>>

----------------------------------------------------------------------------

Server == \E e \in Events : Emit(e) \/ Attempt(e) \/ Discard(e)
Network == \E p \in posts : Arrive(p) \/ Timeout(p) \/ Unavailable(p)
Owner ==
    \/ \E c \in AtWill : Begin(c)
    \/ \E c \in Repairs : Repair(c)
    \/ Answer \/ Deploy
    \/ \E applied \in BOOLEAN : ServerError(applied) \/ Lose(applied)

Next == Server \/ Network \/ Owner \/ LateRotation \/ Tick

\* The outbox goes on trying, POSTs arrive, a call returns, and the owner puts
\* right what the reads show and gives the receiver the secret that is current.
Fairness ==
    /\ \A e \in Events : WF_vars(Attempt(e)) /\ WF_vars(Discard(e))
    /\ WF_vars(\E p \in posts : Arrive(p))
    /\ WF_vars(\E c \in Repairs : Repair(c))
    /\ WF_vars(Answer) /\ WF_vars(Deploy)

Spec == Init /\ [][Next]_vars
LiveSpec == Spec /\ Fairness

----------------------------------------------------------------------------
(* Properties.                                                             *)

TypeOK ==
    /\ time \in 0..MaxTime
    /\ skew \in Skews
    /\ webhook \in [secret : Secrets, active : BOOLEAN, failures : 0..DisableAfter]
    /\ \A e \in Events :
         /\ delivery[e].status \in Statuses
         /\ delivery[e].attempts \in 0..MaxAttempts
         /\ delivery[e].open => delivery[e].status = "pending"
    /\ processed \subseteq Events
    /\ \A p \in posts : p.body.event \in Events /\ p.timestamp \in 0..time
    /\ {stored, owner.secret} \subseteq Secrets \cup {None}
    /\ owner.attempt \in 0..MaxRetries
    /\ late \in 0..MaxFaults

\* POSTs that arrive at a receiver that is up.
Arriving == {p \in posts : p \notin posts' /\ drops' = drops}

\* What is processed was signed with the secret that the receiver has, and no
\* longer ago, by the server's clock, than the tolerance less what the receiver's
\* clock is ahead: a POST that the network has kept for longer does nothing.
OnlyRecentIsProcessed ==
    [][\A e \in processed' \ processed :
         \E p \in Arriving :
            /\ p.signature = compute_signature(stored, p.timestamp, p.body)
            /\ p.body.event = e
            /\ Tolerance # None => time - p.timestamp <= Tolerance - skew]_vars

\* Modest clock skew breaks nothing: a POST that comes at once, signed with the
\* secret that the receiver has, ends its delivery although the clocks are as
\* far apart as the tolerance.
PromptIsDelivered ==
    [][\A p \in Arriving :
         (/\ p.open /\ time = p.timestamp
          /\ p.signature = compute_signature(stored, p.timestamp, p.body)
          /\ Tolerance # None => Abs(skew) <= Tolerance) =>
            delivery'[p.body.event].status = "delivered"]_vars

\* A secret that was returned is the webhook's, however many others the retries
\* of that call have minted, until another rotation raises or one that was given
\* up is applied late.  Then the secret that the owner has may verify nothing
\* any more, and the next rotation that returns puts it right; a test key's
\* rehearsal changes nothing on either side.
ReturnedSecretIsCurrent ==
    ~astray /\ ~Rotating => owner.secret = webhook.secret

\* Every event comes through in the end: past lost POSTs, lost secrets, late
\* rotations and a webhook that was disabled.
EveryEventIsProcessed ==
    []<>(\A e \in Events : delivery[e].status # "none" => e \in processed)
=============================================================================
