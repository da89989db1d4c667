------------------------ MODULE WebhookReceiptProofs ------------------------
(***************************************************************************)
(* What the receiver and the owner of a webhook may rely on, for every     *)
(* number of events, attempts, retries, faults and POSTs under way, every  *)
(* tolerance and every skew of the clocks.                                 *)
(***************************************************************************)
EXTENDS WebhookReceipt, FiniteSetTheorems, FunctionTheorems, TLAPS

USE NumbersAssumption, ClockAssumption

----------------------------------------------------------------------------
(* Types, as far as the arguments below need them: which secrets are left  *)
(* to be minted is not among them.                                         *)

IsWebhook(w) == w = [secret |-> w.secret, active |-> w.active, failures |-> w.failures]

IsPost(p) ==
    /\ p \in [body : {p.body}, timestamp : Nat, open : BOOLEAN,
              signature : {p.signature}]
    /\ p.body.event \in Events

Deliveries == [status : Statuses, attempts : Nat, open : BOOLEAN]

Operations == {"rotate", "enable", "retry_failed", "replay"}

IsCall(c) ==
    \/ c = Idle
    \/ \E op \in Operations, mode \in {"live", "test"}, e \in Events \cup {None} :
         c = Call(op, mode, e)

IsOwner(o) == o = [call |-> o.call, attempt |-> o.attempt, secret |-> o.secret]

Typed ==
    /\ time \in Nat /\ skew \in Int
    /\ IsWebhook(webhook)
    /\ delivery \in [Events -> Deliveries]
    /\ \A p \in posts : IsPost(p)
    /\ drops \in Nat
    /\ IsOwner(owner) /\ IsCall(owner.call)
    /\ late \in Nat /\ astray \in BOOLEAN

OfEvents == processed \subseteq Events

\* Between rotations, and during a rehearsal of one, the owner's secret is the
\* webhook's, unless a rotation has raised or landed late since the last one that
\* returned.
SecretKnown == ~astray /\ ~Rotating => owner.secret = webhook.secret

Inv == Typed /\ OfEvents /\ SecretKnown

LEMMA InitInv == Init => Inv
<1> SUFFICES ASSUME Init PROVE Inv
    OBVIOUS
<1>1. Typed
    <2>1. time \in Nat /\ skew \in Int /\ drops \in Nat
        BY DEF Init
    <2>2. IsWebhook(webhook)
        BY DEF Init, IsWebhook
    <2>3. delivery \in [Events -> Deliveries]
        BY DEF Init, Deliveries, Statuses
    <2>4. IsOwner(owner) /\ IsCall(owner.call)
        BY DEF Init, IsOwner, IsCall
    <2>5. (\A p \in posts : IsPost(p)) /\ late \in Nat /\ astray \in BOOLEAN
        BY DEF Init
    <2> QED
        BY <2>1, <2>2, <2>3, <2>4, <2>5 DEF Typed
<1>2. OfEvents
    BY DEF Init, OfEvents
<1>3. SecretKnown
    BY DEF Init, SecretKnown, Rotating
<1> QED
    BY <1>1, <1>2, <1>3 DEF Inv

----------------------------------------------------------------------------
(* The outbox.                                                             *)

\* What the conclusion of an attempt leaves.
LEMMA ConcludesTyped ==
    ASSUME Typed, NEW e \in Events, NEW ok \in BOOLEAN, Concludes(e, ok)
    PROVE  /\ IsWebhook(webhook') /\ webhook'.secret = webhook.secret
           /\ delivery' \in [Events -> Deliveries]
           /\ ok => delivery'[e].status = "delivered"
<1>1. /\ IsWebhook(webhook') /\ webhook'.secret = webhook.secret
    <2>1. CASE ok
        BY <2>1 DEF Concludes, Typed, IsWebhook
    <2>2. CASE ~ok
        BY <2>2 DEF Concludes, Typed, IsWebhook
    <2> QED
        BY <2>1, <2>2
<1>2. delivery[e] \in Deliveries
    BY DEF Typed
<1>3. /\ Concluded(delivery[e], ok) \in Deliveries
      /\ ok => Concluded(delivery[e], ok).status = "delivered"
    <2> DEFINE d == delivery[e]
    <2>1. d.attempts + 1 \in Nat /\ d.status \in Statuses
        BY <1>2 DEF Deliveries
    <2>2. CASE ok
        <3>1. Concluded(d, ok) = [d EXCEPT !.open = FALSE, !.attempts = @ + 1,
                                           !.status = "delivered"]
            BY <2>2 DEF Concluded
        <3> QED
            BY <1>2, <2>1, <3>1 DEF Deliveries, Statuses
    <2>3. CASE ~ok
        <3>1. PICK status \in Statuses :
                Concluded(d, ok) = [d EXCEPT !.open = FALSE, !.attempts = @ + 1,
                                             !.status = status]
            BY <2>1, <2>3 DEF Concluded, Statuses
        <3> QED
            BY <1>2, <2>1, <2>3, <3>1 DEF Deliveries
    <2> QED
        BY <2>2, <2>3
<1>4. delivery' = [delivery EXCEPT ![e] = Concluded(delivery[e], ok)]
    BY DEF Concludes
<1> QED
    BY <1>1, <1>3, <1>4 DEF Typed

\* The outbox, the network and time touch neither the owner nor the secrets.
LEMMA SecretsStay ==
    ASSUME SecretKnown, UNCHANGED <<owner, late, astray>>, webhook'.secret = webhook.secret
    PROVE  SecretKnown'
BY DEF SecretKnown, Rotating

\* A new POST is one.
LEMMA PostTyped ==
    ASSUME Typed, NEW e \in Events, NEW timestamp \in Nat, NEW secret
    PROVE  IsPost(Post(e, timestamp, secret))
BY DEF Post, IsPost

LEMMA EmitStep ==
    ASSUME Inv, NEW e \in Events, Emit(e)
    PROVE  Inv'
<1>1. delivery' \in [Events -> Deliveries]
    BY DEF Inv, Typed, Emit, Deliveries, Statuses
<1>2. Typed'
    BY <1>1 DEF Inv, Typed, Emit, client
<1>3. OfEvents' /\ SecretKnown'
    BY DEF Inv, OfEvents, SecretKnown, Rotating, Emit, receiver, client
<1> QED
    BY <1>2, <1>3 DEF Inv

LEMMA AttemptStep ==
    ASSUME Inv, NEW e \in Events, Attempt(e)
    PROVE  Inv'
<1>1. delivery' \in [Events -> Deliveries]
    BY DEF Inv, Typed, Attempt, Deliveries
<1>2. \A p \in posts' : IsPost(p)
    BY PostTyped DEF Inv, Typed, Attempt
<1>3. Typed'
    BY <1>1, <1>2 DEF Inv, Typed, Attempt, client
<1>4. OfEvents' /\ SecretKnown'
    BY DEF Inv, OfEvents, SecretKnown, Rotating, Attempt, receiver, client
<1> QED
    BY <1>3, <1>4 DEF Inv

LEMMA DiscardStep ==
    ASSUME Inv, NEW e \in Events, Discard(e)
    PROVE  Inv'
<1>1. delivery' \in [Events -> Deliveries]
    BY DEF Inv, Typed, Discard, Deliveries, Statuses
<1>2. Typed'
    BY <1>1 DEF Inv, Typed, Discard, client
<1>3. OfEvents' /\ SecretKnown'
    BY DEF Inv, OfEvents, SecretKnown, Rotating, Discard, receiver, client
<1> QED
    BY <1>2, <1>3 DEF Inv

LEMMA TimeoutStep ==
    ASSUME Inv, NEW p \in posts, Timeout(p)
    PROVE  Inv'
<1>1. IsPost(p) /\ p.body.event \in Events
    BY DEF Inv, Typed, IsPost
<1>2. /\ IsWebhook(webhook') /\ webhook'.secret = webhook.secret
      /\ delivery' \in [Events -> Deliveries]
    BY <1>1, ConcludesTyped DEF Inv, Timeout
<1>3. IsPost([p EXCEPT !.open = FALSE])
    <2> DEFINE q == [p EXCEPT !.open = FALSE]
    <2>1. /\ q \in [body : {p.body}, timestamp : Nat, open : BOOLEAN,
                    signature : {p.signature}]
          /\ q.body = p.body /\ q.signature = p.signature
        BY <1>1 DEF IsPost
    <2> HIDE DEF q
    <2> QED
        BY <1>1, <2>1 DEF IsPost
<1>4. \A q \in posts' : IsPost(q)
    BY <1>3 DEF Inv, Typed, Timeout
<1>5. Typed'
    BY <1>2, <1>4 DEF Inv, Typed, Timeout, Drops, client
<1>6. OfEvents' /\ SecretKnown'
    BY <1>2, SecretsStay DEF Inv, OfEvents, Timeout, receiver, client
<1> QED
    BY <1>5, <1>6 DEF Inv

----------------------------------------------------------------------------
(* The receiver.                                                           *)

\* What construct_event lets through is the event of a POST that was signed with
\* the given secret and is recent by the receiver's clock.
LEMMA ConstructedEvent ==
    ASSUME NEW p, NEW secret, construct_event(p, secret) # None
    PROVE  /\ construct_event(p, secret).id = p.body.event
           /\ p.signature = compute_signature(secret, p.timestamp, p.body)
           /\ WithinTolerance(time + skew, p.timestamp)
BY DEF construct_event, verify_signature, envelope

LEMMA ArriveStep ==
    ASSUME Inv, NEW p \in posts, Arrive(p)
    PROVE  Inv'
<1> DEFINE event == construct_event(p, stored)
<1>1. IsPost(p) /\ p.body.event \in Events
    BY DEF Inv, Typed, IsPost
<1>2. /\ IsWebhook(webhook') /\ webhook'.secret = webhook.secret
      /\ delivery' \in [Events -> Deliveries]
    <2>1. CASE p.open
        <3>1. Concludes(p.body.event, event # None)
            BY <2>1 DEF Arrive
        <3> QED
            BY <1>1, <3>1, ConcludesTyped DEF Inv
    <2>2. CASE ~p.open
        BY <2>2 DEF Arrive, Inv, Typed
    <2> QED
        BY <2>1, <2>2
<1>3. Typed'
    BY <1>2 DEF Inv, Typed, Arrive, client
<1>4. OfEvents'
    <2>1. CASE event # None
        BY <1>1, <2>1, ConstructedEvent DEF Arrive, Inv, OfEvents
    <2>2. CASE event = None
        BY <2>2 DEF Arrive, Inv, OfEvents
    <2> QED
        BY <2>1, <2>2
<1>5. SecretKnown'
    BY <1>2, SecretsStay DEF Inv, Arrive, client
<1> QED
    BY <1>3, <1>4, <1>5 DEF Inv

LEMMA UnavailableStep ==
    ASSUME Inv, NEW p \in posts, Unavailable(p)
    PROVE  Inv'
<1>1. p.body.event \in Events
    BY DEF Inv, Typed, IsPost
<1>2. /\ IsWebhook(webhook') /\ webhook'.secret = webhook.secret
      /\ delivery' \in [Events -> Deliveries]
    BY <1>1, ConcludesTyped DEF Inv, Typed, Unavailable
<1>3. Typed'
    BY <1>2 DEF Inv, Typed, Unavailable, Drops, client
<1>4. OfEvents' /\ SecretKnown'
    BY <1>2, SecretsStay DEF Inv, OfEvents, Unavailable, receiver, client
<1> QED
    BY <1>3, <1>4 DEF Inv

LEMMA DeployStep ==
    ASSUME Inv, Deploy
    PROVE  Inv'
BY DEF Inv, Typed, OfEvents, SecretKnown, Rotating, Deploy, outbox, client

----------------------------------------------------------------------------
(* The owner's calls.                                                      *)

LEMMA BeginsStep ==
    ASSUME Inv, NEW c, IsCall(c), Begins(c),
           UNCHANGED <<time, skew, webhook, outbox, receiver, late, astray>>
    PROVE  Inv'
<1>1. /\ owner.call = Idle /\ owner' = [owner EXCEPT !.call = c, !.attempt = 0]
      /\ IsOwner(owner)
    BY DEF Begins, Inv, Typed
<1>2. IsOwner(owner') /\ owner'.call = c /\ owner'.secret = owner.secret
    BY <1>1 DEF IsOwner
<1>3. Typed'
    BY <1>2 DEF Inv, Typed, outbox
<1>4. OfEvents'
    BY DEF Inv, OfEvents, receiver
<1>5. SecretKnown'
    BY <1>1, <1>2 DEF Inv, SecretKnown, Rotating, Idle
<1> QED
    BY <1>3, <1>4, <1>5 DEF Inv

LEMMA BeginStep ==
    ASSUME Inv, NEW c, Begin(c)
    PROVE  Inv'
<1>1. IsCall(c)
    BY DEF Begin, AtWill, IsCall, Operations
<1> QED
    BY <1>1, BeginsStep DEF Begin

LEMMA RepairStep ==
    ASSUME Inv, NEW c, Repair(c)
    PROVE  Inv'
<1>1. IsCall(c)
    BY DEF Repair, Repairs, IsCall, Operations
<1> QED
    BY <1>1, BeginsStep DEF Repair

\* What the server makes of a call, and what it says of the secret.
LEMMA ServeTyped ==
    ASSUME Typed, owner.call # Idle
    PROVE  LET a == Serve(owner.call)
               rotates == Rotating
           IN  /\ IsWebhook(a.webhook) /\ a.delivery \in [Events -> Deliveries]
               /\ ~rotates => a.webhook.secret = webhook.secret
               /\ rotates => a.status = 200 /\ Learns(a) = a.webhook.secret
               /\ ~rotates /\ a.status = 200 => Learns(a) = owner.secret
<1> DEFINE c == owner.call
<1> DEFINE a == Serve(c)
<1>1. PICK op \in Operations, mode \in {"live", "test"}, e \in Events \cup {None} :
           c = Call(op, mode, e)
    BY DEF Typed, IsCall
<1>2. c.op = op /\ c.mode = mode
    BY <1>1 DEF Call
<1>3. IsWebhook(webhook) /\ delivery \in [Events -> Deliveries]
    BY DEF Typed
<1>4. \A es : LET r == Resend(es) IN
              /\ r.webhook = webhook /\ r.delivery \in [Events -> Deliveries]
              /\ r.status = 200
    BY <1>3 DEF Resend, Says, Redelivered, Deliveries, Statuses
<1>5. CASE mode = "test"
    <2>1. /\ a.webhook = webhook /\ a.delivery = delivery
          /\ a.body.result = "simulated"
        BY <1>2, <1>5 DEF Serve, Says
    <2> QED
        BY <1>2, <1>3, <1>5, <2>1 DEF Learns, WebhookSecret, simulated, Rotating
<1>6. CASE mode = "live" /\ op = "rotate"
    <2>1. /\ a.webhook = [webhook EXCEPT !.secret = NewSecret]
          /\ a.delivery = delivery /\ a.status = 200
          /\ a.body = [result |-> "ok", secret |-> NewSecret]
        BY <1>2, <1>6 DEF Serve, Says
    <2>2. IsWebhook(a.webhook) /\ a.webhook.secret = NewSecret
        BY <1>3, <2>1 DEF IsWebhook
    <2>3. ~WebhookSecret(a.body).simulated /\ WebhookSecret(a.body).secret = NewSecret
        <3>1. ~simulated(a.body) /\ a.body.secret = NewSecret
            BY <2>1 DEF simulated
        <3>2. /\ WebhookSecret(a.body).simulated = simulated(a.body)
              /\ WebhookSecret(a.body).secret = a.body.secret
            BY Zenon DEF WebhookSecret
        <3> QED
            BY <3>1, <3>2
    <2>4. Learns(a) = NewSecret
        BY <1>2, <1>6, <2>3 DEF Learns
    <2> QED
        BY <1>2, <1>3, <1>6, <2>1, <2>2, <2>4 DEF Rotating
<1>7. CASE mode = "live" /\ op = "enable"
    <2>1. /\ a.webhook = [webhook EXCEPT !.active = TRUE, !.failures = 0]
          /\ a.delivery = delivery
        BY <1>2, <1>7 DEF Serve, Says
    <2>2. IsWebhook(a.webhook) /\ a.webhook.secret = webhook.secret
        BY <1>3, <2>1 DEF IsWebhook
    <2> QED
        BY <1>2, <1>3, <1>7, <2>1, <2>2 DEF Learns, Rotating
<1>8. CASE mode = "live" /\ op \in {"retry_failed", "replay"}
    <2>1. a.webhook = webhook /\ a.delivery \in [Events -> Deliveries]
        BY <1>2, <1>3, <1>4, <1>8 DEF Serve, Says
    <2> QED
        BY <1>2, <1>3, <1>8, <2>1 DEF Learns, Rotating
<1> QED
    BY <1>2, <1>5, <1>6, <1>7, <1>8 DEF Operations

LEMMA ReachesTyped ==
    ASSUME Typed, owner.call # Idle, NEW applied \in BOOLEAN, Reaches(applied)
    PROVE  /\ IsWebhook(webhook') /\ delivery' \in [Events -> Deliveries]
           /\ ~Rotating
                => webhook'.secret = webhook.secret
BY ServeTyped DEF Reaches, Typed

LEMMA AnswerStep ==
    ASSUME Inv, Answer
    PROVE  Inv'
<1> DEFINE a == Serve(owner.call)
<1>1. Typed /\ owner.call # Idle /\ webhook' = a.webhook /\ delivery' = a.delivery
    BY DEF Inv, Answer, Reaches
<1>2. owner' = [call |-> Idle, attempt |-> 0,
                secret |-> IF a.status = 200 THEN Learns(a) ELSE owner.secret]
    BY DEF Answer
<1>3. IsOwner(owner') /\ owner'.call = Idle
    BY <1>2 DEF IsOwner
<1>4. Typed'
    BY <1>1, <1>3, ServeTyped DEF Typed, Answer, IsCall
<1>5. OfEvents'
    BY DEF Inv, OfEvents, Answer, receiver
<1>6. SecretKnown'
    <2>1. /\ ~Rotating => a.webhook.secret = webhook.secret
          /\ Rotating => a.status = 200 /\ Learns(a) = a.webhook.secret
          /\ ~Rotating /\ a.status = 200 => Learns(a) = owner.secret
        BY <1>1, ServeTyped
    <2>2. /\ owner'.secret = IF a.status = 200 THEN Learns(a) ELSE owner.secret
          /\ webhook'.secret = a.webhook.secret
          /\ ~astray' => ~astray \/ Rotating
        <3>1. astray' = (astray /\ ~Rotating)
            BY DEF Answer
        <3>2. ~astray' => ~astray \/ Rotating
            BY <3>1
        <3>3. webhook'.secret = a.webhook.secret
            BY <1>1
        <3>4. owner'.secret = IF a.status = 200 THEN Learns(a) ELSE owner.secret
            BY <1>2
        <3> QED
            BY <3>2, <3>3, <3>4
    <2>3. ~astray /\ ~Rotating => owner.secret = webhook.secret
        BY DEF Inv, SecretKnown
    <2> HIDE DEF a
    <2>4. ~astray' => owner'.secret = webhook'.secret
        BY <2>1, <2>2, <2>3
    <2> QED
        BY <2>4 DEF SecretKnown
<1> QED
    BY <1>4, <1>5, <1>6 DEF Inv

\* A call that raises: if it was a rotation, the secret may be another one.
LEMMA RaisesTyped ==
    ASSUME Typed, Raises
    PROVE  /\ IsOwner(owner') /\ owner'.call = Idle /\ owner'.secret = owner.secret
           /\ astray' \in BOOLEAN
           /\ ~astray' => ~astray /\ ~Rotating
BY DEF Typed, Raises, IsOwner, Rotating

LEMMA ServerErrorStep ==
    ASSUME Inv, NEW applied \in BOOLEAN, ServerError(applied)
    PROVE  Inv'
<1>1. /\ IsWebhook(webhook') /\ delivery' \in [Events -> Deliveries]
      /\ ~Rotating
           => webhook'.secret = webhook.secret
    BY ReachesTyped DEF Inv, ServerError
<1>2. OfEvents' /\ late' \in Nat
    BY DEF Inv, Typed, OfEvents, ServerError, MayComeLate, receiver
<1>3. CASE ShouldRetry
    <2>1. /\ owner' = [owner EXCEPT !.attempt = @ + 1] /\ UNCHANGED astray
          /\ IsOwner(owner) /\ IsCall(owner.call)
        BY <1>3 DEF ServerError, Inv, Typed
    <2>2. IsOwner(owner') /\ owner'.call = owner.call /\ owner'.secret = owner.secret
        BY <2>1 DEF IsOwner
    <2>3. Typed'
        BY <1>1, <1>2, <2>1, <2>2 DEF Inv, Typed, ServerError
    <2>4. SecretKnown'
        BY <1>1, <2>1, <2>2 DEF Inv, SecretKnown, Rotating, ServerError
    <2> QED
        BY <1>2, <2>3, <2>4 DEF Inv
<1>4. CASE ~ShouldRetry
    <2>1. /\ IsOwner(owner') /\ owner'.call = Idle /\ owner'.secret = owner.secret
          /\ astray' \in BOOLEAN
          /\ ~astray' => ~astray /\ ~Rotating
        BY <1>4, RaisesTyped DEF ServerError, Inv
    <2>2. Typed'
        BY <1>1, <1>2, <2>1 DEF Inv, Typed, ServerError, IsCall
    <2>3. SecretKnown'
        BY <1>1, <2>1 DEF Inv, SecretKnown, Rotating, ServerError
    <2> QED
        BY <1>2, <2>2, <2>3 DEF Inv
<1> QED
    BY <1>3, <1>4

LEMMA LoseStep ==
    ASSUME Inv, NEW applied \in BOOLEAN, Lose(applied)
    PROVE  Inv'
<1>1. /\ IsWebhook(webhook') /\ delivery' \in [Events -> Deliveries]
      /\ ~Rotating
           => webhook'.secret = webhook.secret
    BY ReachesTyped DEF Inv, Lose
<1>2. /\ IsOwner(owner') /\ owner'.call = Idle /\ owner'.secret = owner.secret
      /\ astray' \in BOOLEAN
      /\ ~astray' => ~astray /\ ~Rotating
    BY RaisesTyped DEF Inv, Lose
<1>3. late' \in Nat
    BY DEF Lose, MayComeLate, Inv, Typed
<1>4. Typed'
    BY <1>1, <1>2, <1>3 DEF Inv, Typed, Lose, IsCall
<1>5. OfEvents'
    BY DEF Inv, OfEvents, Lose, receiver
<1>6. SecretKnown'
    BY <1>1, <1>2, <1>3 DEF Inv, SecretKnown, Rotating
<1> QED
    BY <1>4, <1>5, <1>6 DEF Inv

LEMMA LateRotationStep ==
    ASSUME Inv, LateRotation
    PROVE  Inv'
<1>1. webhook' = [webhook EXCEPT !.secret = NewSecret] /\ IsWebhook(webhook)
    BY DEF LateRotation, Inv, Typed
<1>2. IsWebhook(webhook')
    BY <1>1 DEF IsWebhook
<1>3. Typed'
    BY <1>2 DEF Inv, Typed, LateRotation, outbox
<1>4. OfEvents' /\ SecretKnown'
    BY DEF Inv, OfEvents, SecretKnown, Rotating, LateRotation, receiver
<1> QED
    BY <1>3, <1>4 DEF Inv

LEMMA TickStep ==
    ASSUME Inv, Tick
    PROVE  Inv'
BY DEF Inv, Typed, OfEvents, SecretKnown, Rotating, Tick, outbox, receiver, client

----------------------------------------------------------------------------
(* The invariant and what follows from it.                                 *)

LEMMA NextInv ==
    ASSUME Inv, [Next]_vars
    PROVE  Inv'
<1>1. CASE Server
    BY <1>1, EmitStep, AttemptStep, DiscardStep DEF Server
<1>2. CASE Network
    BY <1>2, ArriveStep, TimeoutStep, UnavailableStep DEF Network
<1>3. CASE Owner
    BY <1>3, BeginStep, RepairStep, AnswerStep, DeployStep, ServerErrorStep, LoseStep
    DEF Owner
<1>4. CASE LateRotation \/ Tick
    BY <1>4, LateRotationStep, TickStep
<1>5. CASE UNCHANGED vars
    BY <1>5 DEF Inv, Typed, OfEvents, SecretKnown, Rotating, vars, outbox, receiver, client
<1> QED
    BY <1>1, <1>2, <1>3, <1>4, <1>5 DEF Next

THEOREM InvHolds == Spec => []Inv
<1>1. Init => Inv
    BY InitInv
<1>2. Inv /\ [Next]_vars => Inv'
    BY NextInv
<1> QED
    BY <1>1, <1>2, PTL DEF Spec

\* The secret of the last rotation that returned is the one that deliveries are
\* signed with, however many that call's retries have minted, until another
\* rotation raises or one that was given up is applied late.
THEOREM SecretsAgree == Spec => []ReturnedSecretIsCurrent
<1>1. Inv => ReturnedSecretIsCurrent
    BY DEF Inv, SecretKnown, ReturnedSecretIsCurrent
<1> QED
    BY <1>1, InvHolds, PTL

\* POSTs that arrive are those that Arrive takes from the network, one a step.
LEMMA ArrivingIsArrive ==
    ASSUME Inv, [Next]_vars, NEW p \in Arriving
    PROVE  Arrive(p)
<1>1. p \in posts /\ p \notin posts' /\ drops' = drops /\ drops \in Nat
    BY DEF Arriving, Inv, Typed
<1>2. CASE Server
    BY <1>1, <1>2 DEF Server, Emit, Attempt, Discard
<1>3. CASE Network
    <2>1. \A q \in posts : Timeout(q) \/ Unavailable(q) => drops' = drops + 1
        BY DEF Timeout, Unavailable, Drops
    <2>2. PICK q \in posts : Arrive(q)
        BY <1>1, <1>3, <2>1 DEF Network
    <2>3. posts' = posts \ {q}
        BY <2>2 DEF Arrive
    <2> QED
        BY <1>1, <2>2, <2>3
<1>4. CASE Owner
    BY <1>1, <1>4 DEF Owner, Begin, Repair, Answer, Deploy, ServerError, Lose, outbox
<1>5. CASE LateRotation \/ Tick \/ UNCHANGED vars
    BY <1>1, <1>5 DEF LateRotation, Tick, vars, outbox
<1> QED
    BY <1>2, <1>3, <1>4, <1>5 DEF Next

\* Only a POST that arrives changes what is processed.
LEMMA ProcessedByArrive ==
    ASSUME Inv, [Next]_vars, processed' # processed
    PROVE  \E p \in posts : Arrive(p)
<1>1. CASE Server
    BY <1>1 DEF Server, Emit, Attempt, Discard, receiver
<1>2. CASE Network
    BY <1>2 DEF Network, Timeout, Unavailable, receiver
<1>3. CASE Owner
    BY <1>3 DEF Owner, Begin, Repair, Answer, Deploy, ServerError, Lose, receiver
<1>4. CASE LateRotation \/ Tick \/ UNCHANGED vars
    BY <1>4 DEF LateRotation, Tick, vars, receiver
<1> QED
    BY <1>1, <1>2, <1>3, <1>4 DEF Next

\* What is processed is recent and signed with the receiver's secret: whatever
\* the network has kept for too long does nothing.
THEOREM OnlyRecent == Spec => OnlyRecentIsProcessed
<1> DEFINE Recent ==
        \A e \in processed' \ processed :
            \E p \in Arriving :
               /\ p.signature = compute_signature(stored, p.timestamp, p.body)
               /\ p.body.event = e
               /\ Tolerance # None => time - p.timestamp <= Tolerance - skew
<1>1. ASSUME Inv, [Next]_vars
      PROVE  Recent
    <2> SUFFICES ASSUME NEW e \in processed' \ processed
                 PROVE  \E p \in Arriving :
                           /\ p.signature = compute_signature(stored, p.timestamp, p.body)
                           /\ p.body.event = e
                           /\ Tolerance # None => time - p.timestamp <= Tolerance - skew
        OBVIOUS
    <2>1. PICK p \in posts : Arrive(p)
        BY <1>1, ProcessedByArrive
    <2>2. p \in Arriving
        BY <2>1 DEF Arrive, Arriving
    <2>3. construct_event(p, stored) # None
        BY <2>1 DEF Arrive
    <2>4. p.body.event = e
        BY <2>1, <2>3, ConstructedEvent DEF Arrive
    <2>5. /\ p.signature = compute_signature(stored, p.timestamp, p.body)
          /\ WithinTolerance(time + skew, p.timestamp)
        BY <2>3, ConstructedEvent
    <2>6. time \in Nat /\ skew \in Int /\ p.timestamp \in Nat
        BY <1>1 DEF Inv, Typed, IsPost
    <2>7. Tolerance # None => time - p.timestamp <= Tolerance - skew
        BY <2>5, <2>6 DEF WithinTolerance, Abs
    <2> QED
        BY <2>2, <2>4, <2>5, <2>7
<1>2. Inv /\ [Next]_vars => [Recent]_vars
    BY <1>1
<1> QED
    BY <1>2, InvHolds, PTL DEF Spec, OnlyRecentIsProcessed

\* A prompt POST under the receiver's secret is accepted, whichever way the
\* clocks differ, as long as they do by no more than the tolerance.
THEOREM PromptAccepted == Spec => PromptIsDelivered
<1> DEFINE Prompt ==
        \A p \in Arriving :
            (/\ p.open /\ time = p.timestamp
             /\ p.signature = compute_signature(stored, p.timestamp, p.body)
             /\ Tolerance # None => Abs(skew) <= Tolerance) =>
               delivery'[p.body.event].status = "delivered"
<1>1. ASSUME Inv, [Next]_vars
      PROVE  Prompt
    <2> SUFFICES ASSUME NEW p \in Arriving,
                        p.open, time = p.timestamp,
                        p.signature = compute_signature(stored, p.timestamp, p.body),
                        Tolerance # None => Abs(skew) <= Tolerance
                 PROVE  delivery'[p.body.event].status = "delivered"
        OBVIOUS
    <2>1. Arrive(p) /\ p \in posts
        BY <1>1, ArrivingIsArrive DEF Arriving
    <2>2. time \in Nat /\ skew \in Int /\ p.body.event \in Events
        BY <1>1, <2>1 DEF Inv, Typed, IsPost
    <2>3. WithinTolerance(time + skew, p.timestamp)
        BY <2>2 DEF WithinTolerance, Abs
    <2>4. construct_event(p, stored) # None
        BY <2>2, <2>3, NoneAssumption DEF construct_event, verify_signature, envelope
    <2>5. Concludes(p.body.event, TRUE)
        BY <2>1, <2>4 DEF Arrive
    <2> QED
        BY <1>1, <2>2, <2>5, ConcludesTyped DEF Inv
<1>2. Inv /\ [Next]_vars => [Prompt]_vars
    BY <1>1
<1> QED
    BY <1>2, InvHolds, PTL DEF Spec, PromptIsDelivered

----------------------------------------------------------------------------
(* The books of the outbox, and that a secret is always left to be minted. *)

\* A delivery under way is pending and has attempts left.
DeliveriesKept ==
    \A e \in Events :
        /\ delivery[e].attempts <= MaxAttempts
        /\ delivery[e].open => delivery[e].status = "pending"
        /\ delivery[e].status \in {"none", "pending"} => delivery[e].attempts < MaxAttempts

Dropped(ps) == {p \in ps : ~p.open}

\* An open POST is the attempt at its event's delivery that is open, the only
\* one; the others each had a fault.
PostsKept ==
    /\ \A p \in posts : p.timestamp <= time
    /\ \A p \in posts : p.open => delivery[p.body.event].open
    /\ \A p, q \in posts : p.open /\ q.open /\ p.body.event = q.body.event => p = q
    /\ IsFiniteSet(posts) /\ drops <= MaxDrops
    /\ Cardinality(Dropped(posts)) <= drops

SecretsKept == webhook.secret \in Secrets /\ stored \in Secrets /\ owner.secret \in Secrets

NumbersKept ==
    /\ time <= MaxTime /\ skew \in Skews
    /\ webhook.active \in BOOLEAN /\ webhook.failures \in 0..DisableAfter
    /\ owner.attempt \in 0..MaxRetries

\* Each rotation that is late was an attempt that failed.
LateKept ==
    /\ budget = [calls |-> budget.calls, faults |-> budget.faults]
    /\ budget.faults \in 0..MaxFaults
    /\ late \in 0..budget.faults

LEMMA LateInv == Spec => []LateKept
<1>1. Init => LateKept
    BY DEF Init, LateKept
<1>2. LateKept /\ [Next]_vars => LateKept'
    <2> SUFFICES ASSUME LateKept, [Next]_vars PROVE LateKept'
        OBVIOUS
    <2>1. CASE Server
        BY <2>1 DEF Server, Emit, Attempt, Discard, client, LateKept
    <2>2. CASE Network
        BY <2>2 DEF Network, Arrive, Timeout, Unavailable, client, LateKept
    <2>3. CASE Owner
        <3>1. ASSUME NEW c, Begin(c) PROVE LateKept'
            BY <3>1 DEF Begin, LateKept
        <3>2. CASE (\E c : Repair(c)) \/ Answer \/ Deploy
            BY <3>2 DEF Repair, Answer, Deploy, client, LateKept
        <3>3. ASSUME NEW applied \in BOOLEAN, ServerError(applied) \/ Lose(applied)
              PROVE  LateKept'
            <4>1. Fails /\ MayComeLate(applied)
                BY <3>3 DEF ServerError, Lose
            <4>2. /\ budget' = [budget EXCEPT !.faults = @ + 1]
                  /\ budget.faults < MaxFaults
                  /\ late' \in {late, late + 1}
                BY <4>1 DEF Fails, MayComeLate
            <4> QED
                BY <4>2 DEF LateKept
        <3> QED
            BY <2>3, <3>1, <3>2, <3>3 DEF Owner
    <2>4. CASE LateRotation
        BY <2>4 DEF LateRotation, LateKept
    <2>5. CASE Tick \/ UNCHANGED vars
        BY <2>5 DEF Tick, client, vars, LateKept
    <2> QED
        BY <2>1, <2>2, <2>3, <2>4, <2>5 DEF Next
<1> QED
    BY <1>1, <1>2, PTL DEF Spec

Books == DeliveriesKept /\ PostsKept /\ SecretsKept /\ NumbersKept

LEMMA BooksInit == Init => Books
<1> SUFFICES ASSUME Init PROVE Books
    OBVIOUS
<1>1. DeliveriesKept
    BY DEF Init, DeliveriesKept
<1>2. PostsKept
  <2>1. Dropped(posts) = {} /\ posts = {}
      BY DEF Init, Dropped
  <2> QED
      BY <2>1, FS_EmptySet DEF Init, PostsKept
<1>3. SecretsKept
  <2>1. Secrets # {}
    <3>1. IsFiniteSet({}) /\ Cardinality({}) = 0
        BY FS_EmptySet
    <3>2. IsFiniteSet(Events) => Cardinality(Events) \in Nat
        BY FS_CardinalityType
    <3> QED
        BY <3>1, <3>2, SecretsAssumption
  <2>2. FirstSecret \in Secrets
      BY <2>1 DEF FirstSecret
  <2> QED
      BY <2>2 DEF Init, SecretsKept
<1>4. NumbersKept
    BY DEF Init, NumbersKept
<1> QED
    BY <1>1, <1>2, <1>3, <1>4 DEF Books

\* Of each event there is one open POST at most.
LEMMA FewPosts ==
    ASSUME Typed, PostsKept, IsFiniteSet(Events)
    PROVE  /\ Cardinality(posts) \in Nat
           /\ Cardinality(posts) <= Cardinality(Events) + MaxDrops
<1> DEFINE Open == {p \in posts : p.open}
           of == [p \in Open |-> p.body.event]
<1>1. /\ IsFiniteSet(posts) /\ Cardinality(posts) \in Nat
      /\ IsFiniteSet(Open) /\ IsFiniteSet(Dropped(posts))
    BY FS_Subset, FS_CardinalityType DEF PostsKept, Dropped
<1>2. /\ Cardinality(Open) \in Nat /\ Cardinality(Dropped(posts)) \in Nat
      /\ Cardinality(Open \cap Dropped(posts)) = 0
  <2>1. Open \cap Dropped(posts) = {}
      BY DEF Dropped
  <2> QED
      BY <1>1, <2>1, FS_CardinalityType, FS_EmptySet
<1>3. of \in Injection(Open, Events)
  <2>1. of \in [Open -> Events]
      BY DEF Typed, IsPost
  <2>2. \A p, q \in Open : of[p] = of[q] => p = q
      BY DEF PostsKept
  <2> QED
      BY <2>1, <2>2, Fun_IsInj
<1>4. Cardinality(Open) <= Cardinality(Events) /\ Cardinality(Events) \in Nat
    BY <1>3, FS_Injection, FS_CardinalityType
<1>5. Cardinality(posts) = Cardinality(Open) + Cardinality(Dropped(posts))
  <2>1. posts = Open \cup Dropped(posts)
      BY DEF Dropped
  <2>2. Cardinality(Open \cup Dropped(posts)) =
          Cardinality(Open) + Cardinality(Dropped(posts))
            - Cardinality(Open \cap Dropped(posts))
      BY <1>1, FS_Union
  <2>3. /\ Cardinality(Open \cap Dropped(posts)) = 0
        /\ Cardinality(Open) \in Nat /\ Cardinality(Dropped(posts)) \in Nat
      BY <1>2
  <2>4. Cardinality(posts) = Cardinality(Open \cup Dropped(posts))
      BY <2>1
  <2> HIDE DEF Open
  <2> QED
      BY <2>2, <2>3, <2>4
<1>6. Cardinality(Dropped(posts)) <= MaxDrops
  <2>1. Cardinality(Dropped(posts)) <= drops /\ drops <= MaxDrops /\ drops \in Nat
      BY DEF PostsKept, Typed
  <2> QED
      BY <1>2, <2>1
<1> HIDE DEF Open, of
<1> QED
    BY <1>1, <1>2, <1>4, <1>5, <1>6

\* A secret is left that nobody has.
LEMMA SecretIsLeft ==
    ASSUME Typed, Books PROVE NewSecret \in Secrets
<1> DEFINE Held == {webhook.secret, stored, owner.secret}
           Signing == {p.signature[1] : p \in posts}
           by == [p \in posts |-> p.signature[1]]
<1>1. by \in Surjection(posts, Signing)
    BY DEF Surjection
<1>2. IsFiniteSet(posts) /\ IsFiniteSet(Signing) /\ Cardinality(Signing) <= Cardinality(posts)
    BY <1>1, FS_Surjection DEF Books, PostsKept
<1>3. IsFiniteSet(Held) /\ Cardinality(Held) <= 3 /\ Cardinality(Held) \in Nat
  <2>1. IsFiniteSet({}) /\ Cardinality({}) = 0
      BY FS_EmptySet
  <2>2. IsFiniteSet({webhook.secret}) /\ Cardinality({webhook.secret}) = 1
      BY FS_Singleton
  <2>3. /\ IsFiniteSet({webhook.secret} \cup {stored})
        /\ Cardinality({webhook.secret} \cup {stored}) \in {1, 2}
      BY <2>2, FS_AddElement
  <2> DEFINE Two == {webhook.secret} \cup {stored}
  <2> HIDE DEF Two
  <2>4. /\ IsFiniteSet(Two \cup {owner.secret})
        /\ Cardinality(Two \cup {owner.secret}) =
             IF owner.secret \in Two THEN Cardinality(Two) ELSE Cardinality(Two) + 1
      BY <2>3, FS_AddElement DEF Two
  <2>5. Cardinality(Two) \in {1, 2}
      BY <2>3 DEF Two
  <2>6. Held = Two \cup {owner.secret}
      BY DEF Two
  <2>7. Cardinality(Held) \in {1, 2, 3}
      BY <2>4, <2>5, <2>6
  <2> QED
      BY <2>4, <2>6, <2>7
<1>4. /\ IsFiniteSet(Held \cup Signing)
      /\ Cardinality(Held \cup Signing) <= Cardinality(Held) + Cardinality(Signing)
      /\ Cardinality(Held \cup Signing) \in Nat /\ Cardinality(Signing) \in Nat
  <2>1. IsFiniteSet(Held \cap Signing)
      BY <1>2, FS_Subset
  <2>2. /\ IsFiniteSet(Held \cup Signing)
        /\ Cardinality(Held \cup Signing) =
             Cardinality(Held) + Cardinality(Signing) - Cardinality(Held \cap Signing)
      BY <1>2, <1>3, FS_Union
  <2>3. /\ Cardinality(Held \cap Signing) \in Nat /\ Cardinality(Signing) \in Nat
        /\ Cardinality(Held \cup Signing) \in Nat
      BY <1>2, <2>1, <2>2, FS_CardinalityType
  <2> HIDE DEF Held, Signing
  <2> QED
      BY <1>3, <2>2, <2>3
<1>5. ~(Secrets \subseteq Held \cup Signing)
  <2> SUFFICES ASSUME Secrets \subseteq Held \cup Signing PROVE FALSE
      OBVIOUS
  <2>1. IsFiniteSet(Secrets) /\ Cardinality(Secrets) <= Cardinality(Held \cup Signing)
      BY <1>4, FS_Subset
  <2>2. IsFiniteSet(Events) /\ Cardinality(Secrets) > 3 + Cardinality(Events) + MaxDrops
      BY <2>1, SecretsAssumption
  <2>3. /\ Cardinality(posts) <= Cardinality(Events) + MaxDrops
        /\ Cardinality(posts) \in Nat /\ Cardinality(Events) \in Nat
        /\ Cardinality(Secrets) \in Nat
      BY <2>1, <2>2, FewPosts, FS_CardinalityType DEF Books
  <2> HIDE DEF Held, Signing
  <2> QED
      BY <1>2, <1>3, <1>4, <2>1, <2>2, <2>3
<1>6. PICK s \in Secrets : s \notin Held /\ s \notin Signing
    BY <1>5
<1>7. \A p \in posts : p.signature # compute_signature(s, p.timestamp, p.body)
  <2> SUFFICES ASSUME NEW p \in posts, p.signature = <<s, p.timestamp, p.body>> PROVE FALSE
      BY DEF compute_signature
  <2>1. p.signature[1] = s
      OBVIOUS
  <2> QED
      BY <1>6, <2>1
<1> QED
    BY <1>6, <1>7 DEF NewSecret

----------------------------------------------------------------------------
(* The books are kept.                                                     *)

\* The conclusion of the attempt that a POST was.
LEMMA ConcludesBooks ==
    ASSUME Typed, Books, NEW p \in posts, p.open, NEW ok \in BOOLEAN,
           Concludes(p.body.event, ok)
    PROVE  /\ DeliveriesKept'
           /\ webhook'.active \in BOOLEAN /\ webhook'.failures \in 0..DisableAfter
           /\ \A q \in posts \ {p} : q.open => delivery'[q.body.event].open
<1> DEFINE e == p.body.event
           d == delivery[e]
           new == Concluded(d, ok)
<1>1. e \in Events /\ d \in Deliveries /\ d.open
    BY DEF Typed, IsPost, Books, PostsKept
<1>2. d.status = "pending" /\ d.attempts \in Nat /\ d.attempts < MaxAttempts
    BY <1>1 DEF Books, DeliveriesKept, Deliveries
<1>3. /\ new.attempts = d.attempts + 1 /\ ~new.open
      /\ new.status = "pending" => d.attempts + 1 # MaxAttempts
      /\ new.status # "none"
    <2>1. CASE ok
        BY <1>1, <1>2, <2>1 DEF Concluded, Deliveries
    <2>2. CASE ~ok
        BY <1>1, <1>2, <2>2 DEF Concluded, Deliveries
    <2> QED
        BY <2>1, <2>2
<1>4. delivery' = [delivery EXCEPT ![e] = new] /\ delivery \in [Events -> Deliveries]
    BY DEF Concludes, Typed
<1>5. delivery'[e] = new /\ \A x \in Events \ {e} : delivery'[x] = delivery[x]
    BY <1>1, <1>4
<1>6. DeliveriesKept'
  <2> SUFFICES ASSUME NEW x \in Events
               PROVE  /\ delivery'[x].attempts <= MaxAttempts
                      /\ delivery'[x].open => delivery'[x].status = "pending"
                      /\ delivery'[x].status \in {"none", "pending"} =>
                           delivery'[x].attempts < MaxAttempts
      BY DEF DeliveriesKept
  <2>1. CASE x = e
      BY <1>2, <1>3, <1>5, <2>1
  <2>2. CASE x # e
      BY <1>5, <2>2 DEF Books, DeliveriesKept
  <2> QED
      BY <2>1, <2>2
<1>7. webhook'.active \in BOOLEAN /\ webhook'.failures \in 0..DisableAfter
  <2>1. /\ IsWebhook(webhook) /\ webhook.active \in BOOLEAN
        /\ webhook.failures \in 0..DisableAfter
      BY DEF Typed, Books, NumbersKept
  <2>2. CASE ok
      BY <2>1, <2>2 DEF Concludes, IsWebhook
  <2>3. CASE ~ok
      BY <2>1, <2>3 DEF Concludes, IsWebhook
  <2> QED
      BY <2>2, <2>3
<1>8. ASSUME NEW q \in posts \ {p}, q.open
      PROVE  delivery'[q.body.event].open
  <2>1. q.body.event \in Events /\ q.body.event # e /\ delivery[q.body.event].open
      BY <1>8 DEF Typed, IsPost, Books, PostsKept
  <2> QED
      BY <1>5, <2>1
<1> QED
    BY <1>6, <1>7, <1>8

\* POSTs are under way, time goes on, and no open delivery is closed.
LEMMA PostsStay ==
    ASSUME Typed, PostsKept, UNCHANGED <<posts, drops>>, time' \in Nat, time <= time',
           \A e \in Events : delivery[e].open => delivery'[e].open
    PROVE  PostsKept'
<1>1. \A p \in posts : p.timestamp \in Nat /\ p.body.event \in Events
    BY DEF Typed, IsPost
<1>2. \A p \in posts' : p.timestamp <= time'
    BY <1>1 DEF PostsKept, Typed
<1>3. \A p \in posts' : p.open => delivery'[p.body.event].open
    BY <1>1 DEF PostsKept
<1>4. Dropped(posts') = Dropped(posts)
    BY DEF Dropped
<1> QED
    BY <1>2, <1>3, <1>4 DEF PostsKept

\* A POST has arrived, or is lost.
LEMMA PostLeaves ==
    ASSUME Typed, PostsKept, NEW p \in posts, posts' = posts \ {p}, UNCHANGED time,
           drops' \in {drops, drops + 1}, drops' <= MaxDrops,
           \A q \in posts \ {p} : q.open => delivery'[q.body.event].open
    PROVE  PostsKept'
<1>1. IsFiniteSet(posts) /\ IsFiniteSet(Dropped(posts))
    BY FS_Subset DEF PostsKept, Dropped
<1>2. IsFiniteSet(posts')
    BY <1>1, FS_Subset
<1>3. Dropped(posts') \subseteq Dropped(posts)
    BY DEF Dropped
<1>4. /\ Cardinality(Dropped(posts')) <= Cardinality(Dropped(posts))
      /\ Cardinality(Dropped(posts)) \in Nat /\ IsFiniteSet(Dropped(posts'))
    BY <1>1, <1>3, FS_Subset, FS_CardinalityType
<1>5. Cardinality(Dropped(posts')) \in Nat
    BY <1>4, FS_CardinalityType
<1>6. Cardinality(Dropped(posts')) <= drops'
    BY <1>4, <1>5 DEF PostsKept, Typed
<1> QED
    BY <1>2, <1>6 DEF PostsKept

\* A POST whose answer comes too late goes on, as one that had a fault.
LEMMA PostGoesOn ==
    ASSUME Typed, PostsKept, NEW p \in posts, p.open, NEW late_p,
           late_p.timestamp = p.timestamp, ~late_p.open,
           posts' = (posts \ {p}) \cup {late_p}, UNCHANGED time,
           drops' = drops + 1, drops' <= MaxDrops,
           \A q \in posts \ {p} : q.open => delivery'[q.body.event].open
    PROVE  PostsKept'
<1>1. IsFiniteSet(posts) /\ IsFiniteSet(Dropped(posts))
    BY FS_Subset DEF PostsKept, Dropped
<1>2. IsFiniteSet(posts')
  <2>1. IsFiniteSet(posts \ {p})
      BY <1>1, FS_Subset
  <2> QED
      BY <2>1, FS_AddElement
<1>3. Dropped(posts') = Dropped(posts) \cup {late_p}
    BY DEF Dropped
<1>4. Cardinality(Dropped(posts)) \in Nat
    BY <1>1, FS_CardinalityType
<1>5. Cardinality(Dropped(posts) \cup {late_p}) =
        IF late_p \in Dropped(posts) THEN Cardinality(Dropped(posts))
        ELSE Cardinality(Dropped(posts)) + 1
    BY <1>1, FS_AddElement
<1>6. Cardinality(Dropped(posts')) <= drops'
  <2>1. Cardinality(Dropped(posts')) = Cardinality(Dropped(posts) \cup {late_p})
      BY <1>3
  <2>2. Cardinality(Dropped(posts)) <= drops /\ drops \in Nat /\ drops' = drops + 1
      BY DEF PostsKept, Typed
  <2> QED
      BY <1>4, <1>5, <2>1, <2>2
<1>7. \A q \in posts' : q.timestamp <= time'
    BY DEF PostsKept
<1>8. \A q, r \in posts' : q.open /\ r.open /\ q.body.event = r.body.event => q = r
    BY DEF PostsKept
<1>9. \A q \in posts' : q.open => delivery'[q.body.event].open
    OBVIOUS
<1> QED
    BY <1>2, <1>6, <1>7, <1>8, <1>9 DEF PostsKept

LEMMA EmitBooks ==
    ASSUME Inv, Books, NEW e \in Events, Emit(e)
    PROVE  Books'
<1>1. /\ delivery \in [Events -> Deliveries] /\ delivery[e].status = "none"
      /\ delivery' = [delivery EXCEPT ![e].status = "pending"]
    BY DEF Emit, Inv, Typed
<1>2. \A x \in Events : /\ delivery'[x].attempts = delivery[x].attempts
                        /\ delivery'[x].open = delivery[x].open
                        /\ x # e => delivery'[x] = delivery[x]
                        /\ x = e => delivery'[x].status = "pending"
    BY <1>1 DEF Deliveries
<1>3. DeliveriesKept'
    BY <1>1, <1>2 DEF Books, DeliveriesKept
<1>4. PostsKept'
    BY <1>2, PostsStay DEF Emit, Inv, Typed, Books
<1>5. SecretsKept' /\ NumbersKept'
    BY DEF Emit, Books, SecretsKept, NumbersKept, receiver, client
<1> QED
    BY <1>3, <1>4, <1>5 DEF Books

LEMMA DiscardBooks ==
    ASSUME Inv, Books, NEW e \in Events, Discard(e)
    PROVE  Books'
<1>1. /\ delivery \in [Events -> Deliveries] /\ ~delivery[e].open
      /\ delivery' = [delivery EXCEPT ![e].status = "failed"]
    BY DEF Discard, Inv, Typed
<1>2. \A x \in Events : /\ delivery'[x].attempts = delivery[x].attempts
                        /\ delivery'[x].open = delivery[x].open
                        /\ x # e => delivery'[x] = delivery[x]
                        /\ x = e => delivery'[x].status = "failed"
    BY <1>1 DEF Deliveries
<1>3. DeliveriesKept'
    BY <1>1, <1>2 DEF Books, DeliveriesKept
<1>4. PostsKept'
    BY <1>2, PostsStay DEF Discard, Inv, Typed, Books
<1>5. SecretsKept' /\ NumbersKept'
    BY DEF Discard, Books, SecretsKept, NumbersKept, receiver, client
<1> QED
    BY <1>3, <1>4, <1>5 DEF Books

\* An attempt is made of a delivery that has no other one open.
LEMMA AttemptBooks ==
    ASSUME Inv, Books, NEW e \in Events, Attempt(e)
    PROVE  Books'
<1>1. /\ delivery \in [Events -> Deliveries]
      /\ delivery[e].status = "pending" /\ ~delivery[e].open
      /\ delivery' = [delivery EXCEPT ![e].open = TRUE]
    BY DEF Attempt, Inv, Typed
<1>2. \A x \in Events : /\ delivery'[x].attempts = delivery[x].attempts
                        /\ delivery'[x].status = delivery[x].status
                        /\ x # e => delivery'[x] = delivery[x]
                        /\ x = e => delivery'[x].open
    BY <1>1 DEF Deliveries
<1>3. DeliveriesKept'
    BY <1>1, <1>2 DEF Books, DeliveriesKept
<1>4. PICK new : /\ new.body.event = e /\ new.timestamp = time /\ new.open
                 /\ posts' = posts \cup {new}
    BY DEF Attempt, Post
<1>5. \A p \in posts : p.body.event \in Events /\ (p.open => p.body.event # e)
    BY <1>1 DEF Books, PostsKept, Inv, Typed, IsPost
<1>6. PostsKept'
  <2>1. \A p \in posts' : p.timestamp <= time'
      BY <1>4 DEF Attempt, Books, PostsKept, Inv, Typed
  <2>2. \A p \in posts' : p.open => delivery'[p.body.event].open
      BY <1>2, <1>4, <1>5 DEF Books, PostsKept
  <2>3. \A p, q \in posts' : p.open /\ q.open /\ p.body.event = q.body.event => p = q
      BY <1>4, <1>5 DEF Books, PostsKept
  <2>4. IsFiniteSet(posts')
      BY <1>4, FS_AddElement DEF Books, PostsKept
  <2>5. Dropped(posts') = Dropped(posts) /\ drops' = drops
      BY <1>4 DEF Attempt, Dropped
  <2> QED
      BY <2>1, <2>2, <2>3, <2>4, <2>5 DEF Books, PostsKept
<1>7. SecretsKept' /\ NumbersKept'
    BY DEF Attempt, Books, SecretsKept, NumbersKept, receiver, client
<1> QED
    BY <1>3, <1>6, <1>7 DEF Books

LEMMA TimeoutBooks ==
    ASSUME Inv, Books, NEW p \in posts, Timeout(p)
    PROVE  Books'
<1>1. /\ p.open /\ Concludes(p.body.event, FALSE) /\ drops' = drops + 1
      /\ drops' <= MaxDrops /\ UNCHANGED time /\ Typed
  <2>1. p.open /\ Concludes(p.body.event, FALSE) /\ Drops /\ UNCHANGED time
      BY DEF Timeout
  <2>2. Typed /\ drops \in Nat
      BY DEF Inv, Typed
  <2>3. drops' = drops + 1 /\ drops' <= MaxDrops
      BY <2>1, <2>2 DEF Drops
  <2> QED
      BY <2>1, <2>2, <2>3
<1>2. /\ DeliveriesKept'
      /\ webhook'.active \in BOOLEAN /\ webhook'.failures \in 0..DisableAfter
      /\ \A q \in posts \ {p} : q.open => delivery'[q.body.event].open
    BY <1>1, ConcludesBooks
<1>3. webhook'.secret = webhook.secret
  <2>1. p.body.event \in Events
      BY <1>1 DEF Typed, IsPost
  <2> QED
      BY <1>1, <2>1, ConcludesTyped
<1>4. PostsKept'
  <2>1. PICK comes \in BOOLEAN :
          posts' = (posts \ {p}) \cup
                     {[q EXCEPT !.open = FALSE] : q \in IF comes THEN {p} ELSE {}}
      BY DEF Timeout
  <2>2. CASE comes
    <3>1. IsPost(p)
        BY <1>1 DEF Typed
    <3>2. PICK late_p : /\ late_p.timestamp = p.timestamp /\ ~late_p.open
                        /\ late_p = [p EXCEPT !.open = FALSE]
        BY <3>1 DEF IsPost
    <3>3. posts' = (posts \ {p}) \cup {late_p}
        BY <2>1, <2>2, <3>2
    <3> QED
        BY <1>1, <1>2, <3>2, <3>3, PostGoesOn DEF Books
  <2>3. CASE ~comes
    <3>1. posts' = posts \ {p}
        BY <2>1, <2>3
    <3> QED
        BY <1>1, <1>2, <3>1, PostLeaves DEF Books
  <2> QED
      BY <2>2, <2>3
<1>5. SecretsKept' /\ NumbersKept'
    BY <1>2, <1>3 DEF Timeout, Books, SecretsKept, NumbersKept, receiver, client
<1> QED
    BY <1>2, <1>4, <1>5 DEF Books

LEMMA ArriveBooks ==
    ASSUME Inv, Books, NEW p \in posts, Arrive(p)
    PROVE  Books'
<1> DEFINE event == construct_event(p, stored)
<1>1. /\ posts' = posts \ {p} /\ UNCHANGED <<time, skew, drops, stored, owner>> /\ Typed
      /\ p.body.event \in Events
    BY DEF Arrive, client, Inv, Typed, IsPost
<1>2. /\ DeliveriesKept'
      /\ webhook'.active \in BOOLEAN /\ webhook'.failures \in 0..DisableAfter
      /\ webhook'.secret = webhook.secret
      /\ \A q \in posts \ {p} : q.open => delivery'[q.body.event].open
  <2>1. CASE p.open
    <3>1. Concludes(p.body.event, event # None)
        BY <2>1 DEF Arrive
    <3> QED
        BY <1>1, <2>1, <3>1, ConcludesBooks, ConcludesTyped
  <2>2. CASE ~p.open
    <3>1. UNCHANGED <<delivery, webhook>>
        BY <2>2 DEF Arrive
    <3> QED
        BY <3>1 DEF Books, DeliveriesKept, NumbersKept, PostsKept
  <2> QED
      BY <2>1, <2>2
<1>3. PostsKept'
    BY <1>1, <1>2, PostLeaves DEF Books, PostsKept
<1>4. SecretsKept' /\ NumbersKept'
    BY <1>1, <1>2 DEF Books, SecretsKept, NumbersKept
<1> QED
    BY <1>2, <1>3, <1>4 DEF Books

LEMMA UnavailableBooks ==
    ASSUME Inv, Books, NEW p \in posts, Unavailable(p)
    PROVE  Books'
<1>1. /\ posts' = posts \ {p} /\ UNCHANGED <<time, skew, stored, owner>> /\ Typed
      /\ drops' = drops + 1 /\ drops' <= MaxDrops /\ p.body.event \in Events
    BY DEF Unavailable, Drops, receiver, client, Inv, Typed, IsPost
<1>2. /\ DeliveriesKept'
      /\ webhook'.active \in BOOLEAN /\ webhook'.failures \in 0..DisableAfter
      /\ webhook'.secret = webhook.secret
      /\ \A q \in posts \ {p} : q.open => delivery'[q.body.event].open
  <2>1. CASE p.open
    <3>1. Concludes(p.body.event, FALSE)
        BY <2>1 DEF Unavailable
    <3> QED
        BY <1>1, <2>1, <3>1, ConcludesBooks, ConcludesTyped
  <2>2. CASE ~p.open
    <3>1. UNCHANGED <<delivery, webhook>>
        BY <2>2 DEF Unavailable
    <3> QED
        BY <3>1 DEF Books, DeliveriesKept, NumbersKept, PostsKept
  <2> QED
      BY <2>1, <2>2
<1>3. PostsKept'
    BY <1>1, <1>2, PostLeaves DEF Books
<1>4. SecretsKept' /\ NumbersKept'
    BY <1>1, <1>2 DEF Books, SecretsKept, NumbersKept
<1> QED
    BY <1>2, <1>3, <1>4 DEF Books

\* What a request does to the outbox: the deliveries that it sends again are not
\* under way, and a new secret is one that is left.
LEMMA ServeBooks ==
    ASSUME Typed, Books, owner.call # Idle, NEW applied \in BOOLEAN, Reaches(applied)
    PROVE  /\ DeliveriesKept' /\ webhook'.secret \in Secrets
           /\ webhook'.active \in BOOLEAN /\ webhook'.failures \in 0..DisableAfter
           /\ \A e \in Events : delivery[e].open => delivery'[e].open
<1> DEFINE c == owner.call
           a == Serve(c)
<1>1. PICK op \in Operations, mode \in {"live", "test"}, e \in Events \cup {None} :
           c = Call(op, mode, e)
    BY DEF Typed, IsCall
<1>2. c.op = op /\ c.mode = mode
    BY <1>1 DEF Call
<1>3. /\ IsWebhook(webhook) /\ delivery \in [Events -> Deliveries]
      /\ DeliveriesKept /\ webhook.secret \in Secrets
      /\ webhook.active \in BOOLEAN /\ webhook.failures \in 0..DisableAfter
    BY DEF Typed, Books, SecretsKept, NumbersKept
<1>4. ASSUME NEW es, \A x \in es \cap Events : delivery[x].status # "pending",
             delivery' = Resend(es).delivery
      PROVE  DeliveriesKept' /\ \A x \in Events : delivery[x].open => delivery'[x].open
  <2> SUFFICES ASSUME NEW x \in Events
               PROVE  /\ delivery'[x].attempts <= MaxAttempts
                      /\ delivery'[x].open => delivery'[x].status = "pending"
                      /\ delivery'[x].status \in {"none", "pending"} =>
                           delivery'[x].attempts < MaxAttempts
                      /\ delivery[x].open => delivery'[x].open
      BY DEF DeliveriesKept
  <2>1. delivery'[x] = IF x \in es THEN Redelivered ELSE delivery[x]
      BY <1>4 DEF Resend, Says
  <2>2. CASE x \in es
    <3>1. ~delivery[x].open
        BY <1>3, <1>4, <2>2 DEF DeliveriesKept
    <3>2. /\ delivery'[x].status = "pending" /\ delivery'[x].attempts = 0
          /\ ~delivery'[x].open
        BY <2>1, <2>2 DEF Redelivered
    <3> QED
        BY <3>1, <3>2
  <2>3. CASE x \notin es
      BY <1>3, <2>1, <2>3 DEF DeliveriesKept
  <2> QED
      BY <2>2, <2>3
<1>5. CASE UNCHANGED <<webhook, delivery>>
    BY <1>3, <1>5 DEF DeliveriesKept
<1>6. CASE applied /\ mode = "test"
  <2>1. a.webhook = webhook /\ a.delivery = delivery
      BY <1>2, <1>6 DEF Serve, Says
  <2> QED
      BY <1>5, <1>6, <2>1 DEF Reaches
<1>7. CASE applied /\ mode = "live" /\ op = "rotate"
  <2>1. a.webhook = [webhook EXCEPT !.secret = NewSecret] /\ a.delivery = delivery
      BY <1>2, <1>7 DEF Serve, Says
  <2>2. /\ webhook' = [webhook EXCEPT !.secret = NewSecret] /\ delivery' = delivery
        /\ NewSecret \in Secrets
      BY <1>7, <2>1, SecretIsLeft DEF Reaches
  <2> QED
      BY <1>3, <2>2 DEF IsWebhook, DeliveriesKept
<1>8. CASE applied /\ mode = "live" /\ op = "enable"
  <2>1. /\ a.webhook = [webhook EXCEPT !.active = TRUE, !.failures = 0]
        /\ a.delivery = delivery
      BY <1>2, <1>8 DEF Serve, Says
  <2>2. /\ webhook' = [webhook EXCEPT !.active = TRUE, !.failures = 0]
        /\ delivery' = delivery
      BY <1>8, <2>1 DEF Reaches
  <2> QED
      BY <1>3, <2>2 DEF IsWebhook, DeliveriesKept
<1>9. CASE applied /\ mode = "live" /\ op = "retry_failed"
  <2> DEFINE missed == {x \in Events : delivery[x].status = "failed"}
  <2>1. CASE ~webhook.active
    <3>1. a.webhook = webhook /\ a.delivery = delivery
        BY <1>2, <1>9, <2>1 DEF Serve, Says
    <3> QED
        BY <1>5, <1>9, <3>1 DEF Reaches
  <2>2. CASE webhook.active
    <3>1. a = Resend(Oldest(missed))
        BY <1>2, <1>9, <2>2 DEF Serve
    <3>2. \A x \in Oldest(missed) \cap Events : delivery[x].status # "pending"
        BY DEF Oldest
    <3>3. delivery' = Resend(Oldest(missed)).delivery /\ webhook' = webhook
        BY <1>9, <3>1 DEF Reaches, Resend, Says
    <3> QED
        BY <1>3, <1>4, <3>2, <3>3
  <2> QED
      BY <1>3, <2>1, <2>2
<1>10. CASE applied /\ mode = "live" /\ op = "replay"
  <2>1. CASE ~webhook.active \/ delivery[c.event].status = "pending"
    <3>1. a.webhook = webhook /\ a.delivery = delivery
        BY <1>2, <1>10, <2>1 DEF Serve, Says
    <3> QED
        BY <1>5, <1>10, <3>1 DEF Reaches
  <2>2. CASE ~(~webhook.active \/ delivery[c.event].status = "pending")
    <3>1. a = Resend({c.event})
        BY <1>2, <1>10, <2>2 DEF Serve
    <3>2. \A x \in {c.event} \cap Events : delivery[x].status # "pending"
        BY <2>2
    <3>3. delivery' = Resend({c.event}).delivery /\ webhook' = webhook
        BY <1>10, <3>1 DEF Reaches, Resend, Says
    <3> QED
        BY <1>3, <1>4, <3>2, <3>3
  <2> QED
      BY <2>1, <2>2
<1>11. CASE ~applied
    BY <1>5, <1>11 DEF Reaches
<1> QED
    BY <1>6, <1>7, <1>8, <1>9, <1>10, <1>11 DEF Operations

\* The owner's call, of which the result or the exception leaves a secret that
\* there is and a number of attempts that are allowed.
LEMMA CallBooks ==
    ASSUME Inv, Books, owner.call # Idle, NEW applied \in BOOLEAN, Reaches(applied),
           UNCHANGED <<time, skew, posts, drops, stored>>,
           owner'.secret \in Secrets, owner'.attempt \in 0..MaxRetries
    PROVE  Books'
<1>1. /\ DeliveriesKept' /\ webhook'.secret \in Secrets
      /\ webhook'.active \in BOOLEAN /\ webhook'.failures \in 0..DisableAfter
      /\ \A e \in Events : delivery[e].open => delivery'[e].open
    BY ServeBooks DEF Inv
<1>2. PostsKept'
    BY <1>1, PostsStay DEF Inv, Typed, Books
<1>3. SecretsKept' /\ NumbersKept'
    BY <1>1 DEF Books, SecretsKept, NumbersKept
<1> QED
    BY <1>1, <1>2, <1>3 DEF Books

LEMMA AnswerBooks ==
    ASSUME Inv, Books, Answer
    PROVE  Books'
<1> DEFINE a == Serve(owner.call)
<1>1. /\ owner.call # Idle /\ Reaches(TRUE)
      /\ UNCHANGED <<time, skew, posts, drops, stored>>
      /\ owner' = [call |-> Idle, attempt |-> 0,
                   secret |-> IF a.status = 200 THEN Learns(a) ELSE owner.secret]
    BY DEF Answer, receiver
<1>2. webhook'.secret \in Secrets /\ webhook' = a.webhook /\ owner.secret \in Secrets
    BY <1>1, ServeBooks DEF Reaches, Inv, Books, SecretsKept
<1>3. owner'.secret \in Secrets /\ owner'.attempt \in 0..MaxRetries
    BY <1>1, <1>2, ServeTyped DEF Inv
<1> QED
    BY <1>1, <1>3, CallBooks

LEMMA FailureBooks ==
    ASSUME Inv, Books, NEW applied \in BOOLEAN, ServerError(applied) \/ Lose(applied)
    PROVE  Books'
<1>1. /\ owner.call # Idle /\ Reaches(applied)
      /\ UNCHANGED <<time, skew, posts, drops, stored>>
      /\ Raises \/ (ShouldRetry /\ owner' = [owner EXCEPT !.attempt = @ + 1])
    BY DEF ServerError, Lose, receiver
<1>2. IsOwner(owner) /\ owner.secret \in Secrets /\ owner.attempt \in 0..MaxRetries
    BY DEF Inv, Typed, Books, SecretsKept, NumbersKept
<1>3. owner'.secret \in Secrets /\ owner'.attempt \in 0..MaxRetries
  <2>1. CASE Raises
      BY <1>2, <2>1 DEF Raises, IsOwner
  <2>2. CASE ShouldRetry /\ owner' = [owner EXCEPT !.attempt = @ + 1]
    <3>1. owner'.secret = owner.secret /\ owner'.attempt = owner.attempt + 1
        BY <1>2, <2>2 DEF IsOwner
    <3> QED
        BY <1>2, <2>2, <3>1 DEF ShouldRetry
  <2> QED
      BY <1>1, <2>1, <2>2
<1> QED
    BY <1>1, <1>3, CallBooks

LEMMA BeginsBooks ==
    ASSUME Inv, Books, NEW c, Begin(c) \/ Repair(c)
    PROVE  Books'
<1>1. /\ UNCHANGED <<time, skew, webhook, delivery, posts, drops, stored>>
      /\ owner' = [owner EXCEPT !.call = c, !.attempt = 0] /\ IsOwner(owner)
    BY DEF Begin, Repair, Begins, outbox, receiver, Inv, Typed
<1>2. owner'.secret = owner.secret /\ owner'.attempt = 0
    BY <1>1 DEF IsOwner
<1>3. DeliveriesKept'
    BY <1>1 DEF Books, DeliveriesKept
<1>4. PostsKept'
    BY <1>1, PostsStay DEF Inv, Typed, Books
<1>5. SecretsKept' /\ NumbersKept'
    BY <1>1, <1>2 DEF Books, SecretsKept, NumbersKept
<1> QED
    BY <1>3, <1>4, <1>5 DEF Books

\* Steps that leave the outbox and the call alone.
LEMMA RestBooks ==
    ASSUME Inv, Books, Deploy \/ LateRotation \/ Tick \/ UNCHANGED vars
    PROVE  Books'
<1>1. /\ UNCHANGED <<skew, delivery, posts, drops, owner>>
      /\ time' \in Nat /\ time <= time' /\ time' <= MaxTime
    BY DEF Deploy, LateRotation, Tick, vars, outbox, client, Inv, Typed, Books, NumbersKept
<1>2. /\ webhook'.secret \in Secrets
      /\ webhook'.active = webhook.active /\ webhook'.failures = webhook.failures
  <2>1. CASE LateRotation
      BY <2>1, SecretIsLeft DEF LateRotation, IsWebhook, Inv, Typed
  <2>2. CASE Deploy \/ Tick \/ UNCHANGED vars
      BY <2>2 DEF Deploy, Tick, vars, Books, SecretsKept
  <2> QED
      BY <2>1, <2>2
<1>3. stored' \in Secrets
    BY DEF Deploy, LateRotation, Tick, vars, receiver, Books, SecretsKept
<1>4. DeliveriesKept'
    BY <1>1 DEF Books, DeliveriesKept
<1>5. PostsKept'
    BY <1>1, PostsStay DEF Inv, Books
<1>6. SecretsKept' /\ NumbersKept'
    BY <1>1, <1>2, <1>3 DEF Books, SecretsKept, NumbersKept
<1> QED
    BY <1>4, <1>5, <1>6 DEF Books

LEMMA NextBooks ==
    ASSUME Inv, Books, [Next]_vars
    PROVE  Books'
<1>1. CASE Server
    BY <1>1, EmitBooks, AttemptBooks, DiscardBooks DEF Server
<1>2. CASE Network
    BY <1>2, ArriveBooks, TimeoutBooks, UnavailableBooks DEF Network
<1>3. CASE Owner
    BY <1>3, BeginsBooks, AnswerBooks, RestBooks, FailureBooks DEF Owner
<1>4. CASE LateRotation \/ Tick \/ UNCHANGED vars
    BY <1>4, RestBooks
<1> QED
    BY <1>1, <1>2, <1>3, <1>4 DEF Next

\* Types are kept: of each event at most one attempt is open, a delivery under
\* way has attempts left, a disabled webhook has no more failures than it takes
\* to disable it, and for every rotation there is a secret that nobody has yet,
\* however many requests are retried, lost or applied late.
THEOREM TypeCorrect == Spec => []TypeOK
<1>1. Init => Books
    BY BooksInit
<1>2. Inv /\ Books /\ [Next]_vars => Books'
    BY NextBooks
<1>3. Inv /\ Books /\ LateKept => TypeOK
  <2> SUFFICES ASSUME Inv, Books, LateKept PROVE TypeOK
      OBVIOUS
  <2>1. time \in 0..MaxTime /\ skew \in Skews /\ owner.attempt \in 0..MaxRetries
      BY DEF Inv, Typed, Books, NumbersKept
  <2>2. webhook \in [secret : Secrets, active : BOOLEAN, failures : 0..DisableAfter]
    <3>1. /\ webhook.secret \in Secrets /\ webhook.active \in BOOLEAN
          /\ webhook.failures \in 0..DisableAfter
        BY DEF Books, SecretsKept, NumbersKept
    <3> QED
        BY <3>1 DEF Inv, Typed, IsWebhook
  <2>3. ASSUME NEW e \in Events
        PROVE  /\ delivery[e].status \in Statuses
               /\ delivery[e].attempts \in 0..MaxAttempts
               /\ delivery[e].open => delivery[e].status = "pending"
    <3>1. delivery[e] \in Deliveries
        BY DEF Inv, Typed
    <3>2. /\ delivery[e].attempts <= MaxAttempts
          /\ delivery[e].open => delivery[e].status = "pending"
        BY DEF Books, DeliveriesKept
    <3>3. delivery[e].status \in Statuses /\ delivery[e].attempts \in Nat
        BY <3>1 DEF Deliveries
    <3> QED
        BY <3>1, <3>2, <3>3
  <2>4. ASSUME NEW p \in posts
        PROVE  p.body.event \in Events /\ p.timestamp \in 0..time
      BY DEF Inv, Typed, IsPost, Books, PostsKept
  <2>5. {stored, owner.secret} \subseteq Secrets \cup {None}
      BY DEF Books, SecretsKept
  <2>6. late \in 0..MaxFaults /\ processed \subseteq Events
      BY DEF LateKept, Inv, OfEvents
  <2> QED
      BY <2>1, <2>2, <2>3, <2>4, <2>5, <2>6 DEF TypeOK
<1> QED
    BY <1>1, <1>2, <1>3, InvHolds, LateInv, PTL DEF Spec
=============================================================================
