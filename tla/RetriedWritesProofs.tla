------------------------ MODULE RetriedWritesProofs ------------------------
(***************************************************************************)
(* What RetriedWrites keeps for every number of calls, every max_retries   *)
(* and every set of idempotency keys.                                      *)
(***************************************************************************)
EXTENDS RetriedWrites, FiniteSetTheorems, TLAPS

USE RetriesAssumption, BatchAssumption, KeyAssumption, CallAssumption

----------------------------------------------------------------------------
(* Types, and what a call that has not begun looks like.                   *)

Unbegun(t) ==
    /\ ~travelling[t] /\ abandoned[t] = 0
    /\ fired[t] = 0 /\ queued[t] = 0
    /\ resp[t] = NoResponse /\ result[t] = NoResponse

Begun(t) == write[t] \in Writes

\* A request is on its way only for a call that made a write.
OnlyWritesTravel ==
    \A t \in Calls : IF pc[t] = "idle" THEN Unbegun(t) ELSE Begun(t)

TypeInv == TypeOK /\ OnlyWritesTravel

LEMMA NoResponseTyped == NoResponse \in Response
BY DEF NoResponse, Answer, Response, Statuses

LEMMA TypeInit == Init => TypeInv
<1> SUFFICES ASSUME Init PROVE TypeInv
    OBVIOUS
<1>1. NoResponse \in Response /\ 0 \in 0..MaxRetries
    BY NoResponseTyped
<1>3. TypeOK
    BY <1>1 DEF Init, TypeOK
<1>2. OnlyWritesTravel
    BY DEF Init, OnlyWritesTravel, Unbegun
<1> QED
    BY <1>2, <1>3 DEF TypeInv

LEMMA WriteTypes ==
    ASSUME NEW w \in Writes
    PROVE  /\ w.on \in BOOLEAN /\ w.key \in IdKeys \cup {NoKey}
           /\ w.kind \in {"set", "open", "remove", "resend"}
<1> USE DEF NoWrite
<1>1. CASE w \in {SetAllowed(on) : on \in BOOLEAN}
    BY <1>1 DEF SetAllowed
<1>2. CASE w \in {OpenGate(k) : k \in IdKeys \cup {NoKey}}
    BY <1>2 DEF OpenGate
<1>3. CASE w = RemoveSchedule
    BY <1>3 DEF RemoveSchedule
<1>4. CASE w \in {RetryFailed(since, limit) : since \in Sinces, limit \in Limits}
  <2>1. PICK since, limit : w = RetryFailed(since, limit)
      BY <1>4
  <2> QED
      BY <2>1 DEF RetryFailed
<1> QED
    BY <1>1, <1>2, <1>3, <1>4 DEF Writes

\* What each kind of write does at the server.
LEMMA ApplyCases ==
    ASSUME NEW t \in Calls, NEW w \in Writes, NEW outcome, Apply(t, w, outcome)
    PROVE  \/ /\ w.kind = "set" /\ outcome = Answer("ok", 0)
              /\ allowed' = w.on
              /\ UNCHANGED <<present, delivery, spent, fired, queued>>
           \/ /\ w.kind = "open" /\ outcome = Answer("ok", 0)
              /\ w.key \in spent
              /\ UNCHANGED <<server, fired, queued>>
           \/ /\ w.kind = "open" /\ outcome = Answer("ok", 0)
              /\ w.key \notin spent
              /\ fired' = [fired EXCEPT ![t] = @ + 1]
              /\ spent' = spent \cup ({w.key} \ {NoKey})
              /\ UNCHANGED <<allowed, present, delivery, queued>>
           \/ /\ w.kind = "remove" /\ present' = FALSE
              /\ UNCHANGED <<allowed, delivery, spent, fired, queued>>
           \/ /\ w.kind = "resend" /\ outcome = Answer("ok", Cardinality(Batch(w)))
              /\ delivery' = [e \in Events |->
                                IF e \in Batch(w) THEN "pending" ELSE delivery[e]]
              /\ queued' = [queued EXCEPT ![t] = @ + Cardinality(Batch(w))]
              /\ UNCHANGED <<allowed, present, spent, fired>>
<1>1. w.kind \in {"set", "open", "remove", "resend"}
    BY WriteTypes
<1> QED
    BY <1>1 DEF Apply, Wanted

\* A batch is some of the events there are.
LEMMA BatchSize ==
    ASSUME NEW w
    PROVE  Cardinality(Batch(w)) \in 0..Backlog
<1>1. Batch(w) \subseteq Events
    BY DEF Batch
<1>2. IsFiniteSet(Events) /\ Cardinality(Events) = Backlog
  <2>1. 1 \in Int /\ Backlog \in Int
      OBVIOUS
  <2>2. IsFiniteSet(1..Backlog)
        /\ Cardinality(1..Backlog) = IF 1 > Backlog THEN 0 ELSE Backlog - 1 + 1
      BY <2>1, FS_Interval
  <2> QED
      BY <2>2 DEF Events
<1>3. IsFiniteSet(Batch(w)) /\ Cardinality(Batch(w)) <= Cardinality(Events)
    BY <1>1, <1>2, FS_Subset
<1>4. Cardinality(Batch(w)) \in Nat
    BY <1>3, FS_CardinalityType
<1> QED
    BY <1>2, <1>3, <1>4

\* Applying a write keeps the server, and the history of effects, typed.
LEMMA ApplyTyped ==
    ASSUME TypeOK, NEW t \in Calls, NEW w \in Writes, NEW outcome,
           Apply(t, w, outcome)
    PROVE  /\ allowed' \in BOOLEAN /\ present' \in BOOLEAN
           /\ delivery' \in [Events -> Deliveries]
           /\ spent' \subseteq IdKeys
           /\ fired' \in [Calls -> Nat]
           /\ queued' \in [Calls -> Nat]
           /\ \A u \in Calls \ {t} : fired'[u] = fired[u] /\ queued'[u] = queued[u]
           /\ fired[t] <= fired'[t] /\ fired'[t] <= fired[t] + 1
           /\ queued[t] <= queued'[t]
<1>1. w.on \in BOOLEAN /\ w.key \in IdKeys \cup {NoKey}
    BY WriteTypes
<1>2. PICK n : n = Cardinality(Batch(w)) /\ n \in Nat
    BY BatchSize
<1>3. CASE w.kind = "set" /\ allowed' = w.on
            /\ UNCHANGED <<present, delivery, spent, fired, queued>>
    BY <1>1, <1>3 DEF TypeOK
<1>4. CASE UNCHANGED <<server, fired, queued>>
    BY <1>4 DEF TypeOK, server
<1>5. CASE /\ fired' = [fired EXCEPT ![t] = @ + 1]
           /\ spent' = spent \cup ({w.key} \ {NoKey})
           /\ UNCHANGED <<allowed, present, delivery, queued>>
    BY <1>1, <1>5 DEF TypeOK
<1>6. CASE present' = FALSE /\ UNCHANGED <<allowed, delivery, spent, fired, queued>>
  <2>1. present' \in BOOLEAN
      BY <1>6
  <2> QED
      BY <1>6, <2>1 DEF TypeOK
<1>7. CASE /\ delivery' = [e \in Events |->
                             IF e \in Batch(w) THEN "pending" ELSE delivery[e]]
           /\ queued' = [queued EXCEPT ![t] = @ + Cardinality(Batch(w))]
           /\ UNCHANGED <<allowed, present, spent, fired>>
  <2>1. delivery' \in [Events -> Deliveries]
      BY <1>7 DEF TypeOK, Deliveries
  <2>2. queued' = [queued EXCEPT ![t] = @ + n]
      BY <1>2, <1>7
  <2> QED
      BY <1>2, <1>7, <2>1, <2>2 DEF TypeOK
<1> QED
    BY <1>3, <1>4, <1>5, <1>6, <1>7, ApplyCases

LEMMA AnswerTyped ==
    ASSUME NEW s \in Statuses, NEW count \in 0..Backlog
    PROVE  Answer(s, count) \in Response
BY DEF Answer, Response

\* The end of a call.
LEMMA FinishTyped ==
    ASSUME TypeInv, NEW t \in Calls, NEW r \in Response, Finish(t, r),
           pc[t] # "idle"
    PROVE  TypeInv'
<1>1. TypeOK'
    BY NoResponseTyped DEF TypeInv, TypeOK, Finish, server, net, history
<1>2. OnlyWritesTravel'
    BY DEF TypeInv, TypeOK, OnlyWritesTravel, Unbegun, Begun, Finish, net,
           history
<1> QED
    BY <1>1, <1>2 DEF TypeInv

\* A step of the server for a call that has begun.
LEMMA ServerTyped ==
    ASSUME TypeInv, NEW t \in Calls, Server(t)
    PROVE  TypeInv'
<1> USE DEF TypeInv, Rest
<1>1. pc[t] # "idle" /\ write[t] \in Writes
    BY DEF Server, Arrive, ArriveLate, Refuse, GiveUp, Vanish, TypeOK,
           OnlyWritesTravel, Unbegun, Begun
<1>2. CASE Arrive(t)
  <2>1. PICK outcome \in Response :
          /\ Apply(t, write[t], outcome)
          /\ \/ /\ pc[t] = "sent"
                /\ \E r \in {outcome, Answer("retryable", 0)} : Respond(t, r)
             \/ UNCHANGED <<pc, resp>>
      BY <1>2 DEF Arrive, Sent
  <2>2. Answer("retryable", 0) \in Response
      BY AnswerTyped DEF Statuses
  <2>3. pc' \in [Calls -> {"idle", "sent", "answered", "done"}] /\ resp' \in [Calls -> Response]
      BY <2>1, <2>2 DEF Respond, TypeOK
  <2>4. pc'[t] # "idle" /\ \A u \in Calls \ {t} : pc'[u] = pc[u] /\ resp'[u] = resp[u]
      BY <1>1, <2>1 DEF Respond, TypeOK
  <2>5. TypeOK'
      BY <1>1, <1>2, <2>1, <2>3, ApplyTyped DEF Arrive, TypeOK
  <2>6. OnlyWritesTravel'
      BY <1>1, <1>2, <2>1, <2>4, ApplyTyped
      DEF Arrive, OnlyWritesTravel, Unbegun, Begun, TypeOK
  <2> QED
      BY <2>5, <2>6
<1>3. CASE ArriveLate(t)
  <2>1. PICK outcome \in Response : Apply(t, write[t], outcome)
      BY <1>3 DEF ArriveLate, Sent
  <2>2. TypeOK'
      BY <1>1, <1>3, <2>1, ApplyTyped DEF ArriveLate, TypeOK
  <2>3. OnlyWritesTravel'
      BY <1>1, <1>3, <2>1, ApplyTyped
      DEF ArriveLate, OnlyWritesTravel, Unbegun, Begun, TypeOK
  <2> QED
      BY <2>2, <2>3
<1>4. CASE Refuse(t) \/ GiveUp(t)
  <2>1. PICK r \in Response : Respond(t, r)
      BY <1>4, AnswerTyped DEF Refuse, GiveUp, Statuses
  <2>2. travelling' \in [Calls -> BOOLEAN] /\ abandoned' \in [Calls -> Nat]
    <3>1. travelling' = [travelling EXCEPT ![t] = FALSE]
        BY <1>4 DEF Refuse, GiveUp
    <3>2. \/ abandoned' = abandoned
          \/ abandoned' = [abandoned EXCEPT ![t] = @ + 1]
        BY <1>4 DEF Refuse, GiveUp
    <3> QED
        BY <3>1, <3>2 DEF TypeOK
  <2>3. UNCHANGED <<server, fired, queued, late, write, attempt, result, latest>>
      BY <1>4 DEF Refuse, GiveUp
  <2>4. TypeOK'
      BY <2>1, <2>2, <2>3 DEF Respond, TypeOK, server
  <2>5. OnlyWritesTravel'
      BY <1>1, <1>4, <2>1
      DEF Refuse, GiveUp, Respond, OnlyWritesTravel, Unbegun, Begun, TypeOK
  <2> QED
      BY <2>4, <2>5
<1>5. CASE Vanish(t)
  <2>1. travelling' \in [Calls -> BOOLEAN] /\ abandoned' \in [Calls -> Nat]
    <3>1. CASE /\ travelling' = [travelling EXCEPT ![t] = FALSE]
               /\ UNCHANGED abandoned
        BY <3>1 DEF TypeOK
    <3>2. CASE /\ abandoned[t] > 0 /\ abandoned' = [abandoned EXCEPT ![t] = @ - 1]
               /\ UNCHANGED travelling
      <4>1. abandoned[t] - 1 \in Nat
          BY <3>2 DEF TypeOK
      <4> QED
          BY <3>2, <4>1 DEF TypeOK
    <3> QED
        BY <1>5, <3>1, <3>2 DEF Vanish
  <2>2. TypeOK'
      BY <1>5, <2>1 DEF Vanish, TypeOK, server
  <2>3. OnlyWritesTravel'
      BY <1>1, <1>5 DEF Vanish, OnlyWritesTravel, Unbegun, Begun, TypeOK
  <2> QED
      BY <2>2, <2>3
<1> QED
    BY <1>2, <1>3, <1>4, <1>5 DEF Server

\* What becomes of a delivery is nothing to a call.
LEMMA ConcludeTouches ==
    ASSUME NEW e, Conclude(e)
    PROVE  UNCHANGED <<allowed, present, spent, pc, write, attempt, travelling,
                       abandoned, resp, result, fired, queued, latest, late>>
BY DEF Conclude, net, history

LEMMA TypeStep == TypeInv /\ [Next]_vars => TypeInv'
<1> SUFFICES ASSUME TypeInv, [Next]_vars PROVE TypeInv'
    OBVIOUS
<1>1. CASE UNCHANGED vars
    BY <1>1 DEF vars, server, net, history, TypeInv, TypeOK, OnlyWritesTravel,
                Unbegun, Begun
<1>2. ASSUME NEW t \in Calls, NEW w \in Writes, Begin(t, w) PROVE TypeInv'
  <2>1. TypeOK'
      BY <1>2 DEF Begin, TypeInv, TypeOK, server
  <2>2. OnlyWritesTravel'
      BY <1>2 DEF Begin, TypeInv, TypeOK, OnlyWritesTravel, Unbegun, Begun
  <2> QED
      BY <2>1, <2>2 DEF TypeInv
<1>3. ASSUME NEW t \in Calls, Lose(t) PROVE TypeInv'
  <2>1. Answer("transport", 0) \in Response
      BY AnswerTyped DEF Statuses
  <2> QED
      BY <1>3, <2>1, FinishTyped DEF Lose
<1>4. ASSUME NEW t \in Calls, Retry(t) PROVE TypeInv'
  <2>1. attempt[t] + 1 \in 0..MaxRetries
      BY <1>4 DEF Retry, ShouldRetry, TypeInv, TypeOK
  <2>2. TypeOK'
      BY <1>4, <2>1, NoResponseTyped
      DEF Retry, TypeInv, TypeOK, server, history
  <2>3. OnlyWritesTravel'
      BY <1>4 DEF Retry, TypeInv, TypeOK, OnlyWritesTravel, Unbegun, Begun, history
  <2> QED
      BY <2>2, <2>3 DEF TypeInv
<1>5. ASSUME NEW t \in Calls, Return(t) PROVE TypeInv'
  <2>1. resp[t] \in Response /\ pc[t] # "idle"
      BY <1>5 DEF Return, TypeInv, TypeOK
  <2> QED
      BY <1>5, <2>1, FinishTyped DEF Return, Parsed
<1>6. ASSUME NEW e \in Events, Conclude(e) PROVE TypeInv'
  <2>1. delivery' \in [Events -> Deliveries]
      BY <1>6 DEF Conclude, TypeInv, TypeOK, Deliveries
  <2>2. TypeOK'
      BY <1>6, <2>1, ConcludeTouches DEF TypeInv, TypeOK
  <2>3. OnlyWritesTravel'
      BY <1>6, ConcludeTouches DEF TypeInv, OnlyWritesTravel, Unbegun, Begun
  <2> QED
      BY <2>2, <2>3 DEF TypeInv
<1> QED
    BY <1>1, <1>2, <1>3, <1>4, <1>5, <1>6, ServerTyped DEF Next, Client

LEMMA TypeInvariant == Spec => []TypeInv
BY TypeInit, TypeStep, PTL DEF Spec

\* Type correctness, for all constants.
THEOREM TypeCorrect == Spec => []TypeOK
<1>1. TypeInv => TypeOK
    BY DEF TypeInv
<1> QED
    BY <1>1, TypeInvariant, PTL

----------------------------------------------------------------------------
(* Effects are bounded: an effect, and a request that may still have one,  *)
(* is a request that was sent.                                             *)

Pending(t) == abandoned[t] + (IF travelling[t] THEN 1 ELSE 0)

EffectsAreSends == \A t \in Calls : fired[t] + Pending(t) <= 1 + attempt[t]

\* A call handles an answer only when its request is no longer on its way.
AnsweredHasArrived == \A t \in Calls : pc[t] = "answered" => ~travelling[t]

BoundInv == EffectsAreSends /\ AnsweredHasArrived

\* Only call t moves, and it takes no effect and sends no request for nothing.
LEMMA BoundFrame ==
    ASSUME TypeInv, TypeInv', BoundInv, NEW t \in Calls,
           fired'[t] + Pending(t)' - attempt'[t] <= fired[t] + Pending(t) - attempt[t],
           pc'[t] = "answered" => ~travelling'[t],
           \A u \in Calls \ {t} :
               /\ fired'[u] = fired[u] /\ attempt'[u] = attempt[u]
               /\ abandoned'[u] = abandoned[u] /\ travelling'[u] = travelling[u]
               /\ pc'[u] = pc[u]
    PROVE  BoundInv'
<1> USE DEF TypeInv, TypeOK
<1>1. \A u \in Calls : Pending(u) \in Nat /\ Pending(u)' \in Nat
    BY DEF Pending
<1>2. \A u \in Calls \ {t} : Pending(u)' = Pending(u)
    BY DEF Pending
<1>3. EffectsAreSends'
  <2> SUFFICES ASSUME NEW u \in Calls PROVE fired'[u] + Pending(u)' <= 1 + attempt'[u]
      BY DEF EffectsAreSends
  <2>0. /\ fired[u] \in Nat /\ fired'[u] \in Nat
        /\ attempt[u] \in Nat /\ attempt'[u] \in Nat
        /\ fired[u] + Pending(u) <= 1 + attempt[u]
      BY DEF BoundInv, EffectsAreSends
  <2>1. CASE u = t
      BY <1>1, <2>0, <2>1
  <2>2. CASE u # t
      BY <1>2, <2>0, <2>2
  <2> QED
      BY <2>1, <2>2
<1>4. AnsweredHasArrived'
    BY DEF BoundInv, AnsweredHasArrived
<1> QED
    BY <1>3, <1>4 DEF BoundInv

LEMMA BoundStep == TypeInv /\ TypeInv' /\ BoundInv /\ [Next]_vars => BoundInv'
<1> SUFFICES ASSUME TypeInv, TypeInv', BoundInv, [Next]_vars PROVE BoundInv'
    OBVIOUS
<1> USE DEF Pending, Rest
<1>t. TypeOK /\ TypeOK'
    BY DEF TypeInv
<1>1. CASE UNCHANGED vars
    BY <1>1 DEF vars, server, net, history, BoundInv, EffectsAreSends,
                AnsweredHasArrived
<1>2. ASSUME NEW t \in Calls, NEW w \in Writes, Begin(t, w) PROVE BoundInv'
  <2>1. pc[t] = "idle" /\ fired[t] = 0 /\ abandoned[t] = 0
      BY <1>2 DEF Begin, TypeInv, OnlyWritesTravel, Unbegun
  <2>2. fired'[t] = 0 /\ abandoned'[t] = 0 /\ travelling'[t] /\ pc'[t] = "sent"
      BY <1>t, <1>2, <2>1 DEF Begin, TypeOK
  <2>3. EffectsAreSends'
      BY <1>t, <1>2, <2>2 DEF Begin, TypeOK, BoundInv, EffectsAreSends
  <2>4. AnsweredHasArrived'
      BY <1>t, <1>2, <2>2 DEF Begin, TypeOK, BoundInv, AnsweredHasArrived
  <2> QED
      BY <2>3, <2>4 DEF BoundInv
<1>3. ASSUME NEW t \in Calls, Server(t) PROVE BoundInv'
  <2>0. pc[t] # "idle" /\ write[t] \in Writes
      BY <1>3, <1>t DEF Server, Arrive, ArriveLate, Refuse, GiveUp, Vanish, TypeOK,
           TypeInv, OnlyWritesTravel, Unbegun, Begun
  <2>1. CASE Arrive(t)
    <3>1. PICK outcome : Apply(t, write[t], outcome)
        BY <2>1 DEF Arrive, Sent
    <3>2. /\ travelling[t] /\ ~travelling'[t] /\ abandoned' = abandoned
          /\ attempt' = attempt
          /\ \A u \in Calls \ {t} : pc'[u] = pc[u] /\ travelling'[u] = travelling[u]
        BY <1>t, <2>1 DEF Arrive, Respond, TypeOK
    <3>3. /\ \A u \in Calls \ {t} : fired'[u] = fired[u]
          /\ fired'[t] <= fired[t] + 1
        BY <1>t, <2>0, <3>1, ApplyTyped
    <3> QED
        BY <1>t, <3>2, <3>3, BoundFrame DEF TypeOK
  <2>2. CASE ArriveLate(t)
    <3>1. PICK outcome : Apply(t, write[t], outcome)
        BY <2>2 DEF ArriveLate, Sent
    <3>2. /\ abandoned'[t] = abandoned[t] - 1 /\ travelling' = travelling
          /\ attempt' = attempt /\ pc' = pc
          /\ \A u \in Calls \ {t} : abandoned'[u] = abandoned[u]
        BY <1>t, <2>2 DEF ArriveLate, TypeOK
    <3>3. /\ \A u \in Calls \ {t} : fired'[u] = fired[u]
          /\ fired'[t] <= fired[t] + 1
        BY <1>t, <2>0, <3>1, ApplyTyped
    <3>4. pc[t] = "answered" => ~travelling[t]
        BY DEF BoundInv, AnsweredHasArrived
    <3> QED
        BY <1>t, <3>2, <3>3, <3>4, BoundFrame DEF TypeOK
  <2>3. CASE Refuse(t) \/ GiveUp(t)
    <3>1. /\ travelling[t] /\ ~travelling'[t]
          /\ abandoned'[t] <= abandoned[t] + 1
          /\ attempt' = attempt /\ fired' = fired
          /\ \A u \in Calls \ {t} : /\ abandoned'[u] = abandoned[u]
                                    /\ pc'[u] = pc[u]
                                    /\ travelling'[u] = travelling[u]
        BY <1>t, <2>3 DEF Refuse, GiveUp, Respond, TypeOK
    <3> QED
        BY <1>t, <3>1, BoundFrame DEF TypeOK
  <2>4. CASE Vanish(t)
    <3>1. /\ attempt' = attempt /\ fired' = fired /\ pc' = pc
          /\ \A u \in Calls \ {t} : /\ abandoned'[u] = abandoned[u]
                                    /\ travelling'[u] = travelling[u]
          /\ \/ travelling[t] /\ ~travelling'[t] /\ abandoned'[t] = abandoned[t]
             \/ abandoned'[t] = abandoned[t] - 1 /\ travelling'[t] = travelling[t]
        BY <1>t, <2>4 DEF Vanish, TypeOK
    <3>2. pc[t] = "answered" => ~travelling[t]
        BY DEF BoundInv, AnsweredHasArrived
    <3> QED
        BY <1>t, <3>1, <3>2, BoundFrame DEF TypeOK
  <2> QED
      BY <1>3, <2>1, <2>2, <2>3, <2>4 DEF Server
<1>4. ASSUME NEW t \in Calls, Lose(t) \/ Return(t) PROVE BoundInv'
  <2>1. /\ pc'[t] = "done" /\ \A u \in Calls \ {t} : pc'[u] = pc[u]
        /\ UNCHANGED <<attempt, travelling, abandoned, fired>>
      BY <1>t, <1>4 DEF Lose, Return, Finish, TypeOK, net, history
  <2> QED
      BY <1>t, <2>1, BoundFrame DEF TypeOK
<1>5. ASSUME NEW t \in Calls, Retry(t) PROVE BoundInv'
  <2>1. ~travelling[t]
      BY <1>5 DEF Retry, BoundInv, AnsweredHasArrived
  <2>2. /\ travelling'[t] /\ attempt'[t] = attempt[t] + 1 /\ pc'[t] = "sent"
        /\ abandoned' = abandoned /\ fired' = fired
        /\ \A u \in Calls \ {t} : /\ attempt'[u] = attempt[u] /\ pc'[u] = pc[u]
                                  /\ travelling'[u] = travelling[u]
      BY <1>t, <1>5 DEF Retry, TypeOK, history
  <2> QED
      BY <1>t, <2>1, <2>2, BoundFrame DEF TypeOK
<1>6. ASSUME NEW e \in Events, Conclude(e) PROVE BoundInv'
    BY <1>6, ConcludeTouches DEF BoundInv, EffectsAreSends, AnsweredHasArrived
<1> QED
    BY <1>1, <1>2, <1>3, <1>4, <1>5, <1>6 DEF Next, Client

\* A call's requests take effect at most once for each request it has sent,
\* 1 + max_retries times in all, whenever they arrive.
THEOREM Bounded == Spec => []EffectsAreBounded
<1>1. Init => BoundInv
    BY DEF Init, BoundInv, EffectsAreSends, AnsweredHasArrived, Pending
<1>2. TypeInv /\ BoundInv => EffectsAreBounded
  <2> SUFFICES ASSUME TypeOK, BoundInv, NEW t \in Calls
               PROVE  fired[t] <= 1 + attempt[t] /\ attempt[t] <= MaxRetries
      BY DEF TypeInv, EffectsAreBounded
  <2>1. fired[t] \in Nat /\ attempt[t] \in 0..MaxRetries /\ Pending(t) \in Nat
      BY DEF TypeOK, Pending
  <2>2. fired[t] + Pending(t) <= 1 + attempt[t]
      BY DEF BoundInv, EffectsAreSends
  <2> QED
      BY <2>1, <2>2
<1> QED
    BY <1>1, <1>2, BoundStep, TypeInvariant, PTL DEF Spec

----------------------------------------------------------------------------
(* What a step changes, for the invariants that speak of the server's      *)
(* state: a step of the server applies a write or leaves that state alone. *)

Unapplied == UNCHANGED <<server, fired, queued>>

LEMMA ServerEffect ==
    ASSUME TypeInv, NEW t \in Calls, Server(t)
    PROVE  /\ write[t] \in Writes /\ pc[t] # "idle"
           /\ UNCHANGED <<write, attempt, result, latest>>
           /\ (\E outcome \in Response : Apply(t, write[t], outcome)) \/ Unapplied
<1> USE DEF Arrive, ArriveLate, Refuse, GiveUp, Vanish, Rest, Unapplied
<1>1. pc[t] # "idle" /\ write[t] \in Writes
    BY DEF Server, TypeInv, TypeOK, OnlyWritesTravel, Unbegun, Begun
<1>2. UNCHANGED <<write, attempt, result, latest>>
    BY DEF Server
<1>3. (\E outcome \in Response : Apply(t, write[t], outcome)) \/ Unapplied
    BY DEF Server, Sent
<1> QED
    BY <1>1, <1>2, <1>3

\* A step of the client leaves the server alone.
LEMMA ClientEffect ==
    ASSUME NEW t \in Calls, Client(t)
    PROVE  Unapplied /\ UNCHANGED <<write, latest, late>>
BY DEF Client, Lose, Retry, Return, Finish, history, Unapplied

----------------------------------------------------------------------------
(* One open per key: a key that has fired is spent, and nothing fires      *)
(* under a spent key.                                                      *)

FiredIsSpent ==
    \A t \in Calls :
        fired[t] > 0 /\ write[t].key \in IdKeys => write[t].key \in spent

OncePerKey ==
    \A t, u \in Calls :
        write[t].key \in IdKeys /\ write[u].key = write[t].key /\ fired[t] > 0
            => fired[t] = 1 /\ (u # t => fired[u] = 0)

KeyInv == FiredIsSpent /\ OncePerKey

LEMMA KeyStep == TypeInv /\ KeyInv /\ [Next]_vars => KeyInv'
<1> SUFFICES ASSUME TypeInv, KeyInv, [Next]_vars PROVE KeyInv'
    OBVIOUS
<1> USE DEF KeyInv
<1>t. TypeOK
    BY DEF TypeInv
<1>1. CASE Unapplied /\ UNCHANGED write
    BY <1>1 DEF Unapplied, server, FiredIsSpent, OncePerKey
<1>2. ASSUME NEW t \in Calls, NEW w \in Writes, Begin(t, w) PROVE KeyInv'
  <2>1. fired[t] = 0 /\ UNCHANGED <<fired, spent>>
      BY <1>2 DEF Begin, TypeInv, OnlyWritesTravel, Unbegun, server
  <2>2. \A u \in Calls \ {t} : write'[u] = write[u]
      BY <1>t, <1>2 DEF Begin, TypeOK
  <2> QED
      BY <1>t, <2>1, <2>2 DEF FiredIsSpent, OncePerKey, TypeOK
<1>3. ASSUME NEW t \in Calls, Server(t) PROVE KeyInv'
  <2>1. write[t] \in Writes /\ UNCHANGED write
      BY <1>3, ServerEffect
  <2>2. CASE Unapplied
      BY <1>1, <2>1, <2>2
  <2>3. CASE UNCHANGED <<fired, spent>>
      BY <2>1, <2>3 DEF FiredIsSpent, OncePerKey
  <2>4. CASE /\ write[t].key \notin spent
             /\ fired' = [fired EXCEPT ![t] = @ + 1]
             /\ spent' = spent \cup ({write[t].key} \ {NoKey})
    <3>1. \A u \in Calls \ {t} : fired'[u] = fired[u]
        BY <1>t, <2>4 DEF TypeOK
    <3>2. fired[t] \in Nat /\ fired'[t] = fired[t] + 1
        BY <1>t, <2>4 DEF TypeOK
    <3>3. \A u \in Calls : fired[u] \in Nat
        BY <1>t DEF TypeOK
    <3>4. \A u \in Calls :
            write[u].key \in IdKeys /\ write[u].key = write[t].key => fired[u] = 0
        BY <2>4, <3>3 DEF FiredIsSpent
    <3>5. FiredIsSpent'
        BY <2>1, <2>4, <3>1 DEF FiredIsSpent
    <3>6. OncePerKey'
      <4> SUFFICES ASSUME NEW u \in Calls, NEW v \in Calls,
                          write[u].key \in IdKeys, write[v].key = write[u].key,
                          fired'[u] > 0
                   PROVE  fired'[u] = 1 /\ (v # u => fired'[v] = 0)
          BY <2>1 DEF OncePerKey
      <4>1. CASE write[u].key = write[t].key
        <5>1. fired[u] = 0 /\ fired[v] = 0
            BY <3>4, <4>1
        <5> QED
            BY <3>1, <3>2, <5>1
      <4>2. CASE write[u].key # write[t].key
          BY <3>1, <4>2 DEF OncePerKey
      <4> QED
          BY <4>1, <4>2
    <3> QED
        BY <3>5, <3>6
  <2>5. PICK outcome : Apply(t, write[t], outcome) \/ Unapplied
      BY <1>3, ServerEffect
  <2> QED
      BY <2>1, <2>2, <2>3, <2>4, <2>5, ApplyCases DEF server
<1>4. CASE UNCHANGED vars
    BY <1>1, <1>4 DEF vars, history, Unapplied
<1>5. ASSUME NEW e \in Events, Conclude(e) PROVE KeyInv'
    BY <1>5, ConcludeTouches DEF FiredIsSpent, OncePerKey
<1> QED
    BY <1>1, <1>2, <1>3, <1>4, <1>5, ClientEffect DEF Next

\* All requests under one idempotency key fire the gate at most once.
THEOREM Idempotent == Spec => []OneOpenPerKey
<1>1. Init => KeyInv
    BY DEF Init, KeyInv, FiredIsSpent, OncePerKey
<1>2. TypeInv /\ KeyInv => OneOpenPerKey
  <2> SUFFICES ASSUME TypeOK, OncePerKey, NEW k \in IdKeys,
                      NEW t \in Calls, write[t].key = k,
                      NEW u \in Calls, write[u].key = k
               PROVE  fired[t] + (IF u = t THEN 0 ELSE fired[u]) <= 1
      BY DEF TypeInv, KeyInv, OneOpenPerKey
  <2>1. fired[t] \in Nat /\ fired[u] \in Nat
      BY DEF TypeOK
  <2>2. CASE fired[t] > 0
      BY <2>1, <2>2 DEF OncePerKey
  <2>3. CASE fired[u] > 0
      BY <2>1, <2>3 DEF OncePerKey
  <2> QED
      BY <2>1, <2>2, <2>3
<1> QED
    BY <1>1, <1>2, KeyStep, TypeInvariant, PTL DEF Spec

----------------------------------------------------------------------------
(* The last setter wins: only the latest set is in flight, and once it is  *)
(* answered the state is what it asked for, unless a set arrived late.     *)

OneSetter ==
    \A u \in Calls : InFlight(u) /\ write[u].kind = "set" => u = latest

LatestIsASet ==
    latest # NoCall => pc[latest] # "idle" /\ write[latest].kind = "set"

AnsweredIsSet ==
    latest # NoCall /\ ~late /\ "ok" \in {resp[latest].status, result[latest].status}
        => allowed = write[latest].on

SetterInv == OneSetter /\ LatestIsASet /\ AnsweredIsSet

LEMMA SetterStep == TypeInv /\ SetterInv /\ [Next]_vars => SetterInv'
<1> SUFFICES ASSUME TypeInv, SetterInv, [Next]_vars PROVE SetterInv'
    OBVIOUS
<1> USE DEF SetterInv
<1>t. TypeOK
    BY DEF TypeInv
<1>1. CASE UNCHANGED vars
    BY <1>1 DEF vars, server, net, history, OneSetter, LatestIsASet,
                AnsweredIsSet, InFlight
<1>2. ASSUME NEW t \in Calls, NEW w \in Writes, Begin(t, w) PROVE SetterInv'
  <2>1. /\ pc[t] = "idle" /\ resp[t] = NoResponse /\ result[t] = NoResponse
        /\ pc'[t] = "sent" /\ write'[t] = w
        /\ \A u \in Calls \ {t} : pc'[u] = pc[u] /\ write'[u] = write[u]
        /\ UNCHANGED <<allowed, resp, result, late>>
      BY <1>t, <1>2 DEF Begin, TypeInv, OnlyWritesTravel, Unbegun, TypeOK, server
  <2>2. NoResponse.status # "ok"
      BY DEF NoResponse, Answer
  <2>3. CASE w.kind = "set"
    <3>1. latest' = t /\ \A u \in Calls : ~ (InFlight(u) /\ write[u].kind = "set")
        BY <1>2, <2>3 DEF Begin
    <3>2. OneSetter'
        BY <2>1, <3>1 DEF OneSetter, InFlight
    <3>3. LatestIsASet'
        BY <2>1, <2>3, <3>1 DEF LatestIsASet
    <3>4. AnsweredIsSet'
        BY <2>1, <2>2, <3>1 DEF AnsweredIsSet
    <3> QED
        BY <3>2, <3>3, <3>4
  <2>4. CASE w.kind # "set"
    <3>1. latest' = latest /\ latest # t
        BY <1>2, <2>1, <2>4 DEF Begin, LatestIsASet
    <3>2. latest # NoCall => latest \in Calls \ {t}
        BY <1>t, <3>1 DEF TypeOK
    <3>3. OneSetter'
        BY <2>1, <2>4, <3>1 DEF OneSetter, InFlight
    <3>4. LatestIsASet'
        BY <2>1, <3>1, <3>2 DEF LatestIsASet
    <3>5. AnsweredIsSet'
        BY <2>1, <3>1, <3>2 DEF AnsweredIsSet
    <3> QED
        BY <3>3, <3>4, <3>5
  <2> QED
      BY <2>3, <2>4
<1>3. ASSUME NEW t \in Calls, Server(t) PROVE SetterInv'
  <2>1. write[t] \in Writes /\ pc[t] # "idle" /\ UNCHANGED <<write, result, latest>>
      BY <1>3, ServerEffect
  <2>2. /\ \A u \in Calls \ {t} : pc'[u] = pc[u] /\ resp'[u] = resp[u]
        /\ pc'[t] # "idle" /\ (InFlight(t)' => InFlight(t))
      BY <1>t, <1>3, <2>1
      DEF Server, Arrive, ArriveLate, Refuse, GiveUp, Vanish, Respond, InFlight, TypeOK
  <2>3. OneSetter'
      BY <2>1, <2>2 DEF OneSetter, InFlight
  <2>4. LatestIsASet'
      BY <1>t, <2>1, <2>2 DEF LatestIsASet, TypeOK
  <2>5. AnsweredIsSet'
    <3> SUFFICES ASSUME latest # NoCall, ~late',
                        "ok" \in {resp'[latest].status, result[latest].status}
                 PROVE  allowed' = write[latest].on
        BY <2>1 DEF AnsweredIsSet
    <3>0. ~late /\ latest \in Calls /\ write[latest].kind = "set"
        BY <1>t, <1>3 DEF Server, Arrive, ArriveLate, Refuse, GiveUp, Vanish,
                          LatestIsASet, TypeOK
    <3>1. CASE Arrive(t) /\ write[t].kind = "set"
      <4>1. t = latest
          BY <3>1 DEF Arrive, OneSetter, InFlight
      <4>2. PICK outcome : Apply(t, write[t], outcome)
          BY <3>1 DEF Arrive, Sent
      <4> QED
          BY <2>1, <3>1, <4>1, <4>2, ApplyCases
    <3>2. CASE ArriveLate(t) /\ write[t].kind = "set"
        BY <3>2 DEF ArriveLate
    <3>3. CASE write[t].kind # "set"
      <4>1. allowed' = allowed
          BY <1>3, <2>1, <3>3, ServerEffect, ApplyCases DEF Unapplied, server
      <4>2. resp'[latest] = resp[latest]
          BY <2>2, <3>0, <3>3
      <4> QED
          BY <3>0, <4>1, <4>2 DEF AnsweredIsSet
    <3>4. CASE Refuse(t) \/ GiveUp(t) \/ Vanish(t)
      <4>1. allowed' = allowed
          BY <3>4 DEF Refuse, GiveUp, Vanish, server
      <4>2. resp'[latest].status = "ok" => resp[latest].status = "ok"
        <5>1. CASE Vanish(t)
            BY <5>1 DEF Vanish
        <5>2. ASSUME NEW s \in {"retryable", "error"}, Respond(t, Answer(s, 0))
              PROVE  resp'[latest].status = "ok" => resp[latest].status = "ok"
            BY <1>t, <2>2, <3>0, <5>2 DEF Respond, Answer, TypeOK
        <5> QED
            BY <3>4, <5>1, <5>2 DEF Refuse, GiveUp
      <4> QED
          BY <3>0, <4>1, <4>2 DEF AnsweredIsSet
    <3> QED
        BY <1>3, <3>1, <3>2, <3>3, <3>4 DEF Server
  <2> QED
      BY <2>3, <2>4, <2>5
<1>4. ASSUME NEW t \in Calls, Client(t) PROVE SetterInv'
  <2>1. UNCHANGED <<allowed, write, latest, late>>
      BY <1>4, ClientEffect DEF Unapplied, server
  <2>2. /\ \A u \in Calls \ {t} : /\ pc'[u] = pc[u] /\ resp'[u] = resp[u]
                                  /\ result'[u] = result[u]
        /\ pc'[t] # "idle" /\ InFlight(t)
      BY <1>t, <1>4 DEF Client, Lose, Retry, Return, Finish, InFlight, TypeOK
  <2>3. resp'[t].status # "ok" /\ (result'[t].status = "ok" =>
                                     "ok" \in {resp[t].status, result[t].status})
      BY <1>t, <1>4 DEF Client, Lose, Retry, Return, Finish, Parsed, NoResponse,
                        Answer, TypeOK
  <2>4. OneSetter'
      BY <2>1, <2>2 DEF OneSetter, InFlight
  <2>5. LatestIsASet'
      BY <1>t, <2>1, <2>2 DEF LatestIsASet, TypeOK
  <2>6. AnsweredIsSet'
      BY <1>t, <2>1, <2>2, <2>3 DEF AnsweredIsSet, TypeOK
  <2> QED
      BY <2>4, <2>5, <2>6
<1>5. ASSUME NEW e \in Events, Conclude(e) PROVE SetterInv'
    BY <1>5, ConcludeTouches DEF OneSetter, LatestIsASet, AnsweredIsSet, InFlight
<1> QED
    BY <1>1, <1>2, <1>3, <1>4, <1>5 DEF Next

\* Callers of a setter that take turns end with the state the last asked for.
THEOREM LastWins == Spec => []LastSetterWins
<1>1. Init => SetterInv
    BY DEF Init, SetterInv, OneSetter, LatestIsASet, AnsweredIsSet, InFlight
<1>2. SetterInv => LastSetterWins
    BY DEF SetterInv, AnsweredIsSet, LastSetterWins
<1> QED
    BY <1>1, <1>2, SetterStep, TypeInvariant, PTL DEF Spec

----------------------------------------------------------------------------
(* Answers are true: of the response a call holds as of its result.        *)

TrueOf(t, r) ==
    /\ r.status = "ok" /\ write[t].kind = "open"
         => fired[t] > 0 \/ write[t].key \in spent
    /\ r.status \in {"ok", "notFound"} /\ write[t].kind = "remove"
         => ~present
    /\ r.status = "ok" /\ write[t].kind = "resend"
         => r.count <= queued[t]

AnswerInv == \A t \in Calls : TrueOf(t, resp[t]) /\ TrueOf(t, result[t])

\* What is true of an answer stays true, whatever else is applied.
LEMMA ApplyKeepsTruth ==
    ASSUME TypeInv, NEW t \in Calls, write[t] \in Writes, NEW outcome,
           Apply(t, write[t], outcome), UNCHANGED write
    PROVE  /\ TrueOf(t, outcome)'
           /\ \A u \in Calls, r \in Response : TrueOf(u, r) => TrueOf(u, r)'
<1>1. /\ fired' \in [Calls -> Nat] /\ fired \in [Calls -> Nat]
      /\ queued' \in [Calls -> Nat] /\ queued \in [Calls -> Nat]
    BY ApplyTyped DEF TypeInv, TypeOK
<1>2. \A u \in Calls : fired[u] <= fired'[u]
    BY <1>1, ApplyTyped DEF TypeInv
<1>3. spent \subseteq spent' /\ (present' => present)
    BY ApplyCases DEF server
<1>6. \A u \in Calls : queued[u] <= queued'[u]
    BY <1>1, ApplyTyped DEF TypeInv
<1>4. \A u \in Calls, r \in Response : TrueOf(u, r) => TrueOf(u, r)'
  <2>1. \A u \in Calls, r \in Response :
          r.count \in Nat /\ r.count <= queued[u] => r.count <= queued'[u]
      BY <1>1, <1>6
  <2>2. \A r \in Response : r.count \in Nat
      BY DEF Response
  <2> QED
      BY <1>1, <1>2, <1>3, <2>1, <2>2 DEF TrueOf
<1>5. TrueOf(t, outcome)'
  <2>1. write[t].kind = "remove" => ~present'
      BY ApplyCases
  <2>2. write[t].kind = "open" => fired'[t] > 0 \/ write[t].key \in spent'
    <3>1. CASE UNCHANGED <<server, fired, queued>> /\ write[t].key \in spent
        BY <3>1 DEF server
    <3>2. CASE fired' = [fired EXCEPT ![t] = @ + 1]
        BY <1>1, <3>2
    <3> QED
        BY <3>1, <3>2, ApplyCases
  <2>3. write[t].kind = "resend" => outcome.count <= queued'[t]
    <3>1. PICK n : n = Cardinality(Batch(write[t])) /\ n \in Nat
        BY BatchSize
    <3>2. write[t].kind = "resend" => queued'[t] = queued[t] + n /\ outcome.count = n
        BY <1>1, <3>1 DEF Apply, Answer
    <3> QED
        BY <1>1, <3>1, <3>2
  <2> QED
      BY <2>1, <2>2, <2>3 DEF TrueOf
<1> QED
    BY <1>4, <1>5

LEMMA AnswerStep == TypeInv /\ AnswerInv /\ [Next]_vars => AnswerInv'
<1> SUFFICES ASSUME TypeInv, AnswerInv, [Next]_vars PROVE AnswerInv'
    OBVIOUS
<1>t. TypeOK
    BY DEF TypeInv
<1>n. \A u \in Calls, s \in {"none", "retryable", "error", "transport"} :
        TrueOf(u, Answer(s, 0)) /\ TrueOf(u, Answer(s, 0))'
    BY DEF TrueOf, Answer
<1>1. CASE UNCHANGED vars
    BY <1>1 DEF vars, server, history, AnswerInv, TrueOf
<1>2. ASSUME NEW t \in Calls, NEW w \in Writes, Begin(t, w) PROVE AnswerInv'
  <2>1. resp[t] = NoResponse /\ result[t] = NoResponse
      BY <1>2 DEF Begin, TypeInv, OnlyWritesTravel, Unbegun
  <2>2. /\ \A u \in Calls \ {t} : write'[u] = write[u]
        /\ UNCHANGED <<server, fired, queued, resp, result>>
      BY <1>t, <1>2 DEF Begin, TypeOK
  <2>3. TrueOf(t, resp[t])' /\ TrueOf(t, result[t])'
      BY <1>n, <2>1, <2>2 DEF NoResponse
  <2>4. \A u \in Calls \ {t} : TrueOf(u, resp[u])' /\ TrueOf(u, result[u])'
      BY <2>2 DEF AnswerInv, TrueOf, server
  <2> QED
      BY <2>3, <2>4 DEF AnswerInv
<1>3. ASSUME NEW t \in Calls, Server(t) PROVE AnswerInv'
  <2>1. write[t] \in Writes /\ UNCHANGED <<write, result>>
      BY <1>3, ServerEffect
  <2>2. \A u \in Calls, r \in Response : TrueOf(u, r) => TrueOf(u, r)'
    <3>1. CASE Unapplied
        BY <2>1, <3>1 DEF Unapplied, server, TrueOf
    <3>2. CASE \E outcome \in Response : Apply(t, write[t], outcome)
        BY <2>1, <3>2, ApplyKeepsTruth
    <3> QED
        BY <1>3, <3>1, <3>2, ServerEffect
  <2>3. \A u \in Calls : TrueOf(u, result[u])'
      BY <1>t, <2>1, <2>2 DEF AnswerInv, TypeOK
  <2>4. resp' = resp \/ \E r \in Response : Respond(t, r) /\ TrueOf(t, r)'
    <3>1. CASE Arrive(t)
      <4>1. PICK outcome \in Response :
              /\ Apply(t, write[t], outcome)
              /\ (\E r \in {outcome, Answer("retryable", 0)} : Respond(t, r))
                   \/ UNCHANGED <<pc, resp>>
          BY <3>1 DEF Arrive, Sent
      <4>2. TrueOf(t, outcome)' /\ TrueOf(t, Answer("retryable", 0))'
          BY <1>n, <2>1, <4>1, ApplyKeepsTruth
      <4>3. Answer("retryable", 0) \in Response
          BY AnswerTyped DEF Statuses
      <4> QED
          BY <4>1, <4>2, <4>3
    <3>2. CASE Refuse(t) \/ GiveUp(t)
      <4>1. PICK s \in {"retryable", "error"} : Respond(t, Answer(s, 0))
          BY <3>2 DEF Refuse, GiveUp
      <4>2. Answer(s, 0) \in Response /\ TrueOf(t, Answer(s, 0))'
          BY <1>n, AnswerTyped DEF Statuses
      <4> QED
          BY <4>1, <4>2
    <3> QED
        BY <1>3, <3>1, <3>2 DEF Server, ArriveLate, Vanish
  <2>5. \A u \in Calls : TrueOf(u, resp[u])'
    <3>1. \A u \in Calls : TrueOf(u, resp[u]) => TrueOf(u, resp[u]) /\ resp[u] \in Response
        BY <1>t DEF TypeOK
    <3>2. CASE resp' = resp
        BY <2>2, <3>1, <3>2 DEF AnswerInv
    <3>3. CASE \E r \in Response : Respond(t, r) /\ TrueOf(t, r)'
      <4>1. PICK r \in Response : Respond(t, r) /\ TrueOf(t, r)'
          BY <3>3
      <4>2. resp'[t] = r /\ \A u \in Calls \ {t} : resp'[u] = resp[u]
          BY <1>t, <4>1 DEF Respond, TypeOK
      <4> QED
          BY <2>2, <3>1, <4>1, <4>2 DEF AnswerInv, TrueOf
    <3> QED
        BY <2>4, <3>2, <3>3
  <2> QED
      BY <2>3, <2>5 DEF AnswerInv
<1>4. ASSUME NEW t \in Calls, Client(t) PROVE AnswerInv'
  <2>1. UNCHANGED <<server, fired, queued, write>>
      BY <1>4, ClientEffect DEF Unapplied
  <2>2. /\ \A u \in Calls \ {t} : resp'[u] = resp[u] /\ result'[u] = result[u]
        /\ resp'[t] = NoResponse
        /\ result'[t] \in {result[t], resp[t], Answer("transport", 0)}
      BY <1>t, <1>4 DEF Client, Lose, Retry, Return, Finish, Parsed, TypeOK
  <2>3. TrueOf(t, resp[t])'
      BY <2>2 DEF TrueOf, NoResponse, Answer
  <2>4. TrueOf(t, result[t])'
    <3>1. TrueOf(t, result[t]) /\ TrueOf(t, resp[t]) /\ TrueOf(t, Answer("transport", 0))
        BY <1>n DEF AnswerInv
    <3> QED
        BY <2>1, <2>2, <3>1 DEF TrueOf, server
  <2>5. \A u \in Calls \ {t} : TrueOf(u, resp[u])' /\ TrueOf(u, result[u])'
      BY <2>1, <2>2 DEF AnswerInv, TrueOf, server
  <2> QED
      BY <2>3, <2>4, <2>5 DEF AnswerInv
<1>5. ASSUME NEW e \in Events, Conclude(e) PROVE AnswerInv'
    BY <1>5, ConcludeTouches DEF AnswerInv, TrueOf
<1> QED
    BY <1>1, <1>2, <1>3, <1>4, <1>5 DEF Next

\* A resend that was not retried has sent one request.  While that one is on
\* its way nothing is enqueued; when it is answered, what it enqueued is all.
CountsAll(t) ==
    write[t].kind = "resend" /\ attempt[t] = 0 =>
        /\ Pending(t) > 0 => queued[t] = 0
        /\ \A r \in {resp[t], result[t]} :
             r.status = "ok" => Pending(t) = 0 /\ r.count = queued[t]

CountInv == \A t \in Calls : CountsAll(t)

LEMMA CountStep == TypeInv /\ BoundInv /\ CountInv /\ [Next]_vars => CountInv'
<1> SUFFICES ASSUME TypeInv, BoundInv, CountInv, [Next]_vars PROVE CountInv'
    OBVIOUS
<1>t. TypeOK
    BY DEF TypeInv
<1> DEFINE Same(u) ==
        /\ write'[u] = write[u] /\ attempt'[u] = attempt[u] /\ queued'[u] = queued[u]
        /\ travelling'[u] = travelling[u] /\ abandoned'[u] = abandoned[u]
        /\ resp'[u] = resp[u] /\ result'[u] = result[u]
<1>s. ASSUME NEW u \in Calls, Same(u) PROVE CountsAll(u)'
  <2>1. Pending(u)' = Pending(u)
      BY <1>s DEF Pending
  <2>2. CountsAll(u)
      BY DEF CountInv
  <2> QED
      BY <1>s, <2>1, <2>2 DEF CountsAll
<1>p. \A u \in Calls : /\ abandoned[u] \in Nat /\ queued[u] \in Nat /\ attempt[u] \in Nat
                       /\ fired[u] \in Nat /\ Pending(u) \in Nat
                       /\ fired[u] + Pending(u) <= 1 + attempt[u]
    BY <1>t DEF TypeOK, BoundInv, EffectsAreSends, Pending
<1>r. \A s \in {"none", "retryable", "error", "transport"} : Answer(s, 0).status # "ok"
    BY DEF Answer
<1>1. CASE UNCHANGED vars
    BY <1>1, <1>s DEF vars, server, net, history, CountInv
<1>2. ASSUME NEW t \in Calls, NEW w \in Writes, Begin(t, w) PROVE CountInv'
  <2>1. \A u \in Calls \ {t} : Same(u)
      BY <1>t, <1>2 DEF Begin, TypeOK
  <2>2. queued[t] = 0 /\ resp[t] = NoResponse /\ result[t] = NoResponse
      BY <1>2 DEF Begin, TypeInv, OnlyWritesTravel, Unbegun
  <2>3. CountsAll(t)'
      BY <1>2, <1>r, <2>2 DEF Begin, CountsAll, NoResponse
  <2> QED
      BY <1>s, <2>1, <2>3 DEF CountInv
<1>3. ASSUME NEW t \in Calls, Server(t) PROVE CountInv'
  <2>0. /\ write[t] \in Writes /\ UNCHANGED <<write, attempt, result>>
      BY <1>3, ServerEffect
  <2>1. \A u \in Calls \ {t} : Same(u)
    <3>1. \A u \in Calls \ {t} : queued'[u] = queued[u]
        BY <1>3, <1>t, <2>0, ServerEffect, ApplyTyped DEF Unapplied
    <3> QED
        BY <1>t, <1>3, <2>0, <3>1
        DEF Server, Arrive, ArriveLate, Refuse, GiveUp, Vanish, Respond, TypeOK
  <2>2. CountsAll(t)'
    <3> SUFFICES ASSUME write[t].kind = "resend", attempt[t] = 0
                 PROVE  CountsAll(t)'
        BY <2>0 DEF CountsAll
    <3>0. /\ Pending(t) <= 1
          /\ Pending(t) > 0 => /\ queued[t] = 0
                               /\ resp[t].status # "ok" /\ result[t].status # "ok"
        BY <1>p DEF CountInv, CountsAll
    <3>1. CASE Arrive(t)
      <4>1. PICK outcome \in Response :
              /\ Apply(t, write[t], outcome)
              /\ (\E r \in {outcome, Answer("retryable", 0)} : Respond(t, r))
                   \/ UNCHANGED <<pc, resp>>
          BY <3>1 DEF Arrive, Sent
      <4>2. PICK n : n = Cardinality(Batch(write[t])) /\ n \in Nat
          BY BatchSize
      <4>3. Pending(t) = 1 /\ Pending(t)' = 0
          BY <1>t, <1>p, <3>0, <3>1 DEF Arrive, Pending, TypeOK
      <4>4. queued'[t] = n /\ outcome.count = n
          BY <1>t, <3>0, <4>1, <4>2, <4>3 DEF Apply, Answer, TypeOK
      <4>5. resp'[t] \in {outcome, Answer("retryable", 0), resp[t]}
          BY <1>t, <4>1 DEF Respond, TypeOK
      <4>6. resp'[t].status = "ok" => resp'[t].count = n
          BY <1>r, <3>0, <4>3, <4>4, <4>5
      <4> QED
          BY <2>0, <3>0, <4>3, <4>4, <4>6 DEF CountsAll
    <3>2. CASE ArriveLate(t)
      <4>1. Pending(t) = 1 /\ Pending(t)' = 0 /\ resp' = resp
          BY <1>t, <1>p, <3>0, <3>2 DEF ArriveLate, Pending, TypeOK
      <4> QED
          BY <2>0, <3>0, <4>1 DEF CountsAll
    <3>3. CASE Refuse(t) \/ GiveUp(t)
      <4>1. PICK s \in {"retryable", "error"} : Respond(t, Answer(s, 0))
          BY <3>3 DEF Refuse, GiveUp
      <4>2. resp'[t].status # "ok"
          BY <1>t, <1>r, <4>1 DEF Respond, TypeOK
      <4>3. Pending(t) = 1 /\ queued' = queued
          BY <1>t, <1>p, <3>0, <3>3 DEF Refuse, GiveUp, Pending, TypeOK
      <4> QED
          BY <2>0, <3>0, <4>2, <4>3 DEF CountsAll
    <3>4. CASE Vanish(t)
      <4>1. Pending(t) = 1 /\ UNCHANGED <<queued, resp>>
          BY <1>t, <1>p, <3>0, <3>4 DEF Vanish, Pending, TypeOK
      <4> QED
          BY <2>0, <3>0, <4>1 DEF CountsAll
    <3> QED
        BY <1>3, <3>1, <3>2, <3>3, <3>4 DEF Server
  <2> QED
      BY <1>s, <2>1, <2>2 DEF CountInv
<1>4. ASSUME NEW t \in Calls, Client(t) PROVE CountInv'
  <2>1. \A u \in Calls \ {t} : Same(u)
      BY <1>t, <1>4 DEF Client, Lose, Retry, Return, Finish, TypeOK, net, history
  <2>2. CountsAll(t)'
    <3>1. CASE Retry(t)
      <4>1. attempt'[t] # 0
          BY <1>t, <1>p, <3>1 DEF Retry, TypeOK
      <4> QED
          BY <4>1 DEF CountsAll
    <3>2. CASE Lose(t) \/ Return(t)
      <4>1. /\ UNCHANGED <<write, attempt, travelling, abandoned, queued>>
            /\ resp'[t] = NoResponse
            /\ result'[t] \in {resp[t], Answer("transport", 0)}
          BY <1>t, <3>2 DEF Lose, Return, Finish, Parsed, TypeOK, net, history
      <4>2. Pending(t)' = Pending(t)
          BY <4>1 DEF Pending
      <4>3. resp'[t].status # "ok" /\ Answer("transport", 0).status # "ok"
          BY <1>r, <4>1 DEF NoResponse
      <4> QED
          BY <4>1, <4>2, <4>3 DEF CountInv, CountsAll
    <3> QED
        BY <1>4, <3>1, <3>2 DEF Client
  <2> QED
      BY <1>s, <2>1, <2>2 DEF CountInv
<1>5. ASSUME NEW e \in Events, Conclude(e) PROVE CountInv'
    BY <1>5, <1>s, ConcludeTouches DEF CountInv
<1> QED
    BY <1>1, <1>2, <1>3, <1>4, <1>5 DEF Next

\* No open is reported that did not fire, no removal that left a schedule, and
\* no more deliveries than the call's own requests have enqueued: all of them
\* if it sent one request, what the last one enqueued at least if it sent more.
THEOREM Truthful == Spec => []AnswersAreTrue
<1>1. Init => AnswerInv /\ CountInv /\ BoundInv
  <2> SUFFICES ASSUME Init PROVE AnswerInv /\ CountInv /\ BoundInv
      OBVIOUS
  <2>1. NoResponse.status # "ok" /\ NoResponse.status # "notFound"
      BY DEF NoResponse, Answer
  <2>2. AnswerInv /\ CountInv
      BY <2>1 DEF Init, AnswerInv, TrueOf, CountInv, CountsAll
  <2>3. BoundInv
      BY DEF Init, BoundInv, EffectsAreSends, AnsweredHasArrived, Pending
  <2> QED
      BY <2>2, <2>3
<1>2. AnswerInv /\ CountInv => AnswersAreTrue
    BY DEF AnswerInv, TrueOf, CountInv, CountsAll, AnswersAreTrue
<1> QED
    BY <1>1, <1>2, AnswerStep, CountStep, BoundStep, TypeInvariant, PTL DEF Spec

============================================================================
