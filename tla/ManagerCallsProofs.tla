------------------------- MODULE ManagerCallsProofs -------------------------
(***************************************************************************)
(* What a family of methods keeps under retries, refusals, timeouts and    *)
(* other managers' calls, for every number of managers, calls, retries and *)
(* faults, and for every family that meets the assumptions of ManagerCalls *)
(* about a single request.                                                 *)
(***************************************************************************)
EXTENDS ManagerCalls, TLAPS

USE BoundsAssumption, NamesAssumption

----------------------------------------------------------------------------
(* Types, and that a request is applied at most once an attempt.           *)

Traces == [applied : Nat, before : Communities(scene) \cup {None},
           alone : BOOLEAN, fresh : BOOLEAN]

Typed ==
    /\ scene \in Scenes
    /\ community \in Communities(scene)
    /\ key \in [Managers -> KeyModes]
    /\ begun \in 0..MaxCalls
    /\ faults \in 0..MaxFaults
    /\ pc \in [Managers -> {"idle", "sent"}]
    /\ call \in [Managers -> Calls(scene) \cup {NoCall}]
    /\ attempt \in [Managers -> 0..MaxRetries]
    /\ trace \in [Managers -> Traces]

Counted(tr, attempts) ==
    /\ tr.applied <= attempts
    /\ tr.applied > 0 => tr.before \in Communities(scene)

CallsCount ==
    \A m \in Managers :
        /\ pc[m] = "sent" => call[m] # NoCall
        /\ Counted(trace[m], attempt[m])

TypeInv == Typed /\ CallsCount

LEMMA NoTraceTyped == NoTrace \in Traces /\ \A k \in Nat : Counted(NoTrace, k)
BY DEF NoTrace, Traces, Counted

LEMMA TypeInit == Init => TypeInv
<1> SUFFICES ASSUME Init PROVE TypeInv
    OBVIOUS
<1>1. Typed
    BY StartAssumption, NoTraceTyped DEF Init, Typed
<1>2. CallsCount
    BY NoTraceTyped DEF Init, CallsCount
<1> QED
    BY <1>1, <1>2 DEF TypeInv

\* What a call under way is.
LEMMA CallUnderWay ==
    ASSUME TypeInv, NEW m \in Managers, pc[m] = "sent"
    PROVE  /\ scene \in Scenes /\ community \in Communities(scene)
           /\ call[m] \in Calls(scene)
           /\ key[m] \in {"live", "test"}
           /\ attempt[m] \in Nat /\ attempt[m] <= MaxRetries
           /\ trace[m] \in Traces /\ trace[m].applied <= attempt[m]
BY DEF TypeInv, Typed, CallsCount, Counted, KeyModes

\* Where m's request may take the community.
LEMMA AfterTyped ==
    ASSUME TypeInv, NEW m \in Managers, pc[m] = "sent", NEW applied \in BOOLEAN
    PROVE  CommunityAfter(m, applied) \in Communities(scene)
BY CallUnderWay, ServeAssumption DEF CommunityAfter, Served, Sent

\* And what the histories say then.
LEMMA TraceTyped ==
    ASSUME TypeInv, NEW m \in Managers, pc[m] = "sent", NEW applied \in BOOLEAN,
           NEW to
    PROVE  /\ TraceAfter(m, applied, to) \in [Managers -> Traces]
           /\ Counted(TraceAfter(m, applied, to)[m], attempt[m] + 1)
           /\ \A u \in Managers \ {m} :
                Counted(TraceAfter(m, applied, to)[u], attempt[u])
<1> DEFINE after == TraceAfter(m, applied, to)
<1>1. /\ trace \in [Managers -> Traces] /\ attempt \in [Managers -> Nat]
      /\ community \in Communities(scene)
      /\ \A u \in Managers : Counted(trace[u], attempt[u])
    BY DEF TypeInv, Typed, CallsCount
<1>2. CASE ~applied
  <2>1. after = trace
      BY <1>2 DEF TraceAfter
  <2>2. Counted(trace[m], attempt[m] + 1)
      BY <1>1 DEF Counted, Traces
  <2> QED
      BY <1>1, <2>1, <2>2
<1>3. CASE applied
  <2>1. after = Traced(m, to)
      BY <1>3 DEF TraceAfter
  <2>2. ASSUME NEW u \in Managers \ {m}
        PROVE  after[u] \in Traces /\ Counted(after[u], attempt[u])
    <3>1. after[u] = [trace[u] EXCEPT !.alone =
                        @ /\ (trace[u].applied = 0 \/ to = community)]
        BY <2>1 DEF Traced
    <3>2. PICK b \in BOOLEAN : after[u] = [trace[u] EXCEPT !.alone = b]
      <4>1. (trace[u].alone /\ (trace[u].applied = 0 \/ to = community)) \in BOOLEAN
          OBVIOUS
      <4> QED
          BY <3>1, <4>1 DEF Traces
    <3> QED
        BY <1>1, <3>2 DEF Traces, Counted
  <2>3. after[m] \in Traces /\ Counted(after[m], attempt[m] + 1)
    <3>1. CASE trace[m].applied > 0
      <4>1. after[m] = [trace[m] EXCEPT !.applied = @ + 1]
          BY <2>1, <3>1 DEF Traced
      <4> QED
          BY <1>1, <3>1, <4>1 DEF Traces, Counted
    <3>2. CASE ~(trace[m].applied > 0)
      <4>1. after[m] = [applied |-> 1, before |-> community, alone |-> TRUE,
                        fresh |-> known[m] = View(scene, community)]
          BY <2>1, <3>2 DEF Traced
      <4>2. (known[m] = View(scene, community)) \in BOOLEAN
          OBVIOUS
      <4> QED
          BY <1>1, <4>1, <4>2 DEF Traces, Counted
    <3> QED
        BY <3>1, <3>2
  <2>4. after \in [Managers -> Traces]
      BY <2>1, <2>2, <2>3 DEF Traced
  <2> QED
      BY <2>2, <2>3, <2>4
<1> QED
    BY <1>2, <1>3

----------------------------------------------------------------------------

LEMMA ReturnTyped ==
    ASSUME TypeInv, NEW m \in Managers, pc[m] = "sent", NEW applied \in BOOLEAN,
           NEW raised, NEW result, Return(m, applied, raised, result),
           faults' \in 0..MaxFaults
    PROVE  TypeInv'
<1>1. /\ TraceAfter(m, applied, community') \in [Managers -> Traces]
      /\ \A u \in Managers \ {m} :
            Counted(TraceAfter(m, applied, community')[u], attempt[u])
    BY TraceTyped
<1>2. community' \in Communities(scene)
    BY AfterTyped DEF Return
<1>3. scene' = scene /\ Traces' = Traces
    BY DEF Return, Traces
<1>4. Typed'
    BY <1>1, <1>2, <1>3, NoTraceTyped DEF Return, TypeInv, Typed
<1>5. CallsCount'
  <2> SUFFICES ASSUME NEW u \in Managers
               PROVE  /\ pc'[u] = "sent" => call'[u] # NoCall
                      /\ Counted(trace[u], attempt[u])'
      BY DEF CallsCount
  <2>1. CASE u = m
      BY <1>1, <2>1, NoTraceTyped DEF Return, TypeInv, Typed, Counted, NoTrace
  <2>2. CASE u # m
      BY <1>1, <1>3, <2>2 DEF Return, TypeInv, Typed, CallsCount, Counted
  <2> QED
      BY <2>1, <2>2
<1> QED
    BY <1>4, <1>5 DEF TypeInv

LEMMA TypeStep == TypeInv /\ [Next]_vars => TypeInv'
<1> SUFFICES ASSUME TypeInv, [Next]_vars PROVE TypeInv'
    OBVIOUS
<1>1. CASE UNCHANGED vars
    BY <1>1 DEF vars, TypeInv, Typed, CallsCount, Counted, Traces
<1>2. ASSUME NEW m \in Managers, Refresh(m) PROVE TypeInv'
    BY <1>2 DEF Refresh, TypeInv, Typed, CallsCount, Counted, Traces
<1>3. ASSUME NEW m \in Managers, NEW c \in Calls(scene), Begin(m, c) PROVE TypeInv'
  <2>1. scene' = scene /\ Traces' = Traces /\ c # NoCall
      BY <1>3 DEF Begin, Traces, TypeInv, Typed
  <2>2. Typed'
      BY <1>3, <2>1, NoTraceTyped DEF Begin, TypeInv, Typed
  <2>3. CallsCount'
      BY <1>3, <2>1, NoTraceTyped DEF Begin, TypeInv, Typed, CallsCount, Counted, NoTrace
  <2> QED
      BY <2>2, <2>3 DEF TypeInv
<1>4. ASSUME NEW m \in Managers, NEW applied \in BOOLEAN, Retry(m, applied)
      PROVE  TypeInv'
  <2>1. /\ TraceAfter(m, applied, community') \in [Managers -> Traces]
        /\ Counted(TraceAfter(m, applied, community')[m], attempt[m] + 1)
        /\ \A u \in Managers \ {m} :
              Counted(TraceAfter(m, applied, community')[u], attempt[u])
      BY <1>4, TraceTyped DEF Retry
  <2>2. community' \in Communities(scene)
      BY <1>4, AfterTyped DEF Retry
  <2>3. scene' = scene /\ Traces' = Traces
      BY <1>4 DEF Retry, Traces
  <2>4. attempt[m] + 1 \in 0..MaxRetries /\ faults' \in 0..MaxFaults
      BY <1>4 DEF Retry, ShouldRetry, Fails, TypeInv, Typed
  <2>5. Typed'
      BY <1>4, <2>1, <2>2, <2>3, <2>4 DEF Retry, TypeInv, Typed
  <2>6. CallsCount'
    <3> SUFFICES ASSUME NEW u \in Managers
                 PROVE  /\ pc'[u] = "sent" => call'[u] # NoCall
                        /\ Counted(trace[u], attempt[u])'
        BY DEF CallsCount
    <3>1. CASE u = m
        BY <1>4, <2>1, <2>3, <3>1 DEF Retry, TypeInv, Typed, CallsCount, Counted
    <3>2. CASE u # m
        BY <1>4, <2>1, <2>3, <3>2 DEF Retry, TypeInv, Typed, CallsCount, Counted
    <3> QED
        BY <3>1, <3>2
  <2> QED
      BY <2>5, <2>6 DEF TypeInv
<1>5. ASSUME NEW m \in Managers, Answer(m) PROVE TypeInv'
  <2>1. PICK raised, result : Return(m, TRUE, raised, result)
      BY <1>5 DEF Answer
  <2> QED
      BY <1>5, <2>1, ReturnTyped DEF Answer, TypeInv, Typed
<1>6. ASSUME NEW m \in Managers, NEW applied \in BOOLEAN,
             GiveUp(m, applied) \/ Lose(m, applied)
      PROVE  TypeInv'
  <2>1. PICK raised : Return(m, applied, raised, None)
      BY <1>6 DEF GiveUp, Lose
  <2>2. pc[m] = "sent" /\ faults' \in 0..MaxFaults
      BY <1>6 DEF GiveUp, Lose, Fails, TypeInv, Typed
  <2> QED
      BY <2>1, <2>2, ReturnTyped
<1> QED
    BY <1>1, <1>2, <1>3, <1>4, <1>5, <1>6 DEF Next, Deliver

LEMMA TypeInvariant == Spec => []TypeInv
BY TypeInit, TypeStep, PTL DEF Spec

\* Type correctness: the community stays one the server may hold, no call has
\* more than 1 + max_retries attempts and none is applied more often.
THEOREM TypeCorrect == Spec => []TypeOK
<1>1. TypeInv => TypeOK
    BY DEF TypeInv, Typed, CallsCount, Counted, TypeOK, Traces
<1> QED
    BY <1>1, TypeInvariant, PTL

----------------------------------------------------------------------------
(* What the requests of a call have done so far, as long as nobody else's  *)
(* have done anything since the first of them: o is the community then.    *)

\* A repeatable call leaves the community as its first request left it.
Once(tr, c, mode, o) ==
    tr.applied > 0 /\ tr.alone /\ Repeatable(scene, c) =>
        o = Serve(scene, tr.before, Request(scene, c), mode).to

\* Each request has created what one may create.
Extras(tr, c, o) ==
    tr.applied > 0 /\ tr.alone =>
        Things(scene, o) <= Things(scene, tr.before) + c.creates * tr.applied

Kept(tr, c, mode, o) == Once(tr, c, mode, o) /\ Extras(tr, c, o)

EffectInv ==
    \A m \in Managers :
        pc[m] = "sent" => Kept(trace[m], call[m], key[m], community)

ReturnInv ==
    returned # NoReturn =>
        /\ returned.call \in Calls(scene)
        /\ returned.trace \in Traces /\ Counted(returned.trace, 1 + MaxRetries)
        /\ Kept(returned.trace, returned.call, key[returned.by], community)

LEMMA NothingYet == \A c, mode, o : Kept(NoTrace, c, mode, o)
BY DEF Kept, Once, Extras, NoTrace

\* One more request of a call that was alone so far.
LEMMA OneMoreRequest ==
    ASSUME TypeInv, NEW m \in Managers, pc[m] = "sent",
           Kept(trace[m], call[m], key[m], community),
           NEW to, to = Served(m).to
    PROVE  Kept(Traced(m, to)[m], call[m], key[m], to)
<1> DEFINE c == call[m]
           r == Request(scene, c)
           tr == trace[m]
           new == Traced(m, to)[m]
<1>1. /\ scene \in Scenes /\ community \in Communities(scene)
      /\ c \in Calls(scene) /\ key[m] \in {"live", "test"}
      /\ tr \in Traces
    BY CallUnderWay
<1>2. to = Serve(scene, community, r, key[m]).to
    BY DEF Served, Sent
<1>3. /\ Things(scene, community) \in Nat /\ Things(scene, to) \in Nat
      /\ c.creates \in Nat
      /\ Things(scene, to) <= Things(scene, community) + c.creates
    BY <1>1, <1>2, ServeAssumption, ThingsAssumption
<1>4. CASE ~(tr.applied > 0)
  <2>1. new.applied = 1 /\ new.before = community
      BY <1>4 DEF Traced
  <2>2. Once(new, c, key[m], to)
      BY <1>2, <2>1 DEF Once
  <2>3. Extras(new, c, to)
      BY <1>3, <2>1 DEF Extras
  <2> QED
      BY <2>2, <2>3 DEF Kept
<1>5. CASE tr.applied > 0
  <2>1. /\ new.applied = tr.applied + 1
        /\ new.before = tr.before /\ new.alone = tr.alone
      BY <1>1, <1>5 DEF Traced, Traces
  <2>2. tr.before \in Communities(scene)
      BY <1>5 DEF TypeInv, CallsCount, Counted
  <2>3. Once(new, c, key[m], to)
    <3> SUFFICES ASSUME tr.alone, Repeatable(scene, c)
                 PROVE  to = Serve(scene, tr.before, r, key[m]).to
        BY <2>1 DEF Once
    <3>1. community = Serve(scene, tr.before, r, key[m]).to
        BY <1>5 DEF Kept, Once
    <3>2. CASE key[m] = "live"
        BY <1>1, <1>2, <2>2, <3>1, <3>2, RepeatAssumption
    <3>3. CASE key[m] = "test"
        BY <1>1, <1>2, <3>1, <3>3, ServeAssumption
    <3> QED
        BY <1>1, <3>2, <3>3
  <2>4. Extras(new, c, to)
    <3> SUFFICES ASSUME tr.alone
                 PROVE  Things(scene, to) <=
                          Things(scene, tr.before) + c.creates * (tr.applied + 1)
        BY <2>1 DEF Extras
    <3>1. Things(scene, community) <= Things(scene, tr.before) + c.creates * tr.applied
        BY <1>5 DEF Kept, Extras
    <3>2. Things(scene, tr.before) \in Nat /\ tr.applied \in Nat
        BY <1>1, <2>2, ThingsAssumption DEF Traces
    <3>3. c.creates * (tr.applied + 1) = c.creates * tr.applied + c.creates
        BY <1>3, <3>2
    <3>4. c.creates * tr.applied \in Nat
        BY <1>3, <3>2
    <3> HIDE DEF c, tr
    <3> QED
        BY <1>3, <3>1, <3>2, <3>3, <3>4
  <2> QED
      BY <2>3, <2>4 DEF Kept
<1> QED
    BY <1>4, <1>5

\* m's attempt, applied or not, for m and for everybody else.
LEMMA AttemptKeeps ==
    ASSUME TypeInv, EffectInv, NEW m \in Managers, pc[m] = "sent",
           NEW applied \in BOOLEAN, NEW to, to = CommunityAfter(m, applied)
    PROVE  \A u \in Managers : pc[u] = "sent" =>
             Kept(TraceAfter(m, applied, to)[u], call[u], key[u], to)
<1> SUFFICES ASSUME NEW u \in Managers, pc[u] = "sent"
             PROVE  Kept(TraceAfter(m, applied, to)[u], call[u], key[u], to)
    OBVIOUS
<1>1. Kept(trace[u], call[u], key[u], community)
    BY DEF EffectInv
<1>2. CASE ~applied
    BY <1>1, <1>2 DEF CommunityAfter, TraceAfter
<1>3. CASE applied /\ u = m
    BY <1>1, <1>3, OneMoreRequest DEF CommunityAfter, TraceAfter
<1>4. CASE applied /\ u # m
  <2>1. trace[u] \in Traces
      BY DEF TypeInv, Typed
  <2>2. TraceAfter(m, applied, to)[u] =
          [trace[u] EXCEPT !.alone = @ /\ (trace[u].applied = 0 \/ to = community)]
      BY <1>4 DEF TraceAfter, Traced
  <2>3. /\ TraceAfter(m, applied, to)[u].applied = trace[u].applied
        /\ TraceAfter(m, applied, to)[u].before = trace[u].before
        /\ TraceAfter(m, applied, to)[u].alone =
             (trace[u].alone /\ (trace[u].applied = 0 \/ to = community))
      BY <2>1, <2>2 DEF Traces
  <2>4. CASE to = community
      BY <1>1, <2>3, <2>4 DEF Kept, Once, Extras
  <2>5. CASE to # community
    <3> DEFINE tr == TraceAfter(m, applied, to)[u]
    <3>1. ~ (tr.applied > 0 /\ tr.alone)
      <4>1. tr.alone => trace[u].applied = 0
          BY <2>3, <2>5, Zenon
      <4>2. tr.applied = trace[u].applied
          BY <2>3
      <4> HIDE DEF tr
      <4> QED
          BY <4>1, <4>2
    <3> HIDE DEF tr
    <3>2. Kept(tr, call[u], key[u], to)
        BY <3>1 DEF Kept, Once, Extras
    <3> QED
        BY <3>2 DEF tr
  <2> QED
      BY <2>4, <2>5
<1> QED
    BY <1>2, <1>3, <1>4

LEMMA ReturnKeeps ==
    ASSUME TypeInv, EffectInv, NEW m \in Managers, pc[m] = "sent",
           NEW applied \in BOOLEAN, NEW raised, NEW result,
           Return(m, applied, raised, result)
    PROVE  EffectInv' /\ ReturnInv'
<1> DEFINE to == CommunityAfter(m, applied)
           after == TraceAfter(m, applied, to)
<1>1. /\ community' = to /\ scene' = scene /\ key' = key
      /\ Traces' = Traces
    BY DEF Return, Traces
<1>2. \A u \in Managers : pc[u] = "sent" => Kept(after[u], call[u], key[u], to)
    BY AttemptKeeps
<1>3. /\ after \in [Managers -> Traces]
      /\ Counted(after[m], attempt[m] + 1)
    BY TraceTyped
<1>4. EffectInv'
  <2> SUFFICES ASSUME NEW u \in Managers, pc'[u] = "sent"
               PROVE  Kept(trace'[u], call'[u], key[u], to)
      BY <1>1 DEF EffectInv, Kept, Once, Extras
  <2>1. u # m /\ pc[u] = "sent" /\ call'[u] = call[u] /\ trace'[u] = after[u]
      BY <1>1, <1>3 DEF Return, TypeInv, Typed
  <2> QED
      BY <1>2, <2>1
<1>5. ReturnInv'
  <2>1. /\ returned'.by = m /\ returned'.call = call[m]
        /\ returned'.trace = after[m]
      BY <1>1 DEF Return
  <2>2. call[m] \in Calls(scene) /\ attempt[m] \in Nat /\ attempt[m] <= MaxRetries
      BY CallUnderWay
  <2>3. Counted(after[m], 1 + MaxRetries)
      BY <1>3, <2>2 DEF Counted, Traces
  <2> QED
      BY <1>1, <1>2, <1>3, <2>1, <2>2, <2>3 DEF ReturnInv, Kept, Once, Extras, Counted
<1> QED
    BY <1>4, <1>5

LEMMA EffectStep ==
    TypeInv /\ EffectInv /\ ReturnInv /\ [Next]_vars => EffectInv' /\ ReturnInv'
<1> SUFFICES ASSUME TypeInv, EffectInv, ReturnInv, [Next]_vars
             PROVE  EffectInv' /\ ReturnInv'
    OBVIOUS
<1>1. CASE UNCHANGED vars
    BY <1>1 DEF vars, EffectInv, ReturnInv, Kept, Once, Extras, Counted, Traces
<1>2. ASSUME NEW m \in Managers, Refresh(m) PROVE EffectInv' /\ ReturnInv'
    BY <1>2 DEF Refresh, EffectInv, ReturnInv, Kept, Once, Extras
<1>3. ASSUME NEW m \in Managers, NEW c \in Calls(scene), Begin(m, c)
      PROVE  EffectInv' /\ ReturnInv'
  <2>1. /\ returned' = NoReturn /\ trace'[m] = NoTrace
        /\ UNCHANGED <<scene, key, community>>
        /\ \A u \in Managers \ {m} :
              trace'[u] = trace[u] /\ pc'[u] = pc[u] /\ call'[u] = call[u]
      BY <1>3 DEF Begin, TypeInv, Typed
  <2>2. \A u \in Managers : pc'[u] = "sent" =>
           Kept(trace'[u], call'[u], key[u], community)
      BY <2>1, NothingYet DEF EffectInv
  <2> QED
      BY <2>1, <2>2 DEF EffectInv, ReturnInv, Kept, Once, Extras
<1>4. ASSUME NEW m \in Managers, NEW applied \in BOOLEAN, Retry(m, applied)
      PROVE  EffectInv' /\ ReturnInv'
  <2>1. \A u \in Managers : pc[u] = "sent" =>
          Kept(TraceAfter(m, applied, community')[u], call[u], key[u], community')
      BY <1>4, AttemptKeeps DEF Retry
  <2> QED
      BY <1>4, <2>1 DEF Retry, EffectInv, ReturnInv, Kept, Once, Extras
<1>5. ASSUME NEW m \in Managers, Answer(m) PROVE EffectInv' /\ ReturnInv'
  <2>1. PICK raised, result : Return(m, TRUE, raised, result)
      BY <1>5 DEF Answer
  <2> QED
      BY <1>5, <2>1, ReturnKeeps DEF Answer
<1>6. ASSUME NEW m \in Managers, NEW applied \in BOOLEAN,
             GiveUp(m, applied) \/ Lose(m, applied)
      PROVE  EffectInv' /\ ReturnInv'
  <2>1. PICK raised : Return(m, applied, raised, None)
      BY <1>6 DEF GiveUp, Lose
  <2>2. pc[m] = "sent"
      BY <1>6 DEF GiveUp, Lose
  <2> QED
      BY <2>1, <2>2, ReturnKeeps
<1> QED
    BY <1>1, <1>2, <1>3, <1>4, <1>5, <1>6 DEF Next, Deliver

LEMMA EffectInvariant == Spec => []ReturnInv
<1>1. Init => EffectInv /\ ReturnInv
    BY NothingYet DEF Init, EffectInv, ReturnInv
<1> QED
    BY <1>1, EffectStep, TypeInvariant, PTL DEF Spec

\* A repeatable call that nobody came between has the effect of one request,
\* however often it was sent and however it ended.
THEOREM OneEffect == Spec => []EffectIsOnce
<1>1. ReturnInv => EffectIsOnce
    BY DEF ReturnInv, Kept, Once, EffectIsOnce, Undisturbed, Applied
<1> QED
    BY <1>1, EffectInvariant, PTL

\* A create leaves no more things behind than it may have attempts.
THEOREM FewExtras == Spec => []ExtrasAreAttempts
<1>1. TypeInv /\ ReturnInv => ExtrasAreAttempts
  <2> SUFFICES ASSUME TypeInv, ReturnInv, returned # NoReturn, Undisturbed(returned)
               PROVE  Things(scene, community) <=
                        Things(scene, returned.trace.before)
                          + returned.call.creates * (1 + MaxRetries)
      BY DEF ExtrasAreAttempts
  <2> DEFINE c == returned.call
             tr == returned.trace
  <2>1. /\ tr.applied \in Nat /\ tr.applied <= 1 + MaxRetries
        /\ tr.before \in Communities(scene) /\ c \in Calls(scene)
        /\ scene \in Scenes /\ community \in Communities(scene)
      BY DEF ReturnInv, TypeInv, Typed, Undisturbed, Applied, Counted, Traces
  <2>2. Things(scene, community) <= Things(scene, tr.before) + c.creates * tr.applied
      BY DEF ReturnInv, Kept, Extras, Undisturbed, Applied
  <2>3. /\ Things(scene, community) \in Nat /\ Things(scene, tr.before) \in Nat
        /\ c.creates \in Nat
      BY <2>1, ThingsAssumption
  <2>4. c.creates * tr.applied <= c.creates * (1 + MaxRetries)
    <3>1. 1 + MaxRetries - tr.applied \in Nat
        BY <2>1
    <3>2. c.creates * (1 + MaxRetries - tr.applied) \in Nat
        BY <2>3, <3>1
    <3> QED
        BY <2>1, <2>3, <3>2
  <2>5. c.creates * tr.applied \in Nat /\ c.creates * (1 + MaxRetries) \in Nat
      BY <2>1, <2>3
  <2> HIDE DEF c, tr
  <2>6. Things(scene, community) <= Things(scene, tr.before) + c.creates * (1 + MaxRetries)
      BY <2>2, <2>3, <2>4, <2>5
  <2> QED
      BY <2>6 DEF c, tr
<1> QED
    BY <1>1, EffectInvariant, TypeInvariant, PTL

----------------------------------------------------------------------------
(* What a call that has ended knew, and what its last request was answered.*)

\* What the call was made from is what its first request met, if it is fresh.
MadeFrom(tr, v) == tr.applied > 0 /\ tr.fresh => v = View(scene, tr.before)

KnowledgeInv ==
    \A m \in Managers : pc[m] = "sent" =>
        Offered(scene, known[m], call[m]) /\ MadeFrom(trace[m], known[m])

\* What ends a call that has no answer of its own.
Lost == {"APITimeoutError", exception_for(503, None)}

\* The call r ended with the answer a to a request that was applied to mid.
Answers(r, mid, a) ==
    /\ community = a.to
    /\ a.status \in 200..299 =>
         r.raised = None /\ r.result = Result(scene, r.call, a.body)
    /\ a.status \notin 200..299 => r.raised = exception_for(a.status, a.body.code)
    /\ r.trace.applied > 0
    /\ r.trace.applied = 1 => mid = r.trace.before
    /\ r.trace.applied > 1 /\ r.trace.alone /\ Repeatable(scene, r.call) =>
         mid = Serve(scene, r.trace.before, Request(scene, r.call), key[r.by]).to

\* A call that has ended ended with a timeout, the last 5xx, or the server's
\* answer to its last request.
EndInv ==
    returned # NoReturn =>
        /\ returned.by \in Managers /\ returned.call \in Calls(scene)
        /\ returned.trace.applied > 0 =>
             returned.trace.before \in Communities(scene)
        /\ returned.trace.applied > 0 /\ returned.trace.fresh =>
             Offered(scene, View(scene, returned.trace.before), returned.call)
        /\ \/ returned.raised \in Lost
           \/ \E mid \in Communities(scene) :
                Answers(returned, mid,
                        Serve(scene, mid, Request(scene, returned.call), key[returned.by]))

\* Nobody's request changes what another call was made from.
LEMMA KnowledgeAfter ==
    ASSUME TypeInv, KnowledgeInv, NEW m \in Managers, pc[m] = "sent",
           NEW applied \in BOOLEAN, NEW to, NEW u \in Managers, pc[u] = "sent"
    PROVE  MadeFrom(TraceAfter(m, applied, to)[u], known[u])
<1> DEFINE new == TraceAfter(m, applied, to)[u]
<1>1. MadeFrom(trace[u], known[u]) /\ trace[u] \in Traces
    BY DEF KnowledgeInv, TypeInv, Typed
<1>2. CASE ~applied
    BY <1>1, <1>2 DEF TraceAfter
<1>3. CASE applied /\ u = m /\ ~(trace[m].applied > 0)
  <2>1. new = [applied |-> 1, before |-> community, alone |-> TRUE,
               fresh |-> known[m] = View(scene, community)]
      BY <1>3 DEF TraceAfter, Traced
  <2> DEFINE same == known[m] = View(scene, community)
  <2>2. new.before = community /\ new.fresh = same
    <3> HIDE DEF new, same
    <3> QED
        BY <2>1 DEF same
  <2> HIDE DEF new
  <2> QED
      BY <1>3, <2>2 DEF MadeFrom, new
<1>4. CASE applied /\ (u = m => trace[m].applied > 0)
  <2>1. new.before = trace[u].before /\ new.fresh = trace[u].fresh
        /\ (new.applied > 0 <=> trace[u].applied > 0)
    <3>1. CASE u = m
      <4>1. new = [trace[m] EXCEPT !.applied = @ + 1] /\ trace[u].applied > 0
          BY <1>4, <3>1 DEF TraceAfter, Traced
      <4> QED
          BY <1>1, <3>1, <4>1 DEF Traces
    <3>2. CASE u # m
      <4>1. new = [trace[u] EXCEPT !.alone =
                      @ /\ (trace[u].applied = 0 \/ to = community)]
          BY <1>4, <3>2 DEF TraceAfter, Traced
      <4> QED
          BY <1>1, <4>1 DEF Traces
    <3> QED
        BY <3>1, <3>2
  <2> QED
      BY <1>1, <2>1 DEF MadeFrom
<1> QED
    BY <1>2, <1>3, <1>4

LEMMA ReturnEnds ==
    ASSUME TypeInv, KnowledgeInv, NEW m \in Managers, pc[m] = "sent",
           NEW applied \in BOOLEAN, NEW raised, NEW result,
           Return(m, applied, raised, result),
           \/ raised \in Lost
           \/ /\ applied /\ EffectInv
              /\ LET a == Served(m)
                 IN  IF a.status \in 200..299
                     THEN raised = None /\ result = Result(scene, call[m], a.body)
                     ELSE raised = exception_for(a.status, a.body.code)
    PROVE  KnowledgeInv' /\ EndInv'
<1> DEFINE after == TraceAfter(m, applied, community')
<1>1. /\ scene' = scene /\ key' = key /\ community' = CommunityAfter(m, applied)
      /\ after \in [Managers -> Traces] /\ Counted(after[m], attempt[m] + 1)
    BY TraceTyped DEF Return
<1>2. \A u \in Managers : pc[u] = "sent" => MadeFrom(after[u], known[u])
    BY KnowledgeAfter
<1>3. KnowledgeInv'
  <2> SUFFICES ASSUME NEW u \in Managers, pc'[u] = "sent"
               PROVE  Offered(scene, known'[u], call'[u]) /\ MadeFrom(trace'[u], known'[u])
      BY <1>1 DEF KnowledgeInv, MadeFrom
  <2>1. /\ u # m /\ pc[u] = "sent" /\ call'[u] = call[u] /\ trace'[u] = after[u]
        /\ known'[u] = known[u]
      BY <1>1 DEF Return, TypeInv, Typed
  <2> QED
      BY <1>2, <2>1 DEF KnowledgeInv
<1>4. EndInv'
  <2> DEFINE c == call[m]
             new == after[m]
  <2>1. returned' = [by |-> m, call |-> c, raised |-> raised, result |-> result,
                     trace |-> new]
      BY DEF Return
  <2>2. /\ returned'.by = m /\ returned'.call = c /\ returned'.trace = new
        /\ returned'.raised = raised /\ returned'.result = result
    <3> HIDE DEF c, new
    <3> QED
        BY <2>1
  <2>3. c \in Calls(scene) /\ Offered(scene, known[m], c) /\ MadeFrom(new, known[m])
      BY <1>2, CallUnderWay DEF KnowledgeInv
  <2>4. new.applied > 0 => new.before \in Communities(scene)
      BY <1>1 DEF Counted
  <2>5. new.applied > 0 /\ new.fresh => Offered(scene, View(scene, new.before), c)
      BY <2>3 DEF MadeFrom
  <2>6. ASSUME raised \notin Lost
        PROVE  (\E mid \in Communities(scene) :
                  Answers(returned, mid,
                    Serve(scene, mid, Request(scene, returned.call), key[returned.by])))'
    <3>1. PICK mid \in Communities(scene) : mid = community
        BY CallUnderWay
    <3>a. PICK a : a = Serve(scene, mid, Request(scene, c), key[m])
        OBVIOUS
    <3>2. applied /\ EffectInv /\ a = Served(m)
        BY <2>6, <3>1, <3>a DEF Served, Sent
    <3>3. community' = a.to
        BY <1>1, <3>2 DEF CommunityAfter
    <3>4. /\ a.status \in 200..299 =>
               raised = None /\ result = Result(scene, c, a.body)
          /\ a.status \notin 200..299 => raised = exception_for(a.status, a.body.code)
        BY <2>6, <3>2
    <3>5. /\ new.applied > 0
          /\ new.applied = 1 => mid = new.before
          /\ new.applied > 1 /\ new.alone /\ Repeatable(scene, c) =>
               mid = Serve(scene, new.before, Request(scene, c), key[m]).to
      <4>1. trace[m] \in Traces /\ new = Traced(m, community')[m]
          BY <3>2, CallUnderWay DEF TraceAfter
      <4>2. CASE trace[m].applied > 0
        <5>1. /\ new.applied = trace[m].applied + 1 /\ new.before = trace[m].before
              /\ new.alone = trace[m].alone
            BY <4>1, <4>2 DEF Traced, Traces
        <5>2. trace[m].applied \in Nat
            BY <4>1 DEF Traces
        <5>3. new.alone /\ Repeatable(scene, c) =>
                community = Serve(scene, new.before, Request(scene, c), key[m]).to
            BY <3>2, <4>2, <5>1 DEF EffectInv, Kept, Once
        <5> QED
            BY <3>1, <4>2, <5>1, <5>2, <5>3
      <4>3. CASE ~(trace[m].applied > 0)
        <5>1. new.applied = 1 /\ new.before = community
            BY <4>1, <4>3 DEF Traced
        <5> QED
            BY <3>1, <5>1
      <4> QED
          BY <4>2, <4>3
    <3> HIDE DEF c, new
    <3>6. Answers(returned, mid, a)'
        BY <1>1, <2>2, <3>3, <3>4, <3>5 DEF Answers
    <3>7. mid \in Communities(scene')
          /\ a = Serve(scene', mid, Request(scene', returned'.call), key'[returned'.by])
        BY <1>1, <2>2, <3>1, <3>a, CallUnderWay
    <3> QED
        BY <3>6, <3>7
  <2> HIDE DEF c, new
  <2>7. returned'.by \in Managers /\ returned'.call \in Calls(scene')
      BY <1>1, <2>2, <2>3
  <2>8. /\ returned'.trace.applied > 0 =>
             returned'.trace.before \in Communities(scene')
        /\ returned'.trace.applied > 0 /\ returned'.trace.fresh =>
             Offered(scene', View(scene', returned'.trace.before), returned'.call)
      BY <1>1, <2>2, <2>4, <2>5
  <2>9. returned'.raised = raised /\ Lost' = Lost
      BY <2>2 DEF Lost
  <2> QED
      BY <2>6, <2>7, <2>8, <2>9 DEF EndInv
<1> QED
    BY <1>3, <1>4

LEMMA EndStep ==
    TypeInv /\ EffectInv /\ KnowledgeInv /\ EndInv /\ [Next]_vars =>
        KnowledgeInv' /\ EndInv'
<1> SUFFICES ASSUME TypeInv, EffectInv, KnowledgeInv, EndInv, [Next]_vars
             PROVE  KnowledgeInv' /\ EndInv'
    OBVIOUS
<1>1. CASE UNCHANGED vars
    BY <1>1 DEF vars, KnowledgeInv, MadeFrom, EndInv, Answers
<1>2. ASSUME NEW m \in Managers, Refresh(m) PROVE KnowledgeInv' /\ EndInv'
    BY <1>2 DEF Refresh, KnowledgeInv, MadeFrom, EndInv
<1>3. ASSUME NEW m \in Managers, NEW c \in Calls(scene), Begin(m, c)
      PROVE  KnowledgeInv' /\ EndInv'
  <2>1. /\ returned' = NoReturn /\ trace'[m] = NoTrace /\ call'[m] = c
        /\ Offered(scene, known[m], c) /\ scene' = scene /\ known' = known
        /\ \A u \in Managers \ {m} :
              trace'[u] = trace[u] /\ pc'[u] = pc[u] /\ call'[u] = call[u]
      BY <1>3 DEF Begin, TypeInv, Typed
  <2>2. MadeFrom(NoTrace, known[m])
      BY DEF MadeFrom, NoTrace
  <2> QED
      BY <2>1, <2>2 DEF KnowledgeInv, EndInv, MadeFrom
<1>4. ASSUME NEW m \in Managers, NEW applied \in BOOLEAN, Retry(m, applied)
      PROVE  KnowledgeInv' /\ EndInv'
  <2>1. \A u \in Managers : pc[u] = "sent" =>
          MadeFrom(TraceAfter(m, applied, community')[u], known[u])
      BY <1>4, KnowledgeAfter DEF Retry
  <2> QED
      BY <1>4, <2>1 DEF Retry, KnowledgeInv, EndInv, MadeFrom
<1>5. ASSUME NEW m \in Managers, Answer(m) PROVE KnowledgeInv' /\ EndInv'
  <2>1. PICK raised, result :
          /\ Return(m, TRUE, raised, result)
          /\ LET a == Served(m)
             IN  IF a.status \in 200..299
                 THEN raised = None /\ result = Result(scene, call[m], a.body)
                 ELSE raised = exception_for(a.status, a.body.code)
      BY <1>5 DEF Answer
  <2> QED
      BY <1>5, <2>1, ReturnEnds DEF Answer
<1>6. ASSUME NEW m \in Managers, NEW applied \in BOOLEAN,
             GiveUp(m, applied) \/ Lose(m, applied)
      PROVE  KnowledgeInv' /\ EndInv'
  <2>1. PICK raised \in Lost : Return(m, applied, raised, None)
      BY <1>6 DEF GiveUp, Lose, Lost
  <2>2. pc[m] = "sent"
      BY <1>6 DEF GiveUp, Lose
  <2> QED
      BY <2>1, <2>2, ReturnEnds
<1> QED
    BY <1>1, <1>2, <1>3, <1>4, <1>5, <1>6 DEF Next, Deliver

\* A call that has ended without a timeout and with attempts to spare ended with
\* the server's answer to its last request, and with nothing else.
LEMMA EndInvariant == Spec => []EndInv
<1>1. Init => EffectInv /\ ReturnInv /\ KnowledgeInv /\ EndInv
    BY NothingYet DEF Init, EffectInv, ReturnInv, KnowledgeInv, EndInv
<1> QED
    BY <1>1, EffectStep, EndStep, TypeInvariant, PTL DEF Spec
=============================================================================
