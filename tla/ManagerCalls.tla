---------------------------- MODULE ManagerCalls ----------------------------
(***************************************************************************)
(* The managers of one community call methods of client.community at the   *)
(* same time.  A call is made from what its manager last learned, becomes  *)
(* one request, and is sent again by _request after 429 and 5xx, whether   *)
(* or not the server has applied it; after a transport error it raises.    *)
(* What the methods are is left to the constants: CommunityAdmin gives the *)
(* registry's.  Requests that arrive after their attempt was given up are  *)
(* the subject of RetriedWrites and are left out here.                     *)
(***************************************************************************)
EXTENDS WireFormat

CONSTANTS
    Managers,
    MaxRetries,         \* max_retries
    MaxCalls,           \* bound: calls in a behaviour
    MaxFaults,          \* bound: attempts in a behaviour that fail
    NoCall, NoReturn,
    Scenes,             \* the parts of the community; of a part s:
    Communities(_),     \* what the server may hold
    Start(_),           \* what it holds at the beginning
    Calls(_),           \* the calls of its methods
    Offered(_, _, _),   \* (s, v, c): who knows the view v may make the call c
    Request(_, _),      \* (s, c): the request the builder makes of a call
    Serve(_, _, _, _),  \* (s, o, r, mode): external, the server's answer
    View(_, _),         \* (s, o): what the reads return
    Result(_, _, _),    \* (s, c, d): what the parser makes of an answer
    Learn(_, _, _, _),  \* (s, v, c, result): what the caller knows then
    Repeatable(_, _),   \* (s, c): to make the call twice is to make it once
    Things(_, _)        \* (s, o): how many objects calls have created

KeyModes == {"live", "test"}

ASSUME BoundsAssumption == {MaxRetries, MaxCalls, MaxFaults} \subseteq Nat
ASSUME NamesAssumption == \A s \in Scenes : NoCall \notin Calls(s)
ASSUME StartAssumption == \A s \in Scenes : Start(s) \subseteq Communities(s)

\* The server stays within the modelled states; with a test key it validates,
\* answers and changes nothing.
ASSUME ServeAssumption ==
    \A s \in Scenes : \A o \in Communities(s), c \in Calls(s) :
        /\ Serve(s, o, Request(s, c), "live").to \in Communities(s)
        /\ Serve(s, o, Request(s, c), "test").to = o

\* What the retry loop relies on: the server cannot tell a repetition.
ASSUME RepeatAssumption ==
    \A s \in Scenes : \A o \in Communities(s), c \in Calls(s) :
        Repeatable(s, c) =>
            LET once == Serve(s, o, Request(s, c), "live").to
            IN  Serve(s, once, Request(s, c), "live").to = once

\* One request creates one thing at most, and none by repeating another call.
ASSUME ThingsAssumption ==
    \A s \in Scenes : \A o \in Communities(s), c \in Calls(s) :
        /\ Things(s, o) \in Nat /\ c.creates \in Nat
        /\ Things(s, Serve(s, o, Request(s, c), "live").to) <= Things(s, o) + c.creates

VARIABLES
    scene,      \* the part of the community, fixed by Init
    community,  \* what the server holds
    key,        \* the mode of each manager's API key
    begun,      \* calls begun so far
    faults,     \* attempts so far that failed
    known,      \* what each manager last learned
    pc,         \* "idle" or "sent"
    call,       \* the call under way
    attempt,    \* _request's attempt
    trace,      \* history of the call under way
    returned    \* history: the call that ended in the last step, if one did

vars == <<scene, community, key, begun, faults, known, pc, call, attempt, trace,
          returned>>

NoTrace == [applied |-> 0, before |-> None, alone |-> TRUE, fresh |-> TRUE]

Init ==
    /\ scene \in Scenes
    /\ community \in Start(scene)
    /\ key \in {f \in [Managers -> KeyModes] : \E m \in Managers : f[m] = "live"}
    /\ begun = 0
    /\ faults = 0
    /\ known = [m \in Managers |-> View(scene, community)]
    /\ pc = [m \in Managers |-> "idle"]
    /\ call = [m \in Managers |-> NoCall]
    /\ attempt = [m \in Managers |-> 0]
    /\ trace = [m \in Managers |-> NoTrace]
    /\ returned = NoReturn

----------------------------------------------------------------------------
(* The server.                                                             *)

\* Mutant of Sent: attempts after the first send what some call of the
\* client's left behind, as if the request were kept on the client itself.
SentFromShared(m) ==
    IF attempt[m] = 0 THEN Request(scene, call[m])
    ELSE LET last == CHOOSE u \in Managers :
                         pc[u] = "sent" /\ (u = m => \A w \in Managers \ {m} :
                                                        pc[w] # "sent")
         IN  Request(scene, call[last])

\* Every attempt sends the request that was built before the first.
Sent(m) == Request(scene, call[m])

Served(m) == Serve(scene, community, Sent(m), key[m])

\* m's request has been applied: to m's own account it was the first, or one
\* more; a call of somebody else that has been applied is no longer alone.
Traced(m, to) ==
    [u \in Managers |->
        IF u # m
        THEN [trace[u] EXCEPT !.alone = @ /\ (trace[u].applied = 0 \/ to = community)]
        ELSE IF trace[m].applied > 0 THEN [trace[m] EXCEPT !.applied = @ + 1]
        ELSE [applied |-> 1, before |-> community, alone |-> TRUE,
              fresh |-> known[m] = View(scene, community)]]

\* The request of the current attempt is applied, or it is not.
CommunityAfter(m, applied) == IF applied THEN Served(m).to ELSE community
TraceAfter(m, applied, to) == IF applied THEN Traced(m, to) ELSE trace

----------------------------------------------------------------------------
(* The client.                                                             *)

\* A read of the scene: nothing but the manager's knowledge changes.
Refresh(m) ==
    /\ pc[m] = "idle"
    /\ known' = [known EXCEPT ![m] = View(scene, community)]
    /\ returned' = NoReturn
    /\ UNCHANGED <<scene, community, key, begun, faults, pc, call, attempt, trace>>

Begin(m, c) ==
    /\ pc[m] = "idle"
    /\ begun < MaxCalls
    /\ Offered(scene, known[m], c)
    /\ begun' = begun + 1
    /\ pc' = [pc EXCEPT ![m] = "sent"]
    /\ call' = [call EXCEPT ![m] = c]
    /\ attempt' = [attempt EXCEPT ![m] = 0]
    /\ trace' = [trace EXCEPT ![m] = NoTrace]
    /\ returned' = NoReturn
    /\ UNCHANGED <<scene, community, key, faults, known>>

\* The call ends with a result or an exception.
Return(m, applied, raised, result) ==
    /\ community' = CommunityAfter(m, applied)
    /\ pc' = [pc EXCEPT ![m] = "idle"]
    /\ known' = [known EXCEPT ![m] =
                    IF raised = None THEN Learn(scene, @, call[m], result) ELSE @]
    /\ returned' = [by |-> m, call |-> call[m], raised |-> raised,
                    result |-> result,
                    trace |-> TraceAfter(m, applied, community')[m]]
    /\ call' = [call EXCEPT ![m] = NoCall]
    /\ attempt' = [attempt EXCEPT ![m] = 0]
    /\ trace' = [TraceAfter(m, applied, community') EXCEPT ![m] = NoTrace]
    /\ UNCHANGED <<scene, key, begun>>

\* An attempt that fails, as long as the bound allows.
Fails == faults < MaxFaults /\ faults' = faults + 1

\* The request is applied, or refused for good, and its answer comes back:
\* the endpoint's parser reads a 2xx, _parse raises the rest.
Answer(m) ==
    /\ pc[m] = "sent"
    /\ UNCHANGED faults
    /\ LET a == Served(m) IN
         IF a.status \in 200..299
         THEN Return(m, TRUE, None, Result(scene, call[m], a.body))
         ELSE Return(m, TRUE, exception_for(a.status, a.body.code), None)

\* Mutant of ShouldRetry: one attempt too many.
ShouldRetryOnceMore(m) == attempt[m] <= MaxRetries

\* 429 and 5xx are sent again while attempts are left.
ShouldRetry(m) == attempt[m] < MaxRetries

\* 429, 500, 502, 503 or 504, before anything was done or after it.
Retry(m, applied) ==
    /\ pc[m] = "sent"
    /\ ShouldRetry(m)
    /\ Fails
    /\ community' = CommunityAfter(m, applied)
    /\ trace' = TraceAfter(m, applied, community')
    /\ attempt' = [attempt EXCEPT ![m] = @ + 1]
    /\ returned' = NoReturn
    /\ UNCHANGED <<scene, key, begun, known, pc, call>>

\* The same when no attempt is left: it is raised like any other refusal (the
\* model tells no 503 from a 429).
GiveUp(m, applied) ==
    /\ pc[m] = "sent"
    /\ ~ShouldRetry(m)
    /\ Fails
    /\ Return(m, applied, exception_for(503, None), None)

\* A timeout or a broken connection, before the effect or after it.
Lose(m, applied) ==
    /\ pc[m] = "sent"
    /\ Fails
    /\ Return(m, applied, "APITimeoutError", None)

Deliver(m) ==
    \/ Answer(m)
    \/ \E applied \in BOOLEAN :
         Retry(m, applied) \/ GiveUp(m, applied) \/ Lose(m, applied)

Next == \E m \in Managers : \/ Refresh(m)
                            \/ \E c \in Calls(scene) : Begin(m, c)
                            \/ Deliver(m)

Spec == Init /\ [][Next]_vars

----------------------------------------------------------------------------
(* Properties.                                                             *)

TypeOK ==
    /\ scene \in Scenes
    /\ community \in Communities(scene)
    /\ key \in [Managers -> KeyModes]
    /\ begun \in 0..MaxCalls
    /\ faults \in 0..MaxFaults
    /\ pc \in [Managers -> {"idle", "sent"}]
    /\ \A m \in Managers :
         /\ call[m] \in Calls(scene) \cup {NoCall}
         /\ pc[m] = "sent" => call[m] # NoCall
         /\ attempt[m] \in 0..MaxRetries
         /\ trace[m].applied \in 0..MaxRetries + 1
         /\ trace[m].applied > 0 => trace[m].before \in Communities(scene)

Applied(r) == r.trace.applied > 0
Undisturbed(r) == Applied(r) /\ r.trace.alone
Succeeded(r) == r.raised = None

\* A repeatable call that nobody else came between leaves the community as if
\* its request had been applied once, however it ended: with a result, with a
\* refusal, with the last 5xx or with a timeout.
EffectIsOnce ==
    returned # NoReturn /\ Undisturbed(returned) /\ Repeatable(scene, returned.call) =>
        community = Serve(scene, returned.trace.before, Request(scene, returned.call),
                          key[returned.by]).to

\* A call leaves no more things behind than it may have attempts: a retried
\* create may leave some that no answer names, never more than 1 + max_retries.
ExtrasAreAttempts ==
    returned # NoReturn /\ Undisturbed(returned) =>
        Things(scene, community) <=
            Things(scene, returned.trace.before)
              + returned.call.creates * (1 + MaxRetries)

\* m's call advances: it ends, or another attempt begins.
Advances(m) == pc[m] = "sent" /\ (pc'[m] = "idle" \/ attempt'[m] # attempt[m])

\* dry_run asks a live key to behave like a test key.
Rehearsed(r) ==
    \/ key[r.by] = "test"
    \/ "dry_run" \in DOMAIN r.call /\ IsTrue(r.call.dry_run)

\* A caller can tell from the result whether anything happened: a rehearsal
\* never passes for a change, nor a change for a rehearsal.
SimulatedIsTold ==
    returned # NoReturn /\ Succeeded(returned) =>
        /\ returned.result.simulated => Rehearsed(returned)
        /\ Rehearsed(returned) /\ Serve(scene, community, Request(scene, returned.call), "live").to
                                   # community
             => returned.result.simulated
=============================================================================
