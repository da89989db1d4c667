--------------------------- MODULE ConditionalGet ---------------------------
(***************************************************************************)
(* Cacheable GETs of one client: _request of the sync client, called by    *)
(* several threads, or of the async client, by several tasks, over the     *)
(* ETagCache they share and a server whose content changes meanwhile.      *)
(*                                                                         *)
(* A call is one execution of _request.  Its program counter:              *)
(*   idle      not called yet                                              *)
(*   sent      the request is on its way, is being answered, or the call   *)
(*             sleeps before sending it again                              *)
(*   answered  the response is here and nothing is done about it yet       *)
(*   counted   record_miss() is done, store()/discard() is not             *)
(*   done      _request returned or raised                                 *)
(*                                                                         *)
(* External: the server, which computes the ETag from the response body    *)
(* (README.md, Conditional requests), so that Names gives the one body an  *)
(* ETag stands for.  It is free to answer in full, to say 304 to a         *)
(* validator that names the current content, to restate or omit the ETag,  *)
(* to fail for a while or to refuse.                                       *)
(***************************************************************************)
EXTENDS ETagCache, FiniteSets

CONSTANTS
    Calls,       \* the calls made of the client in a behaviour
    Names,       \* Names[e]: the body an ETag stands for
    MaxRetries,  \* max_retries
    CacheOn,     \* the cache argument of the client
    Threaded,    \* TRUE: NimbioClient and threads; FALSE: AsyncNimbioClient
    Apart        \* the keys two reads of which the caller never overlaps

ASSUME NamesAssumption == Names \in [ETags -> Bodies]
\* max_retries = max(0, int(max_retries)).
ASSUME RetriesAssumption == MaxRetries \in Nat
ASSUME ModesAssumption ==
    CacheOn \in BOOLEAN /\ Threaded \in BOOLEAN /\ Apart \subseteq Keys

VARIABLES
    content,    \* server: what each resource contains now
    published,  \* history: every content each resource ever had
    cache,      \* BaseClient._cache
    pc,
    key,        \* the resource each call reads, the same throughout
    tracked,    \* _request's cache_key is not None
    inm,        \* the If-None-Match header of the prepared request
    attempt,    \* _request's attempt
    sends,      \* history: requests the running call has sent
    resp,       \* the response the call holds
    result,     \* how the call ended
    seen        \* history: content the resource had during the call

server == <<content, published>>
locals == <<key, tracked, inm, attempt, sends>>
vars == <<server, cache, pc, locals, resp, result, seen>>

Statuses == {"none", "ok", "notModified", "retryable", "error", "transport"}
Ways == {"none", "hit", "miss", "plain", "lost"}

Response == [status : Statuses, etag : ETags \cup {NoTag},
             body : Bodies \cup {NoBody}]
Result == [via : Ways, status : Statuses, body : Bodies \cup {NoBody}]

NoResponse == [status |-> "none", etag |-> NoTag, body |-> NoBody]
NoResult == [via |-> "none", status |-> "none", body |-> NoBody]

InFlight(t) == pc[t] \in {"sent", "answered", "counted"}

Init ==
    /\ content \in [Keys -> Bodies]
    /\ published = [k \in Keys |-> {content[k]}]
    /\ cache = EmptyCache
    /\ pc = [t \in Calls |-> "idle"]
    /\ key \in [Calls -> Keys]
    /\ tracked = [t \in Calls |-> FALSE]
    /\ inm = [t \in Calls |-> NoTag]
    /\ attempt = [t \in Calls |-> 0]
    /\ sends = [t \in Calls |-> 0]
    /\ resp = [t \in Calls |-> NoResponse]
    /\ result = [t \in Calls |-> NoResult]
    /\ seen = [t \in Calls |-> {}]

----------------------------------------------------------------------------
(* The server and the network.                                             *)

\* A write by somebody: no read of this client is told.
Change(k, b) ==
    /\ content[k] # b
    /\ content' = [content EXCEPT ![k] = b]
    /\ published' = [published EXCEPT ![k] = @ \cup {b}]
    /\ seen' = [t \in Calls |-> IF InFlight(t) /\ key[t] = k
                                THEN seen[t] \cup {b} ELSE seen[t]]
    /\ UNCHANGED <<cache, pc, locals, resp, result>>

\* The validators the server may put on content b.
Validators(b) == {e \in ETags : Names[e] = b} \cup {NoTag}

Respond(t, r) ==
    /\ pc[t] = "sent"
    /\ pc' = [pc EXCEPT ![t] = "answered"]
    /\ resp' = [resp EXCEPT ![t] = r]
    /\ UNCHANGED <<server, cache, locals, result, seen>>

AnswerFull(t) ==
    \E e \in Validators(content[key[t]]) :
        Respond(t, [status |-> "ok", etag |-> e, body |-> content[key[t]]])

AnswerNotModified(t) ==
    /\ inm[t] # NoTag
    /\ Names[inm[t]] = content[key[t]]
    /\ \E e \in Validators(content[key[t]]) :
         Respond(t, [status |-> "notModified", etag |-> e, body |-> NoBody])

\* "retryable" is 429, 500, 502, 503 or 504; "error" any other refusal.
AnswerFailure(t) ==
    \E s \in {"retryable", "error"} :
        Respond(t, [status |-> s, etag |-> NoTag, body |-> NoBody])

Server(t) == AnswerFull(t) \/ AnswerNotModified(t) \/ AnswerFailure(t)

----------------------------------------------------------------------------
(* The client: _request.                                                   *)

\* How the caller uses the client.
MayBegin(t) ==
    /\ pc[t] = "idle"
    /\ key[t] \in Apart => \A u \in Calls : InFlight(u) => key[u] # key[t]

\* Mutant of Begin: a body that is held is returned without asking.
BeginFromCache(t) ==
    /\ MayBegin(t)
    /\ seen' = [seen EXCEPT ![t] = {content[key[t]]}]
    /\ IF CacheOn /\ key[t] \in Held(cache)
       THEN /\ pc' = [pc EXCEPT ![t] = "done"]
            /\ result' = [result EXCEPT ![t] =
                            [via |-> "hit", status |-> "ok",
                             body |-> cache.entry[key[t]].body]]
            /\ UNCHANGED <<tracked, sends>>
       ELSE /\ pc' = [pc EXCEPT ![t] = "sent"]
            /\ tracked' = [tracked EXCEPT ![t] = CacheOn]
            /\ sends' = [sends EXCEPT ![t] = 1]
            /\ UNCHANGED result
    /\ UNCHANGED <<server, cache, key, inm, attempt, resp>>

\* _cache_begin: look up the ETag once, before the first send.
Begin(t) ==
    /\ MayBegin(t)
    /\ pc' = [pc EXCEPT ![t] = "sent"]
    /\ tracked' = [tracked EXCEPT ![t] = CacheOn]
    /\ inm' = [inm EXCEPT ![t] =
                 IF CacheOn THEN EtagFor(cache, key[t]) ELSE NoTag]
    /\ sends' = [sends EXCEPT ![t] = 1]
    /\ seen' = [seen EXCEPT ![t] = {content[key[t]]}]
    /\ UNCHANGED <<server, cache, key, attempt, resp, result>>

\* The call ends, and its locals go with it.
Finish(t, via, status, b) ==
    /\ pc' = [pc EXCEPT ![t] = "done"]
    /\ result' = [result EXCEPT ![t] =
                    [via |-> via, status |-> status, body |-> b]]
    /\ tracked' = [tracked EXCEPT ![t] = FALSE]
    /\ inm' = [inm EXCEPT ![t] = NoTag]
    /\ attempt' = [attempt EXCEPT ![t] = 0]
    /\ sends' = [sends EXCEPT ![t] = 0]
    /\ resp' = [resp EXCEPT ![t] = NoResponse]
    /\ UNCHANGED <<server, key, seen>>

\* Mutant of Lose: a body that is held stands in for an answer that is lost.
LoseServingHeld(t) ==
    /\ pc[t] = "sent"
    /\ IF tracked[t] /\ key[t] \in Held(cache)
       THEN Finish(t, "hit", "ok", cache.entry[key[t]].body)
       ELSE Finish(t, "lost", "transport", NoBody)
    /\ UNCHANGED cache

\* httpx raises TimeoutException or another HTTPError: so does _request.
Lose(t) ==
    /\ pc[t] = "sent"
    /\ Finish(t, "lost", "transport", NoBody)
    /\ UNCHANGED cache

\* Mutant of ShouldRetry: one retry too many.
ShouldRetryOnceMore(t) ==
    resp[t].status = "retryable" /\ attempt[t] <= MaxRetries

\* _should_retry.
ShouldRetry(t) == resp[t].status = "retryable" /\ attempt[t] < MaxRetries

\* The same prepared request goes out again, If-None-Match and all.
Retry(t) ==
    /\ pc[t] = "answered"
    /\ ShouldRetry(t)
    /\ pc' = [pc EXCEPT ![t] = "sent"]
    /\ attempt' = [attempt EXCEPT ![t] = @ + 1]
    /\ sends' = [sends EXCEPT ![t] = @ + 1]
    /\ resp' = [resp EXCEPT ![t] = NoResponse]
    /\ UNCHANGED <<server, cache, key, tracked, inm, result, seen>>

Handling(t) == pc[t] = "answered" /\ ~ShouldRetry(t)

NotModified(t) ==
    Handling(t) /\ tracked[t] /\ resp[t].status = "notModified"

\* A response that is neither retried nor a 304 to a cacheable request.
OtherResponse(t) ==
    Handling(t) /\ tracked[t] /\ resp[t].status # "notModified"

\* Mutant of ReplayHit: the entry is taken to be there.
ReplayUnchecked(t) ==
    /\ NotModified(t)
    /\ cache' = Hit(cache, key[t], resp[t].etag)
    /\ Finish(t, "hit", "ok", cache.entry[key[t]].body)

\* A 304 and the entry is still there: replay whatever body it holds.
ReplayHit(t) ==
    /\ NotModified(t)
    /\ key[t] \in Held(cache)
    /\ cache' = Hit(cache, key[t], resp[t].etag)
    /\ Finish(t, "hit", "ok", cache.entry[key[t]].body)

AskAgain(t) ==
    /\ NotModified(t)
    /\ key[t] \notin Held(cache)
    /\ pc' = [pc EXCEPT ![t] = "sent"]
    /\ sends' = [sends EXCEPT ![t] = @ + 1]
    /\ resp' = [resp EXCEPT ![t] = NoResponse]
    /\ UNCHANGED <<server, key, attempt, result, seen>>

\* Mutants of Reask: the header stays on the request; header and key both
\* stay, with `sends` and without; a hit is counted before the entry is
\* looked for.
ReaskWithHeader(t) ==
    /\ AskAgain(t)
    /\ tracked' = [tracked EXCEPT ![t] = FALSE]
    /\ UNCHANGED <<cache, inm>>

ReaskUnchanged(t) == AskAgain(t) /\ UNCHANGED <<cache, inm, tracked>>

ReaskForEver(t) ==
    /\ NotModified(t)
    /\ key[t] \notin Held(cache)
    /\ pc' = [pc EXCEPT ![t] = "sent"]
    /\ resp' = [resp EXCEPT ![t] = NoResponse]
    /\ UNCHANGED <<server, cache, locals, result, seen>>

ReaskCountedAsHit(t) ==
    /\ AskAgain(t)
    /\ inm' = [inm EXCEPT ![t] = NoTag]
    /\ tracked' = [tracked EXCEPT ![t] = FALSE]
    /\ cache' = [cache EXCEPT !.hits = @ + 1]

\* A 304 and the entry is gone: drop the header and the key, ask again.
Reask(t) ==
    /\ AskAgain(t)
    /\ inm' = [inm EXCEPT ![t] = NoTag]
    /\ tracked' = [tracked EXCEPT ![t] = FALSE]
    /\ UNCHANGED cache

\* The body a response hands to the caller; any status but 2xx raises.
Payload(r) == IF r.status = "ok" THEN r.body ELSE NoBody

\* Mutant of Kept: a new body is filed under the ETag already held.
KeptUnderOldTag(c, k, r) ==
    IF r.status = "ok" /\ r.etag # NoTag
    THEN Store(c, k, IF k \in Held(c) THEN EtagFor(c, k) ELSE r.etag, r.body)
    ELSE Discard(c, k)

\* The second half of _cache_miss.
Kept(c, k, r) ==
    IF r.status = "ok" /\ r.etag # NoTag
    THEN Store(c, k, r.etag, r.body)
    ELSE Discard(c, k)

\* Threads: record_miss() and store()/discard() take the lock one by one, and
\* other threads may run in between.
CountMiss(t) ==
    /\ Threaded
    /\ OtherResponse(t)
    /\ cache' = RecordMiss(cache)
    /\ pc' = [pc EXCEPT ![t] = "counted"]
    /\ UNCHANGED <<server, locals, resp, result, seen>>

KeepOrDiscard(t) ==
    /\ pc[t] = "counted"
    /\ cache' = Kept(cache, key[t], resp[t])
    /\ Finish(t, "miss", resp[t].status, Payload(resp[t]))

\* The same with nothing in between: always so for tasks, as _cache_miss awaits
\* nothing, and for a thread that happens to run on.
Miss(t) ==
    /\ OtherResponse(t)
    /\ cache' = Kept(RecordMiss(cache), key[t], resp[t])
    /\ Finish(t, "miss", resp[t].status, Payload(resp[t]))

\* cache_key is None: the cache is off, or this is the answer to a Reask.
ReturnPlain(t) ==
    /\ Handling(t)
    /\ ~tracked[t]
    /\ Finish(t, "plain", resp[t].status, Payload(resp[t]))
    /\ UNCHANGED cache

Client(t) ==
    \/ Retry(t) \/ ReplayHit(t) \/ Reask(t) \/ CountMiss(t)
    \/ KeepOrDiscard(t) \/ Miss(t) \/ ReturnPlain(t)

Next ==
    \/ \E k \in Keys, b \in Bodies : Change(k, b)
    \/ \E t \in Calls : Begin(t) \/ Server(t) \/ Lose(t) \/ Client(t)

Spec == Init /\ [][Next]_vars

\* The threads run, sleep ends, and httpx's timeout ends every exchange that
\* the server does not: as long as calls are running, one of them gets on.
\* Nobody has to begin a call or change the content.
Fairness == WF_vars(\E t \in Calls : Client(t) \/ Server(t) \/ Lose(t))

FairSpec == Spec /\ Fairness

----------------------------------------------------------------------------
(* Properties.                                                             *)

TypeOK ==
    /\ content \in [Keys -> Bodies]
    /\ published \in [Keys -> SUBSET Bodies]
    /\ cache \in CacheType
    /\ pc \in [Calls -> {"idle", "sent", "answered", "counted", "done"}]
    /\ key \in [Calls -> Keys]
    /\ tracked \in [Calls -> BOOLEAN]
    /\ inm \in [Calls -> ETags \cup {NoTag}]
    /\ attempt \in [Calls -> 0..MaxRetries]
    /\ sends \in [Calls -> Nat]
    /\ resp \in [Calls -> Response]
    /\ result \in [Calls -> Result]
    /\ seen \in [Calls -> SUBSET Bodies]

\* However the threads interleave their lookups, hits, stores and discards,
\* the OrderedDict keeps one place per key, never more than cache_size, and
\* exactly the keys that have an entry.
CacheStaysSound == CacheSound(cache)

\* A read never returns what its own resource never contained: no other
\* key's body, no error page, no body of a request that went wrong.
ReturnsPublished ==
    \A t \in Calls :
        result[t].status = "ok" => result[t].body \in published[key[t]]

\* "A 304 is invisible" (README.md): no call ends with a 304, neither as its
\* value nor raised as an APIError, even when its entry was evicted before
\* the 304 came back.
NotModifiedIsInvisible ==
    \A t \in Calls : result[t].status # "notModified"

\* The running call has been through Reask.
Reasked(t) == CacheOn /\ InFlight(t) /\ ~tracked[t]

\* A call sends its request at most 1 + max_retries times, and once more only
\* if a 304 found its entry evicted: re-asking cannot loop.
SendsAreBounded ==
    \A t \in Calls :
        sends[t] <= MaxRetries + 1 + (IF Reasked(t) THEN 1 ELSE 0)

Ended(via) == {t \in Calls : result[t].via = via}

\* What cache_stats() counts, however the threads interleave: each read at most
\* once, as a hit exactly if a stored body was replayed, as a miss exactly if
\* its response went through _cache_miss, and nothing is held that was not
\* counted as a miss before.
StatsAgree ==
    /\ Stats(cache).hits = Cardinality(Ended("hit"))
    /\ Stats(cache).misses = Cardinality(Ended("miss"))
                               + Cardinality({t \in Calls : pc[t] = "counted"})
    /\ Stats(cache).entries <= Cardinality(Ended("miss"))

\* What cache_stats() is said to count: "misses counts every other response to
\* a cacheable GET, so hits + misses is the number of reads that went through
\* the cache at all" (CacheStats, _cache.py).  Whenever no call is running, the
\* two add up to the calls that got a response.
HitsAndMissesAreTheReads ==
    CacheOn /\ (\A t \in Calls : ~InFlight(t)) =>
        Stats(cache).hits + Stats(cache).misses
            = Cardinality(UNION {Ended(via) : via \in {"hit", "miss", "plain"}})

\* The reads whose freshness is promised: those of a key the caller keeps
\* apart, whatever becomes of the other keys, and all reads without a cache.
Promised(t) == key[t] \in Apart \/ ~CacheOn

\* A read that returns data returns what the resource contained at some
\* moment of the call.
ReadsAreFresh ==
    \A t \in Calls :
        Promised(t) /\ result[t].status = "ok" => result[t].body \in seen[t]

\* A stored ETag is the ETag of the body it is stored with: without this, a
\* later 304 replays a body the server did not mean.
EntriesAreCoherent ==
    \A k \in Held(cache) \cap Apart :
        Names[cache.entry[k].etag] = cache.entry[k].body

\* "The cache can never serve stale data" (_cache.py), in full: to the callers
\* of these reads the client is the register of FreshReads.
Promise == INSTANCE FreshReads WITH
    phase  <- [t \in Calls |-> IF ~Promised(t) \/ pc[t] = "idle" THEN "idle"
                               ELSE IF pc[t] = "done" THEN "done"
                               ELSE "reading"],
    target <- key,
    seen   <- [t \in Calls |-> IF Promised(t) THEN seen[t] ELSE {}],
    answer <- [t \in Calls |-> IF Promised(t) THEN result[t].body ELSE NoBody]

ReadsARegister == Promise!Spec

\* Every call that was begun returns or raises: from some time on no call is
\* running, as there are only so many of them.
CallsEnd == <>[](\A t \in Calls : ~InFlight(t))

=============================================================================
