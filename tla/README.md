# Verification of nimbio-community-api

TLA+ modules for the Python client of the Nimbio community API
(`src/nimbio_community_api`), the TLC configurations that check them on small
instances, and proofs that TLAPS checks for every instance. Paths below are
relative to `src/src/nimbio_community_api/` unless they say otherwise.

    tlc -workers 2 -config ConditionalGet_reads.cfg MCConditionalGet.tla
    tlapm ConditionalGetProofs.tla

## 1. The system

A client object (`NimbioClient`, `AsyncNimbioClient`) turns about a hundred
methods into HTTP requests. Most of the code is a mapping: a method calls a
function of the registry `endpoints` in `_base.py`, which says verb, path, query
and body, and a dataclass in `models.py` parses the answer. The logic with
state is small and shared by everything:

| component | state | operations | what is hard |
|---|---|---|---|
| ETag cache (`_cache.py`) | an `OrderedDict` under a lock, two counters | `etag_for`, `store`, `discard`, `hit`, `record_miss`, `stats` | eviction at the bound, threads between two critical sections, an ETag adopted from a 304 |
| request loop, reads (`_request`, `_cache_begin`, `_cache_miss`) | per call: `attempt`, `cache_key`, `If-None-Match`, the response | send, retry, replay, ask again, store or discard | what was looked up before the send is used after it; the entry may be gone or another one |
| request loop, writes (`_request`, `_should_retry`, `_parse`) | per call: `attempt`, the response | send, retry, return, raise | a request that took effect and is reported as failed is sent again; one that is given up may still arrive |
| live event stream (`_sse.py`, `_stream`) | cursor, `attempt`, one parser per connection | connect, feed a line, yield, back off | connections that break in the middle of a frame, before the first event, silently; a server that cannot replay |
| log iterators (`iter_*`) | the next page, window or cursor | fetch a page, yield its rows, go on or return | the log grows and expires between two pages; a server that misleads |
| endpoint registry, namespaces (`_base.py`, `_sync.py`, `_async.py`) | none; a manager keeps what its reads returned | one method per operation of the API | partial updates, `UNSET` next to `None`, whole-set replacements between managers, confirmations, creates that are sent twice |
| responses and exceptions (`_parse`, `_exceptions.py`) | none | status and code to exception | no state |
| response models (`models.py`) | none | one `from_dict` each | envelopes and bare rows, partial echoes, rehearsals that must not pass for changes; some fields steer a loop |
| webhook receiver (`webhooks.py`) | none in the library; the receiver keeps its secret | `compute_signature`, `verify_signature`, `construct_event` | two clocks, a secret that is rotated, deliveries that are repeated |
| configuration (`_environments.py`, `BaseClient.__init__`) | fixed by the constructor | - | clamped values |
| connection pool | `httpx`, external | `close` | - |

The request loop is the only place where calls meet. Calls of several threads,
or tasks, share the client and through it the cache; they share nothing else.
A lock protects each operation of the cache, and none protects a call as a
whole. The stream and the iterators are used by one consumer each and meet the
server alone, which moves on between two of their requests. Managers of one
community have a client each and meet at the server; so do the owner of a webhook,
who rotates and replays through a client, and the receiver, which only verifies.

What makes the components correct, in a line each:

- *Cache*: one place per key, never more than `cache_size`, exactly the keys
  that have an entry; the ETag of an entry is the ETag of its body.
- *Reads*: a read returns what its resource contained at some moment of the
  call ("It can never serve you stale data"); no 304 reaches the caller; a call
  ends and sends no more requests than it may; a counted read is counted once.
- *Writes*: a call has a bounded number of effects, one under an idempotency
  key; setters converge; what a call reports is so.
- *Managers' calls*: a call changes nothing but what it names, in the object it
  addresses; what is repeated by a retry has the effect of once, or leaves a bounded
  number of extras; what the API asks to confirm happens under a literal `True`; a
  result is true of the community it leaves, and a rehearsal foretells it.
- *Webhooks*: an event is processed only if it is recent, and in the end, past
  rotated secrets, lost POSTs and a webhook that was disabled; the secret that a
  rotation returned is the one deliveries are signed with.
- *Stream*: in order, once, no gap that is not told, and in the end everything.
- *Iterators*: no row is skipped, none is repeated where that is promised, and
  every walk ends, by page numbers once the server stops promising rows.

## 2. The modules

| module | models | with |
|---|---|---|
| `ETagCache` | `_cache.py`: one operator for each critical section, over a record | - |
| `FreshReads` | the promise of a read, as a register that others write | - |
| `ConditionalGet` | `_request` for cacheable GETs, several calls at once, and the server | extends `ETagCache`, refines `FreshReads` |
| `MCConditionalGet`, `MCSoloRead` | instances for TLC; the latter adds one history variable | |
| `RetriedWrites`, `MCRetriedWrites` | `_request` for anything else, and a server behind a gateway | - |
| `EventFeed` | what a consumer of `stream_events` may rely on | - |
| `EventStream` | `_stream`, `SSEParser`, `frame_to_model`, and the server | refines `EventFeed` |
| `LogPages` | the four iterators and a log | - |
| `WireFormat` | argument to body field, answer to attribute, status to exception | - |
| `ManagerCalls` | calls of several managers through `_request`, whatever the methods are | extends `WireFormat` |
| `GuestEntry`, `AccessCodes`, `NfcTags`, `ShortCodes`, `KeySchedules`, `HoldOpens`, `Roster`, `Homes`, `GuestLinks`, `Notifications`, `ConfigEdits` | one family of the registry each: builders, parsers, and the server's side | extend `WireFormat` |
| `CommunityAdmin`, `MCCommunityAdmin` | the families as the methods of `ManagerCalls` | extends all of them |
| `WebhookReceipt`, `MCWebhookReceipt` | `webhooks.py` in a receiver, the outbox, and the owner's calls | - |
| `...Proofs` | theorems | extend their modules |

### ETagCache and ConditionalGet

`cache` is `BaseClient._cache`: `order` is the order of the `OrderedDict`,
`entry` its values, `hits` and `misses` the counters. `Store`, `Discard`, `Hit`,
`RecordMiss` each stand for one execution under `_lock`. Requests that share a
cache key are one resource, so `Keys` are the resources.

A call `t` is one execution of `_request`; `pc[t]` is where it is, `inm[t]` is
the `If-None-Match` header `_cache_begin` put on it, `tracked[t]` says that
`cache_key` is not `None`, `attempt[t]` is the local of that name. `Begin` is
`_cache_begin` and the first send, `Retry` the `continue` of the retry,
`ReplayHit` and `Reask` the two sides of the 304 branch, `CountMiss` and
`KeepOrDiscard` the two critical sections of `_cache_miss`, `Miss` both of them
at once for the async client, where nothing is awaited in between.
`ReturnPlain` is a call whose `cache_key` is `None`. `Lose` is a timeout or a
transport error.

The server is external. The README of the repository says that it computes the
ETag from the body, hence `Names`: an ETag stands for one body, a body may have
several ETags, and a 304 may restate another ETag of the same body or none.
It answers at any moment between the send and the receipt and may change its
content at any moment.

`Apart` are the resources two reads of which the callers never overlap. The code
does not enforce it. What is said of freshness is said of those (`Promised`), while
reads of the others overlap at will in the same cache; section 4 says what is gained.

### RetriedWrites

Four writes stand for the registry, one for each way in which it matters that a
request is sent twice: a setter (`set_guest_view_entry_enabled`), an effect
(`open`, with or without an idempotency key), a DELETE
(`remove_hold_open_recurring`), and a POST whose answer counts what it did
(`retry_failed_deliveries`, with its `since` and `limit`). `delivery` is what became
of each event's last delivery: a batch takes the oldest `limit` failed ones from
`since` on, skips those that are pending, and `Conclude` is the receiver that takes
one of those or fails it again. `travelling[t]` is the request of the current
attempt on its way, `abandoned[t]` are those of earlier attempts that the gateway
gave up (502, 504) and that may still arrive, after a later attempt and after the
call. `Refuse`, `GiveUp`, `Vanish`, `Arrive` and `ArriveLate` are the server's
side; `Lose`, `Retry` and `Return` are `_request`.

### EventStream

`ReadLine` is one turn of the loop over `iter_lines`, with `SSEParser.feed`,
`frame_to_model` and the two assignments of `_stream`. `Open`, `Refuse`, `Break`,
`TimeOut`, `Close` and `BackOff` are the rest of `_stream`. `Die` is a connection
that is dead and says nothing: only `STREAM_READ_TIMEOUT` ends it. Frames are
sequences of lines, so that a connection can break in the middle of one; events
are numbered as they are published. `due` is a history variable: the event a
consumer that lost nothing would get next.

### LogPages

One module for three loops: `WalkPages` is `iter_access_log` and
`iter_gate_status_log`, `WalkWindow` is `iter_history`, `WalkCursor` is
`iter_directory_calls`. A step fetches a page, yields its rows and goes on or
returns. Rows are numbered as they arrive; `Write` adds one, `Expire` removes the
oldest. With `Faulty` the server may say `has_more` of a page after the last, or
return the cursor it was given. The last two loops guard against it; `WalkPages` goes
on asking, as the code does (`LastPage` bounds the page number, past which all pages
are alike). `misled` says of the last page that the server did so.

### ManagerCalls and the families

A manager `m` is in one call at a time. `known[m]` is what the reads last told him,
`call[m]` the method and its arguments, `attempt[m]` the local of `_request`.
`Refresh` is any read that a write is based on, `Begin` a method up to its first
send, `Answer` an answer that is not retried and its parser, `Retry` the `continue`
of the loop, `GiveUp` the last 429 or 5xx, `Lose` a timeout or a transport error.
The last three come before the request is applied or after it. `trace[m]` and
`returned` are histories: how often the requests of a call were applied, on what,
and whether anybody came between. All but one of the managers may use a test key
(`key[m]`), for which the server validates and changes nothing.

`ManagerCalls` does not know what the methods are. It gets them as constants, with
three assumptions about a single request (section 4), and what can be said of a call
without knowing its method is stated there once for all: `EffectIsOnce`,
`ExtrasAreAttempts`, `SimulatedIsTold`. What has to know the method is stated in
`CommunityAdmin`. A family is a module in three parts. *The client*: one operator
for each call, `...Calls` for the arguments that are tried, `...Request` for the
bodies that `_base.py` builds, and the `from_dict`s of `models.py`, under their
names. *The server* (external, after the docstrings of the methods). *What the
properties ask*: what may change under a call (`...Within`), what its caller
intends (`...Meant`), when a result is true (`...Honest`) and what
the docs take it to say of the call (`...Denied`), what asks to be
confirmed (`...Harms`), what a rehearsal foretells (`...Previews`). A builder and
the methods of both clients that call it are one call: in `map` the constructor of
a call names the builder and the sync method, the set of calls their async mirror.

`CommunityAdmin` puts fourteen scenes together: entry, codes, tags, short, schedule,
hold, roster, homes, links, alerts, settings, keys, lines, fence. A behaviour is
about one of them, for no method of one touches the state of another. `AdminWithin`,
`AdminMeant`, `AdminHarms`, `AdminHonest`, `AdminDenied` and `AdminPreviews` choose the
family's predicate, and `OnlyWhatWasNamed`, `EditsDoWhatIsMeant`, `HarmNeedsTrue`,
`ResultsAreTrue`, `DenialsAreTrue` and `PreviewsAreTrue` ask for it.

`Offered` is what makes the calls those of a program: an id is one that a read has
returned, a whole set is sent back as it was read and edited. `UNSET` is the
constant `Unset`, a value that is true without being `True` (`"false"`, `1`) is
`Truthy`.

### WebhookReceipt

`construct_event` and `verify_signature` are in the receiver's `Arrive`; an HMAC
stands for what goes into it. The outbox is external: it signs an attempt when it
makes it, tries a delivery `MaxAttempts` times, disables the webhook after
`DisableAfter` failures in a row, and re-delivers an event with the same body. What a
receiver does with an event that comes twice is its own affair: `processed` is the set
of events that were verified at least once. The owner's calls go through `_request`
with its retries: `rotate_webhook_secret`, `update_webhook(active=True)`,
`retry_failed_deliveries`, `replay_delivery`. A rotation that a gateway has answered
for (502, 504) or that timed out may be applied later, after its own retry has returned
or after the call (`late`, `LateRotation`). `astray` is a history variable: since the
last rotation that returned, another one has raised or a late one was applied.

## 3. The runs

| run | module and cfg | question | answer |
|---|---|---|---|
| `reads` | `MCConditionalGet`, `ConditionalGet_reads.cfg` | three threads, one place, two resources: does the cache stay sound; do 304s, foreign bodies, endless re-asking or wrong counters reach a caller; is a resource whose reads are kept apart a register, whatever the reads of the other one do; does every call end? | sound, none, yes (`FreshReads` is refined), yes |
| `counts` | `MCConditionalGet`, `ConditionalGet_counts.cfg` | do hits and misses add up to the reads that went through the cache? | **violated** by a read that is asked again |
| `stale` | `MCSoloRead`, `ConditionalGet_stale.cfg` | can a read that overlaps nothing return old content? | **violated**: yes, after two that did overlap |
| `resume` | `EventStream`, `EventStream_resume.cfg` | order, no repetition, no untold gap between two events, and arrival | hold |
| `quiet` | `EventStream`, `EventStream_quiet.cfg` | can only an HTTP error end a stream that reconnects? | **violated** at reconnection 1025 |
| `gap` | `EventStream`, `EventStream_gap.cfg` | is every lost event told by a `StreamReset`? | **violated** |
| `writes` | `MCRetriedWrites`, `RetriedWrites_mixed.cfg` | what do retries and late requests do to writes? | effects are bounded, keys and setters work, answers are true, a batch's count of its last request |
| `pages` | `LogPages`, `LogPages_walks.cfg` | rows skipped, rows repeated, walks that do not end | none skipped, repetitions bounded; all end, by page numbers as soon as the server stops promising rows |
| `admin` | `MCCommunityAdmin`, `CommunityAdmin_admin.cfg` | two managers, live or test keys, any two methods of a family, retried and lost: what do they change, what do they report? | effects of once, bounded extras, only what was named, nothing unconfirmed, results true of the community |
| `roundtrip` | `MCCommunityAdmin`, `CommunityAdmin_roundtrip.cfg` | can a key schedule be read, edited and sent back without loss? | **violated** by a window whose dates have passed |
| `denials` | `MCCommunityAdmin`, `CommunityAdmin_denials.cfg` | does a result that says "this was so already" mean that it was, before the call? | **violated** by every write that is applied and sent again |
| `receipt` | `MCWebhookReceipt`, `WebhookReceipt_receipt.cfg` | is each event processed, and only while recent, whatever is rotated, replayed, lost and disabled; is a returned secret the current one? | yes, until another rotation raises or lands late |

The six violated ones are findings; `PROJECT.json` quotes the lines they
contradict.

- **counts** (`_sync.py:182`). A 304 whose entry was evicted sets `cache_key` to
  `None`, and the 200 that follows goes past `_cache_miss`. The docs of `CacheStats`
  say that `misses` counts every other response to a cacheable GET and that
  `hits + misses` is the number of reads that went through the cache. `StatsAgree`
  says what the counters do count.
- **stale** (`_cache.py:137`). `hit()` puts the ETag of a 304 on whatever entry
  is there when the 304 is handled, not on the one the request was made for.
  Read A is answered 200 with the old content and stores it late, after read
  B has asked about the new one; B's 304 then puts the new ETag on the old body.
  Every later read is answered 304 and gets the old body until the content
  changes. The theorem `Fresh` says that this needs two overlapping reads of one
  resource.
- **quiet** (`_sse.py:38`). `0.5 * 2 ** attempt` overflows at attempt 1024, and
  only an event resets `attempt`.
- **gap** (`_sync.py:229`). Until the first event, and after a `StreamReset`, there
  is no cursor, so that a connection lost then is resumed from nowhere.
- **roundtrip** (`models.py:1945`). `to_payload` sends days and times and leaves out
  the dates. A window that was over, read with the others and sent back, is in
  force again every week.
- **denials** (`_base.py:307`). A write that was applied and answered 5xx is sent again,
  and the result is made of the second answer alone: `changed=False` for the flip that
  wiped every code ("nothing happened"), `removed=False` for the event this call removed
  ("the window was already gone"), `already_member` for the member it has just added.
  `ResultsAreTrue` says what is left of such a result.

Two things that are easy to take for more than they are, and that the models state
exactly: a batch of replays that is sent again reports what its last request did
(`AnswersAreTrue` says that it never counts more than the call enqueued, and exactly
that if it was not sent again); and a batch that returned may well have left failed
deliveries behind, beyond its `limit` or before its `since`.

### Bounds

- `reads`: three calls, two resources, a cache of one entry, one retry. Three is what it
  takes for a call to look up an entry, for another to evict it and a third to store
  it again; one place makes every store of the other resource an eviction. Two bodies
  are one change, and both may come and go; one of them has two ETags, for a 304 that
  restates another one. `c1` and `c2` read one resource and `c3` the other, and both
  the resource that is kept apart and the other one take either part; the one that is
  read once keeps its content. Nothing distinguishes `c1` from `c2`, so that `c1` may be
  the first (symmetry by hand, as the run has liveness properties). What is sensitive
  to more calls, staleness, has a proof.
- `counts`: three calls without retries: one to fill the entry, one to find it gone, one
  to evict it.
- `stale`: four calls of one resource, which is the length of the shortest
  history that ends with a read of its own.
- `resume`: four events, three ended connections. A resumption, a reset, and one
  of each within the other need two events and two connections.
- `quiet`: no event and 1025 connections: the number is that of the code.
- `writes`: two calls of any kind, two retries (the default of `max_retries`), one
  idempotency key, so that both may use it; two events, and a `limit` of one, so that
  a batch leaves one behind, with a `since` that takes both or the younger. Both have
  failed at first: the receiver was down. They become pending and delivered in the run.
- `pages`: seven rows and pages of two: three pages and a page that is not full,
  and up to as many arrivals as a walk has pages. Page numbers stop at one where
  no page has rows any more.
- `denials`: as `admin`, in the three families whose results say that their work was done
  before.
- `admin`: two managers, two calls, one retry, two failing attempts: a call that is
  applied, retried and lost while the other one is made; a read, somebody else's
  replacement, and a write from the old read. Two gates are one that a call names
  and one that it does not; identifiers suffice for two calls that are each sent
  twice. That is also why more calls are not needed: `ManagerCallsProofs` has the
  step to any number for the properties that count. Managers are symmetric, and
  each family has one pair of values that no call chooses between: a behaviour is
  in one family, so that all pairs may be swapped at once.
- `receipt`: two events, two attempts, a limit of one: a batch that leaves something
  behind. One fault of the network, two of the client, one call at will (repairs are
  not bounded): a POST that is late, a rotation that is lost and one that lands after
  its own retry has returned. The receiver's clock is ahead by exactly the tolerance,
  where prompt and late are one unit apart. Seven secrets, as `SecretsAssumption` asks: three are held, one signs each event's open
  attempt and one the POST that had a fault, and one is left to be minted.

Symmetry is used in runs of safety properties only. Deadlock is checked in `admin`,
`denials` and `roundtrip`, where a manager can always read, and not elsewhere: those
behaviours come to their end when all calls are done, the iterator has returned, or the
bounds are reached.

### Fairness

`reads` assumes that threads run and that an exchange ends, for httpx has a timeout for
each: as long as calls are under way one of them gets on
(`WF_vars(\E t : Client(t) \/ Server(t) \/ Lose(t))`). Nobody has to begin a call. `resume` assumes the same of the consumer's loop, that the
server sends what it has on a connection that is alive, and that the read timeout
fires on one that is dead. Nothing is assumed of `Break`, `Close` or `Die`; their
number is bounded by `MaxDrops`, for under connections that break for ever no
event arrives in any program. `pages` assumes that the consumer asks for
more (`WF_vars(Walk)`). A walk by page numbers ends because arrivals are bounded:
against a log that grows as fast as it is read it does not. Nor does it against a server
that goes on promising rows that are not there, for which the code has no guard:
`WalksEnd` exempts a walk by page numbers for as long as it is misled, and no longer. `receipt` assumes that
the outbox goes on trying, that some POST arrives while any is under way, that a
call returns, and that the owner puts right what `webhooks()`, `webhook_deliveries()`
and the receiver's log show, one thing after another, and deploys the secret that
was returned: what the docs of `rotate_webhook_secret` and `retry_failed_deliveries`
tell an owner to do. Calls at will and everything that fails are not assumed to occur.

## 4. What is proved

TLAPS checks the theorems for every value of the constants: any set of calls, threads,
resources, ETags and bodies, any `cache_size`, `max_retries`, page, retention or
tolerance. The bounds of the runs are parameters there too. `PROJECT.json` lists all.

`ConditionalGetProofs` begins with the cache: the lemmas say that each operation keeps
it typed and sound (no key twice, within the bound, exactly the keys that have an
entry) and what it does to entries. `StoreEvictsTheOldest`: a store of a new key into a
full cache removes the least recently used key and no other. Then the calls, each as
`Spec => []...`:

| theorem | assumption | property |
|---|---|---|
| `TypeCorrect` | - | `TypeOK` |
| `CacheCorrect` | - | `CacheStaysSound` |
| `Invisible` | - | `NotModifiedIsInvisible` |
| `Bounded` | - | `SendsAreBounded` |
| `Published` | - | `ReturnsPublished` |
| `Fresh` | - | `ReadsAreFresh`, of keys in `Apart`, and of all without a cache |
| `Coherent` | - | `EntriesAreCoherent`, of keys in `Apart` |
| `Refinement` | - | `ReadsARegister`, for the same reads as `Fresh` |
| `StatsCount` | `IsFiniteSet(Calls)` | `StatsAgree` |

The argument goes in layers, each inductive relative to those before it:

1. `TypeInv`: the types, the soundness of the cache, and that a 200 has a body.
   Without the last a store might file a missing body, and an entry would not
   be an entry.
2. `AskInv`: a call that carries no `If-None-Match` is never answered 304, and one
   that is not tracked carries none: so a 304 meets a tracked call and is
   replayed or asked again, and it is asked again once.
3. `PublishedInv`: bodies of entries and responses are bodies their resource has
   had. It needs no coherence: even a stale body was once true.
4. `FreshInv`, of the keys in `Apart`: no two reads of one overlap; a call's
   `If-None-Match` names the body of the entry as it is now, or the entry is gone
   (`AsksAboutTheEntry`); a response is one the resource gave during the call; and
   entries are coherent. Coherence alone is not inductive: a 304 is only safe to
   replay because the entry has not changed since the header was made from it,
   and that is what fails when reads overlap.
5. `CountInv`: a call that has not ended has no result yet, so that its end adds one
   to one set; the order of a sound cache is a bijection onto its keys.

`Refinement` maps `pc` to the phase of a read and `result` to its answer; each step
maps to `Begin`, `Change`, `Return` or a stutter.

`RetriedWritesProofs`:

| theorem | property | what makes it inductive |
|---|---|---|
| `TypeCorrect` | `TypeOK` | a call that has not begun has nothing on its way |
| `Bounded` | `EffectsAreBounded` | effects, abandoned requests and the travelling one together are never more than the requests sent, `1 + attempt`; a call that handles an answer has nothing travelling |
| `Idempotent` | `OneOpenPerKey` | a key that has fired is spent |
| `LastWins` | `LastSetterWins` | only the latest setter is in flight, and what holds of its result holds of the response it has |
| `Truthful` | `AnswersAreTrue` | what holds of a result holds of a response, and nothing that is applied later makes it false; a batch that was not retried sends one request, and when that is answered all that the call enqueues has been enqueued (`CountsAll`) |

`EventStreamProofs`, for any number of events and of broken connections:

| theorem | property |
|---|---|
| `TypeCorrect` | `TypeOK` |
| `CursorFollows` | `CursorIsLastEvent` |
| `Honest` | `FeedIsHonest`: the stream implements `EventFeed` |

`Inv` says where a reader is while a connection is open (`Connected`): what the parser
has taken in and the lines that are still to come are together the frame of the last
event that the server has begun to send, or a reset, or nothing. What comes next
(`MayCome`) is then the event that is due, or a later one after a gap that was told. It
is the parser that makes this necessary: a cursor that is right when a frame is
complete says nothing of a connection that breaks in its middle.

`LogPagesProofs`, for any size of page and log:

| theorem | property | what makes it inductive |
|---|---|---|
| `TypeCorrect` | `TypeOK` | a walk that goes on has a row on its page, so that there are no more pages than rows, or it is misled past the last one |
| `NothingSkipped` | `NothingIsSkipped` | `Owing`: a row that is owed and kept was yielded or lies below the page to come |
| `NoRepeats` | `WindowsDoNotRepeat` | `Apart`: what a pinned walk has yielded lies above the page to come |
| `RepeatsBounded` | `RepeatsAreArrivals` | `Counted`: the page to come lies at least as far below the first one as rows were fetched, less those that have arrived; what lies between was owed, and so (`Owing`) yielded or has expired |

All four rest on one lemma of a step, `WalkSteps`: it goes on right below the page it
fetched, or it waits behind the last page for rows that are not there, or it returns
because nothing is left, or because the server has misled it.

`ManagerCallsProofs`, for any number of managers, calls and faults, and any methods
that meet three assumptions about one request: the server stays within the modelled
states and a test key changes nothing (`ServeAssumption`); of a call that is declared
repeatable, a second request changes nothing (`RepeatAssumption`); a request creates
no more than its call says (`ThingsAssumption`). The theorems take them from one
request to retries, timeouts and other managers. That the families meet them is proved
in `CommunityAdminProofs` (below); TLC evaluates them in the run `admin` too, for every
state, call and family of that instance.

| theorem | property | what makes it inductive |
|---|---|---|
| `TypeCorrect` | `TypeOK` | a call has been applied no more often than it was sent |
| `OneEffect` | `EffectIsOnce` | as long as a call is alone, the community is what its first request made of it |
| `FewExtras` | `ExtrasAreAttempts` | as long as it is alone, it has added no more than it was applied |
| `EndInvariant` | `EndInv`, a lemma | what a call was made from is what its first request met, if it is fresh (`KnowledgeInv`); a call that has ended ended with a timeout, the last 5xx, or the server's answer to its last request |

`EndInv` is what the properties about results need: it goes back from a call that
has returned to one request and one answer, so that what is left to show is about a
single request, without any interleaving.

`RequestProofs` shows that, family by family, for any gates, codes, homes, people,
identifiers and times. It has no state. Each family has a lemma `...Answer` that
lists the answers the server may give to a request *as the builder makes it* and
names them (`EntryEffect`, `CodeAnswers`, `LinkShown`, ...). It is the lemma that goes
through the builders: whether a field is sent, as what, and what the server reads where
it is missing (`OptionalField`, `FieldGiven`, ...). From the answers follow, for each
family, lemmas with the same endings:

| lemma | says of one request |
|---|---|
| `...KeepsWithin` | it changes nothing that its call does not name (`...Within`) |
| `...KeepsMeant` | if it succeeds, the community is what its caller meant (`...Meant`) |
| `...Read` | what the parser makes of the answer |
| `...Told` | `simulated` is true in a result exactly if nothing was done |
| `...KeepsHonest` | the result, or the exception, is true of the community (`...Honest`), for a call that was sent again too |
| `...Previewed` | what a rehearsal foretells is what a live key would do |

Two families need an invariant of the server: nobody lives in a home that is hidden or
removed (`Housed`), and of two settings that exclude each other one at most is set
(`Exclusive`). In other states, which the API is never in, the answers are not true.

`CommunityAdminProofs` puts both together. Its only further assumption,
`AdminAssumption`, says that the constants of `ManagerCalls` are the families; it holds
by the configuration, which TLC confirms.

| theorem | property | from |
|---|---|---|
| `RequestAnswered` | every request has one of its family's answers | the lemmas `...Answer` of `RequestProofs` |
| `SoundInvariant` | `SoundInv`, a lemma | an answer keeps `Housed` and `Exclusive` |
| `OnlyTheNamed` | `OnlyWhatWasNamed` | a step that changes the community applies one request (`ChangingStep`), and that keeps within its call |
| `Confirmation` | `HarmNeedsTrue` | the same, and the two builders that send `confirm` |
| `EditsMeant` | `EditsDoWhatIsMeant` | `EndInv`, `KnowledgeInv`; a call that was sent again did at first what it did at last (`RepeatAssumption`) |
| `ResultsTold` | `ResultsAreTrue`; not `DenialsAreTrue`, which is false of a call that was sent again | `EndInv`, and `SoundInv`: `Housed` and `Exclusive` of every state |
| `RehearsalsTold` | `SimulatedIsTold` | `EndInv` |
| `PreviewsTold` | `PreviewsAreTrue` | `EndInv`: with a test key the community is still the one that was previewed |

The same lemmas of `RequestProofs` show that the families are methods `ManagerCalls`
may be used with, whatever their gates, people and identifiers:

| theorem | is | from |
|---|---|---|
| `FamiliesServe` | `ServeAssumption` | the answers are typed, family by family (`...Typed`) |
| `FamiliesRepeat` | `RepeatAssumption` | a second request of a repeatable call either is refused or writes what is there (`...Repeated`); a second create of a code is refused because the first one's is live (`CodeCreatedOnce`) |
| `FamiliesCount` | `ThingsAssumption` | only the places that a call declares are assigned (`...Create`, `CreatedAtMost`) |

`OnlyWhatWasNamed` and `HarmNeedsTrue` hold with any interference; the others speak of
the community a call leaves at its last step, and `EditsMeant` of a call nobody came
between.

`WebhookReceiptProofs`, for any tolerance, skew, number of events and of attempts:

| theorem | property | what makes it inductive |
|---|---|---|
| `SecretsAgree` | `ReturnedSecretIsCurrent` | the property itself, with the types: an answered rotation makes the two secrets the same, and what parts them afterwards is a rotation under way, one that raises or one that is late |
| `OnlyRecent` | `OnlyRecentIsProcessed` | a step, from the types |
| `PromptAccepted` | `PromptIsDelivered` | a step, from the types |
| `TypeCorrect` | `TypeOK` | `Books`: an open POST is the open attempt at its event's delivery and the only one, every other has had a fault, so that `FewPosts` bounds the secrets in use and `SecretIsLeft` finds one to mint; a late rotation was an attempt that failed (`LateKept`) |

Only model-checked:

- All that is liveness (`CallsEnd`, `EventsArrive`, `WalksEnd`,
  `EveryEventIsProcessed`), which is out of the prover's reach, as are `ENABLED` and
  induction over data.

## 5. What is not modelled

The length of waits (`_retry_delay`, `Retry-After`): models of the order of events
do not depend on it. Of the registry: `message`, `test_webhook`, `create_webhook`,
`delete_webhook` and the URL and event types of `update_webhook`, which are one request
each and relate to no other state; the reads that no write is based on. Of `models.py`:
rows of logs, members, messages and gate status, which are copied field by field. Of
`_exceptions.py`: the attributes of an exception; `exception_for` is in `WireFormat`. What
`_decode` does with a body that is not JSON. `_environments.py`, `constants.py`, the
surface script and the connection pool: read once, tables, a build step, external.

Requests that arrive after their attempt was given up are in `RetriedWrites`, and in
`WebhookReceipt` for rotations (a late replay only sends the same event once more, a
late `enable` does what the owner wants). They are not in `ManagerCalls`: with them a
manager's change may be undone at any time by one of long ago, and no property of
an undisturbed call would say anything.

That an event has its effects once is the receiver's own affair: nothing in
`webhooks.py` remembers what was processed, and a replay is the original byte for byte.

`PROJECT.json` lists these, and under `hazards` what is hard to test at its line,
those no property covers yet included.

## 6. Plan

Done: every module of section 2 and the theorems of section 4. What is left, in the
order of what it would add:

1. Requests that are given up and arrive late, in `ManagerCalls`, with the two
   properties that survive them: `HarmNeedsTrue`, and `ExtrasAreAttempts` counted at
   the end instead of at the return.
2. `create_webhook` and `delete_webhook` in `WebhookReceipt`: several webhooks with a
   secret each and one receiver.
3. The remaining reads of the registry, as far as a property can be found that is not
   a copy of a table.
