----------------------------- MODULE ETagCache -----------------------------
(***************************************************************************)
(* The client-side store behind conditional GETs (_cache.py): a bounded    *)
(* LRU from a request's cache key to the ETag and the body of the last     *)
(* response the client kept.                                               *)
(*                                                                         *)
(* A cache is a record                                                     *)
(*   order   the OrderedDict's keys, least recently used first             *)
(*   entry   the (etag, body) held for each key, NoEntry where none is     *)
(*   hits, misses   the two counters of cache_stats()                      *)
(* Every operator below is one critical section of ETagCache._lock: it     *)
(* takes the cache and gives the cache after the call.                     *)
(***************************************************************************)
EXTENDS Integers, Sequences, SequencesExt

CONSTANTS
    Keys,        \* cache keys: method + path + normalised query
    ETags,       \* validators a server may send
    Bodies,      \* response bodies (the raw bytes, one value per content)
    MaxEntries,  \* cache_size
    NoTag,       \* None where an ETag is optional
    NoBody       \* no bytes

\* __init__ clamps cache_size: max_entries = max(1, int(max_entries)).
ASSUME MaxEntriesAssumption == MaxEntries \in Nat \ {0}
ASSUME NoneAssumption == NoTag \notin ETags /\ NoBody \notin Bodies

NoEntry == [etag |-> NoTag, body |-> NoBody]

Entry == [etag : ETags, body : Bodies] \cup {NoEntry}

CacheType == [order  : Seq(Keys),
              entry  : [Keys -> Entry],
              hits   : Nat,
              misses : Nat]

EmptyCache == [order  |-> <<>>,
               entry  |-> [k \in Keys |-> NoEntry],
               hits   |-> 0,
               misses |-> 0]

Held(c) == {k \in Keys : c.entry[k] # NoEntry}

----------------------------------------------------------------------------
(* The operations.                                                         *)

EtagFor(c, k) == c.entry[k].etag

MoveToEnd(order, k) == Append(RemoveFirst(order, k), k)

\* Mutant of Newest: a store that never evicts.
KeepAll(order) == order

\* popitem(last=False) until no more than max_entries are left.
Newest(order) ==
    IF Len(order) > MaxEntries
    THEN SubSeq(order, Len(order) - MaxEntries + 1, Len(order))
    ELSE order

Store(c, k, tag, b) ==
    LET order == Newest(MoveToEnd(c.order, k))
    IN  [c EXCEPT
           !.order = order,
           !.entry = [x \in Keys |->
                        IF x = k THEN [etag |-> tag, body |-> b]
                        ELSE IF x \in Range(order) THEN c.entry[x]
                        ELSE NoEntry]]

Discard(c, k) ==
    [c EXCEPT !.order = RemoveFirst(c.order, k), !.entry[k] = NoEntry]

\* The entry hit() leaves behind: a 304 that names another ETag is adopted.
Adopted(entry, tag) ==
    IF tag # NoTag THEN [entry EXCEPT !.etag = tag] ELSE entry

\* Only for a key that is held; hit() on a missing key returns None and
\* changes nothing, not even the hit counter.
Hit(c, k, tag) ==
    [c EXCEPT !.order    = MoveToEnd(c.order, k),
              !.entry[k] = Adopted(c.entry[k], tag),
              !.hits     = c.hits + 1]

RecordMiss(c) == [c EXCEPT !.misses = c.misses + 1]

Stats(c) == [hits |-> c.hits, misses |-> c.misses, entries |-> Len(c.order)]

----------------------------------------------------------------------------
(* What makes a cache sound, as named parts.                               *)

NoDuplicates(c) ==
    \A i, j \in 1..Len(c.order) : c.order[i] = c.order[j] => i = j

WithinBound(c) == Len(c.order) <= MaxEntries

OrderIsHeld(c) == Range(c.order) = Held(c)

CacheSound(c) == NoDuplicates(c) /\ WithinBound(c) /\ OrderIsHeld(c)

============================================================================
