------------------------ MODULE ConditionalGetProofs ------------------------
(***************************************************************************)
(* What ConditionalGet keeps for every number of calls, keys, ETags and    *)
(* bodies, every cache_size and every max_retries: threads or tasks.       *)
(***************************************************************************)
EXTENDS ConditionalGet, TLAPS, SequenceTheorems, FiniteSetTheorems

----------------------------------------------------------------------------
(* The cache: every operation keeps it well typed and sound, for any keys, *)
(* ETags, bodies and cache_size, and a store that evicts evicts only the   *)
(* least recently used key.                                                *)

Distinct(s) == \A i, j \in 1..Len(s) : s[i] = s[j] => i = j

\* The place of k in a list it occurs in, and the list without that place.
LEMMA RemoveFirstIsRemoveAt ==
    ASSUME NEW s \in Seq(Keys), Distinct(s), NEW p \in 1..Len(s)
    PROVE  RemoveFirst(s, s[p]) = RemoveAt(s, p)
<1>1. {i \in 1..Len(s) : s[i] = s[p]} = {p}
    BY DEF Distinct
<1>2. Min({p}) = p
    BY DEF Min
<1> QED
    BY <1>1, <1>2 DEF RemoveFirst, SelectInSeq

\* Removing a place of a sequence, element by element.
LEMMA RemoveAtElements ==
    ASSUME NEW s \in Seq(Keys), NEW p \in 1..Len(s)
    PROVE  /\ RemoveAt(s, p) \in Seq(Keys)
           /\ Len(RemoveAt(s, p)) = Len(s) - 1
           /\ \A i \in 1..Len(s) - 1 :
                RemoveAt(s, p)[i] = IF i < p THEN s[i] ELSE s[i + 1]
<1> DEFINE a == SubSeq(s, 1, p - 1)
           b == SubSeq(s, p + 1, Len(s))
<1>1. /\ a \in Seq(Keys)
      /\ Len(a) = p - 1
      /\ \A i \in 1..p - 1 : a[i] = s[i]
    BY SubSeqProperties
<1>2. /\ b \in Seq(Keys)
      /\ Len(b) = Len(s) - p
      /\ \A i \in 1..Len(s) - p : b[i] = s[p + i]
    BY SubSeqProperties
<1>3. RemoveAt(s, p) = a \o b
    BY DEF RemoveAt
<1> HIDE DEF a, b
<1>4. /\ a \o b \in Seq(Keys)
      /\ Len(a \o b) = Len(a) + Len(b)
      /\ \A i \in 1..Len(a) + Len(b) :
           (a \o b)[i] = IF i <= Len(a) THEN a[i] ELSE b[i - Len(a)]
    BY <1>1, <1>2, ConcatProperties
<1>5. ASSUME NEW i \in 1..Len(s) - 1
      PROVE  (a \o b)[i] = IF i < p THEN s[i] ELSE s[i + 1]
  <2>1. i \in 1..Len(a) + Len(b)
      BY <1>1, <1>2
  <2>2. CASE i < p
      BY <2>1, <2>2, <1>1, <1>4
  <2>3. CASE ~ (i < p)
    <3>1. (a \o b)[i] = b[i - (p - 1)]
        BY <2>1, <2>3, <1>1, <1>4
    <3>2. i - (p - 1) \in 1..Len(s) - p /\ p + (i - (p - 1)) = i + 1
        BY <2>3
    <3> QED
        BY <2>3, <3>1, <3>2, <1>2
  <2> QED
      BY <2>2, <2>3
<1> QED
    BY <1>1, <1>2, <1>3, <1>4, <1>5

\* MoveToEnd and the removal of a key, whether the key is in the list or not.
LEMMA RemoveFirstSound ==
    ASSUME NEW s \in Seq(Keys), Distinct(s), NEW k \in Keys
    PROVE  /\ RemoveFirst(s, k) \in Seq(Keys)
           /\ Distinct(RemoveFirst(s, k))
           /\ Range(RemoveFirst(s, k)) = Range(s) \ {k}
           /\ Len(RemoveFirst(s, k)) =
                IF k \in Range(s) THEN Len(s) - 1 ELSE Len(s)
<1>1. CASE \E p \in 1..Len(s) : s[p] = k
  <2>1. PICK p \in 1..Len(s) : s[p] = k
      BY <1>1
  <2> DEFINE r == RemoveAt(s, p)
  <2>2. RemoveFirst(s, k) = r
      BY <2>1, RemoveFirstIsRemoveAt
  <2>3. /\ r \in Seq(Keys)
        /\ Len(r) = Len(s) - 1
        /\ \A i \in 1..Len(s) - 1 : r[i] = IF i < p THEN s[i] ELSE s[i + 1]
      BY RemoveAtElements
  <2> HIDE DEF r
  <2>4. Distinct(r)
    <3> SUFFICES ASSUME NEW i \in 1..Len(r), NEW j \in 1..Len(r), r[i] = r[j]
                 PROVE  i = j
        BY DEF Distinct
    <3> DEFINE at(x) == IF x < p THEN x ELSE x + 1
    <3>1. at(i) \in 1..Len(s) /\ at(j) \in 1..Len(s)
        BY <2>3
    <3>2. s[at(i)] = s[at(j)]
        BY <2>3
    <3>3. at(i) = at(j)
        BY <3>1, <3>2 DEF Distinct
    <3> QED
        BY <3>3
  <2>5. Range(r) \subseteq Range(s) \ {k}
    <3>1. \A i \in 1..Len(r) : \E j \in 1..Len(s) : j # p /\ r[i] = s[j]
      <4> SUFFICES ASSUME NEW i \in 1..Len(r)
                   PROVE  \E j \in 1..Len(s) : j # p /\ r[i] = s[j]
          OBVIOUS
      <4>1. i \in 1..Len(s) /\ i + 1 \in 1..Len(s)
          BY <2>3
      <4> QED
          BY <4>1, <2>3
    <3> QED
        BY <3>1, <2>1 DEF Range, Distinct
  <2>6. Range(s) \ {k} \subseteq Range(r)
    <3>1. \A j \in 1..Len(s) : j # p => \E i \in 1..Len(r) : r[i] = s[j]
      <4> SUFFICES ASSUME NEW j \in 1..Len(s), j # p
                   PROVE  \E i \in 1..Len(r) : r[i] = s[j]
          OBVIOUS
      <4>1. CASE j < p
          BY <4>1, <2>3
      <4>2. CASE j > p
        <5>1. j - 1 \in 1..Len(r) /\ r[j - 1] = s[j]
            BY <4>2, <2>3
        <5> QED
            BY <5>1
      <4> QED
          BY <4>1, <4>2
    <3> QED
        BY <3>1, <2>1 DEF Range
  <2>7. k \in Range(s)
      BY <2>1 DEF Range
  <2> QED
      BY <2>2, <2>3, <2>4, <2>5, <2>6, <2>7
<1>2. CASE ~ \E p \in 1..Len(s) : s[p] = k
  <2>1. RemoveFirst(s, k) = s
      BY <1>2 DEF RemoveFirst
  <2>2. k \notin Range(s)
      BY <1>2 DEF Range
  <2> QED
      BY <2>1, <2>2
<1> QED
    BY <1>1, <1>2

LEMMA MoveToEndSound ==
    ASSUME NEW s \in Seq(Keys), Distinct(s), NEW k \in Keys
    PROVE  /\ MoveToEnd(s, k) \in Seq(Keys)
           /\ Distinct(MoveToEnd(s, k))
           /\ Range(MoveToEnd(s, k)) = Range(s) \cup {k}
           /\ Len(MoveToEnd(s, k)) =
                IF k \in Range(s) THEN Len(s) ELSE Len(s) + 1
           /\ MoveToEnd(s, k)[Len(MoveToEnd(s, k))] = k
<1> DEFINE r == RemoveFirst(s, k)
           m == MoveToEnd(s, k)
<1>1. /\ r \in Seq(Keys)
      /\ Distinct(r)
      /\ Range(r) = Range(s) \ {k}
      /\ Len(r) = IF k \in Range(s) THEN Len(s) - 1 ELSE Len(s)
    BY RemoveFirstSound
<1>2. m = Append(r, k)
    BY DEF MoveToEnd
<1> HIDE DEF r, m
<1>3. /\ m \in Seq(Keys)
      /\ Len(m) = Len(r) + 1
      /\ \A i \in 1..Len(r) : m[i] = r[i]
      /\ m[Len(m)] = k
    BY <1>1, <1>2, AppendProperties
<1>4. \A i \in 1..Len(r) : r[i] # k
  <2>1. k \notin Range(r)
      BY <1>1
  <2>2. DOMAIN r = 1..Len(r)
      BY <1>1
  <2> QED
      BY <2>1, <2>2 DEF Range
<1>5. Distinct(m)
    BY <1>1, <1>3, <1>4 DEF Distinct
<1>6. Range(m) = Range(r) \cup {k}
    BY <1>1, <1>3 DEF Range
<1> QED
    BY <1>1, <1>3, <1>5, <1>6 DEF m

\* Trimming keeps the end of the list: all of it, or its MaxEntries last.
LEMMA NewestSound ==
    ASSUME NEW s \in Seq(Keys), Distinct(s), s # <<>>
    PROVE  /\ Newest(s) \in Seq(Keys)
           /\ Distinct(Newest(s))
           /\ Range(Newest(s)) \subseteq Range(s)
           /\ Len(Newest(s)) <= MaxEntries
           /\ s[Len(s)] \in Range(Newest(s))
           /\ Len(s) <= MaxEntries => Newest(s) = s
           /\ Len(s) = MaxEntries + 1 =>
                Range(Newest(s)) = Range(s) \ {s[1]}
<1> USE MaxEntriesAssumption
<1>0. Len(s) \in Nat /\ Len(s) > 0
    BY EmptySeq
<1>1. CASE Len(s) <= MaxEntries
  <2>1. Newest(s) = s
      BY <1>0, <1>1 DEF Newest
  <2> QED
      BY <2>1, <1>0, <1>1 DEF Range
<1>2. CASE Len(s) > MaxEntries
  <2> DEFINE d == Len(s) - MaxEntries
             n == Newest(s)
  <2>1. n = SubSeq(s, d + 1, Len(s))
      BY <1>0, <1>2 DEF Newest
  <2>2. /\ n \in Seq(Keys)
        /\ Len(n) = MaxEntries
        /\ \A i \in 1..MaxEntries : n[i] = s[d + i]
      BY <1>0, <1>2, <2>1, SubSeqProperties
  <2> HIDE DEF n
  <2>4. \A i \in 1..MaxEntries : d + i \in 1..Len(s)
      BY <1>0, <1>2
  <2>3. Distinct(n)
    <3> SUFFICES ASSUME NEW i \in 1..Len(n), NEW j \in 1..Len(n), n[i] = n[j]
                 PROVE  i = j
        BY DEF Distinct
    <3>1. i \in 1..MaxEntries /\ j \in 1..MaxEntries
        BY <2>2
    <3>2. d + i \in 1..Len(s) /\ d + j \in 1..Len(s) /\ s[d + i] = s[d + j]
        BY <3>1, <2>2, <2>4
    <3>3. d + i = d + j
        BY <3>2 DEF Distinct
    <3> QED
        BY <3>1, <3>3, <1>0
  <2>5. Range(n) \subseteq Range(s)
      BY <2>2, <2>4 DEF Range
  <2>6. n[MaxEntries] = s[Len(s)]
      BY <2>2
  <2>7. s[Len(s)] \in Range(n)
      BY <2>2, <2>6 DEF Range
  <2>8. ASSUME Len(s) = MaxEntries + 1
        PROVE  Range(n) = Range(s) \ {s[1]}
    <3>1. \A i \in 1..Len(n) : n[i] = s[i + 1] /\ n[i] # s[1]
        BY <2>2, <2>4, <2>8 DEF Distinct
    <3>2. Range(n) \subseteq Range(s) \ {s[1]}
        BY <3>1, <2>5 DEF Range
    <3>3. \A j \in 2..Len(s) : j - 1 \in 1..Len(n) /\ n[j - 1] = s[j]
        BY <2>2, <2>8, <3>1
    <3>4. Range(s) \ {s[1]} \subseteq Range(n)
        BY <3>3 DEF Range
    <3> QED
        BY <3>2, <3>4
  <2> QED
      BY <1>2, <2>2, <2>3, <2>5, <2>7, <2>8 DEF n
<1> QED
    BY <1>0, <1>1, <1>2

----------------------------------------------------------------------------
(* The operations of the cache.                                            *)

LEMMA EmptyCacheSound == EmptyCache \in CacheType /\ CacheSound(EmptyCache)
<1>1. EmptyCache \in CacheType
    BY DEF EmptyCache, CacheType, Entry
<1>2. Range(EmptyCache.order) = Held(EmptyCache)
    BY DEF EmptyCache, Held, Range
<1>3. Len(EmptyCache.order) = 0
    BY DEF EmptyCache
<1> QED
    BY <1>1, <1>2, <1>3, MaxEntriesAssumption
    DEF CacheSound, NoDuplicates, WithinBound, OrderIsHeld

\* What the soundness of a cache says of its order.
LEMMA SoundOrder ==
    ASSUME NEW c \in CacheType, CacheSound(c)
    PROVE  /\ c.order \in Seq(Keys)
           /\ Distinct(c.order)
           /\ Len(c.order) <= MaxEntries
           /\ Range(c.order) = Held(c)
BY DEF CacheType, CacheSound, NoDuplicates, WithinBound, OrderIsHeld, Distinct

\* A cache record that is put together from a sound order is sound.
LEMMA CacheFromOrder ==
    ASSUME NEW c \in CacheType,
           Distinct(c.order),
           Len(c.order) <= MaxEntries,
           Range(c.order) = Held(c)
    PROVE  CacheSound(c)
BY DEF CacheSound, NoDuplicates, WithinBound, OrderIsHeld, Distinct

\* An entry with an ETag is an entry, and is not NoEntry.
LEMMA RealEntry ==
    ASSUME NEW tag \in ETags, NEW b \in Bodies
    PROVE  [etag |-> tag, body |-> b] \in Entry \ {NoEntry}
BY NoneAssumption DEF Entry, NoEntry

LEMMA StoreSound ==
    ASSUME NEW c \in CacheType, CacheSound(c),
           NEW k \in Keys, NEW tag \in ETags, NEW b \in Bodies
    PROVE  /\ Store(c, k, tag, b) \in CacheType
           /\ CacheSound(Store(c, k, tag, b))
           /\ Store(c, k, tag, b).entry[k] = [etag |-> tag, body |-> b]
           /\ \A x \in Keys \ {k} :
                Store(c, k, tag, b).entry[x] \in {c.entry[x], NoEntry}
<1> DEFINE m == MoveToEnd(c.order, k)
           n == Newest(m)
           s == Store(c, k, tag, b)
<1>1. /\ c.order \in Seq(Keys)
      /\ Distinct(c.order)
      /\ Range(c.order) = Held(c)
    BY SoundOrder
<1>2. /\ m \in Seq(Keys)
      /\ Distinct(m)
      /\ Range(m) = Range(c.order) \cup {k}
      /\ m[Len(m)] = k
    BY <1>1, MoveToEndSound
<1>3. m # <<>>
    BY <1>2 DEF Range
<1>4. /\ n \in Seq(Keys)
      /\ Distinct(n)
      /\ Range(n) \subseteq Range(m)
      /\ Len(n) <= MaxEntries
      /\ k \in Range(n)
    BY <1>2, <1>3, NewestSound
<1>5. s = [c EXCEPT !.order = n,
                    !.entry = [x \in Keys |->
                                 IF x = k THEN [etag |-> tag, body |-> b]
                                 ELSE IF x \in Range(n) THEN c.entry[x]
                                 ELSE NoEntry]]
    BY DEF Store
<1> HIDE DEF m, n, s
<1>6. /\ s.order = n
      /\ s.hits = c.hits
      /\ s.misses = c.misses
      /\ s.entry = [x \in Keys |->
                      IF x = k THEN [etag |-> tag, body |-> b]
                      ELSE IF x \in Range(n) THEN c.entry[x] ELSE NoEntry]
    BY <1>5 DEF CacheType
<1>7. s \in CacheType
    BY <1>4, <1>5, RealEntry DEF CacheType, Entry
<1>8. Range(n) = Held(s)
  <2>1. \A x \in Keys : x \in Range(n) <=> s.entry[x] # NoEntry
    <3> SUFFICES ASSUME NEW x \in Keys
                 PROVE  x \in Range(n) <=> s.entry[x] # NoEntry
        OBVIOUS
    <3>1. CASE x = k
        BY <3>1, <1>4, <1>6, RealEntry
    <3>2. CASE x # k /\ x \in Range(n)
        BY <3>2, <1>1, <1>2, <1>4, <1>6 DEF Held
    <3>3. CASE x # k /\ x \notin Range(n)
        BY <3>3, <1>6
    <3> QED
        BY <3>1, <3>2, <3>3
  <2>2. Range(n) \subseteq Keys
      BY <1>1, <1>2, <1>4 DEF Held
  <2> QED
      BY <2>1, <2>2 DEF Held
<1>9. CacheSound(s)
    BY <1>4, <1>6, <1>7, <1>8, CacheFromOrder
<1> QED
    BY <1>6, <1>7, <1>9 DEF s

\* The least recently used key is the only one a store can evict.
THEOREM StoreEvictsTheOldest ==
    ASSUME NEW c \in CacheType, CacheSound(c),
           NEW k \in Keys, NEW tag \in ETags, NEW b \in Bodies,
           NEW x \in Held(c) \ Held(Store(c, k, tag, b))
    PROVE  /\ x = c.order[1]
           /\ x # k
           /\ k \notin Held(c)
           /\ Len(c.order) = MaxEntries
<1> DEFINE m == MoveToEnd(c.order, k)
           s == Store(c, k, tag, b)
<1>1. /\ c.order \in Seq(Keys)
      /\ Distinct(c.order)
      /\ Len(c.order) <= MaxEntries
      /\ Range(c.order) = Held(c)
    BY SoundOrder
<1>2. /\ m \in Seq(Keys)
      /\ Distinct(m)
      /\ Range(m) = Range(c.order) \cup {k}
      /\ Len(m) = IF k \in Range(c.order) THEN Len(c.order)
                  ELSE Len(c.order) + 1
    BY <1>1, MoveToEndSound
<1>3. m # <<>>
    BY <1>2 DEF Range
<1>4. s \in CacheType /\ CacheSound(s)
    BY StoreSound
<1>5. Held(s) = Range(Newest(m))
  <2>1. s.order = Newest(m)
      BY DEF Store, CacheType
  <2> QED
      BY <2>1, <1>4, SoundOrder
<1>6. x \in Range(m) /\ x \notin Range(Newest(m))
    BY <1>1, <1>2, <1>5
<1>7. Len(m) > MaxEntries
    BY <1>2, <1>3, <1>6, NewestSound, MaxEntriesAssumption
<1>8. k \notin Held(c) /\ Len(c.order) = MaxEntries
    BY <1>1, <1>2, <1>7, MaxEntriesAssumption
<1>9. x = m[1]
    BY <1>1, <1>2, <1>3, <1>6, <1>8, NewestSound, MaxEntriesAssumption
<1>10. m = Append(c.order, k)
  <2>1. ~ \E i \in 1..Len(c.order) : c.order[i] = k
    <3>1. DOMAIN c.order = 1..Len(c.order)
        BY <1>1
    <3> QED
        BY <3>1, <1>1, <1>8 DEF Range
  <2>2. RemoveFirst(c.order, k) = c.order
      BY <2>1 DEF RemoveFirst
  <2> QED
      BY <2>2 DEF MoveToEnd
<1>11. m[1] = c.order[1]
    BY <1>1, <1>8, <1>10, MaxEntriesAssumption
<1> QED
    BY <1>8, <1>9, <1>11

LEMMA DiscardSound ==
    ASSUME NEW c \in CacheType, CacheSound(c), NEW k \in Keys
    PROVE  /\ Discard(c, k) \in CacheType
           /\ CacheSound(Discard(c, k))
           /\ Discard(c, k).entry = [c.entry EXCEPT ![k] = NoEntry]
<1> DEFINE r == RemoveFirst(c.order, k)
           d == Discard(c, k)
<1>1. /\ c.order \in Seq(Keys)
      /\ Distinct(c.order)
      /\ Len(c.order) <= MaxEntries
      /\ Range(c.order) = Held(c)
    BY SoundOrder
<1>2. /\ r \in Seq(Keys)
      /\ Distinct(r)
      /\ Range(r) = Range(c.order) \ {k}
      /\ Len(r) = IF k \in Range(c.order) THEN Len(c.order) - 1
                  ELSE Len(c.order)
    BY <1>1, RemoveFirstSound
<1>3. /\ d = [c EXCEPT !.order = r, !.entry = [c.entry EXCEPT ![k] = NoEntry]]
      /\ d.order = r
      /\ d.entry = [c.entry EXCEPT ![k] = NoEntry]
    BY DEF Discard, CacheType
<1> HIDE DEF r, d
<1>4. d \in CacheType
    BY <1>2, <1>3 DEF CacheType, Entry
<1>5. Range(r) = Held(d)
    BY <1>1, <1>2, <1>3 DEF Held, CacheType
<1>6. Len(r) <= MaxEntries
    BY <1>1, <1>2, MaxEntriesAssumption
<1>7. CacheSound(d)
    BY <1>2, <1>3, <1>4, <1>5, <1>6, CacheFromOrder
<1> QED
    BY <1>3, <1>4, <1>7 DEF d

LEMMA HitSound ==
    ASSUME NEW c \in CacheType, CacheSound(c),
           NEW k \in Held(c), NEW tag \in ETags \cup {NoTag}
    PROVE  /\ Hit(c, k, tag) \in CacheType
           /\ CacheSound(Hit(c, k, tag))
           /\ Hit(c, k, tag).entry =
                [c.entry EXCEPT ![k] = Adopted(c.entry[k], tag)]
           /\ Adopted(c.entry[k], tag) =
                [etag |-> IF tag # NoTag THEN tag ELSE c.entry[k].etag,
                 body |-> c.entry[k].body]
<1> DEFINE m == MoveToEnd(c.order, k)
           e == Adopted(c.entry[k], tag)
           h == Hit(c, k, tag)
<1>1. /\ c.order \in Seq(Keys)
      /\ Distinct(c.order)
      /\ Len(c.order) <= MaxEntries
      /\ Range(c.order) = Held(c)
    BY SoundOrder
<1>2. k \in Keys /\ c.entry[k] \in [etag : ETags, body : Bodies]
    BY DEF Held, CacheType, Entry
<1>3. /\ m \in Seq(Keys)
      /\ Distinct(m)
      /\ Range(m) = Range(c.order)
      /\ Len(m) = Len(c.order)
  <2>1. k \in Range(c.order)
      BY <1>1
  <2>2. Range(c.order) \cup {k} = Range(c.order)
      BY <2>1
  <2> QED
      BY <1>1, <1>2, <2>1, <2>2, MoveToEndSound
<1>4. /\ e = [etag |-> IF tag # NoTag THEN tag ELSE c.entry[k].etag,
              body |-> c.entry[k].body]
      /\ e \in Entry \ {NoEntry}
    BY <1>2, NoneAssumption DEF Adopted, Entry, NoEntry
<1>5. /\ h = [c EXCEPT !.order = m, !.entry = [c.entry EXCEPT ![k] = e],
                       !.hits = c.hits + 1]
      /\ h.order = m
      /\ h.entry = [c.entry EXCEPT ![k] = e]
    BY DEF Hit, CacheType
<1> HIDE DEF m, e, h
<1>6. h \in CacheType
  <2>1. c.entry \in [Keys -> Entry] /\ c.hits \in Nat
      BY DEF CacheType
  <2>2. [c.entry EXCEPT ![k] = e] \in [Keys -> Entry]
      BY <2>1, <1>4
  <2>3. c.hits + 1 \in Nat
      BY <2>1
  <2> DEFINE f == [c.entry EXCEPT ![k] = e]
             n == c.hits + 1
  <2>4. h = [c EXCEPT !.order = m, !.entry = f, !.hits = n]
      BY <1>5
  <2> HIDE DEF f, n
  <2> QED
      BY <2>2, <2>3, <2>4, <1>3 DEF CacheType, f, n
<1>7. Range(m) = Held(h)
    BY <1>1, <1>2, <1>3, <1>4, <1>5 DEF Held, CacheType
<1>8. CacheSound(h)
    BY <1>1, <1>3, <1>5, <1>6, <1>7, CacheFromOrder
<1> QED
    BY <1>4, <1>5, <1>6, <1>8 DEF h, e

\* What a hit leaves in the cache: bodies are as they were, and only the
\* entry that was hit may have another ETag.
LEMMA HitEntry ==
    ASSUME NEW c \in CacheType, CacheSound(c),
           NEW k \in Held(c), NEW tag \in ETags \cup {NoTag},
           NEW x \in Held(Hit(c, k, tag))
    PROVE  /\ x \in Held(c)
           /\ Hit(c, k, tag).entry[x].body = c.entry[x].body
           /\ x # k => Hit(c, k, tag).entry[x] = c.entry[x]
           /\ x = k => Hit(c, k, tag).entry[x].etag =
                IF tag # NoTag THEN tag ELSE c.entry[x].etag
<1> DEFINE e == Adopted(c.entry[k], tag)
           f == Hit(c, k, tag).entry
<1>1. /\ f = [c.entry EXCEPT ![k] = e]
      /\ e = [etag |-> IF tag # NoTag THEN tag ELSE c.entry[k].etag,
              body |-> c.entry[k].body]
    BY HitSound
<1>2. x \in Keys /\ f[x] # NoEntry
    BY DEF Held
<1>3. c.entry \in [Keys -> Entry] /\ k \in Keys /\ c.entry[k] # NoEntry
    BY DEF CacheType, Held
<1> HIDE DEF e, f
<1>4. CASE x = k
    BY <1>1, <1>3, <1>4 DEF f
<1>5. CASE x # k
  <2>1. f[x] = c.entry[x]
      BY <1>1, <1>2, <1>3, <1>5
  <2> QED
      BY <1>2, <1>5, <2>1 DEF Held, f
<1> QED
    BY <1>4, <1>5

LEMMA RecordMissSound ==
    ASSUME NEW c \in CacheType, CacheSound(c)
    PROVE  /\ RecordMiss(c) \in CacheType
           /\ CacheSound(RecordMiss(c))
           /\ RecordMiss(c).entry = c.entry
<1>1. /\ RecordMiss(c) \in CacheType
      /\ RecordMiss(c).order = c.order
      /\ RecordMiss(c).entry = c.entry
    BY DEF RecordMiss, CacheType
<1> QED
    BY <1>1 DEF CacheSound, NoDuplicates, WithinBound, OrderIsHeld, Held

----------------------------------------------------------------------------
(* The calls.                                                              *)

USE MaxEntriesAssumption, NoneAssumption, NamesAssumption,
    RetriesAssumption, ModesAssumption

----------------------------------------------------------------------------
(* Types, and the cache's own soundness.                                   *)

\* A response in full has a body: what Store is called with is an entry.
FullHasBody == \A t \in Calls : resp[t].status = "ok" => resp[t].body \in Bodies

TypeInv == TypeOK /\ CacheSound(cache) /\ FullHasBody

LEMMA TypeInit == Init => TypeInv
<1> SUFFICES ASSUME Init PROVE TypeInv
    OBVIOUS
<1>1. cache \in CacheType /\ CacheSound(cache)
    BY EmptyCacheSound DEF Init
<1>2. TypeOK
    BY <1>1 DEF Init, TypeOK, NoResponse, NoResult, Response, Result,
                Statuses, Ways
<1>3. FullHasBody
    BY DEF Init, FullHasBody, NoResponse
<1> QED
    BY <1>1, <1>2, <1>3 DEF TypeInv

\* What a call keeps of a response leaves the cache well typed and sound.
LEMMA KeptSound ==
    ASSUME NEW c \in CacheType, CacheSound(c), NEW k \in Keys,
           NEW r \in Response, r.status = "ok" => r.body \in Bodies
    PROVE  Kept(c, k, r) \in CacheType /\ CacheSound(Kept(c, k, r))
<1>1. CASE r.status = "ok" /\ r.etag # NoTag
  <2>1. r.etag \in ETags /\ r.body \in Bodies
      BY <1>1 DEF Response
  <2> QED
      BY <1>1, <2>1, StoreSound DEF Kept
<1>2. CASE ~ (r.status = "ok" /\ r.etag # NoTag)
    BY <1>2, DiscardSound DEF Kept
<1> QED
    BY <1>1, <1>2

\* The end of a call, whatever it returns.
LEMMA FinishTyped ==
    ASSUME TypeInv, NEW t \in Calls, NEW via \in Ways, NEW s \in Statuses,
           NEW b \in Bodies \cup {NoBody}, Finish(t, via, s, b),
           cache' \in CacheType, CacheSound(cache')
    PROVE  TypeInv'
<1>1. TypeOK'
    BY DEF TypeInv, TypeOK, Finish, server, NoResponse, Response, Result,
           Statuses, Ways
<1>2. FullHasBody'
    BY DEF TypeInv, TypeOK, FullHasBody, Finish, NoResponse
<1> QED
    BY <1>1, <1>2 DEF TypeInv

\* A response is taken in.
LEMMA RespondTyped ==
    ASSUME TypeInv, NEW t \in Calls, NEW r \in Response,
           r.status = "ok" => r.body \in Bodies, Respond(t, r)
    PROVE  TypeInv'
<1>1. TypeOK'
    BY DEF TypeInv, TypeOK, Respond, server, locals
<1>2. FullHasBody'
    BY DEF TypeInv, TypeOK, FullHasBody, Respond
<1> QED
    BY <1>1, <1>2 DEF TypeInv, Respond

LEMMA TypeStep == TypeInv /\ [Next]_vars => TypeInv'
<1> SUFFICES ASSUME TypeInv, [Next]_vars PROVE TypeInv'
    OBVIOUS
<1> USE DEF TypeInv
<1>1. CASE UNCHANGED vars
    BY <1>1 DEF vars, server, locals, TypeOK, FullHasBody
<1>2. ASSUME NEW k \in Keys, NEW b \in Bodies, Change(k, b) PROVE TypeInv'
    BY <1>2 DEF Change, locals, TypeOK, FullHasBody
<1>3. ASSUME NEW t \in Calls, Begin(t) PROVE TypeInv'
  <2>1. EtagFor(cache, key[t]) \in ETags \cup {NoTag}
      BY DEF TypeOK, CacheType, Entry, NoEntry, EtagFor
  <2>2. TypeOK'
      BY <1>3, <2>1 DEF Begin, MayBegin, server, TypeOK
  <2> QED
      BY <1>3, <2>2 DEF Begin, MayBegin, server, FullHasBody
<1>4. ASSUME NEW t \in Calls, Server(t) PROVE TypeInv'
  <2>1. content[key[t]] \in Bodies
        /\ \A b \in Bodies : Validators(b) \subseteq ETags \cup {NoTag}
      BY DEF TypeOK, Validators
  <2>2. CASE AnswerFull(t)
      BY <2>1, <2>2, RespondTyped DEF AnswerFull, Response, Statuses
  <2>3. CASE AnswerNotModified(t)
      BY <2>1, <2>3, RespondTyped DEF AnswerNotModified, Response, Statuses
  <2>4. CASE AnswerFailure(t)
      BY <2>4, RespondTyped DEF AnswerFailure, Response, Statuses
  <2> QED
      BY <1>4, <2>2, <2>3, <2>4 DEF Server
<1>5. ASSUME NEW t \in Calls, Lose(t) PROVE TypeInv'
    BY <1>5, FinishTyped DEF Lose, TypeOK, Ways, Statuses
<1>6. ASSUME NEW t \in Calls, Retry(t) PROVE TypeInv'
  <2>1. TypeOK'
      BY <1>6 DEF Retry, ShouldRetry, server, TypeOK, NoResponse, Response,
                  Statuses
  <2> QED
      BY <1>6, <2>1 DEF Retry, server, TypeOK, FullHasBody, NoResponse
<1>7. ASSUME NEW t \in Calls, ReplayHit(t) PROVE TypeInv'
  <2>1. /\ cache' \in CacheType
        /\ CacheSound(cache')
      BY <1>7, HitSound DEF ReplayHit, TypeOK, Response
  <2>2. cache.entry[key[t]].body \in Bodies \cup {NoBody}
      BY DEF TypeOK, CacheType, Entry, NoEntry
  <2> QED
      BY <1>7, <2>1, <2>2, FinishTyped DEF ReplayHit, Ways, Statuses
<1>8. ASSUME NEW t \in Calls, Reask(t) PROVE TypeInv'
  <2>1. TypeOK'
      BY <1>8 DEF Reask, AskAgain, server, TypeOK, NoResponse, Response,
                  Statuses
  <2> QED
      BY <1>8, <2>1 DEF Reask, AskAgain, TypeOK, FullHasBody, NoResponse
<1>9. ASSUME NEW t \in Calls, CountMiss(t) PROVE TypeInv'
  <2>1. cache' \in CacheType /\ CacheSound(cache')
      BY <1>9, RecordMissSound DEF CountMiss, TypeOK
  <2> QED
      BY <1>9, <2>1 DEF CountMiss, server, locals, TypeOK, FullHasBody
<1>10. ASSUME NEW t \in Calls PROVE Payload(resp[t]) \in Bodies \cup {NoBody}
                                    /\ resp[t].status \in Statuses
    BY <1>10 DEF Payload, TypeOK, Response
<1>11. ASSUME NEW t \in Calls, KeepOrDiscard(t) PROVE TypeInv'
  <2>1. cache' \in CacheType /\ CacheSound(cache')
      BY <1>11, KeptSound DEF KeepOrDiscard, TypeOK, FullHasBody
  <2> QED
      BY <1>10, <1>11, <2>1, FinishTyped DEF KeepOrDiscard, Ways
<1>12. ASSUME NEW t \in Calls, Miss(t) PROVE TypeInv'
  <2>1. RecordMiss(cache) \in CacheType /\ CacheSound(RecordMiss(cache))
      BY RecordMissSound DEF TypeOK
  <2>2. cache' \in CacheType /\ CacheSound(cache')
      BY <1>12, <2>1, KeptSound DEF Miss, TypeOK, FullHasBody
  <2> QED
      BY <1>10, <1>12, <2>2, FinishTyped DEF Miss, Ways
<1>13. ASSUME NEW t \in Calls, ReturnPlain(t) PROVE TypeInv'
    BY <1>10, <1>13, FinishTyped DEF ReturnPlain, TypeOK, Ways
<1> QED
    BY <1>1, <1>2, <1>3, <1>4, <1>5, <1>6, <1>7, <1>8, <1>9, <1>11, <1>12,
       <1>13 DEF Next, Client

LEMMA TypeInvariant == Spec => []TypeInv
BY TypeInit, TypeStep, PTL DEF Spec

\* The variables keep their types: in particular a call never retries more
\* than max_retries times and never caches anything but an (ETag, body) pair.
THEOREM TypeCorrect == Spec => []TypeOK
<1>1. TypeInv => TypeOK
    BY DEF TypeInv
<1> QED
    BY <1>1, TypeInvariant, PTL

\* CacheStaysSound, for any number of threads or tasks.
THEOREM CacheCorrect == Spec => []CacheStaysSound
<1>1. TypeInv => CacheStaysSound
    BY DEF TypeInv, CacheStaysSound
<1> QED
    BY <1>1, TypeInvariant, PTL

----------------------------------------------------------------------------
(* What the cache holds after a step, key by key.                          *)

LEMMA KeptEntries ==
    ASSUME NEW c \in CacheType, CacheSound(c), NEW k \in Keys,
           NEW r \in Response, r.status = "ok" => r.body \in Bodies,
           NEW x \in Held(Kept(c, k, r))
    PROVE  \/ x \in Held(c) /\ Kept(c, k, r).entry[x] = c.entry[x] /\ x # k
           \/ /\ x = k
              /\ r.status = "ok"
              /\ r.etag \in ETags
              /\ Kept(c, k, r).entry[x] = [etag |-> r.etag, body |-> r.body]
<1>1. CASE r.status = "ok" /\ r.etag # NoTag
  <2>1. r.etag \in ETags /\ r.body \in Bodies
      BY <1>1 DEF Response
  <2>2. Kept(c, k, r) = Store(c, k, r.etag, r.body)
      BY <1>1 DEF Kept
  <2> QED
      BY <1>1, <2>1, <2>2, StoreSound DEF Held
<1>2. CASE ~ (r.status = "ok" /\ r.etag # NoTag)
  <2>1. Kept(c, k, r).entry = [c.entry EXCEPT ![k] = NoEntry]
      BY <1>2, DiscardSound DEF Kept
  <2> QED
      BY <2>1 DEF Held, CacheType
<1> QED
    BY <1>1, <1>2

\* The entry a replayed 304 leaves, and those it leaves alone.
LEMMA HitEntries ==
    ASSUME TypeInv, NEW t \in Calls, ReplayHit(t), NEW x \in Held(cache')
    PROVE  /\ x \in Held(cache)
           /\ cache'.entry[x].body = cache.entry[x].body
           /\ x # key[t] => cache'.entry[x] = cache.entry[x]
           /\ x = key[t] => cache'.entry[x].etag =
                IF resp[t].etag # NoTag THEN resp[t].etag
                ELSE cache.entry[x].etag
<1>1. /\ cache \in CacheType
      /\ CacheSound(cache)
      /\ key[t] \in Held(cache)
      /\ resp[t].etag \in ETags \cup {NoTag}
      /\ cache' = Hit(cache, key[t], resp[t].etag)
  <2>1. cache \in CacheType /\ CacheSound(cache)
      BY DEF TypeInv, TypeOK
  <2>2. resp[t].etag \in ETags \cup {NoTag}
      BY DEF TypeInv, TypeOK, Response
  <2> QED
      BY <2>1, <2>2 DEF ReplayHit
<1> QED
    BY <1>1, HitEntry

\* What keeping the response of call t in cache c leaves behind.
KeepsOf(t, c) ==
    \A x \in Held(cache') :
        \/ x \in Held(c) /\ cache'.entry[x] = c.entry[x] /\ x # key[t]
        \/ /\ x = key[t]
           /\ resp[t].status = "ok"
           /\ resp[t].etag \in ETags
           /\ cache'.entry[x] = [etag |-> resp[t].etag, body |-> resp[t].body]

LEMMA MissEntries ==
    ASSUME TypeInv, NEW t \in Calls, KeepOrDiscard(t) \/ Miss(t)
    PROVE  KeepsOf(t, cache)
<1>1. /\ cache \in CacheType
      /\ CacheSound(cache)
      /\ key[t] \in Keys
      /\ resp[t] \in Response
      /\ resp[t].status = "ok" => resp[t].body \in Bodies
    BY DEF TypeInv, TypeOK, FullHasBody
<1>2. CASE KeepOrDiscard(t)
    BY <1>1, <1>2, KeptEntries DEF KeepOrDiscard, KeepsOf
<1>3. CASE Miss(t)
  <2> DEFINE c == RecordMiss(cache)
  <2>1. c \in CacheType /\ CacheSound(c) /\ c.entry = cache.entry
      BY <1>1, RecordMissSound
  <2>2. Held(c) = Held(cache)
      BY <2>1 DEF Held
  <2>3. cache' = Kept(c, key[t], resp[t])
      BY <1>3 DEF Miss
  <2> HIDE DEF c
  <2>4. KeepsOf(t, c)
      BY <1>1, <2>1, <2>3, KeptEntries DEF KeepsOf
  <2> QED
      BY <2>1, <2>2, <2>4 DEF KeepsOf
<1> QED
    BY <1>2, <1>3

LEMMA CountEntries ==
    ASSUME TypeInv, NEW t \in Calls, CountMiss(t)
    PROVE  cache'.entry = cache.entry /\ Held(cache') = Held(cache)
<1>1. cache'.entry = cache.entry
    BY RecordMissSound DEF TypeInv, TypeOK, CountMiss
<1> QED
    BY <1>1 DEF Held

----------------------------------------------------------------------------
(* The request's header, its key, and how often it is sent.                *)

HeaderIsTracked ==
    \A t \in Calls : inm[t] # NoTag => tracked[t] /\ InFlight(t)

Only304IfAsked ==
    \A t \in Calls :
        resp[t].status = "notModified" => inm[t] # NoTag /\ pc[t] = "answered"

SendsCounted ==
    \A t \in Calls :
        InFlight(t) => sends[t] = attempt[t] + 1 + (IF Reasked(t) THEN 1 ELSE 0)

\* A call holds a response only while it handles it, and a result only once
\* it has ended.
HoldsNothingYet ==
    \A t \in Calls :
        /\ pc[t] \notin {"answered", "counted"} => resp[t].status = "none"
        /\ pc[t] # "done" => result[t].status = "none"

EndedSendsNothing == \A t \in Calls : ~InFlight(t) => sends[t] = 0

AskInv == /\ HeaderIsTracked
          /\ Only304IfAsked
          /\ NotModifiedIsInvisible
          /\ SendsCounted
          /\ HoldsNothingYet
          /\ EndedSendsNothing
          /\ \A t \in Calls : tracked[t] => CacheOn
          /\ \A t \in Calls : ~InFlight(t) => attempt[t] = 0

LEMMA AskInit == Init => AskInv
BY DEF Init, AskInv, HeaderIsTracked, Only304IfAsked, NotModifiedIsInvisible,
       SendsCounted, HoldsNothingYet, EndedSendsNothing, InFlight, NoResponse,
       NoResult, Reasked

LEMMA AskFinish ==
    ASSUME TypeInv, AskInv, NEW t \in Calls, NEW via, NEW s, NEW b,
           s # "notModified", Finish(t, via, s, b)
    PROVE  AskInv'
<1> USE DEF TypeInv, TypeOK, AskInv, Finish, server
<1>1. HeaderIsTracked'
    BY DEF HeaderIsTracked, InFlight
<1>2. Only304IfAsked'
    BY DEF Only304IfAsked, NoResponse
<1>3. NotModifiedIsInvisible'
    BY DEF NotModifiedIsInvisible
<1>4. SendsCounted'
    BY DEF SendsCounted, InFlight, Reasked
<1>5. EndedSendsNothing'
    BY DEF EndedSendsNothing, InFlight
<1>6. HoldsNothingYet'
    BY DEF HoldsNothingYet, NoResponse
<1> QED
    BY <1>1, <1>2, <1>3, <1>4, <1>5, <1>6 DEF InFlight

LEMMA AskStep == TypeInv /\ AskInv /\ [Next]_vars => AskInv'
<1> SUFFICES ASSUME TypeInv, AskInv, [Next]_vars PROVE AskInv'
    OBVIOUS
<1> USE DEF AskInv, HeaderIsTracked, Only304IfAsked, NotModifiedIsInvisible,
            SendsCounted, HoldsNothingYet, EndedSendsNothing, InFlight, Reasked,
            TypeInv, TypeOK
<1>1. CASE UNCHANGED vars
    BY <1>1 DEF vars, server, locals
<1>2. ASSUME NEW k \in Keys, NEW b \in Bodies, Change(k, b) PROVE AskInv'
    BY <1>2 DEF Change, locals
<1>3. ASSUME NEW t \in Calls, Begin(t) PROVE AskInv'
    BY <1>3 DEF Begin, MayBegin, server
<1>4. ASSUME NEW t \in Calls, Server(t) PROVE AskInv'
  <2>1. \E r : Respond(t, r) /\ (r.status = "notModified" => inm[t] # NoTag)
    <3>1. CASE AnswerFull(t)
        BY <3>1 DEF AnswerFull
    <3>2. CASE AnswerNotModified(t)
        BY <3>2 DEF AnswerNotModified
    <3>3. CASE AnswerFailure(t)
        BY <3>3 DEF AnswerFailure
    <3> QED
        BY <1>4, <3>1, <3>2, <3>3 DEF Server
  <2> QED
      BY <2>1 DEF Respond, server, locals
<1>5. ASSUME NEW t \in Calls, Retry(t) PROVE AskInv'
    BY <1>5 DEF Retry, server, NoResponse
<1>6. ASSUME NEW t \in Calls, Reask(t) PROVE AskInv'
    BY <1>6 DEF Reask, AskAgain, NotModified, Handling, server, NoResponse
<1>7. ASSUME NEW t \in Calls, CountMiss(t) PROVE AskInv'
    BY <1>7 DEF CountMiss, OtherResponse, Handling, server, locals
<1>8. ASSUME NEW t \in Calls,
             Lose(t) \/ ReplayHit(t) \/ KeepOrDiscard(t) \/ Miss(t)
               \/ ReturnPlain(t)
      PROVE  AskInv'
  <2>1. \E via, s, b : s # "notModified" /\ Finish(t, via, s, b)
    <3>1. CASE Lose(t)
        BY <3>1 DEF Lose
    <3>2. CASE ReplayHit(t)
        BY <3>2 DEF ReplayHit
    <3>3. CASE KeepOrDiscard(t)
        BY <3>3 DEF KeepOrDiscard
    <3>4. CASE Miss(t)
        BY <3>4 DEF Miss, OtherResponse
    <3>5. CASE ReturnPlain(t)
        BY <3>5 DEF ReturnPlain
    <3> QED
        BY <1>8, <3>1, <3>2, <3>3, <3>4, <3>5
  <2> QED
      BY <2>1, AskFinish
<1> QED
    BY <1>1, <1>2, <1>3, <1>4, <1>5, <1>6, <1>7, <1>8 DEF Next, Client

LEMMA AskInvariant == Spec => []AskInv
BY AskInit, AskStep, TypeInvariant, PTL DEF Spec

\* NotModifiedIsInvisible, for any cache_size and any evictions.
THEOREM Invisible == Spec => []NotModifiedIsInvisible
<1>1. AskInv => NotModifiedIsInvisible
    BY DEF AskInv
<1> QED
    BY <1>1, AskInvariant, PTL

\* SendsAreBounded, for any max_retries.
THEOREM Bounded == Spec => []SendsAreBounded
<1>1. TypeInv /\ AskInv => SendsAreBounded
  <2> SUFFICES ASSUME TypeInv, AskInv, NEW t \in Calls
               PROVE  sends[t] <= MaxRetries + 1
                                    + (IF Reasked(t) THEN 1 ELSE 0)
      BY DEF SendsAreBounded
  <2>1. CASE InFlight(t)
      BY <2>1 DEF AskInv, SendsCounted, TypeInv, TypeOK
  <2>2. CASE ~InFlight(t)
      BY <2>2 DEF AskInv, EndedSendsNothing
  <2> QED
      BY <2>1, <2>2
<1> QED
    BY <1>1, AskInvariant, TypeInvariant, PTL

----------------------------------------------------------------------------
(* Everything the client holds or returns was published by the resource.   *)

EntriesPublished ==
    \A k \in Held(cache) : cache.entry[k].body \in published[k]

RespPublished ==
    \A t \in Calls : resp[t].status = "ok" => resp[t].body \in published[key[t]]

PublishedInv == /\ \A k \in Keys : content[k] \in published[k]
                /\ EntriesPublished
                /\ RespPublished
                /\ ReturnsPublished

LEMMA PublishedInit == Init => PublishedInv
<1> SUFFICES ASSUME Init PROVE PublishedInv
    OBVIOUS
<1>1. \A k \in Keys : content[k] \in published[k]
    BY DEF Init
<1>2. EntriesPublished
    BY DEF Init, EntriesPublished, EmptyCache, Held
<1>3. RespPublished /\ ReturnsPublished
    BY DEF Init, RespPublished, ReturnsPublished, NoResponse, NoResult
<1> QED
    BY <1>1, <1>2, <1>3 DEF PublishedInv

\* A call that ends well with a published body, over published entries.
LEMMA PublishedFinish ==
    ASSUME TypeInv, PublishedInv, NEW t \in Calls, NEW via, NEW s, NEW b,
           Finish(t, via, s, b), s = "ok" => b \in published[key[t]],
           EntriesPublished'
    PROVE  PublishedInv'
<1> USE DEF TypeInv, TypeOK, PublishedInv, Finish, server
<1>1. RespPublished'
    BY DEF RespPublished, NoResponse
<1>2. ReturnsPublished'
    BY DEF ReturnsPublished
<1> QED
    BY <1>1, <1>2

LEMMA PublishedStep == TypeInv /\ PublishedInv /\ [Next]_vars => PublishedInv'
<1> SUFFICES ASSUME TypeInv, PublishedInv, [Next]_vars PROVE PublishedInv'
    OBVIOUS
<1> USE DEF PublishedInv, EntriesPublished, RespPublished, ReturnsPublished,
            TypeInv, TypeOK
<1>1. CASE UNCHANGED vars
    BY <1>1 DEF vars, server, locals, Held
<1>2. ASSUME NEW k \in Keys, NEW b \in Bodies, Change(k, b)
      PROVE  PublishedInv'
  <2>1. \A x \in Keys : published[x] \subseteq published'[x]
                        /\ content'[x] \in published'[x]
      BY <1>2 DEF Change
  <2>2. UNCHANGED <<cache, key, resp, result>>
      BY <1>2 DEF Change, locals
  <2> QED
      BY <2>1, <2>2 DEF Held
<1>3. ASSUME NEW t \in Calls, Begin(t) PROVE PublishedInv'
    BY <1>3 DEF Begin, MayBegin, server, Held
<1>4. ASSUME NEW t \in Calls, Server(t) PROVE PublishedInv'
  <2>1. \E r : Respond(t, r) /\ (r.status = "ok" => r.body = content[key[t]])
    <3>1. CASE AnswerFull(t)
        BY <3>1 DEF AnswerFull
    <3>2. CASE AnswerNotModified(t)
        BY <3>2 DEF AnswerNotModified
    <3>3. CASE AnswerFailure(t)
        BY <3>3 DEF AnswerFailure
    <3> QED
        BY <1>4, <3>1, <3>2, <3>3 DEF Server
  <2> QED
      BY <2>1 DEF Respond, server, locals, Held
<1>5. ASSUME NEW t \in Calls, Retry(t) PROVE PublishedInv'
    BY <1>5 DEF Retry, server, NoResponse, Held
<1>6. ASSUME NEW t \in Calls, Reask(t) PROVE PublishedInv'
    BY <1>6 DEF Reask, AskAgain, server, NoResponse, Held
<1>7. ASSUME NEW t \in Calls, CountMiss(t) PROVE PublishedInv'
  <2>1. cache'.entry = cache.entry /\ Held(cache') = Held(cache)
      BY <1>7, CountEntries
  <2> QED
      BY <1>7, <2>1 DEF CountMiss, server, locals
<1>8. ASSUME NEW t \in Calls, Lose(t) \/ ReturnPlain(t) PROVE PublishedInv'
  <2>1. EntriesPublished'
      BY <1>8 DEF Lose, ReturnPlain, Finish, server, Held
  <2>2. CASE Lose(t)
      BY <2>1, <2>2, PublishedFinish DEF Lose
  <2>3. CASE ReturnPlain(t)
    <3>1. resp[t].status = "ok" => Payload(resp[t]) \in published[key[t]]
        BY DEF Payload
    <3> QED
        BY <2>1, <2>3, <3>1, PublishedFinish DEF ReturnPlain
  <2> QED
      BY <1>8, <2>2, <2>3
<1>9. ASSUME NEW t \in Calls, ReplayHit(t) PROVE PublishedInv'
  <2>1. UNCHANGED published
      BY <1>9 DEF ReplayHit, Finish, server
  <2>2. EntriesPublished'
      BY <1>9, <2>1, HitEntries
  <2>3. cache.entry[key[t]].body \in published[key[t]]
      BY <1>9 DEF ReplayHit
  <2> QED
      BY <1>9, <2>2, <2>3, PublishedFinish DEF ReplayHit
<1>10. ASSUME NEW t \in Calls, KeepOrDiscard(t) \/ Miss(t) PROVE PublishedInv'
  <2>1. KeepsOf(t, cache)
      BY <1>10, MissEntries
  <2>2. UNCHANGED published
        /\ Finish(t, "miss", resp[t].status, Payload(resp[t]))
      BY <1>10 DEF KeepOrDiscard, Miss, Finish, server
  <2>3. EntriesPublished'
      BY <2>1, <2>2 DEF KeepsOf
  <2>4. resp[t].status = "ok" => Payload(resp[t]) \in published[key[t]]
      BY DEF Payload
  <2> QED
      BY <2>2, <2>3, <2>4, PublishedFinish
<1> QED
    BY <1>1, <1>2, <1>3, <1>4, <1>5, <1>6, <1>7, <1>8, <1>9, <1>10
    DEF Next, Client

\* ReturnsPublished, however many reads overlap.
THEOREM Published == Spec => []ReturnsPublished
<1>1. PublishedInv => ReturnsPublished
    BY DEF PublishedInv
<1> QED
    BY <1>1, PublishedInit, PublishedStep, TypeInvariant, PTL DEF Spec

----------------------------------------------------------------------------
(* Freshness, for the keys two reads of which are never overlapped.        *)

OneReadPerKey ==
    \A t, u \in Calls :
        /\ InFlight(t) /\ InFlight(u)
        /\ key[t] = key[u] /\ key[t] \in Apart
        => t = u

\* While a call runs, the entry of its key is the one it asked about.
AsksAboutTheEntry ==
    \A t \in Calls :
        /\ InFlight(t) /\ tracked[t]
        /\ key[t] \in Held(cache) \cap Apart
        => inm[t] = cache.entry[key[t]].etag

\* The content of the resource is among what a running call has seen.
SeesContent == \A t \in Calls : InFlight(t) => content[key[t]] \in seen[t]

\* A response speaks of content the call has seen: by its body, or, if it is
\* a 304, by the ETag it answers to and the one it restates.
SpeaksOf(t, b) ==
    b \in seen[t] /\ (resp[t].etag # NoTag => Names[resp[t].etag] = b)

RespFaithful ==
    \A t \in Calls :
        /\ resp[t].status = "ok" => SpeaksOf(t, resp[t].body)
        /\ resp[t].status = "notModified" => SpeaksOf(t, Names[inm[t]])

FreshInv == /\ OneReadPerKey
            /\ AsksAboutTheEntry
            /\ SeesContent
            /\ RespFaithful
            /\ EntriesAreCoherent
            /\ ReadsAreFresh

LEMMA FreshInit == Init => FreshInv
<1> SUFFICES ASSUME Init PROVE FreshInv
    OBVIOUS
<1>1. \A t \in Calls : ~InFlight(t)
    BY DEF Init, InFlight
<1>2. RespFaithful /\ ReadsAreFresh
    BY DEF Init, RespFaithful, ReadsAreFresh, NoResponse, NoResult
<1>3. EntriesAreCoherent
    BY DEF Init, EntriesAreCoherent, EmptyCache, Held
<1> QED
    BY <1>1, <1>2, <1>3
    DEF FreshInv, OneReadPerKey, AsksAboutTheEntry, SeesContent

\* The entries after a step of call t, which ends: every other running call
\* still asks about the entry of its key.
LEMMA FreshFinish ==
    ASSUME TypeInv, AskInv, FreshInv,
           NEW t \in Calls, NEW via, NEW s, NEW b, Finish(t, via, s, b),
           Promised(t) /\ s = "ok" => b \in seen[t],
           \A x \in Held(cache') : x # key[t] =>
               x \in Held(cache) /\ cache'.entry[x] = cache.entry[x],
           key[t] \in Held(cache') \cap Apart =>
               Names[cache'.entry[key[t]].etag] = cache'.entry[key[t]].body,
           InFlight(t)
    PROVE  FreshInv'
<1> USE DEF TypeInv, TypeOK, Finish, server
<1>1. \A u \in Calls : InFlight(u)' => InFlight(u) /\ u # t
    BY DEF InFlight
<1>2. OneReadPerKey'
    BY <1>1 DEF FreshInv, OneReadPerKey
<1>3. AsksAboutTheEntry'
  <2> SUFFICES ASSUME NEW u \in Calls, InFlight(u)', tracked'[u],
                      key[u] \in Held(cache') \cap Apart
               PROVE  inm'[u] = cache'.entry[key[u]].etag
      BY DEF AsksAboutTheEntry
  <2>1. InFlight(u) /\ u # t
      BY <1>1
  <2>2. key[u] # key[t]
      BY <2>1 DEF FreshInv, OneReadPerKey
  <2>3. inm'[u] = inm[u] /\ tracked'[u] = tracked[u]
      BY <2>1
  <2> QED
      BY <2>1, <2>2, <2>3 DEF FreshInv, AsksAboutTheEntry
<1>4. SeesContent'
    BY <1>1 DEF FreshInv, SeesContent
<1>5. RespFaithful'
    BY DEF FreshInv, RespFaithful, SpeaksOf, NoResponse
<1>6. EntriesAreCoherent'
    BY DEF FreshInv, EntriesAreCoherent
<1>7. ReadsAreFresh'
    BY DEF FreshInv, ReadsAreFresh, Promised
<1> QED
    BY <1>2, <1>3, <1>4, <1>5, <1>6, <1>7 DEF FreshInv

LEMMA FreshStep ==
    TypeInv /\ AskInv /\ FreshInv /\ [Next]_vars => FreshInv'
<1> SUFFICES ASSUME TypeInv, AskInv, FreshInv, [Next]_vars PROVE FreshInv'
    OBVIOUS
<1> USE DEF TypeInv, TypeOK
<1>1. CASE UNCHANGED vars
    BY <1>1 DEF vars, server, locals, FreshInv, OneReadPerKey,
                AsksAboutTheEntry, SeesContent, RespFaithful, SpeaksOf, Promised,
                EntriesAreCoherent, ReadsAreFresh, InFlight, Held
<1>2. ASSUME NEW k \in Keys, NEW b \in Bodies, Change(k, b) PROVE FreshInv'
  <2>1. /\ UNCHANGED <<cache, pc, key, tracked, inm, resp, result>>
        /\ \A t \in Calls : /\ seen[t] \subseteq seen'[t]
                            /\ InFlight(t) => content'[key[t]] \in seen'[t]
      BY <1>2 DEF Change, locals, FreshInv, SeesContent
  <2> QED
      BY <2>1 DEF FreshInv, OneReadPerKey, AsksAboutTheEntry, SeesContent,
                  RespFaithful, SpeaksOf, Promised, EntriesAreCoherent,
                  ReadsAreFresh, InFlight, Held
<1>3. ASSUME NEW t \in Calls, Begin(t) PROVE FreshInv'
  <2>1. /\ UNCHANGED <<content, cache, key, resp, result>>
        /\ ~InFlight(t)
        /\ \A u \in Calls : InFlight(u)' <=> InFlight(u) \/ u = t
        /\ \A u \in Calls \ {t} : /\ seen'[u] = seen[u]
                                  /\ inm'[u] = inm[u]
                                  /\ tracked'[u] = tracked[u]
        /\ seen'[t] = {content[key[t]]}
      BY <1>3 DEF Begin, MayBegin, server, InFlight
  <2>2. OneReadPerKey'
      BY <1>3, <2>1 DEF Begin, MayBegin, FreshInv, OneReadPerKey
  <2>3. AsksAboutTheEntry'
    <3>1. tracked'[t] => inm'[t] = cache.entry[key[t]].etag
        BY <1>3 DEF Begin, MayBegin, EtagFor
    <3> QED
        BY <2>1, <3>1 DEF FreshInv, AsksAboutTheEntry, Held
  <2>4. SeesContent'
      BY <2>1 DEF FreshInv, SeesContent
  <2>5. resp[t].status = "none" /\ result[t].status = "none"
      BY <1>3 DEF Begin, MayBegin, AskInv, HoldsNothingYet
  <2>6. RespFaithful'
      BY <2>1, <2>5 DEF FreshInv, RespFaithful, SpeaksOf
  <2>7. ReadsAreFresh'
      BY <2>1, <2>5 DEF FreshInv, ReadsAreFresh, Promised
  <2> QED
      BY <2>1, <2>2, <2>3, <2>4, <2>6, <2>7
      DEF FreshInv, EntriesAreCoherent, Held
<1>4. ASSUME NEW t \in Calls, Server(t) PROVE FreshInv'
  <2>1. \E r : /\ Respond(t, r)
               /\ r.etag # NoTag => Names[r.etag] = content[key[t]]
               /\ r.status = "ok" => r.body = content[key[t]]
               /\ r.status = "notModified" => Names[inm[t]] = content[key[t]]
    <3>1. CASE AnswerFull(t)
        BY <3>1 DEF AnswerFull, Validators
    <3>2. CASE AnswerNotModified(t)
        BY <3>2 DEF AnswerNotModified, Validators
    <3>3. CASE AnswerFailure(t)
        BY <3>3 DEF AnswerFailure
    <3> QED
        BY <1>4, <3>1, <3>2, <3>3 DEF Server
  <2>2. /\ UNCHANGED <<content, cache, key, inm, tracked, seen, result>>
        /\ InFlight(t)
        /\ \A u \in Calls : InFlight(u)' <=> InFlight(u)
        /\ \A u \in Calls \ {t} : resp'[u] = resp[u]
      BY <2>1 DEF Respond, server, locals, InFlight
  <2>3. RespFaithful'
      BY <2>1, <2>2 DEF Respond, FreshInv, RespFaithful, SpeaksOf, SeesContent
  <2> QED
      BY <2>2, <2>3 DEF FreshInv, OneReadPerKey, AsksAboutTheEntry, SeesContent,
                        Promised, EntriesAreCoherent, ReadsAreFresh, Held
<1>5. ASSUME NEW t \in Calls, Retry(t) PROVE FreshInv'
    BY <1>5 DEF Retry, server, NoResponse, FreshInv, OneReadPerKey,
                AsksAboutTheEntry, SeesContent, RespFaithful, SpeaksOf, Promised,
                EntriesAreCoherent, ReadsAreFresh, InFlight, Held
<1>6. ASSUME NEW t \in Calls, Reask(t) PROVE FreshInv'
    BY <1>6 DEF Reask, AskAgain, NotModified, Handling, server, NoResponse,
                FreshInv, OneReadPerKey, AsksAboutTheEntry, SeesContent,
                RespFaithful, SpeaksOf, Promised, EntriesAreCoherent,
                ReadsAreFresh, InFlight, Held
<1>7. ASSUME NEW t \in Calls, CountMiss(t) PROVE FreshInv'
  <2>1. cache'.entry = cache.entry /\ Held(cache') = Held(cache)
      BY <1>7, CountEntries
  <2> QED
      BY <1>7, <2>1 DEF CountMiss, OtherResponse, Handling, server, locals,
         FreshInv, OneReadPerKey, AsksAboutTheEntry, SeesContent, RespFaithful,
         SpeaksOf, Promised, EntriesAreCoherent, ReadsAreFresh, InFlight
<1>8. ASSUME NEW t \in Calls, Lose(t) \/ ReturnPlain(t) PROVE FreshInv'
  <2>1. UNCHANGED cache /\ InFlight(t)
      BY <1>8 DEF Lose, ReturnPlain, Handling, InFlight
  <2>2. \A x \in Held(cache') : x \in Held(cache)
                                /\ cache'.entry[x] = cache.entry[x]
      BY <2>1 DEF Held
  <2>3. key[t] \in Held(cache') \cap Apart =>
            Names[cache'.entry[key[t]].etag] = cache'.entry[key[t]].body
      BY <2>2 DEF FreshInv, EntriesAreCoherent
  <2>4. CASE Lose(t)
      BY <2>1, <2>2, <2>3, <2>4, FreshFinish DEF Lose
  <2>5. CASE ReturnPlain(t)
    <3>1. resp[t].status = "ok" => Payload(resp[t]) \in seen[t]
        BY DEF Payload, FreshInv, RespFaithful, SpeaksOf
    <3> QED
        BY <2>1, <2>2, <2>3, <2>5, <3>1, FreshFinish DEF ReturnPlain
  <2> QED
      BY <1>8, <2>4, <2>5
<1>9. ASSUME NEW t \in Calls, ReplayHit(t) PROVE FreshInv'
  <2>1. /\ InFlight(t)
        /\ tracked[t]
        /\ CacheOn
        /\ resp[t].status = "notModified"
        /\ key[t] \in Held(cache)
      BY <1>9 DEF ReplayHit, NotModified, Handling, InFlight, AskInv
  <2>2. key[t] \in Apart => inm[t] = cache.entry[key[t]].etag
      BY <2>1 DEF FreshInv, AsksAboutTheEntry
  <2>3. key[t] \in Apart => Names[inm[t]] = cache.entry[key[t]].body
      BY <2>1, <2>2 DEF FreshInv, EntriesAreCoherent
  <2>4. SpeaksOf(t, Names[inm[t]])
      BY <2>1 DEF FreshInv, RespFaithful
  <2>5. Promised(t) => cache.entry[key[t]].body \in seen[t]
      BY <2>1, <2>3, <2>4 DEF SpeaksOf, Promised
  <2>6. key[t] \in Held(cache') \cap Apart =>
            Names[cache'.entry[key[t]].etag] = cache'.entry[key[t]].body
      BY <1>9, <2>2, <2>3, <2>4, HitEntries DEF SpeaksOf
  <2>7. \A x \in Held(cache') : x # key[t] =>
            x \in Held(cache) /\ cache'.entry[x] = cache.entry[x]
      BY <1>9, HitEntries
  <2> QED
      BY <1>9, <2>1, <2>5, <2>6, <2>7, FreshFinish DEF ReplayHit
<1>10. ASSUME NEW t \in Calls, KeepOrDiscard(t) \/ Miss(t) PROVE FreshInv'
  <2>1. KeepsOf(t, cache)
      BY <1>10, MissEntries
  <2>2. Finish(t, "miss", resp[t].status, Payload(resp[t])) /\ InFlight(t)
      BY <1>10 DEF KeepOrDiscard, Miss, OtherResponse, Handling, InFlight
  <2>3. resp[t].status = "ok" => Payload(resp[t]) \in seen[t]
      BY DEF Payload, FreshInv, RespFaithful, SpeaksOf
  <2>4. key[t] \in Held(cache') =>
            Names[cache'.entry[key[t]].etag] = cache'.entry[key[t]].body
      BY <2>1 DEF KeepsOf, FreshInv, RespFaithful, SpeaksOf
  <2>5. \A x \in Held(cache') : x # key[t] =>
            x \in Held(cache) /\ cache'.entry[x] = cache.entry[x]
      BY <2>1 DEF KeepsOf
  <2> QED
      BY <2>2, <2>3, <2>4, <2>5, FreshFinish
<1> QED
    BY <1>1, <1>2, <1>3, <1>4, <1>5, <1>6, <1>7, <1>8, <1>9, <1>10
    DEF Next, Client

LEMMA FreshInvariant == Spec => []FreshInv
BY FreshInit, FreshStep, TypeInvariant, AskInvariant, PTL DEF Spec

\* ReadsAreFresh: no read of a key whose reads are kept apart, and no read of a
\* client without a cache, returns what its resource did not contain meanwhile,
\* whatever the reads of other keys do to the cache they share.
THEOREM Fresh == Spec => []ReadsAreFresh
<1>1. FreshInv => ReadsAreFresh
    BY DEF FreshInv
<1> QED
    BY <1>1, FreshInvariant, PTL

\* EntriesAreCoherent: the entry of a key whose reads are kept apart holds the
\* body its ETag names.
THEOREM Coherent == Spec => []EntriesAreCoherent
<1>1. FreshInv => EntriesAreCoherent
    BY DEF FreshInv
<1> QED
    BY <1>1, FreshInvariant, PTL

----------------------------------------------------------------------------
(* The client is the register of FreshReads.                               *)

\* A call as its caller sees it, if its freshness is promised.
Phase == [t \in Calls |-> IF ~Promised(t) \/ pc[t] = "idle" THEN "idle"
                          ELSE IF pc[t] = "done" THEN "done" ELSE "reading"]
Seen == [t \in Calls |-> IF Promised(t) THEN seen[t] ELSE {}]
Answer == [t \in Calls |-> IF Promised(t) THEN result[t].body ELSE NoBody]

LEMMA PromiseInit == Init => Promise!Init
BY DEF Init, Promise!Init, NoResult

LEMMA PromiseStep ==
    ASSUME TypeInv, AskInv, FreshInv, [Next]_vars
    PROVE  [Promise!Next]_Promise!vars
<1> USE DEF TypeInv, TypeOK
<1>1. CASE UNCHANGED vars
    BY <1>1 DEF vars, server, locals, Promised, Promise!vars
<1>2. ASSUME NEW k \in Keys, NEW b \in Bodies, Change(k, b)
      PROVE  Promise!Change(k, b)
  <2>1. /\ content' = [content EXCEPT ![k] = b]
        /\ UNCHANGED <<pc, key, result>>
        /\ seen' = [t \in Calls |-> IF InFlight(t) /\ key[t] = k
                                    THEN seen[t] \cup {b} ELSE seen[t]]
      BY <1>2 DEF Change, locals
  <2>2. \A t \in Calls : /\ Promised(t)' = Promised(t)
                         /\ Phase[t] = "reading" <=> Promised(t) /\ InFlight(t)
      BY <2>1 DEF Promised, InFlight, Phase
  <2>3. Phase' = Phase /\ Answer' = Answer
      BY <2>1, <2>2 DEF Phase, Answer
  <2>4. Seen' = [t \in Calls |-> IF Phase[t] = "reading" /\ key[t] = k
                                THEN Seen[t] \cup {b} ELSE Seen[t]]
      BY <2>1, <2>2 DEF Seen
  <2> QED
      BY <2>1, <2>3, <2>4 DEF Promise!Change, Phase, Seen, Answer
<1>3. ASSUME NEW t \in Calls, Begin(t)
      PROVE  Promise!Begin(t) \/ UNCHANGED Promise!vars
  <2>1. /\ UNCHANGED <<content, key, result>>
        /\ pc[t] = "idle" /\ pc' = [pc EXCEPT ![t] = "sent"]
        /\ seen' = [seen EXCEPT ![t] = {content[key[t]]}]
      BY <1>3 DEF Begin, MayBegin, server
  <2>2. \A u \in Calls : Promised(u)' = Promised(u)
      BY <2>1 DEF Promised
  <2>3. Answer' = Answer
      BY <2>1, <2>2 DEF Answer
  <2>4. CASE Promised(t)
    <3>1. /\ Phase[t] = "idle" /\ Phase' = [Phase EXCEPT ![t] = "reading"]
          /\ Seen' = [Seen EXCEPT ![t] = {content[key[t]]}]
        BY <2>1, <2>2, <2>4 DEF Phase, Seen
    <3> QED
        BY <2>1, <2>3, <3>1 DEF Promise!Begin, Phase, Seen, Answer
  <2>5. CASE ~Promised(t)
    <3>1. Phase' = Phase /\ Seen' = Seen
        BY <2>1, <2>2, <2>5 DEF Phase, Seen
    <3> QED
        BY <2>1, <2>3, <3>1 DEF Promise!vars, Phase, Seen, Answer
  <2> QED
      BY <2>4, <2>5
<1>4. ASSUME NEW t \in Calls,
             Server(t) \/ Retry(t) \/ Reask(t) \/ CountMiss(t)
      PROVE  UNCHANGED Promise!vars
  <2>1. /\ UNCHANGED <<content, key, result, seen>>
        /\ InFlight(t) /\ InFlight(t)'
        /\ \A u \in Calls \ {t} : pc'[u] = pc[u]
        /\ DOMAIN pc' = Calls
      BY <1>4 DEF Server, AnswerFull, AnswerNotModified, AnswerFailure, Respond,
         Retry, Reask, AskAgain, NotModified, OtherResponse, Handling,
         CountMiss, server, locals, InFlight
  <2>2. Phase' = Phase /\ Seen' = Seen /\ Answer' = Answer
      BY <2>1 DEF Phase, Seen, Answer, Promised, InFlight
  <2> QED
      BY <2>1, <2>2 DEF Promise!vars, Phase, Seen, Answer
<1>5. ASSUME NEW t \in Calls,
             Lose(t) \/ ReplayHit(t) \/ KeepOrDiscard(t) \/ Miss(t)
               \/ ReturnPlain(t)
      PROVE  Promise!Return(t) \/ UNCHANGED Promise!vars
  <2>1. InFlight(t)
      BY <1>5 DEF Lose, ReplayHit, KeepOrDiscard, Miss, ReturnPlain,
         NotModified, OtherResponse, Handling, InFlight
  <2>2. /\ UNCHANGED <<content, key, seen>>
        /\ pc' = [pc EXCEPT ![t] = "done"]
        /\ \E via, s, b : /\ result' = [result EXCEPT ![t] =
                               [via |-> via, status |-> s, body |-> b]]
                          /\ s # "ok" => b = NoBody
    <3>1. PICK via, s, b : Finish(t, via, s, b) /\ (s # "ok" => b = NoBody)
      <4>1. CASE Lose(t)
          BY <4>1 DEF Lose
      <4>2. CASE ReplayHit(t)
          BY <4>2 DEF ReplayHit
      <4>3. CASE KeepOrDiscard(t)
          BY <4>3 DEF KeepOrDiscard, Payload
      <4>4. CASE Miss(t)
          BY <4>4 DEF Miss, Payload
      <4>5. CASE ReturnPlain(t)
          BY <4>5 DEF ReturnPlain, Payload
      <4> QED
          BY <1>5, <4>1, <4>2, <4>3, <4>4, <4>5
    <3> QED
        BY <3>1 DEF Finish, server
  <2>3. \A u \in Calls : Promised(u)' = Promised(u)
      BY <2>2 DEF Promised
  <2>4. Promised(t) /\ result'[t].status = "ok" => result'[t].body \in seen[t]
    <3>1. ReadsAreFresh'
        BY FreshStep DEF FreshInv
    <3> QED
        BY <2>2, <2>3, <3>1 DEF ReadsAreFresh
  <2>5. Seen' = Seen
      BY <2>2, <2>3 DEF Seen
  <2>6. CASE Promised(t)
    <3>1. result'[t].body \in Seen[t] \cup {NoBody}
        BY <2>2, <2>4, <2>6 DEF Seen
    <3>2. Answer' = [Answer EXCEPT ![t] = result'[t].body]
        BY <2>2, <2>3, <2>6 DEF Answer
    <3>3. Phase[t] = "reading" /\ Phase' = [Phase EXCEPT ![t] = "done"]
        BY <2>1, <2>2, <2>3, <2>6 DEF Phase, InFlight
    <3> QED
        BY <2>2, <2>5, <3>1, <3>2, <3>3 DEF Promise!Return, Phase, Seen, Answer
  <2>7. CASE ~Promised(t)
    <3>1. Phase' = Phase /\ Answer' = Answer
        BY <2>2, <2>3, <2>7 DEF Phase, Answer
    <3> QED
        BY <2>2, <2>5, <3>1 DEF Promise!vars, Phase, Seen, Answer
  <2> QED
      BY <2>6, <2>7
<1> QED
    BY <1>1, <1>2, <1>3, <1>4, <1>5 DEF Next, Client, Promise!Next

\* To the callers of the reads whose freshness is promised the client is a
\* register: ConditionalGet implements FreshReads.
THEOREM Refinement == Spec => ReadsARegister
<1>1. TypeInv /\ AskInv /\ FreshInv /\ [Next]_vars
        => [Promise!Next]_Promise!vars
    BY PromiseStep
<1> QED
    BY <1>1, PromiseInit, TypeInvariant, AskInvariant, FreshInvariant, PTL
    DEF Spec, ReadsARegister, Promise!Spec

----------------------------------------------------------------------------
(* The counters, for a finite number of calls.                             *)

\* A sound cache has as many places as entries.
LEMMA PlacesAreEntries ==
    ASSUME NEW c \in CacheType, CacheSound(c)
    PROVE  IsFiniteSet(Held(c)) /\ Cardinality(Held(c)) = Len(c.order)
<1> DEFINE n == Len(c.order)
<1>1. /\ c.order \in Seq(Keys) /\ Distinct(c.order) /\ Range(c.order) = Held(c)
    BY SoundOrder
<1>2. n \in Nat /\ c.order \in [1..n -> Held(c)]
    BY <1>1 DEF Range
<1>3. c.order \in Bijection(1..n, Held(c))
    BY <1>1, <1>2 DEF Distinct, Range, Bijection, Injection, Surjection, IsInjective
<1>4. ExistsBijection(1..n, Held(c))
    BY <1>3 DEF ExistsBijection
<1> QED
    BY <1>2, <1>4, FS_CountingElements, FS_NatBijection

Counted == {t \in Calls : pc[t] = "counted"}

CountInv ==
    /\ \A t \in Calls : pc[t] # "done" => result[t].via = "none"
    /\ cache.hits = Cardinality(Ended("hit"))
    /\ cache.misses = Cardinality(Ended("miss")) + Cardinality(Counted)
    /\ Cardinality(Held(cache)) <= Cardinality(Ended("miss"))

\* Steps that neither count nor end a call.
LEMMA QuietCounts ==
    ASSUME CountInv, UNCHANGED <<cache, result>>, Counted' = Counted,
           \A t \in Calls : pc'[t] # "done" => pc[t] # "done"
    PROVE  CountInv'
<1>1. \A w : Ended(w)' = Ended(w)
    BY DEF Ended
<1> QED
    BY <1>1 DEF CountInv, Held

\* What the end of a call adds.
LEMMA EndedAfter ==
    ASSUME TypeInv, CountInv, NEW t \in Calls, NEW via, NEW s, NEW b,
           Finish(t, via, s, b), pc[t] # "done"
    PROVE  /\ \A w \in {"hit", "miss"} :
                /\ t \notin Ended(w)
                /\ w = via => Ended(w)' = Ended(w) \cup {t}
                /\ w # via => Ended(w)' = Ended(w)
           /\ Counted' = Counted \ {t}
           /\ \A u \in Calls : pc'[u] # "done" => result'[u].via = "none"
<1>1. result[t].via = "none"
    BY DEF CountInv
<1>2. /\ pc' = [pc EXCEPT ![t] = "done"]
      /\ result' = [result EXCEPT ![t] = [via |-> via, status |-> s, body |-> b]]
      /\ DOMAIN pc = Calls /\ DOMAIN result = Calls
    BY DEF Finish, TypeInv, TypeOK
<1>3. \A u \in Calls : /\ result'[u].via = IF u = t THEN via ELSE result[u].via
                       /\ pc'[u] = IF u = t THEN "done" ELSE pc[u]
    BY <1>2
<1>4. \A w : Ended(w)' = {u \in Calls : result'[u].via = w}
    BY DEF Ended
<1> QED
    BY <1>1, <1>3, <1>4 DEF Ended, Counted, CountInv

\* A body that is kept adds at most one entry and counts nothing by itself.
LEMMA KeptCounts ==
    ASSUME NEW c \in CacheType, CacheSound(c), IsFiniteSet(Held(c)), NEW k \in Keys,
           NEW r \in Response, r.status = "ok" => r.body \in Bodies
    PROVE  /\ Kept(c, k, r).hits = c.hits /\ Kept(c, k, r).misses = c.misses
           /\ Cardinality(Held(Kept(c, k, r))) <= Cardinality(Held(c)) + 1
<1>1. Held(Kept(c, k, r)) \subseteq Held(c) \cup {k}
    BY KeptEntries
<1>2. /\ IsFiniteSet(Held(c) \cup {k})
      /\ Cardinality(Held(c) \cup {k}) <= Cardinality(Held(c)) + 1
    <2>1. Cardinality(Held(c)) \in Nat
        BY FS_CardinalityType
    <2>2. /\ IsFiniteSet(Held(c) \cup {k})
          /\ Cardinality(Held(c) \cup {k}) =
               IF k \in Held(c) THEN Cardinality(Held(c)) ELSE Cardinality(Held(c)) + 1
        BY FS_AddElement
    <2> QED
        BY <2>1, <2>2
<1>3. Kept(c, k, r).hits = c.hits /\ Kept(c, k, r).misses = c.misses
    BY DEF Kept, Store, Discard, CacheType
<1>4. Cardinality(Held(Kept(c, k, r))) <= Cardinality(Held(c) \cup {k})
    BY <1>1, <1>2, FS_Subset
<1>5. IsFiniteSet(Held(Kept(c, k, r)))
    BY <1>1, <1>2, FS_Subset
<1> QED
    BY <1>2, <1>3, <1>4, <1>5, FS_CardinalityType

\* A step of one call, by what it does to the counters.
LEMMA CallCounts ==
    ASSUME IsFiniteSet(Calls), TypeInv, CountInv, NEW t \in Calls,
           \/ Lose(t) \/ ReplayHit(t) \/ CountMiss(t) \/ KeepOrDiscard(t)
           \/ Miss(t) \/ ReturnPlain(t)
    PROVE  CountInv'
<1> DEFINE hit == Cardinality(Ended("hit"))
           miss == Cardinality(Ended("miss"))
           counted == Cardinality(Counted)
           held == Cardinality(Held(cache))
<1>1. /\ IsFiniteSet(Ended("hit")) /\ IsFiniteSet(Ended("miss")) /\ IsFiniteSet(Counted)
      /\ IsFiniteSet(Held(cache))
    BY PlacesAreEntries, FS_Subset DEF Ended, Counted, TypeInv, TypeOK
<1>2. /\ hit \in Nat /\ miss \in Nat /\ counted \in Nat /\ held \in Nat
    BY <1>1, FS_CardinalityType
<1>3. /\ cache.hits = hit /\ cache.misses = miss + counted /\ held <= miss
      /\ cache \in CacheType /\ CacheSound(cache)
    BY DEF CountInv, TypeInv, TypeOK
<1>4. /\ Cardinality(Ended("hit") \cup {t}) =
            IF t \in Ended("hit") THEN hit ELSE hit + 1
      /\ Cardinality(Ended("miss") \cup {t}) =
            IF t \in Ended("miss") THEN miss ELSE miss + 1
      /\ Cardinality(Counted \cup {t}) =
            IF t \in Counted THEN counted ELSE counted + 1
      /\ Cardinality(Counted \ {t}) =
            IF t \in Counted THEN counted - 1 ELSE counted
    BY <1>1, FS_AddElement, FS_RemoveElement
<1>5. key[t] \in Keys /\ resp[t] \in Response
      /\ (resp[t].status = "ok" => resp[t].body \in Bodies)
    BY DEF TypeInv, TypeOK, FullHasBody
<1> HIDE DEF hit, miss, counted, held
<1>6. CASE Lose(t) \/ ReturnPlain(t)
    <2>1. PICK via, s, b : via \in {"lost", "plain"} /\ Finish(t, via, s, b)
        BY <1>6 DEF Lose, ReturnPlain
    <2>2. cache' = cache /\ pc[t] # "done" /\ t \notin Counted
        BY <1>6 DEF Lose, ReturnPlain, Handling, Counted
    <2>3. /\ Ended("hit")' = Ended("hit") /\ Ended("miss")' = Ended("miss")
          /\ Counted' = Counted
          /\ \A u \in Calls : pc'[u] # "done" => result'[u].via = "none"
        BY <2>1, <2>2, EndedAfter
    <2> QED
        BY <2>2, <2>3 DEF CountInv, Held
<1>7. CASE ReplayHit(t)
    <2>1. /\ Finish(t, "hit", "ok", cache.entry[key[t]].body)
          /\ cache' = Hit(cache, key[t], resp[t].etag)
          /\ pc[t] # "done" /\ t \notin Counted
        BY <1>7 DEF ReplayHit, NotModified, Handling, Counted
    <2>2. /\ Ended("hit")' = Ended("hit") \cup {t} /\ t \notin Ended("hit")
          /\ Ended("miss")' = Ended("miss") /\ Counted' = Counted
          /\ \A u \in Calls : pc'[u] # "done" => result'[u].via = "none"
        BY <2>1, EndedAfter
    <2>3. cache'.hits = cache.hits + 1 /\ cache'.misses = cache.misses
        BY <1>3, <2>1 DEF Hit, CacheType
    <2>4. Held(cache') \subseteq Held(cache)
        BY <1>7, HitEntries
    <2>5. Cardinality(Held(cache')) <= held /\ Cardinality(Held(cache')) \in Nat
        BY <1>1, <2>4, FS_Subset, FS_CardinalityType DEF held
    <2>6. cache'.hits = Cardinality(Ended("hit")')
        BY <1>3, <1>4, <2>2, <2>3
    <2>7. cache'.misses = Cardinality(Ended("miss")') + Cardinality(Counted')
        BY <1>3, <2>2, <2>3 DEF miss, counted
    <2>8. Cardinality(Held(cache')) <= miss
        BY <1>2, <1>3, <2>5
    <2> QED
        BY <2>2, <2>6, <2>7, <2>8 DEF CountInv, miss, Held
<1>8. CASE CountMiss(t)
    <2>1. /\ cache' = RecordMiss(cache) /\ result' = result
          /\ pc' = [pc EXCEPT ![t] = "counted"] /\ pc[t] = "answered"
          /\ pc \in [Calls -> {"idle", "sent", "answered", "counted", "done"}]
        BY <1>8 DEF CountMiss, OtherResponse, Handling, TypeInv, TypeOK
    <2>2. /\ Counted' = Counted \cup {t} /\ t \notin Counted
          /\ \A w : Ended(w)' = Ended(w)
          /\ \A u \in Calls : pc'[u] # "done" => pc[u] # "done"
        BY <2>1 DEF Counted, Ended
    <2>3. /\ cache'.hits = cache.hits /\ cache'.misses = cache.misses + 1
          /\ Held(cache)' = Held(cache)
        BY <1>3, <2>1 DEF RecordMiss, CacheType, Held
    <2>4. cache'.misses = Cardinality(Ended("miss")') + Cardinality(Counted')
        BY <1>2, <1>3, <1>4, <2>2, <2>3 DEF miss
    <2>5. \A u \in Calls : pc'[u] # "done" => result'[u].via = "none"
        BY <2>1, <2>2 DEF CountInv
    <2> QED
        BY <1>3, <2>2, <2>3, <2>4, <2>5 DEF CountInv, hit, miss, held
<1>9. CASE KeepOrDiscard(t)
    <2>1. /\ Finish(t, "miss", resp[t].status, Payload(resp[t]))
          /\ cache' = Kept(cache, key[t], resp[t])
          /\ pc[t] # "done" /\ t \in Counted
        BY <1>9 DEF KeepOrDiscard, Counted
    <2>2. /\ Ended("miss")' = Ended("miss") \cup {t} /\ t \notin Ended("miss")
          /\ Ended("hit")' = Ended("hit") /\ Counted' = Counted \ {t}
          /\ \A u \in Calls : pc'[u] # "done" => result'[u].via = "none"
        BY <2>1, EndedAfter
    <2>3. /\ Cardinality(Ended("miss")') = miss + 1
          /\ Cardinality(Counted') = counted - 1
        BY <1>4, <2>1, <2>2
    <2>4. /\ cache'.hits = cache.hits /\ cache'.misses = cache.misses
          /\ Cardinality(Held(cache')) <= held + 1
        BY <1>1, <1>3, <1>5, <2>1, KeptCounts DEF held
    <2>5. Cardinality(Held(cache')) <= Cardinality(Ended("miss")')
        <3>1. IsFiniteSet(Held(cache'))
            BY <1>3, <1>5, <2>1, KeptSound, PlacesAreEntries
        <3>2. Cardinality(Held(cache')) \in Nat
            BY <3>1, FS_CardinalityType
        <3> QED
            BY <1>2, <1>3, <2>3, <2>4, <3>2
    <2>6. cache'.misses = Cardinality(Ended("miss")') + Cardinality(Counted')
        BY <1>2, <1>3, <2>3, <2>4
    <2> QED
        BY <1>3, <2>2, <2>4, <2>5, <2>6 DEF CountInv, hit, Held
<1>10. CASE Miss(t)
    <2> DEFINE c == RecordMiss(cache)
    <2>1. /\ Finish(t, "miss", resp[t].status, Payload(resp[t]))
          /\ cache' = Kept(c, key[t], resp[t])
          /\ pc[t] # "done" /\ t \notin Counted
        BY <1>10 DEF Miss, OtherResponse, Handling, Counted
    <2>2. /\ Ended("miss")' = Ended("miss") \cup {t} /\ t \notin Ended("miss")
          /\ Ended("hit")' = Ended("hit") /\ Counted' = Counted
          /\ \A u \in Calls : pc'[u] # "done" => result'[u].via = "none"
        BY <2>1, EndedAfter
    <2>3. /\ c \in CacheType /\ CacheSound(c) /\ c.hits = cache.hits
          /\ c.misses = cache.misses + 1 /\ Held(c) = Held(cache)
        BY <1>3, RecordMissSound DEF RecordMiss, CacheType, Held
    <2>4. Cardinality(Ended("miss")') = miss + 1 /\ Cardinality(Counted') = counted
        BY <1>4, <2>2 DEF counted
    <2> HIDE DEF c
    <2>5. /\ cache'.hits = cache.hits /\ cache'.misses = cache.misses + 1
          /\ Cardinality(Held(cache')) <= held + 1
        BY <1>1, <1>5, <2>1, <2>3, KeptCounts DEF held
    <2>6. Cardinality(Held(cache')) <= Cardinality(Ended("miss")')
        <3>1. IsFiniteSet(Held(cache'))
            BY <1>5, <2>1, <2>3, KeptSound, PlacesAreEntries
        <3>2. Cardinality(Held(cache')) \in Nat
            BY <3>1, FS_CardinalityType
        <3> QED
            BY <1>2, <1>3, <2>4, <2>5, <3>2
    <2>7. cache'.misses = Cardinality(Ended("miss")') + Cardinality(Counted')
        BY <1>2, <1>3, <2>4, <2>5
    <2> QED
        BY <1>3, <2>2, <2>5, <2>6, <2>7 DEF CountInv, hit, Held
<1> QED
    BY <1>6, <1>7, <1>8, <1>9, <1>10

LEMMA CountStep ==
    ASSUME IsFiniteSet(Calls), TypeInv, CountInv, [Next]_vars
    PROVE  CountInv'
<1>1. pc \in [Calls -> {"idle", "sent", "answered", "counted", "done"}]
    BY DEF TypeInv, TypeOK
<1>2. ASSUME \/ UNCHANGED vars
             \/ \E k \in Keys, b \in Bodies : Change(k, b)
             \/ \E t \in Calls : Begin(t) \/ Server(t) \/ Retry(t) \/ Reask(t)
      PROVE  CountInv'
    <2>1. /\ UNCHANGED <<cache, result>>
          /\ \A t \in Calls : /\ pc'[t] = "counted" <=> pc[t] = "counted"
                              /\ pc'[t] # "done" => pc[t] # "done"
        <3>1. CASE UNCHANGED vars
            BY <3>1 DEF vars
        <3>2. CASE \E k \in Keys, b \in Bodies : Change(k, b)
            BY <3>2 DEF Change
        <3>3. CASE \E t \in Calls : Begin(t)
            BY <1>1, <3>3 DEF Begin, MayBegin
        <3>4. CASE \E t \in Calls : Server(t)
            BY <1>1, <3>4 DEF Server, AnswerFull, AnswerNotModified, AnswerFailure, Respond
        <3>5. CASE \E t \in Calls : Retry(t) \/ Reask(t)
            BY <1>1, <3>5 DEF Retry, Reask, AskAgain, NotModified, Handling
        <3> QED
            BY <1>2, <3>1, <3>2, <3>3, <3>4, <3>5
    <2> QED
        BY <2>1, QuietCounts DEF Counted
<1> QED
    BY <1>2, CallCounts DEF Next, Client

\* The counters of cache_stats() agree with what the calls did (StatsAgree):
\* each read is counted at most once, one that was asked again after an eviction
\* not at all, and nothing is held that was not a miss.
THEOREM StatsCount == ASSUME IsFiniteSet(Calls) PROVE Spec => []StatsAgree
<1>1. Init => CountInv
    <2> SUFFICES ASSUME Init PROVE CountInv
        OBVIOUS
    <2>1. /\ Ended("hit") = {} /\ Ended("miss") = {} /\ Counted = {}
          /\ Held(cache) = {} /\ cache.hits = 0 /\ cache.misses = 0
        BY DEF Init, Ended, Counted, NoResult, EmptyCache, Held
    <2>2. Cardinality({}) = 0
        BY FS_EmptySet
    <2>3. \A t \in Calls : pc[t] # "done" => result[t].via = "none"
        BY DEF Init, NoResult
    <2>4. /\ cache.hits = Cardinality(Ended("hit"))
          /\ cache.misses = Cardinality(Ended("miss")) + Cardinality(Counted)
          /\ Cardinality(Held(cache)) <= Cardinality(Ended("miss"))
        BY <2>1, <2>2
    <2> QED
        BY <2>3, <2>4 DEF CountInv
<1>2. TypeInv /\ CountInv /\ [Next]_vars => CountInv'
    BY CountStep
<1>3. TypeInv /\ CountInv => StatsAgree
    <2> SUFFICES ASSUME TypeInv, CountInv PROVE StatsAgree
        OBVIOUS
    <2>1. Cardinality(Held(cache)) = Len(cache.order)
        BY PlacesAreEntries DEF TypeInv, TypeOK
    <2> QED
        BY <2>1 DEF CountInv, StatsAgree, Stats, Counted
<1> QED
    BY <1>1, <1>2, <1>3, TypeInvariant, PTL DEF Spec

=============================================================================
