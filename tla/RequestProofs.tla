---------------------------- MODULE RequestProofs ----------------------------
(***************************************************************************)
(* One request of each method, for every state of the server, every value  *)
(* of the arguments and every instance: what answers it may have, what it  *)
(* leaves behind, and how its result is read.  Of each family, first the   *)
(* table of its answers; then that they stay within the family's states    *)
(* (Typed), change only what is named (KeepWithin), do what is meant       *)
(* (KeepMeant), tell a rehearsal from a change (Told), and that the result *)
(* is true of what is left (KeepHonest).                                   *)
(***************************************************************************)
EXTENDS GuestEntry, AccessCodes, NfcTags, ShortCodes, KeySchedules, HoldOpens,
        Roster, Homes, GuestLinks, Notifications, ConfigEdits,
        FiniteSetTheorems, FunctionTheorems, WellFoundedInduction, TLAPS

----------------------------------------------------------------------------
(* General: truth values, fields of a body, identifiers.                   *)

LEMMA SameTruth ==
    ASSUME NEW x, NEW y, x \in BOOLEAN, y \in BOOLEAN, x <=> y PROVE x = y
OBVIOUS

LEMMA BoolOfBoolean == \A x \in BOOLEAN : Bool(x) = x
<1>1. \A x \in BOOLEAN : Bool(x) \in BOOLEAN
    BY DEF Bool
<1>2. ASSUME NEW x \in BOOLEAN PROVE Bool(x) <=> x
    BY TruthyAssumption DEF Bool
<1> QED
    BY <1>1, <1>2, SameTruth

LEMMA BoolOfNone == Bool(None) = FALSE
<1>1. None # TRUE
    BY NoneAssumption
<1>2. ~(None \in {TRUE, Truthy})
    BY <1>1, NoneAssumption
<1>3. ~Bool(None)
    BY <1>2 DEF Bool
<1>4. Bool(None) \in BOOLEAN
    BY DEF Bool
<1> HIDE DEF Bool
<1> QED
    BY <1>3, <1>4

\* What a refusal is raised as.
LEMMA Refusals ==
    ASSUME NEW code, code # "did_not_open"
    PROVE  /\ exception_for(400, code) = "BadRequestError"
           /\ exception_for(403, code) = "PermissionDeniedError"
           /\ exception_for(404, code) = "NotFoundError"
           /\ exception_for(409, code) = "ConflictError"
           /\ exception_for(422, code) = "APIError"
BY DEF exception_for

\* The call r ends with the answer a; a 2xx is read as result.
EndsWith(r, a, result) ==
    /\ a.status \in 200..299 => r.raised = None /\ r.result = result
    /\ a.status \notin 200..299 => r.raised = exception_for(a.status, a.body.code)

\* Fewer of one than of another: each can have one of its own.
LEMMA OneEach ==
    ASSUME NEW S, NEW T, IsFiniteSet(S), IsFiniteSet(T), Cardinality(S) <= Cardinality(T)
    PROVE  \E f \in [S -> T] : \A x, y \in S : x # y => f[x] # f[y]
<1>1. /\ Cardinality(S) \in Nat /\ ExistsBijection(1..Cardinality(S), S)
      /\ Cardinality(T) \in Nat /\ ExistsBijection(1..Cardinality(T), T)
    BY FS_CardinalityType
<1>2. PICK g : g \in Bijection(S, 1..Cardinality(S))
    BY <1>1, Fun_ExistsBijSymmetric DEF ExistsBijection
<1>3. PICK h : h \in Bijection(1..Cardinality(T), T)
    BY <1>1 DEF ExistsBijection
<1>4. g \in [S -> 1..Cardinality(S)] /\ \A x, y \in S : g[x] = g[y] => x = y
    BY <1>2, Fun_BijectionProperties
<1>5. /\ h \in [1..Cardinality(T) -> T]
      /\ \A i, j \in 1..Cardinality(T) : h[i] = h[j] => i = j
    BY <1>3, Fun_BijectionProperties
<1> DEFINE f == [x \in S |-> h[g[x]]]
<1>6. \A x \in S : g[x] \in 1..Cardinality(T)
    BY <1>1, <1>4
<1>7. f \in [S -> T] /\ \A x, y \in S : x # y => f[x] # f[y]
    BY <1>4, <1>5, <1>6
<1> QED
    BY <1>7

\* An identifier is assigned from those that are not used.
LEMMA NextIsUnused ==
    ASSUME NEW slots, DOMAIN slots \subseteq Nat, Unused(slots) # {}
    PROVE  NextUnused(slots) \in Unused(slots)
<1> DEFINE less == OpToRel(<, Nat)
<1>1. Unused(slots) \subseteq Nat
    BY DEF Unused
<1>2. PICK i \in Unused(slots) : \A j \in Unused(slots) : <<j, i>> \notin less
    BY <1>1, NatLessThanWellFounded, WFMin
<1>3. \A j \in Unused(slots) : i <= j
    <2> SUFFICES ASSUME NEW j \in Unused(slots), j < i PROVE FALSE
        BY <1>1
    <2>1. <<j, i>> \in less
        BY <1>1 DEF OpToRel
    <2> QED
        BY <1>2, <2>1
<1> QED
    BY <1>3 DEF NextUnused

\* What the server reads of a field that is sent if it is not None, and of one
\* that is always sent.
LEMMA OptionalField ==
    ASSUME NEW always, NEW optional, NEW f, f \notin DOMAIN always, f \in DOMAIN optional,
           NEW default
    PROVE  Get(Body(always, optional), f, default) =
             IF optional[f] # None THEN optional[f] ELSE default
BY DEF Body, Get

LEMMA OptionalSent ==
    ASSUME NEW always, NEW optional, NEW f, f \notin DOMAIN always, f \in DOMAIN optional
    PROVE  /\ f \in DOMAIN Body(always, optional) <=> optional[f] # None
           /\ optional[f] # None => Body(always, optional)[f] = optional[f]
BY DEF Body

LEMMA RequiredField ==
    ASSUME NEW always, NEW optional, NEW f, f \in DOMAIN always, NEW default
    PROVE  Get(Body(always, optional), f, default) = always[f]
BY DEF Body, Get

LEMMA AbsentField ==
    ASSUME NEW always, NEW optional, NEW f, f \notin DOMAIN always, f \notin DOMAIN optional,
           NEW default
    PROVE  Get(Body(always, optional), f, default) = default
BY DEF Body, Get

LEMMA SentFields ==
    ASSUME NEW always, NEW optional
    PROVE  DOMAIN Body(always, optional) \subseteq DOMAIN always \cup DOMAIN optional
BY DEF Body

LEMMA FieldThere ==
    ASSUME NEW d, NEW f, f \in DOMAIN d, NEW default
    PROVE  Get(d, f, default) = d[f]
BY DEF Get

LEMMA FieldMissing ==
    ASSUME NEW d, NEW f, f \notin DOMAIN d, NEW default
    PROVE  Get(d, f, default) = default
BY DEF Get

\* A field that is given, and what stands where it is not.
Chosen(given, stands) == IF given # None THEN given ELSE stands

\* What a method that sends the fields that are given sends of one.
LEMMA FieldGiven ==
    ASSUME NEW optional, NEW f, f \in DOMAIN optional, NEW default
    PROVE  /\ Get(Body(NoFields, optional), f, default) = Chosen(optional[f], default)
           /\ f \in DOMAIN Body(NoFields, optional) <=> optional[f] # None
BY OptionalField, OptionalSent DEF NoFields, Chosen

----------------------------------------------------------------------------
(* GuestView Entry.                                                        *)

\* What a request does to the settings, if it is not refused.
EntryEffect(c, e, to) ==
    \/ /\ c.op = "set_guest_view_entry_enabled"
       /\ to = [e EXCEPT !.allowed = Bool(c.allowed)]
    \/ /\ c.op = "set_guest_view_entry_latches" /\ e.allowed
       /\ to = SetLatches(e, c.latch_ids)
    \/ /\ c.op = "add_guest_view_entry_schedule"
       /\ \E new \in [c.latch_ids -> Unused(e.windows)] :
            /\ \A g, h \in c.latch_ids : g # h => new[g] # new[h]
            /\ to = AddWindows(e, new, c.hours)
    \/ /\ c.op = "remove_guest_view_entry_schedule"
       /\ c.schedule_id \in Live(e.windows)
       /\ to = [e EXCEPT !.windows[c.schedule_id] = Gone]

LEMMA EntryAnswer ==
    ASSUME NEW e \in GuestEntries, NEW c \in GuestEntryCalls,
           NEW a, a = GuestEntryServe(e, GuestEntryRequest(c))
    PROVE  \/ /\ a.status = 200 /\ EntryEffect(c, e, a.to)
              /\ \E created \in SUBSET EntryIds :
                   /\ a.body = EntryEnvelope(a.to, created,
                                  IF c.op = "remove_guest_view_entry_schedule"
                                  THEN c.schedule_id ELSE None)
                   /\ created \subseteq Live(a.to.windows)
                   /\ created # {} <=> c.creates > 0
           \/ /\ a.to = e /\ a.status \in {403, 422}
              /\ a.body.code \in {"guest_view_entry_disabled", "bound"}
           \/ /\ a.to = e /\ a.status = 404 /\ a.body.code = "not_found"
              /\ c.op = "remove_guest_view_entry_schedule"
              /\ c.schedule_id \notin Live(e.windows)
<1> DEFINE r == GuestEntryRequest(c)
<1>1. ASSUME NEW on \in BOOLEAN \cup {Truthy}, c = set_enabled(on)
      PROVE  /\ a.status = 200 /\ EntryEffect(c, e, a.to)
             /\ a.body = EntryEnvelope(a.to, {}, None) /\ c.creates = 0
             /\ c.op # "remove_guest_view_entry_schedule"
  <2>1. r = [path |-> "guest-view-entry", json |-> [allowed |-> Bool(on)]]
      BY <1>1 DEF set_enabled, GuestEntryRequest
  <2>2. a = Says([e EXCEPT !.allowed = Bool(on)], 200,
                 EntryEnvelope([e EXCEPT !.allowed = Bool(on)], {}, None))
      BY <2>1 DEF GuestEntryServe
  <2> QED
      BY <1>1, <2>2 DEF Says, EntryEffect, set_enabled
<1>2. ASSUME NEW gates \in SUBSET Gates, NEW g \in Gates, c = set_latches(gates, g)
      PROVE  /\ c.creates = 0 /\ c.op # "remove_guest_view_entry_schedule"
             /\ \/ /\ a.status = 200 /\ EntryEffect(c, e, a.to)
                   /\ a.body = EntryEnvelope(a.to, {}, None)
                \/ a.to = e /\ a.status = 403 /\ a.body.code = "guest_view_entry_disabled"
  <2>1. r = [path |-> "eligible-latches", json |-> [latch_ids |-> gates]]
      BY <1>2 DEF set_latches, GuestEntryRequest
  <2>2. a = IF e.allowed
            THEN Says(SetLatches(e, gates), 200, EntryEnvelope(SetLatches(e, gates), {}, None))
            ELSE Refuses(e, 403, "guest_view_entry_disabled")
      BY <2>1 DEF GuestEntryServe
  <2> QED
      BY <1>2, <2>2 DEF Says, Refuses, EntryEffect, set_latches
<1>3. ASSUME NEW gates \in (SUBSET Gates) \ {{}}, NEW h \in Hours,
             c = add_schedule(gates, h)
      PROVE  /\ c.op # "remove_guest_view_entry_schedule"
             /\ \/ /\ a.status = 200 /\ EntryEffect(c, e, a.to)
                   /\ \E created \in SUBSET EntryIds :
                        /\ a.body = EntryEnvelope(a.to, created, None)
                        /\ created \subseteq Live(a.to.windows)
                        /\ created # {} <=> c.creates > 0
                \/ a.to = e /\ a.status = 422 /\ a.body.code = "bound"
  <2> DEFINE new == NewWindows(e, gates, h)
             to == AddWindows(e, new, h)
             created == {new[g] : g \in DOMAIN new}
  <2>1. r = [path |-> "schedule", json |-> [latch_ids |-> gates, hours |-> h]]
      BY <1>3 DEF add_schedule, GuestEntryRequest
  <2>2. a = IF Cardinality(Unused(e.windows)) < Cardinality(gates)
            THEN Refuses(e, 422, "bound")
            ELSE Says(to, 200, EntryEnvelope(to, created, None))
      BY <2>1 DEF GuestEntryServe
  <2>3. CASE Cardinality(Unused(e.windows)) < Cardinality(gates)
      BY <1>3, <2>2, <2>3 DEF Refuses, Says, add_schedule
  <2>4. CASE ~(Cardinality(Unused(e.windows)) < Cardinality(gates))
    <3>1. IsFiniteSet(gates) /\ Cardinality(gates) \in Nat /\ Cardinality(gates) # 0
        BY GatesAssumption, FS_Subset, FS_CardinalityType, FS_EmptySet
    <3>2. IsFiniteSet(Unused(e.windows)) /\ Cardinality(Unused(e.windows)) \in Nat
      <4>1. DOMAIN e.windows = EntryIds
          BY DEF GuestEntries
      <4>2. IsFiniteSet(EntryIds)
          BY EntryAssumption, FS_Interval DEF EntryIds
      <4> QED
          BY <4>1, <4>2, FS_Subset, FS_CardinalityType DEF Unused
    <3>3. new \in [gates -> Unused(e.windows)]
          /\ \A x, y \in gates : x # y => new[x] # new[y]
      <4>1. \E f \in [gates -> Unused(e.windows)] : \A x, y \in gates : x # y => f[x] # f[y]
          BY <2>4, <3>1, <3>2, OneEach
      <4> QED
          BY <4>1 DEF NewWindows
    <3> HIDE DEF new
    <3>4. a.status = 200 /\ a.to = to /\ a.body = EntryEnvelope(to, created, None)
        BY <2>2, <2>4 DEF Says
    <3>5. EntryEffect(c, e, to)
        BY <1>3, <3>3 DEF EntryEffect, add_schedule
    <3>6. created \in SUBSET EntryIds /\ created \subseteq Live(to.windows)
      <4> SUFFICES ASSUME NEW i \in created
                   PROVE  i \in EntryIds /\ i \in Live(to.windows)
          OBVIOUS
      <4>1. PICK g \in gates : i = new[g]
          BY <3>3
      <4>2. i \in EntryIds /\ DOMAIN e.windows = EntryIds
          BY <3>3, <4>1 DEF Unused, GuestEntries
      <4>3. to.windows[i] = [gate |-> CHOOSE x \in gates : new[x] = i, hours |-> h]
            /\ DOMAIN to.windows = EntryIds
          BY <3>3, <4>1, <4>2 DEF AddWindows, GuestEntries
      <4>4. to.windows[i] \in Window
          BY <4>1, <4>3 DEF Window
      <4> QED
          BY <4>2, <4>3, <4>4, WindowAssumption DEF Live
    <3>7. created # {} <=> c.creates > 0
      <4>1. c.creates > 0
          BY <1>3, <3>1 DEF add_schedule
      <4>2. created # {}
          BY <3>3
      <4> QED
          BY <4>1, <4>2
    <3> HIDE DEF to, created
    <3> QED
        BY <1>3, <3>4, <3>5, <3>6, <3>7 DEF add_schedule
  <2> QED
      BY <2>3, <2>4
<1>4. ASSUME NEW i \in EntryIds, c = remove_schedule(i)
      PROVE  /\ c.op = "remove_guest_view_entry_schedule" /\ c.schedule_id = i
             /\ c.creates = 0
             /\ \/ /\ a.status = 200 /\ EntryEffect(c, e, a.to)
                   /\ a.body = EntryEnvelope(a.to, {}, i)
                \/ /\ a.to = e /\ a.status = 404 /\ a.body.code = "not_found"
                   /\ i \notin Live(e.windows)
  <2>1. r = [path |-> "schedule/id", id |-> i, json |-> NoFields]
      BY <1>4 DEF remove_schedule, GuestEntryRequest
  <2>2. a = IF i \in Live(e.windows)
            THEN Says([e EXCEPT !.windows[i] = Gone], 200,
                      EntryEnvelope([e EXCEPT !.windows[i] = Gone], {}, i))
            ELSE Refuses(e, 404, "not_found")
      BY <2>1 DEF GuestEntryServe
  <2> QED
      BY <1>4, <2>2 DEF Says, Refuses, EntryEffect, remove_schedule
<1> QED
    BY <1>1, <1>2, <1>3, <1>4 DEF GuestEntryCalls

\* What the four calls are made of.
LEMMA EntryCallsAre ==
    ASSUME NEW c \in GuestEntryCalls
    PROVE  /\ c.op = "set_guest_view_entry_enabled" => Bool(c.allowed) \in BOOLEAN
           /\ c.op = "set_guest_view_entry_latches" =>
                c.latch_ids \in SUBSET Gates /\ c.gate \in Gates
           /\ c.op = "add_guest_view_entry_schedule" =>
                c.latch_ids \in (SUBSET Gates) \ {{}} /\ c.hours \in Hours
           /\ c.op = "remove_guest_view_entry_schedule" =>
                c.schedule_id \in EntryIds
           /\ c.op # "add_guest_view_entry_schedule" => c.creates = 0
BY DEF GuestEntryCalls, set_enabled, set_latches, add_schedule, remove_schedule, Bool

\* The windows of what is left behind.
LEMMA EntryWindows ==
    ASSUME NEW e \in GuestEntries, NEW c \in GuestEntryCalls, NEW to,
           EntryEffect(c, e, to)
    PROVE  to \in GuestEntries
<1>1. CASE c.op = "set_guest_view_entry_enabled"
    BY <1>1, EntryCallsAre DEF EntryEffect, GuestEntries
<1>2. CASE c.op = "set_guest_view_entry_latches"
  <2>1. /\ to = SetLatches(e, c.latch_ids) /\ c.latch_ids \in SUBSET Gates
        /\ DOMAIN e.windows = EntryIds
      BY <1>2, EntryCallsAre DEF EntryEffect, GuestEntries
  <2>2. /\ to.allowed = e.allowed /\ to.eligible = c.latch_ids
        /\ to.windows \in [EntryIds -> Window \cup {Never, Gone}]
      BY <2>1 DEF SetLatches, GuestEntries
  <2>3. to = [allowed |-> to.allowed, eligible |-> to.eligible, windows |-> to.windows]
      BY <2>1 DEF SetLatches, GuestEntries
  <2> QED
      BY <2>1, <2>2, <2>3 DEF GuestEntries
<1>3. CASE c.op = "add_guest_view_entry_schedule"
  <2>1. PICK new \in [c.latch_ids -> Unused(e.windows)] : to = AddWindows(e, new, c.hours)
      BY <1>3 DEF EntryEffect
  <2>2. ASSUME NEW i \in EntryIds, \E g \in DOMAIN new : new[g] = i
        PROVE  [gate |-> CHOOSE g \in DOMAIN new : new[g] = i, hours |-> c.hours] \in Window
      BY <1>3, <2>1, <2>2, EntryCallsAre DEF Window
  <2> QED
      BY <2>1, <2>2 DEF AddWindows, GuestEntries
<1>4. CASE c.op = "remove_guest_view_entry_schedule"
    BY <1>4 DEF EntryEffect, GuestEntries
<1> QED
    BY <1>1, <1>2, <1>3, <1>4 DEF EntryEffect

LEMMA EntryKeepsWithin ==
    ASSUME NEW e \in GuestEntries, NEW c \in GuestEntryCalls, NEW to,
           EntryEffect(c, e, to)
    PROVE  GuestEntryWithin(c, e, to)
<1>1. CASE c.op = "set_guest_view_entry_enabled"
    BY <1>1 DEF EntryEffect, GuestEntryWithin, GuestEntries
<1>2. CASE c.op = "set_guest_view_entry_latches"
  <2>1. to = SetLatches(e, c.latch_ids)
      BY <1>2 DEF EntryEffect
  <2>2. \A g \in c.latch_ids : WindowsOf(to, g) = WindowsOf(e, g)
      BY <2>1 DEF SetLatches, WindowsOf, Live, GuestEntries
  <2> QED
      BY <1>2, <2>1, <2>2 DEF GuestEntryWithin, SetLatches, GuestEntries
<1>3. CASE c.op = "add_guest_view_entry_schedule"
  <2>1. PICK new \in [c.latch_ids -> Unused(e.windows)] : to = AddWindows(e, new, c.hours)
      BY <1>3 DEF EntryEffect
  <2>2. /\ to.allowed = e.allowed /\ to.eligible = e.eligible
        /\ \A i \in EntryIds : to.windows[i] =
              IF \E g \in c.latch_ids : new[g] = i
              THEN [gate |-> CHOOSE g \in c.latch_ids : new[g] = i, hours |-> c.hours]
              ELSE e.windows[i]
      BY <2>1 DEF AddWindows, GuestEntries
  <2>3. ASSUME NEW i \in EntryIds, e.windows[i] # to.windows[i]
        PROVE  i \in Unused(e.windows) /\ to.windows[i].gate \in c.latch_ids
    <3>1. PICK g \in c.latch_ids : new[g] = i
        BY <2>2, <2>3
    <3> DEFINE g0 == CHOOSE h \in c.latch_ids : new[h] = i
    <3>2. to.windows[i] = [gate |-> g0, hours |-> c.hours] /\ g0 \in c.latch_ids
        BY <2>2, <3>1
    <3> HIDE DEF g0
    <3> QED
        BY <2>1, <3>1, <3>2
  <2> QED
      BY <1>3, <2>2, <2>3 DEF GuestEntryWithin
<1>4. CASE c.op = "remove_guest_view_entry_schedule"
    BY <1>4 DEF EntryEffect, GuestEntryWithin, GuestEntries
<1> QED
    BY <1>1, <1>2, <1>3, <1>4 DEF EntryEffect

LEMMA EntryViewed ==
    ASSUME NEW e \in GuestEntries, NEW created \in SUBSET EntryIds, NEW removed
    PROVE  GuestViewEntry(EntryEnvelope(e, created, removed)) =
             [allowed |-> e.allowed, latch_ids |-> e.eligible,
              schedule |-> [i \in Live(e.windows) |-> e.windows[i]],
              created |-> created, removed |-> removed, simulated |-> FALSE]
<1> DEFINE schedule == [i \in Live(e.windows) |-> e.windows[i]]
           fields == [allowed |-> e.allowed, eligible_latches |-> e.eligible,
                      schedule |-> schedule]
           d == EntryEnvelope(e, created, removed)
<1>1. schedule # None /\ created # None /\ e.eligible # None
  <2>1. Live(e.windows) \in SUBSET EntryIds /\ schedule \in [Live(e.windows) -> Window]
      BY DEF Live, GuestEntries
  <2> QED
      BY <2>1, WindowAssumption, GatesAssumption DEF GuestEntries
<1>2. Bool(e.allowed) = e.allowed
    BY BoolOfBoolean DEF GuestEntries
<1> HIDE DEF schedule
<1>3. d = [guest_view_entry |-> fields, created_schedule_ids |-> created,
           removed_schedule_id |-> removed, result |-> "ok"]
    BY DEF EntryEnvelope, schedule
<1> HIDE DEF d
<1>4. /\ Unwrap(d, "guest_view_entry") = fields
      /\ GetOr(d, "created_schedule_ids", {}) = created
      /\ Get(d, "removed_schedule_id", None) = removed
      /\ Get(d, "result", None) = "ok"
    BY <1>1, <1>3 DEF Unwrap, Get, GetOr
<1>5. /\ Get(fields, "allowed", None) = e.allowed
      /\ latch_ids(fields) = e.eligible
      /\ GetOr(fields, "schedule", NoFields) = schedule
    BY <1>1 DEF Get, GetOr, latch_ids
<1> HIDE DEF fields
<1> QED
    BY <1>2, <1>4, <1>5 DEF GuestViewEntry, schedule, d

LEMMA EntryKeepsMeant ==
    ASSUME NEW e \in GuestEntries, NEW c \in GuestEntryCalls, NEW to,
           EntryEffect(c, e, to),
           GuestEntryRepeatable(c) => GuestEntryOffered(EntryView(e), c),
           NEW before, GuestEntryRepeatable(c) => before = e
    PROVE  GuestEntryMeant(c, before, to)
<1>1. CASE c.op = "set_guest_view_entry_enabled"
    BY <1>1 DEF EntryEffect, GuestEntryMeant, GuestEntries
<1>2. CASE c.op = "set_guest_view_entry_latches"
  <2>1. to = SetLatches(e, c.latch_ids) /\ before = e
      BY <1>2 DEF EntryEffect, GuestEntryRepeatable
  <2>2. c.latch_ids \in {e.eligible \cup {c.gate}, e.eligible \ {c.gate}}
    <3>1. GuestEntryOffered(EntryView(e), c)
        BY <1>2 DEF GuestEntryRepeatable
    <3>2. EntryView(e).latch_ids = e.eligible
      <4>1. {} \in SUBSET EntryIds
          OBVIOUS
      <4> QED
          BY <4>1, EntryViewed DEF EntryView
    <3> HIDE DEF EntryView
    <3> QED
        BY <1>2, <3>1, <3>2 DEF GuestEntryOffered
  <2>3. /\ to.allowed = e.allowed /\ to.eligible = c.latch_ids
        /\ \A g \in c.latch_ids : WindowsOf(to, g) = WindowsOf(e, g)
        /\ \A g \in c.latch_ids : \A i \in WindowsOf(e, g) : to.windows[i] = e.windows[i]
      BY <2>1 DEF SetLatches, WindowsOf, Live, GuestEntries
  <2>4. ASSUME NEW g \in Gates \ {c.gate}
        PROVE  Access(to, g) = Access(e, g)
    <3>1. g \in to.eligible <=> g \in e.eligible
        BY <2>2, <2>3
    <3>2. CASE g \notin e.eligible
        BY <2>3, <3>1, <3>2 DEF Access
    <3>3. CASE g \in e.eligible
      <4>1. {to.windows[i].hours : i \in WindowsOf(to, g)} =
              {e.windows[i].hours : i \in WindowsOf(e, g)}
          BY <2>3, <3>1, <3>3
      <4>2. WindowsOf(to, g) = WindowsOf(e, g)
          BY <2>3, <3>1, <3>3
      <4> QED
          BY <2>3, <3>1, <3>3, <4>1, <4>2 DEF Access
    <3> QED
        BY <3>2, <3>3
  <2> QED
      BY <1>2, <2>1, <2>3, <2>4 DEF GuestEntryMeant
<1>3. CASE c.op = "add_guest_view_entry_schedule"
  <2>1. PICK new \in [c.latch_ids -> Unused(e.windows)] :
          /\ \A g, h \in c.latch_ids : g # h => new[g] # new[h]
          /\ to = AddWindows(e, new, c.hours)
      BY <1>3 DEF EntryEffect
  <2>2. ASSUME NEW g \in c.latch_ids
        PROVE  \E i \in WindowsOf(to, g) : to.windows[i].hours = c.hours
    <3>1. new[g] \in EntryIds /\ DOMAIN to.windows = EntryIds
        BY <2>1 DEF Unused, GuestEntries, AddWindows
    <3>2. (CHOOSE h \in c.latch_ids : new[h] = new[g]) = g
        BY <2>1
    <3>3. to.windows[new[g]] = [gate |-> g, hours |-> c.hours]
        BY <2>1, <3>1, <3>2 DEF AddWindows, GuestEntries
    <3>4. to.windows[new[g]] \in Window
        BY <1>3, <3>3, EntryCallsAre DEF Window
    <3> QED
        BY <3>1, <3>3, <3>4, WindowAssumption DEF WindowsOf, Live
  <2> QED
      BY <1>3, <2>2 DEF GuestEntryMeant
<1>4. CASE c.op = "remove_guest_view_entry_schedule"
  <2>1. /\ before = e /\ c.schedule_id \in Live(e.windows)
        /\ to = [e EXCEPT !.windows[c.schedule_id] = Gone]
      BY <1>4 DEF EntryEffect, GuestEntryRepeatable
  <2> QED
      BY <1>4, <2>1 DEF GuestEntryMeant, WindowsOf, Live, GuestEntries
<1> QED
    BY <1>1, <1>2, <1>3, <1>4 DEF EntryEffect

LEMMA EntryKeepsHonest ==
    ASSUME NEW e \in GuestEntries, NEW c \in GuestEntryCalls,
           NEW a, a = GuestEntryServe(e, GuestEntryRequest(c)),
           NEW r, r.call = c, EndsWith(r, a, GuestViewEntry(a.body)),
           NEW before, NEW alone
    PROVE  GuestEntryHonest(r, before, a.to, alone)
<1>1. CASE a.status = 200
  <2>1. PICK created \in SUBSET EntryIds :
          /\ EntryEffect(c, e, a.to)
          /\ a.body = EntryEnvelope(a.to, created,
                         IF c.op = "remove_guest_view_entry_schedule"
                         THEN c.schedule_id ELSE None)
          /\ created \subseteq Live(a.to.windows)
          /\ created # {} <=> c.creates > 0
      BY <1>1, EntryAnswer
  <2>2. a.to \in GuestEntries
      BY <2>1, EntryWindows
  <2> DEFINE removed == IF c.op = "remove_guest_view_entry_schedule"
                        THEN c.schedule_id ELSE None
  <2>3. r.raised = None /\ r.result = GuestViewEntry(a.body)
      BY <1>1 DEF EndsWith
  <2>4. r.result = [allowed |-> a.to.allowed, latch_ids |-> a.to.eligible,
              schedule |-> [i \in Live(a.to.windows) |-> a.to.windows[i]],
              created |-> created, removed |-> removed, simulated |-> FALSE]
    <3>1. r.result = GuestViewEntry(EntryEnvelope(a.to, created, removed))
        BY <2>1, <2>3
    <3> HIDE DEF removed
    <3> QED
        BY <2>2, <3>1, EntryViewed
  <2>5. r.raised # "NotFoundError"
      BY <2>3, ExceptionsAssumption DEF Exceptions
  <2> QED
      BY <2>1, <2>4, <2>5 DEF GuestEntryHonest
<1>2. CASE a.status \in {403, 422} /\ a.body.code \in {"guest_view_entry_disabled", "bound"}
  <2>1. r.raised \in {"PermissionDeniedError", "APIError"}
      BY <1>2, Refusals DEF EndsWith
  <2> QED
      BY <2>1, ExceptionsAssumption DEF GuestEntryHonest, Exceptions
<1>3. CASE /\ a.to = e /\ a.status = 404 /\ a.body.code = "not_found"
           /\ c.op = "remove_guest_view_entry_schedule"
           /\ c.schedule_id \notin Live(e.windows)
  <2>1. r.raised = "NotFoundError"
      BY <1>3, Refusals DEF EndsWith
  <2> QED
      BY <1>3, <2>1, ExceptionsAssumption DEF GuestEntryHonest, Exceptions
<1> QED
    BY <1>1, <1>2, <1>3, EntryAnswer

LEMMA EntryTold ==
    ASSUME NEW e \in GuestEntries, NEW c \in GuestEntryCalls,
           NEW a, a = GuestEntryServe(e, GuestEntryRequest(c)), a.status \in 200..299
    PROVE  /\ ~GuestViewEntry(a.body).simulated
           /\ GuestViewEntry([result |-> "simulated"]).simulated
<1>0. PICK removed : removed = IF c.op = "remove_guest_view_entry_schedule"
                               THEN c.schedule_id ELSE None
    OBVIOUS
<1>1. PICK created \in SUBSET EntryIds :
        /\ EntryEffect(c, e, a.to)
        /\ a.body = EntryEnvelope(a.to, created, removed)
    BY <1>0, EntryAnswer
<1>2. a.to \in GuestEntries
    BY <1>1, EntryWindows
<1>3. PICK v, f : v = GuestViewEntry(a.body) /\ f = a.to
    OBVIOUS
<1>4. PICK schedule, no : schedule = [i \in Live(f.windows) |-> f.windows[i]] /\ no = FALSE
    OBVIOUS
<1>5. v = [allowed |-> f.allowed, latch_ids |-> f.eligible, schedule |-> schedule,
           created |-> created, removed |-> removed, simulated |-> no]
    BY <1>1, <1>2, <1>3, <1>4, EntryViewed
<1>6. ~v.simulated
    BY <1>4, <1>5
<1>7. PICK d, yes : d = [result |-> "simulated"] /\ yes = TRUE
    OBVIOUS
<1>8. Get(d, "result", None) = "simulated"
    BY <1>7 DEF Get
<1>9. GuestViewEntry(d).simulated
    BY <1>8 DEF GuestViewEntry
<1> QED
    BY <1>3, <1>6, <1>7, <1>9

----------------------------------------------------------------------------
(* The access codes.                                                       *)

\* What the four calls are made of.
LEMMA CodeCallsAre ==
    ASSUME NEW c \in AccessCodeCalls
    PROVE  \/ c.op = "create_access_code" /\ c.latch_ids \in GateLists
           \/ /\ c.op = "update_access_code" /\ c.id \in CodeIds
              /\ c.disabled \in BOOLEAN \cup {None} /\ c.latch_ids \in GateLists \cup {None}
           \/ c.op = "delete_access_code" /\ c.id \in CodeIds
           \/ c.op = "set_access_code_mode" /\ c.mode \in Modes /\ "confirm" \in DOMAIN c
BY DEF AccessCodeCalls, create_code, update_code, delete_code, set_mode, GateLists

\* What an update sends: the fields that are given.
LEMMA CodePatch ==
    ASSUME NEW c \in AccessCodeCalls, c.op = "update_access_code",
           NEW r, r = AccessCodeRequest(c)
    PROVE  /\ r.path = "access-codes/id" /\ r.id = c.id
           /\ DOMAIN r.json \subseteq {"disabled", "latch_ids"}
           /\ \A default : Get(r.json, "disabled", default) =
                IF c.disabled # None THEN c.disabled ELSE default
           /\ \A default : Get(r.json, "latch_ids", default) =
                IF c.latch_ids # None THEN c.latch_ids ELSE default
<1> DEFINE optional == [disabled |-> IF c.disabled = None THEN None ELSE Bool(c.disabled),
                        latch_ids |-> c.latch_ids]
<1>1. c.disabled \in BOOLEAN \cup {None}
    BY CodeCallsAre
<1>2. r.path = "access-codes/id" /\ r.id = c.id /\ r.json = Body(NoFields, optional)
  <2>1. r = [path |-> "access-codes/id", id |-> c.id, json |-> Body(NoFields, optional)]
      BY DEF AccessCodeRequest
  <2> HIDE DEF optional
  <2> QED
      BY <2>1
<1>3. optional.disabled = c.disabled /\ optional.latch_ids = c.latch_ids
  <2>1. c.disabled # None => Bool(c.disabled) = c.disabled
      BY <1>1, BoolOfBoolean
  <2> QED
      BY <2>1
<1>4. DOMAIN optional = {"disabled", "latch_ids"} /\ DOMAIN NoFields = {}
    BY DEF NoFields
<1> HIDE DEF optional
<1>5. PICK json, sent, none : json = r.json /\ sent = optional /\ none = NoFields
    OBVIOUS
<1>6. /\ json = Body(none, sent)
      /\ "disabled" \notin DOMAIN none /\ "latch_ids" \notin DOMAIN none
      /\ "disabled" \in DOMAIN sent /\ "latch_ids" \in DOMAIN sent
    BY <1>2, <1>4, <1>5
<1>7. \A default : Get(json, "disabled", default) =
          IF sent["disabled"] # None THEN sent["disabled"] ELSE default
    BY <1>6, OptionalField
<1>8. \A default : Get(json, "latch_ids", default) =
          IF sent["latch_ids"] # None THEN sent["latch_ids"] ELSE default
    BY <1>6, OptionalField
<1>9. DOMAIN json \subseteq {"disabled", "latch_ids"}
    BY <1>4, <1>5, <1>6 DEF Body
<1> QED
    BY <1>2, <1>3, <1>5, <1>7, <1>8, <1>9

\* What an update leaves of a code.
Updated(c, row) ==
    [disabled |-> IF c.disabled = None THEN row.disabled ELSE c.disabled,
     latches |-> IF c.latch_ids = None THEN row.latches ELSE c.latch_ids]

\* Everything that can come of a request.
CodeAnswers(c, b, a) ==
    \/ /\ c.op = "create_access_code" /\ c.latch_ids \in GateLists
       /\ \/ /\ Managed(b) # {} /\ a.to = b
             /\ a.status = 409 /\ a.body.code = "duplicate_code"
          \/ a.to = b /\ a.status = 422 /\ a.body.code = "bound"
          \/ /\ a.status = 200
             /\ \E i \in Unused(b.codes) :
                  /\ a.to = [b EXCEPT !.codes[i] =
                               [disabled |-> FALSE, latches |-> c.latch_ids]]
                  /\ a.body = [result |-> "ok", access_code |-> CodeFields(a.to, i)]
    \/ /\ c.op = "update_access_code"
       /\ \/ a.to = b /\ a.status = 404 /\ a.body.code = "not_found"
          \/ a.to = b /\ a.status = 400 /\ a.body.code = "empty_body"
          \/ /\ a.status = 200 /\ c.id \in Managed(b)
             /\ a.to = [b EXCEPT !.codes[c.id] = Updated(c, b.codes[c.id])]
             /\ a.body = [result |-> "ok", access_code |->
                            EchoedCode(c.id, AccessCodeRequest(c).json)]
    \/ /\ c.op = "delete_access_code"
       /\ \/ /\ c.id \notin Managed(b) /\ a.to = b
             /\ a.status = 404 /\ a.body.code = "not_found"
          \/ /\ a.status = 200 /\ c.id \in Managed(b)
             /\ a.to = [b EXCEPT !.codes[c.id] = Gone]
             /\ a.body = [result |-> "ok", directory_access_code_id |-> c.id]
    \/ /\ c.op = "set_access_code_mode"
       /\ \/ /\ c.mode = b.mode /\ a.to = b /\ a.status = 200
             /\ a.body = [result |-> "ok", mode |-> b.mode, changed |-> FALSE]
          \/ /\ c.mode # b.mode /\ ~IsTrue(c.confirm) /\ a.to = b
             /\ a.status = 409 /\ a.body.code = "requires_confirmation"
          \/ /\ c.mode # b.mode /\ a.to = FlipMode(b, c.mode) /\ a.status = 200
             /\ IsTrue(c.confirm)
             /\ a.body = [result |-> "ok", mode |-> c.mode, changed |-> TRUE,
                          deleted_codes |-> Cardinality(Live(b.codes))]

LEMMA CodeAnswer ==
    ASSUME NEW b \in CodeBooks, NEW c \in AccessCodeCalls,
           NEW a, a = AccessCodeServe(b, AccessCodeRequest(c))
    PROVE  CodeAnswers(c, b, a)
<1>1. CASE c.op = "create_access_code"
  <2>1. c.latch_ids \in GateLists
      BY <1>1, CodeCallsAre
  <2>2. AccessCodeRequest(c) = [path |-> "access-codes", json |-> [latch_ids |-> c.latch_ids]]
      BY <1>1 DEF AccessCodeRequest
  <2> DEFINE i == NextUnused(b.codes)
             to == [b EXCEPT !.codes[i] = [disabled |-> FALSE, latches |-> c.latch_ids]]
  <2>3. a = IF Managed(b) # {} THEN Refuses(b, 409, "duplicate_code")
            ELSE IF Unused(b.codes) = {} THEN Refuses(b, 422, "bound")
            ELSE Says(to, 200, [result |-> "ok", access_code |-> CodeFields(to, i)])
    <3>1. PICK r : r = AccessCodeRequest(c)
        OBVIOUS
    <3>2. r.path = "access-codes" /\ r.json.latch_ids = c.latch_ids
        BY <2>2, <3>1
    <3>3. a = AccessCodeServe(b, r)
        BY <3>1
    <3> QED
        BY <3>2, <3>3 DEF AccessCodeServe
  <2>4. Unused(b.codes) # {} => i \in Unused(b.codes)
    <3>1. DOMAIN b.codes \subseteq Nat
        BY CodeAssumption DEF CodeBooks, CodeIds
    <3> QED
        BY <3>1, NextIsUnused
  <2> HIDE DEF i
  <2>5. CASE Managed(b) # {} \/ Unused(b.codes) = {}
      BY <1>1, <2>1, <2>3, <2>5 DEF CodeAnswers, Refuses, Says
  <2>6. CASE ~(Managed(b) # {} \/ Unused(b.codes) = {})
    <3>1. a.status = 200 /\ a.to = to
          /\ a.body = [result |-> "ok", access_code |-> CodeFields(a.to, i)]
        BY <2>3, <2>6 DEF Says
    <3> QED
        BY <1>1, <2>1, <2>4, <2>6, <3>1 DEF CodeAnswers
  <2> QED
      BY <2>5, <2>6
<1>2. CASE c.op = "update_access_code"
  <2>1. PICK r : r = AccessCodeRequest(c)
      OBVIOUS
  <2>2. /\ r.path = "access-codes/id" /\ r.id = c.id
        /\ \A default : Get(r.json, "disabled", default) =
              IF c.disabled # None THEN c.disabled ELSE default
        /\ \A default : Get(r.json, "latch_ids", default) =
              IF c.latch_ids # None THEN c.latch_ids ELSE default
      BY <1>2, <2>1, CodePatch
  <2>3. EditCode(b, c.id, r.json) = [b EXCEPT !.codes[c.id] = Updated(c, b.codes[c.id])]
      BY <2>2 DEF EditCode, Updated, CodeBooks
  <2>4. a = IF c.id \notin Managed(b) THEN Refuses(b, 404, "not_found")
            ELSE IF DOMAIN r.json = {} THEN Refuses(b, 400, "empty_body")
            ELSE Says(EditCode(b, c.id, r.json), 200,
                      [result |-> "ok", access_code |-> EchoedCode(c.id, r.json)])
    <3>1. a = AccessCodeServe(b, r)
        BY <2>1
    <3> QED
        BY <2>2, <3>1 DEF AccessCodeServe
  <2> QED
      BY <1>2, <2>1, <2>3, <2>4 DEF CodeAnswers, Refuses, Says
<1>3. CASE c.op = "delete_access_code"
  <2>1. AccessCodeRequest(c) = [path |-> "access-codes/delete", id |-> c.id, json |-> NoFields]
      BY <1>3 DEF AccessCodeRequest
  <2>2. a = IF c.id \notin Managed(b) THEN Refuses(b, 404, "not_found")
            ELSE Says([b EXCEPT !.codes[c.id] = Gone], 200,
                      [result |-> "ok", directory_access_code_id |-> c.id])
      BY <2>1 DEF AccessCodeServe
  <2> QED
      BY <1>3, <2>2 DEF CodeAnswers, Refuses, Says
<1>4. CASE c.op = "set_access_code_mode"
  <2>1. AccessCodeRequest(c) = [path |-> "access-codes/mode",
          json |-> [mode |-> c.mode, confirm |-> IsTrue(c.confirm)]]
      BY <1>4 DEF AccessCodeRequest, Confirmed
  <2>2. a = IF c.mode = b.mode
            THEN Says(b, 200, [result |-> "ok", mode |-> b.mode, changed |-> FALSE])
            ELSE IF ~IsTrue(c.confirm)
            THEN Says(b, 409, [code |-> "requires_confirmation",
                               preview |-> Preview(b, c.mode)])
            ELSE Says(FlipMode(b, c.mode), 200,
                      [result |-> "ok", mode |-> c.mode, changed |-> TRUE,
                       deleted_codes |-> Cardinality(Live(b.codes))])
    <3>1. PICK r : r = AccessCodeRequest(c)
        OBVIOUS
    <3>2. r.path = "access-codes/mode" /\ r.json.mode = c.mode
        BY <2>1, <3>1
    <3>3. r.json.confirm <=> IsTrue(c.confirm)
        BY <2>1, <3>1
    <3>4. a = AccessCodeServe(b, r)
        BY <3>1
    <3> QED
        BY <3>2, <3>3, <3>4 DEF AccessCodeServe
  <2> QED
      BY <1>4, <2>2 DEF CodeAnswers, Says
<1> QED
    BY <1>1, <1>2, <1>3, <1>4, CodeCallsAre

\* Codes that a key has minted are not the resident's, and their rows are rows.
LEMMA CodesAre ==
    ASSUME NEW b \in CodeBooks
    PROVE  /\ DOMAIN b.codes = CodeIds /\ Live(b.codes) \subseteq CodeIds
           /\ \A i \in Live(b.codes) : b.codes[i] \in CodeRow
           /\ \A i \in Unused(b.codes) : i \in CodeIds /\ i # Resident
           /\ \A i \in Managed(b) : i \in Live(b.codes) /\ i # Resident
           /\ b.mode \in Modes
<1>1. /\ b.mode \in Modes /\ b.codes \in [CodeIds -> CodeRow \cup {Never, Gone}]
      /\ b.codes[Resident] \in {Gone, [disabled |-> FALSE, latches |-> Gates]}
    BY DEF CodeBooks
<1>2. /\ b.codes[Resident] # Never
      /\ \A row \in CodeRow : row \notin {Never, Gone}
    BY <1>1, CodeRowAssumption, SlotAssumption DEF CodeRow, GateLists
<1> QED
    BY <1>1, <1>2 DEF Live, Unused, Managed

LEMMA CodesTyped ==
    ASSUME NEW b \in CodeBooks, NEW c \in AccessCodeCalls, NEW a, CodeAnswers(c, b, a)
    PROVE  a.to \in CodeBooks
<1>1. ASSUME NEW i \in CodeIds, i # Resident, NEW row \in CodeRow \cup {Gone}
      PROVE  [b EXCEPT !.codes[i] = row] \in CodeBooks
    BY <1>1, CodeAssumption DEF CodeBooks
<1>2. CASE c.op = "create_access_code" /\ a.to # b
  <2> DEFINE row == [disabled |-> FALSE, latches |-> c.latch_ids]
  <2>1. row \in CodeRow
      BY <1>2 DEF CodeAnswers, CodeRow
  <2>2. PICK i \in Unused(b.codes) : a.to = [b EXCEPT !.codes[i] = row]
      BY <1>2 DEF CodeAnswers
  <2> HIDE DEF row
  <2> QED
      BY <1>1, <2>1, <2>2, CodesAre
<1>3. CASE c.op = "update_access_code" /\ a.to # b
  <2>1. /\ c.id \in Managed(b)
        /\ a.to = [b EXCEPT !.codes[c.id] = Updated(c, b.codes[c.id])]
      BY <1>3 DEF CodeAnswers
  <2>2. Updated(c, b.codes[c.id]) \in CodeRow
      BY <1>3, <2>1, CodesAre, CodeCallsAre DEF Updated, CodeRow
  <2> QED
      BY <1>1, <2>1, <2>2, CodesAre
<1>4. CASE c.op = "delete_access_code" /\ a.to # b
    BY <1>1, <1>4, CodesAre DEF CodeAnswers
<1>5. CASE c.op = "set_access_code_mode" /\ a.to # b
  <2>1. a.to = FlipMode(b, c.mode) /\ c.mode \in Modes
      BY <1>5, CodeCallsAre DEF CodeAnswers
  <2> DEFINE codes == [i \in CodeIds |-> IF i \in Live(b.codes) THEN Gone ELSE b.codes[i]]
  <2>2. a.to = [mode |-> c.mode, codes |-> codes]
      BY <2>1 DEF FlipMode, CodeBooks
  <2>3. /\ codes \in [CodeIds -> CodeRow \cup {Never, Gone}]
        /\ codes[Resident] = Gone
      BY CodeAssumption, CodesAre DEF CodeBooks, Live, Unused
  <2> HIDE DEF codes
  <2> QED
      BY <2>1, <2>2, <2>3 DEF CodeBooks
<1> QED
    BY <1>2, <1>3, <1>4, <1>5, CodeCallsAre

LEMMA CodesKeepWithin ==
    ASSUME NEW b \in CodeBooks, NEW c \in AccessCodeCalls, NEW a, CodeAnswers(c, b, a)
    PROVE  AccessCodeWithin(c, b, a.to)
<1>1. CASE a.to = b
    BY <1>1, CodeCallsAre DEF AccessCodeWithin
<1>2. CASE c.op = "create_access_code" /\ a.to # b
  <2>1. PICK i \in Unused(b.codes) : \E row : a.to = [b EXCEPT !.codes[i] = row]
      BY <1>2 DEF CodeAnswers
  <2> QED
      BY <1>2, <2>1 DEF AccessCodeWithin, CodeBooks
<1>3. CASE c.op = "update_access_code" /\ a.to # b
  <2>1. /\ c.id \in CodeIds
        /\ a.to = [b EXCEPT !.codes[c.id] = Updated(c, b.codes[c.id])]
      BY <1>3, CodeCallsAre DEF CodeAnswers
  <2>2. /\ a.to.mode = b.mode /\ a.to.codes[c.id] = Updated(c, b.codes[c.id])
        /\ \A i \in CodeIds \ {c.id} : a.to.codes[i] = b.codes[i]
      BY <2>1 DEF CodeBooks
  <2>3. /\ c.disabled = None => a.to.codes[c.id].disabled = b.codes[c.id].disabled
        /\ c.latch_ids = None => a.to.codes[c.id].latches = b.codes[c.id].latches
      BY <2>2 DEF Updated
  <2> QED
      BY <1>3, <2>2, <2>3 DEF AccessCodeWithin
<1>4. CASE c.op = "delete_access_code" /\ a.to # b
    BY <1>4 DEF CodeAnswers, AccessCodeWithin, CodeBooks
<1>5. CASE c.op = "set_access_code_mode" /\ a.to # b
  <2>1. a.to = FlipMode(b, c.mode) /\ c.mode # b.mode
      BY <1>5 DEF CodeAnswers
  <2> QED
      BY <1>5, <2>1 DEF FlipMode, CodeBooks, AccessCodeWithin
<1> QED
    BY <1>1, <1>2, <1>3, <1>4, <1>5, CodeCallsAre

LEMMA CodesKeepMeant ==
    ASSUME NEW b \in CodeBooks, NEW c \in AccessCodeCalls, NEW a, CodeAnswers(c, b, a),
           a.status \in 200..299
    PROVE  AccessCodeMeant(c, b, a.to)
<1>1. CASE c.op = "update_access_code"
  <2>1. /\ c.id \in CodeIds
        /\ a.to = [b EXCEPT !.codes[c.id] = Updated(c, b.codes[c.id])]
      BY <1>1, CodeCallsAre DEF CodeAnswers
  <2>2. a.to.codes[c.id] = Updated(c, b.codes[c.id])
      BY <2>1 DEF CodeBooks
  <2> QED
      BY <1>1, <2>2 DEF AccessCodeMeant, Updated
<1>2. CASE c.op = "set_access_code_mode"
  <2>1. \/ c.mode = b.mode /\ a.to = b
        \/ c.mode # b.mode /\ a.to = FlipMode(b, c.mode)
      BY <1>2 DEF CodeAnswers
  <2>2. a.to.mode = c.mode /\ (a.to.mode = b.mode => a.to.codes = b.codes)
      BY <2>1 DEF FlipMode, CodeBooks
  <2> QED
      BY <1>2, <2>2 DEF AccessCodeMeant
<1> QED
    BY <1>1, <1>2 DEF AccessCodeMeant

\* How the answers to the four writes are read.
LEMMA CodeCreatedRead ==
    ASSUME NEW b \in CodeBooks, NEW c \in AccessCodeCalls, NEW a, CodeAnswers(c, b, a),
           a.status \in 200..299, c.op = "create_access_code"
    PROVE  \E i \in Managed(a.to) : AccessCodeResult(c, a.body) =
              [id |-> i, latch_ids |-> a.to.codes[i].latches, simulated |-> FALSE]
<1> DEFINE x == AccessCodeResult(c, a.body)
<1> DEFINE row == [disabled |-> FALSE, latches |-> c.latch_ids]
<1>1. PICK i \in Unused(b.codes) :
        /\ a.to = [b EXCEPT !.codes[i] = row] /\ c.latch_ids \in GateLists
        /\ a.body = [result |-> "ok", access_code |-> CodeFields(a.to, i)]
  <2> DEFINE made == \E i \in Unused(b.codes) :
                       /\ a.to = [b EXCEPT !.codes[i] = row]
                       /\ a.body = [result |-> "ok", access_code |-> CodeFields(a.to, i)]
  <2>1. c.latch_ids \in GateLists /\ (a.status \in {409, 422} \/ made)
      BY DEF CodeAnswers
  <2>2. a.status \notin {409, 422}
      OBVIOUS
  <2> HIDE DEF made
  <2>3. made
      BY <2>1, <2>2
  <2> HIDE DEF row
  <2> QED
      BY <2>1, <2>3 DEF made
<1>2. i \in CodeIds /\ i # Resident
    BY <1>1, CodesAre
<1>3. a.to.codes[i] = row /\ DOMAIN a.to.codes = CodeIds
    BY <1>1, <1>2 DEF CodeBooks
<1>4. row \notin {Never, Gone} /\ row.latches = c.latch_ids /\ c.latch_ids # None
    BY <1>1, CodeRowAssumption, GatesAssumption DEF GateLists
<1> HIDE DEF row
<1>5. i \in Managed(a.to)
    BY <1>2, <1>3, <1>4 DEF Managed, Live
<1>6. Unwrap(a.body, "access_code") = CodeFields(a.to, i)
      /\ Get(a.body, "result", None) = "ok"
    BY <1>1 DEF Unwrap, Get
<1>7. /\ Get(CodeFields(a.to, i), "directory_access_code_id", None) = i
      /\ GetOr(CodeFields(a.to, i), "latch_ids", {}) = a.to.codes[i].latches
    BY <1>3, <1>4 DEF CodeFields, Get, GetOr
<1>8. x = AccessCodeCreated(a.body)
    BY DEF AccessCodeResult
<1>9. x = [id |-> i, latch_ids |-> a.to.codes[i].latches, simulated |-> FALSE]
    BY <1>6, <1>7, <1>8 DEF AccessCodeCreated
<1> QED
    BY <1>5, <1>9

LEMMA CodeUpdateRead ==
    ASSUME NEW b \in CodeBooks, NEW c \in AccessCodeCalls, NEW a, CodeAnswers(c, b, a),
           a.status \in 200..299, c.op = "update_access_code"
    PROVE  AccessCodeResult(c, a.body) =
             [id |-> c.id, api_managed |-> FALSE,
              disabled |-> IF c.disabled # None THEN c.disabled ELSE FALSE,
              latch_ids |-> IF c.latch_ids # None THEN c.latch_ids ELSE {},
              simulated |-> FALSE]
<1> DEFINE x == AccessCodeResult(c, a.body)
<1>1. PICK json : json = AccessCodeRequest(c).json
    OBVIOUS
<1>2. PICK code : code = EchoedCode(c.id, json)
    OBVIOUS
<1>3. a.body = [result |-> "ok", access_code |-> code]
    BY <1>1, <1>2 DEF CodeAnswers
<1>4. /\ DOMAIN json \subseteq {"disabled", "latch_ids"}
      /\ Get(json, "disabled", None) = IF c.disabled # None THEN c.disabled ELSE None
      /\ Get(json, "latch_ids", None) = IF c.latch_ids # None THEN c.latch_ids ELSE None
    BY <1>1, CodePatch
<1>5. /\ Get(code, "directory_access_code_id", None) = c.id
      /\ Get(code, "api_managed", None) = None
      /\ Get(code, "disabled", None) = Get(json, "disabled", None)
      /\ Get(code, "latch_ids", None) = Get(json, "latch_ids", None)
    BY <1>2, <1>4 DEF EchoedCode, Get
<1>6. GetOr(code, "latch_ids", {}) = IF c.latch_ids # None THEN c.latch_ids ELSE {}
    BY <1>4, <1>5 DEF GetOr, Get
<1>7. /\ Bool(None) = FALSE
      /\ Bool(Get(code, "disabled", None)) = IF c.disabled # None THEN c.disabled ELSE FALSE
    BY <1>4, <1>5, BoolOfBoolean, BoolOfNone, CodeCallsAre
<1>8. Unwrap(a.body, "access_code") = code /\ Get(a.body, "result", None) = "ok"
    BY <1>3 DEF Unwrap, Get
<1>9. x = AccessCode(a.body)
    BY DEF AccessCodeResult
<1> QED
    BY <1>5, <1>6, <1>7, <1>8, <1>9 DEF AccessCode

LEMMA CodeDeletedRead ==
    ASSUME NEW b \in CodeBooks, NEW c \in AccessCodeCalls, NEW a, CodeAnswers(c, b, a),
           a.status \in 200..299, c.op = "delete_access_code"
    PROVE  AccessCodeResult(c, a.body) = [id |-> c.id, simulated |-> FALSE]
<1> DEFINE x == AccessCodeResult(c, a.body)
<1>1. a.body = [result |-> "ok", directory_access_code_id |-> c.id]
    BY DEF CodeAnswers
<1>2. /\ Get(a.body, "directory_access_code_id", None) = c.id
      /\ Get(a.body, "result", None) = "ok"
    BY <1>1 DEF Get
<1>3. x = AccessCodeDeleted(a.body)
    BY DEF AccessCodeResult
<1>4. x = [id |-> c.id, simulated |-> FALSE]
    BY <1>2, <1>3 DEF AccessCodeDeleted
<1> QED
    BY <1>4

LEMMA CodeModeRead ==
    ASSUME NEW b \in CodeBooks, NEW c \in AccessCodeCalls, NEW a, CodeAnswers(c, b, a),
           a.status \in 200..299, c.op = "set_access_code_mode"
    PROVE  AccessCodeResult(c, a.body) =
             [mode |-> c.mode, changed |-> c.mode # b.mode,
              deleted_codes |-> IF c.mode = b.mode THEN None
                                ELSE Cardinality(Live(b.codes)),
              would_change |-> None, simulated |-> FALSE]
<1> DEFINE x == AccessCodeResult(c, a.body)
<1>1. x = AccessCodeModeChange(a.body)
    BY DEF AccessCodeResult
<1>2. CASE c.mode = b.mode
  <2>1. a.body = [result |-> "ok", mode |-> b.mode, changed |-> FALSE]
      BY <1>2 DEF CodeAnswers
  <2>2. /\ Get(a.body, "mode", None) = c.mode /\ Get(a.body, "changed", None) = FALSE
        /\ Get(a.body, "deleted_codes", None) = None
        /\ GetOr(a.body, "would_change", None) = None /\ Get(a.body, "result", None) = "ok"
      BY <1>2, <2>1 DEF Get, GetOr
  <2>3. Bool(FALSE) = FALSE /\ (c.mode # b.mode) = FALSE
      BY <1>2, BoolOfBoolean
  <2> QED
      BY <1>1, <1>2, <2>2, <2>3 DEF AccessCodeModeChange
<1>3. CASE c.mode # b.mode
  <2>1. a.body = [result |-> "ok", mode |-> c.mode, changed |-> TRUE,
                  deleted_codes |-> Cardinality(Live(b.codes))]
      BY <1>3 DEF CodeAnswers
  <2>2. /\ Get(a.body, "mode", None) = c.mode /\ Get(a.body, "changed", None) = TRUE
        /\ Get(a.body, "deleted_codes", None) = Cardinality(Live(b.codes))
        /\ GetOr(a.body, "would_change", None) = None /\ Get(a.body, "result", None) = "ok"
      BY <1>3, <2>1 DEF Get, GetOr
  <2>3. Bool(TRUE) = TRUE /\ (c.mode # b.mode) = TRUE
      BY <1>3, BoolOfBoolean
  <2> QED
      BY <1>1, <1>3, <2>2, <2>3 DEF AccessCodeModeChange
<1> QED
    BY <1>2, <1>3

LEMMA CodesKeepHonest ==
    ASSUME NEW b \in CodeBooks, NEW c \in AccessCodeCalls, NEW a, CodeAnswers(c, b, a),
           NEW r, r.call = c, EndsWith(r, a, AccessCodeResult(c, a.body)),
           NEW before \in CodeBooks, NEW alone, r.trace.applied = 1 => before = b,
           r.trace.applied # 1 /\ alone =>
               \E first : CodeAnswers(c, before, first) /\ b = first.to
    PROVE  AccessCodeHonest(r, before, a.to, alone)
<1> DEFINE result == AccessCodeResult(c, a.body)
<1>1. CASE a.status = 200
  <2>1. r.raised = None /\ r.result = result
      BY <1>1 DEF EndsWith
  <2>2. r.raised \notin {"NotFoundError", "ConflictError"}
      BY <2>1, ExceptionsAssumption DEF Exceptions
  <2>3. PICK x : x = r.result /\ x = AccessCodeResult(c, a.body)
      BY <2>1
  <2>s. a.status \in 200..299
      BY <1>1
  <2> HIDE DEF result
  <2>4. CASE c.op = "create_access_code"
    <3>1. PICK i \in Managed(a.to) : x =
            [id |-> i, latch_ids |-> a.to.codes[i].latches, simulated |-> FALSE]
        BY <2>3, <2>s, <2>4, CodeCreatedRead
    <3> QED
        BY <2>2, <2>3, <2>4, <3>1 DEF AccessCodeHonest
  <2>5. CASE c.op = "update_access_code"
    <3>1. x = [id |-> c.id, api_managed |-> FALSE,
               disabled |-> IF c.disabled # None THEN c.disabled ELSE FALSE,
               latch_ids |-> IF c.latch_ids # None THEN c.latch_ids ELSE {},
               simulated |-> FALSE]
        BY <2>3, <2>s, <2>5, CodeUpdateRead
    <3>2. /\ c.disabled # None => a.to.codes[c.id].disabled = c.disabled
          /\ c.latch_ids # None => a.to.codes[c.id].latches = c.latch_ids
        BY <1>1, <2>5, CodesKeepMeant DEF AccessCodeMeant
    <3> DEFINE off == IF c.disabled # None THEN c.disabled ELSE FALSE
               gates == IF c.latch_ids # None THEN c.latch_ids ELSE {}
    <3>3. x.id = c.id /\ x.disabled = off /\ x.latch_ids = gates
      <4> HIDE DEF off, gates
      <4>1. x = [id |-> c.id, api_managed |-> FALSE, disabled |-> off,
                 latch_ids |-> gates, simulated |-> FALSE]
          BY <3>1 DEF off, gates
      <4> QED
          BY <4>1
    <3>4. /\ c.disabled # None => x.disabled = a.to.codes[c.id].disabled
          /\ c.latch_ids # None => x.latch_ids = a.to.codes[c.id].latches
        BY <3>2, <3>3
    <3> HIDE DEF off, gates
    <3>5. /\ r.result.id = c.id
          /\ c.disabled # None => r.result.disabled = a.to.codes[c.id].disabled
          /\ c.latch_ids # None => r.result.latch_ids = a.to.codes[c.id].latches
        BY <2>3, <3>3, <3>4
    <3> QED
        BY <2>2, <2>5, <3>5 DEF AccessCodeHonest
  <2>6. CASE c.op = "delete_access_code"
    <3>1. c.id \notin Managed(a.to)
      <4>1. c.id \in Managed(b) /\ a.to = [b EXCEPT !.codes[c.id] = Gone]
          BY <1>1, <2>6 DEF CodeAnswers
      <4>2. c.id \in CodeIds
          BY <4>1, CodesAre
      <4> QED
          BY <4>1, <4>2 DEF Managed, Live, CodeBooks
    <3> QED
        BY <2>2, <2>6, <3>1 DEF AccessCodeHonest
  <2>7. CASE c.op = "set_access_code_mode"
    <3>1. x = [mode |-> c.mode, changed |-> c.mode # b.mode,
               deleted_codes |-> IF c.mode = b.mode THEN None
                                 ELSE Cardinality(Live(b.codes)),
               would_change |-> None, simulated |-> FALSE]
        BY <2>3, <2>s, <2>7, CodeModeRead
    <3>2. a.to.mode = c.mode
        BY <1>1, <2>7, CodesKeepMeant DEF AccessCodeMeant
    <3> DEFINE other == c.mode # b.mode
               number == IF c.mode = b.mode THEN None ELSE Cardinality(Live(b.codes))
    <3>3. x.mode = c.mode /\ x.changed = other /\ x.deleted_codes = number
      <4> HIDE DEF other, number
      <4>1. x = [mode |-> c.mode, changed |-> other, deleted_codes |-> number,
                 would_change |-> None, simulated |-> FALSE]
          BY <3>1 DEF other, number
      <4> QED
          BY <4>1
    <3>4. r.trace.applied = 1 =>
             /\ x.changed <=> a.to.mode # before.mode
             /\ x.changed => x.deleted_codes = Cardinality(Live(before.codes))
        BY <3>2, <3>3
    <3>5. r.trace.applied # 1 /\ alone => c.mode = b.mode
      <4> SUFFICES ASSUME r.trace.applied # 1, alone
                   PROVE  c.mode = b.mode
          OBVIOUS
      <4>1. PICK first : CodeAnswers(c, before, first) /\ b = first.to
          OBVIOUS
      <4>2. CASE c.mode = before.mode
          BY <2>7, <4>1, <4>2 DEF CodeAnswers
      <4>3. CASE c.mode # before.mode /\ ~IsTrue(c.confirm)
          BY <1>1, <2>7, <4>1, <4>3 DEF CodeAnswers
      <4>4. CASE b = FlipMode(before, c.mode)
        <5>1. PICK was, mode, codes :
                 /\ was = before /\ was \in CodeBooks /\ mode = c.mode
                 /\ b = [was EXCEPT !.mode = mode, !.codes = codes]
            BY <4>4 DEF FlipMode
        <5> QED
            BY <5>1 DEF CodeBooks
      <4> QED
          BY <2>7, <4>1, <4>2, <4>3, <4>4 DEF CodeAnswers
    <3>6. r.trace.applied # 1 /\ alone => ~x.changed
        BY <3>3, <3>5
    <3>7. alone => /\ x.changed <=> r.trace.applied = 1 /\ a.to.mode # before.mode
                   /\ x.changed => x.deleted_codes = Cardinality(Live(before.codes))
        BY <3>4, <3>6
    <3> HIDE DEF other, number
    <3> QED
        BY <2>2, <2>3, <2>7, <3>2, <3>3, <3>7 DEF AccessCodeHonest
  <2> QED
      BY <2>4, <2>5, <2>6, <2>7, CodeCallsAre
<1>2. CASE a.status # 200
  <2>1. /\ a.to = b
        /\ \/ a.status \in {400, 422} /\ a.body.code # "did_not_open"
           \/ /\ a.status = 404 /\ a.body.code # "did_not_open"
              /\ c.op = "delete_access_code" => c.id \notin Managed(b)
           \/ /\ a.status = 409 /\ a.body.code # "did_not_open"
              /\ c.op = "create_access_code" => Managed(b) # {}
              /\ c.op = "set_access_code_mode" => c.mode # b.mode
      BY <1>2 DEF CodeAnswers
  <2>2. \/ r.raised \in {"BadRequestError", "APIError"}
        \/ /\ r.raised = "NotFoundError"
           /\ c.op = "delete_access_code" => c.id \notin Managed(a.to)
        \/ /\ r.raised = "ConflictError"
           /\ c.op = "create_access_code" => Managed(a.to) # {}
           /\ c.op = "set_access_code_mode" => c.mode # a.to.mode
      BY <2>1, Refusals DEF EndsWith
  <2>3. r.raised # None
      BY <2>2, ExceptionsAssumption DEF Exceptions
  <2> QED
      BY <2>2, <2>3 DEF AccessCodeHonest
<1> QED
    BY <1>1, <1>2

\* What a test key is told.
LEMMA CodeSwitchShown ==
    ASSUME NEW b \in CodeBooks, NEW c \in AccessCodeCalls, NEW a, CodeAnswers(c, b, a),
           a.status \in 200..299, c.op = "set_access_code_mode", c.mode # b.mode
    PROVE  AccessCodeResult(c, AccessCodeSimulated(b, AccessCodeRequest(c))) =
             [mode |-> None, changed |-> FALSE, deleted_codes |-> None,
              would_change |-> [new_mode |-> c.mode,
                codes_to_delete |-> Cardinality(Live(b.codes) \ Live(a.to.codes))],
              simulated |-> TRUE]
<1> DEFINE r == AccessCodeRequest(c)
           d == AccessCodeSimulated(b, r)
           preview == Preview(b, c.mode)
<1>1. r.path = "access-codes/mode" /\ r.json.mode = c.mode
  <2>1. r = [path |-> "access-codes/mode",
             json |-> [mode |-> c.mode, confirm |-> Confirmed(c.confirm)]]
      BY DEF AccessCodeRequest
  <2> QED
      BY <2>1
<1>2. d = [result |-> "simulated", would_change |-> preview]
  <2> HIDE DEF r
  <2> QED
      BY <1>1 DEF AccessCodeSimulated
<1>3. a.to = FlipMode(b, c.mode) /\ c.mode \in Modes
    BY CodeCallsAre DEF CodeAnswers
<1>4. Live(b.codes) \ Live(a.to.codes) = Live(b.codes)
  <2>1. \A i \in Live(b.codes) : a.to.codes[i] = Gone
      BY <1>3, CodesAre DEF FlipMode, CodeBooks
  <2> QED
      BY <2>1 DEF Live
<1>5. preview # None
  <2>1. IsFiniteSet(CodeIds) /\ Cardinality(CodeIds) = MaxCodeId
    <3>1. MaxCodeId \in Nat /\ 1 \in Int /\ MaxCodeId \in Int
        BY CodeAssumption
    <3>2. IsFiniteSet(1..MaxCodeId) /\ Cardinality(1..MaxCodeId) =
             IF 1 > MaxCodeId THEN 0 ELSE MaxCodeId - 1 + 1
        BY <3>1, FS_Interval
    <3> QED
        BY <3>1, <3>2 DEF CodeIds
  <2>2. Cardinality(Live(b.codes)) \in 0..MaxCodeId
      BY <2>1, CodeAssumption, CodesAre, FS_Subset, FS_CardinalityType
  <2> QED
      BY <1>3, <2>2, CodeRowAssumption DEF Preview
<1>6. AccessCodeModePreview(preview) =
        [new_mode |-> c.mode, codes_to_delete |-> Cardinality(Live(b.codes))]
    BY DEF AccessCodeModePreview, Preview, Get
<1> HIDE DEF preview
<1>7. /\ Get(d, "mode", None) = None /\ Get(d, "changed", None) = None
      /\ Get(d, "deleted_codes", None) = None /\ GetOr(d, "would_change", None) = preview
      /\ Get(d, "result", None) = "simulated" /\ d.would_change = preview
    BY <1>2, <1>5 DEF Get, GetOr
<1> HIDE DEF d
<1>8. AccessCodeResult(c, d) =
        [mode |-> None, changed |-> FALSE, deleted_codes |-> None,
         would_change |-> AccessCodeModePreview(preview), simulated |-> TRUE]
  <2>1. AccessCodeResult(c, d) = AccessCodeModeChange(d)
      BY DEF AccessCodeResult
  <2> QED
      BY <1>5, <1>7, <2>1, BoolOfNone DEF AccessCodeModeChange
<1> QED
    BY <1>4, <1>6, <1>8 DEF d

LEMMA CodesTold ==
    ASSUME NEW b \in CodeBooks, NEW c \in AccessCodeCalls, NEW a, CodeAnswers(c, b, a),
           a.status \in 200..299
    PROVE  /\ ~AccessCodeResult(c, a.body).simulated
           /\ a.to # b =>
                AccessCodeResult(c, AccessCodeSimulated(b, AccessCodeRequest(c))).simulated
<1>1. ~AccessCodeResult(c, a.body).simulated
  <2>1. PICK x : x = AccessCodeResult(c, a.body)
      OBVIOUS
  <2>2. CASE c.op = "create_access_code"
    <3>1. PICK i \in Managed(a.to) :
            x = [id |-> i, latch_ids |-> a.to.codes[i].latches, simulated |-> FALSE]
        BY <2>1, <2>2, CodeCreatedRead
    <3> QED
        BY <2>1, <3>1
  <2>3. CASE c.op = "update_access_code"
    <3>1. \E disabled, gates : x =
             [id |-> c.id, api_managed |-> FALSE, disabled |-> disabled,
              latch_ids |-> gates, simulated |-> FALSE]
        BY <2>1, <2>3, CodeUpdateRead
    <3> QED
        BY <2>1, <3>1
  <2>4. CASE c.op = "delete_access_code"
    <3>1. x = [id |-> c.id, simulated |-> FALSE]
        BY <2>1, <2>4, CodeDeletedRead
    <3> QED
        BY <2>1, <3>1
  <2>5. CASE c.op = "set_access_code_mode"
    <3> DEFINE other == c.mode # b.mode
               number == IF c.mode = b.mode THEN None ELSE Cardinality(Live(b.codes))
    <3>1. x = [mode |-> c.mode, changed |-> other, deleted_codes |-> number,
               would_change |-> None, simulated |-> FALSE]
        BY <2>1, <2>5, CodeModeRead
    <3> HIDE DEF other, number
    <3> QED
        BY <2>1, <3>1
  <2> QED
      BY <2>2, <2>3, <2>4, <2>5, CodeCallsAre
<1>2. ASSUME c.op # "set_access_code_mode"
      PROVE  AccessCodeResult(c, AccessCodeSimulated(b, AccessCodeRequest(c))).simulated
  <2>1. PICK r : r = AccessCodeRequest(c)
      OBVIOUS
  <2>2. r.path # "access-codes/mode"
      BY <1>2, <2>1, CodeCallsAre DEF AccessCodeRequest
  <2>3. AccessCodeSimulated(b, r) = [result |-> "simulated"]
      BY <2>2 DEF AccessCodeSimulated
  <2>4. PICK d : d = AccessCodeSimulated(b, r)
      OBVIOUS
  <2>5. Get(d, "result", None) = "simulated"
      BY <2>3, <2>4 DEF Get
  <2>6. AccessCodeResult(c, d).simulated
      BY <1>2, <2>5, CodeCallsAre
         DEF AccessCodeResult, AccessCode, AccessCodeCreated, AccessCodeDeleted
  <2> QED
      BY <2>1, <2>4, <2>6
<1>3. ASSUME c.op = "set_access_code_mode", a.to # b
      PROVE  AccessCodeResult(c, AccessCodeSimulated(b, AccessCodeRequest(c))).simulated
  <2>1. c.mode # b.mode
      BY <1>3 DEF CodeAnswers
  <2>2. AccessCodeResult(c, AccessCodeSimulated(b, AccessCodeRequest(c))) =
             [mode |-> None, changed |-> FALSE, deleted_codes |-> None,
              would_change |-> [new_mode |-> c.mode,
                codes_to_delete |-> Cardinality(Live(b.codes) \ Live(a.to.codes))],
              simulated |-> TRUE]
      BY <1>3, <2>1, CodeSwitchShown
  <2>3. PICK x : x = AccessCodeResult(c, AccessCodeSimulated(b, AccessCodeRequest(c)))
      OBVIOUS
  <2>4. x.simulated
      BY <2>2, <2>3
  <2> QED
      BY <2>3, <2>4
<1> QED
    BY <1>1, <1>2, <1>3

LEMMA CodesPreviewed ==
    ASSUME NEW b \in CodeBooks, NEW c \in AccessCodeCalls, NEW a, CodeAnswers(c, b, a),
           a.status \in 200..299,
           NEW r, r.call = c, r.result.simulated,
           r.result = AccessCodeResult(c, AccessCodeSimulated(b, AccessCodeRequest(c)))
    PROVE  AccessCodePreviews(r, b, a.to)
<1>1. ASSUME c.op = "set_access_code_mode" PROVE c.mode # b.mode
  <2> SUFFICES ASSUME c.mode = b.mode PROVE FALSE
      OBVIOUS
  <2>1. AccessCodeSimulated(b, AccessCodeRequest(c)) = AccessCodeServe(b, AccessCodeRequest(c)).body
    <3>1. AccessCodeRequest(c) = [path |-> "access-codes/mode",
             json |-> [mode |-> c.mode, confirm |-> Confirmed(c.confirm)]]
        BY <1>1 DEF AccessCodeRequest
    <3>2. PICK q : q = AccessCodeRequest(c)
        OBVIOUS
    <3>3. q.path = "access-codes/mode" /\ q.json.mode = c.mode
        BY <3>1, <3>2
    <3>4. AccessCodeSimulated(b, q) = AccessCodeServe(b, q).body
        BY <3>3 DEF AccessCodeSimulated
    <3> QED
        BY <3>2, <3>4
  <2>2. PICK now : now = AccessCodeServe(b, AccessCodeRequest(c))
      OBVIOUS
  <2>3. CodeAnswers(c, b, now)
      BY <2>2, CodeAnswer
  <2>4. now.status \in 200..299
      BY <1>1, <2>3 DEF CodeAnswers
  <2>5. ~AccessCodeResult(c, now.body).simulated
      BY <2>3, <2>4, CodesTold
  <2> QED
      BY <2>1, <2>2, <2>5
<1>2. ASSUME c.op = "set_access_code_mode"
      PROVE  /\ r.result.would_change.codes_to_delete
                  = Cardinality(Live(b.codes) \ Live(a.to.codes))
             /\ ~r.result.changed /\ r.result.mode = None
    BY <1>1, <1>2, CodeSwitchShown
<1> QED
    BY <1>2 DEF AccessCodePreviews

----------------------------------------------------------------------------
(* The NFC tags.                                                           *)

\* The tag after the fields that were given.
TagEdited(c, b) ==
    [b EXCEPT !.tags[c.tag] =
        [latch |-> IF c.latch_id # Unset THEN c.latch_id ELSE b.tags[c.tag].latch,
         disabled |-> IF c.disabled # None THEN c.disabled ELSE b.tags[c.tag].disabled]]

TagAnswers(c, b, a) ==
    \/ /\ a.to = b /\ a.status \in {409, 422}
       /\ a.body.code \in {"empty_patch", "conflicting_fields", "requires_confirmation"}
    \/ /\ a.status = 200 /\ a.to = TagEdited(c, b)
       /\ a.body = TagEnvelope(a.to, c.tag)

LEMMA TagCallsAre ==
    ASSUME NEW c \in NfcTagCalls
    PROVE  /\ c.tag \in Tags /\ c.disabled \in BOOLEAN \cup {None}
           /\ c.latch_id \in Gates \cup {None, Unset}
BY DEF NfcTagCalls, update_nfc_tag

\* What a PATCH says of the two fields: nothing, if the argument is not given.
LEMMA TagPatch ==
    ASSUME NEW c \in NfcTagCalls
    PROVE  /\ NfcTagRequest(c).id = c.tag
           /\ \A default : Get(NfcTagRequest(c).json, "latch_id", default) =
                IF c.latch_id # Unset THEN c.latch_id ELSE default
           /\ \A default : Get(NfcTagRequest(c).json, "disabled", default) =
                IF c.disabled # None THEN c.disabled ELSE default
<1> DEFINE optional == [disabled |-> IF c.disabled = None THEN None ELSE Bool(c.disabled),
                        confirm |-> IF c.confirm = None THEN None ELSE IsTrue(c.confirm)]
<1>1. NfcTagRequest(c) = [path |-> "nfc-tags/id", id |-> c.tag,
                          json |-> Body(LatchField(c), optional)]
    BY DEF NfcTagRequest
<1>2. optional["disabled"] = c.disabled
  <2>1. c.disabled # None => Bool(c.disabled) = c.disabled
      BY TagCallsAre, BoolOfBoolean
  <2> QED
      BY <2>1
<1>3. DOMAIN optional = {"disabled", "confirm"}
    OBVIOUS
<1> HIDE DEF optional
<1>4. PICK always, sent : always = LatchField(c) /\ sent = optional
    OBVIOUS
<1>5. PICK json : json = Body(always, sent)
    OBVIOUS
<1>6. NfcTagRequest(c).id = c.tag /\ NfcTagRequest(c).json = json
    BY <1>1, <1>4, <1>5
<1>7. /\ c.latch_id # Unset => "latch_id" \in DOMAIN always /\ always["latch_id"] = c.latch_id
      /\ c.latch_id = Unset => "latch_id" \notin DOMAIN always
      /\ "disabled" \notin DOMAIN always
    BY <1>4 DEF LatchField, NoFields
<1>8. "latch_id" \notin DOMAIN sent /\ "disabled" \in DOMAIN sent /\ sent["disabled"] = c.disabled
    BY <1>2, <1>3, <1>4
<1>9. \A default : Get(json, "latch_id", default) =
                IF c.latch_id # Unset THEN c.latch_id ELSE default
    BY <1>5, <1>7, <1>8, RequiredField, AbsentField
<1>10. \A default : Get(json, "disabled", default) =
                IF sent["disabled"] # None THEN sent["disabled"] ELSE default
    BY <1>5, <1>7, <1>8, OptionalField
<1> QED
    BY <1>6, <1>8, <1>9, <1>10

LEMMA TagAnswer ==
    ASSUME NEW b \in TagBoards, NEW c \in NfcTagCalls,
           NEW a, a = NfcTagServe(b, NfcTagRequest(c))
    PROVE  TagAnswers(c, b, a)
<1>1. PICK r : r = NfcTagRequest(c)
    OBVIOUS
<1>2. /\ r.id = c.tag
      /\ \A default : Get(r.json, "latch_id", default) =
                IF c.latch_id # Unset THEN c.latch_id ELSE default
      /\ \A default : Get(r.json, "disabled", default) =
                IF c.disabled # None THEN c.disabled ELSE default
    BY <1>1, TagPatch
<1>3. EditTag(b, r.id, r.json) = TagEdited(c, b)
    BY <1>2, TagCallsAre DEF EditTag, TagEdited, TagBoards
<1>4. a = NfcTagServe(b, r)
    BY <1>1
<1>5. \/ \E code \in {"empty_patch", "conflicting_fields"} : a = Refuses(b, 422, code)
      \/ a = Refuses(b, 409, "requires_confirmation")
      \/ a = Says(EditTag(b, r.id, r.json), 200, TagEnvelope(EditTag(b, r.id, r.json), r.id))
    BY <1>4 DEF NfcTagServe
<1> QED
    BY <1>2, <1>3, <1>5 DEF TagAnswers, Says, Refuses

LEMMA TagsTyped ==
    ASSUME NEW b \in TagBoards, NEW c \in NfcTagCalls
    PROVE  /\ TagEdited(c, b) \in TagBoards
           /\ DOMAIN TagEdited(c, b).tags = Tags
           /\ TagEdited(c, b).tags[c.tag].latch =
                IF c.latch_id # Unset THEN c.latch_id ELSE b.tags[c.tag].latch
           /\ TagEdited(c, b).tags[c.tag].disabled =
                IF c.disabled # None THEN c.disabled ELSE b.tags[c.tag].disabled
           /\ \A t \in Tags \ {c.tag} : TagEdited(c, b).tags[t] = b.tags[t]
<1> DEFINE latch == IF c.latch_id # Unset THEN c.latch_id ELSE b.tags[c.tag].latch
           off == IF c.disabled # None THEN c.disabled ELSE b.tags[c.tag].disabled
           tag == [latch |-> latch, disabled |-> off]
<1>1. latch \in Gates \cup {None} /\ off \in BOOLEAN /\ c.tag \in Tags
    BY TagCallsAre DEF TagBoards, TagStates
<1>2. tag \in TagStates
  <2> HIDE DEF latch, off
  <2> QED
      BY <1>1 DEF TagStates
<1>3. TagEdited(c, b) = [b EXCEPT !.tags[c.tag] = tag]
    BY DEF TagEdited
<1>a. PICK t0 \in Tags, row \in TagStates : t0 = c.tag /\ row = tag
    BY <1>1, <1>2
<1>4. /\ TagEdited(c, b) \in TagBoards /\ DOMAIN TagEdited(c, b).tags = Tags
      /\ TagEdited(c, b).tags[t0] = row
      /\ \A t \in Tags \ {t0} : TagEdited(c, b).tags[t] = b.tags[t]
  <2> HIDE DEF tag
  <2> QED
      BY <1>3, <1>a DEF TagBoards
<1>5. row.latch = latch /\ row.disabled = off
  <2> HIDE DEF latch, off
  <2> QED
      BY <1>a
<1> HIDE DEF tag
<1> QED
    BY <1>4, <1>5, <1>a

LEMMA TagsKeepWithin ==
    ASSUME NEW b \in TagBoards, NEW c \in NfcTagCalls, NEW a, TagAnswers(c, b, a)
    PROVE  NfcTagWithin(c, b, a.to)
<1>1. a.to = b \/ a.to = TagEdited(c, b)
    BY DEF TagAnswers
<1>2. CASE a.to = b
    BY <1>2 DEF NfcTagWithin
<1>3. CASE a.to = TagEdited(c, b)
    BY <1>3, TagsTyped DEF NfcTagWithin
<1> QED
    BY <1>1, <1>2, <1>3

LEMMA TagsKeepMeant ==
    ASSUME NEW b \in TagBoards, NEW c \in NfcTagCalls, NEW a, TagAnswers(c, b, a),
           a.status \in 200..299
    PROVE  NfcTagMeant(c, b, a.to)
<1>1. a.to = TagEdited(c, b)
    BY DEF TagAnswers
<1> QED
    BY <1>1, TagsTyped DEF NfcTagMeant

LEMMA TagRead ==
    ASSUME NEW b \in TagBoards, NEW t \in Tags
    PROVE  NfcTag(TagEnvelope(b, t)) =
             [tag_id |-> t, latch_id |-> b.tags[t].latch,
              disabled |-> b.tags[t].disabled, simulated |-> FALSE]
<1> DEFINE row == [tag_id |-> t, latch_id |-> b.tags[t].latch,
                   disabled |-> b.tags[t].disabled]
           d == TagEnvelope(b, t)
<1>1. d = [result |-> "ok", tag |-> row]
    BY DEF TagEnvelope
<1>2. /\ Get(row, "tag_id", None) = t /\ Get(row, "latch_id", None) = b.tags[t].latch
      /\ Get(row, "disabled", None) = b.tags[t].disabled
    BY DEF Get
<1>3. Bool(b.tags[t].disabled) = b.tags[t].disabled
    BY BoolOfBoolean DEF TagBoards, TagStates
<1> HIDE DEF row, d
<1>4. Unwrap(d, "tag") = row /\ Get(d, "result", None) = "ok"
    BY <1>1 DEF Unwrap, Get
<1>5. NfcTag(d) = [tag_id |-> t, latch_id |-> b.tags[t].latch,
                   disabled |-> b.tags[t].disabled, simulated |-> FALSE]
    BY <1>2, <1>3, <1>4 DEF NfcTag
<1> QED
    BY <1>5 DEF d

LEMMA TagsTold ==
    ASSUME NEW b \in TagBoards, NEW c \in NfcTagCalls, NEW a, TagAnswers(c, b, a),
           a.status \in 200..299
    PROVE  ~NfcTag(a.body).simulated /\ NfcTag([result |-> "simulated"]).simulated
<1>1. ~NfcTag(a.body).simulated
  <2>1. a.body = TagEnvelope(a.to, c.tag) /\ a.to \in TagBoards /\ c.tag \in Tags
      BY TagsTyped, TagCallsAre DEF TagAnswers
  <2>2. PICK x : x = NfcTag(a.body)
      OBVIOUS
  <2>3. x = [tag_id |-> c.tag, latch_id |-> a.to.tags[c.tag].latch,
              disabled |-> a.to.tags[c.tag].disabled, simulated |-> FALSE]
      BY <2>1, <2>2, TagRead
  <2>4. ~x.simulated
      BY <2>3
  <2> QED
      BY <2>2, <2>4
<1>2. NfcTag([result |-> "simulated"]).simulated
    BY DEF NfcTag, Get
<1> QED
    BY <1>1, <1>2

LEMMA TagsKeepHonest ==
    ASSUME NEW b \in TagBoards, NEW c \in NfcTagCalls, NEW a, TagAnswers(c, b, a),
           NEW r, r.call = c, EndsWith(r, a, NfcTag(a.body)),
           NEW before, r.trace.applied = 1 => before = b, NEW alone
    PROVE  NfcTagHonest(r, before, a.to, alone)
<1>1. CASE a.status = 200
  <2>1. a.body = TagEnvelope(a.to, c.tag) /\ a.to \in TagBoards /\ c.tag \in Tags
      BY <1>1, TagsTyped, TagCallsAre DEF TagAnswers
  <2>2. r.raised = None /\ r.result = NfcTag(a.body)
      BY <1>1 DEF EndsWith
  <2>3. r.result = [tag_id |-> c.tag, latch_id |-> a.to.tags[c.tag].latch,
                    disabled |-> a.to.tags[c.tag].disabled, simulated |-> FALSE]
      BY <2>1, <2>2, TagRead
  <2> QED
      BY <2>2, <2>3 DEF NfcTagHonest
<1>2. CASE a.to = b /\ a.status \in {409, 422} /\ a.body.code # "did_not_open"
  <2>1. r.raised \in {"ConflictError", "APIError"}
      BY <1>2, Refusals DEF EndsWith
  <2>2. r.raised # None
      BY <2>1, ExceptionsAssumption DEF Exceptions
  <2> QED
      BY <1>2, <2>2 DEF NfcTagHonest
<1> QED
    BY <1>1, <1>2 DEF TagAnswers

----------------------------------------------------------------------------
(* The short codes.                                                        *)

\* The code n points to the gate of the call c.
PointsTo(c, b, n, a) ==
    /\ a.status = 200
    /\ a.to = [b EXCEPT !.codes[n] = c.latch_id]
    /\ a.body = [result |-> "ok", short_code |-> ShortRow(a.to, n)]

ShortClaimed(c, b, a) ==
    \E n \in ShortNames : PointsTo(c, b, n, a) /\ b.codes[n] = Never /\ c.code \in {n, None}

ShortAnswers(c, b, a) ==
    \/ /\ c.op = "create_short_code"
       /\ \/ /\ a.to = b /\ a.status = 409 /\ a.body.code = "short_code_taken"
             /\ c.code \in ShortNames /\ b.codes[c.code] # Never
          \/ a.to = b /\ a.status = 422 /\ a.body.code = "bound"
          \/ a.status = 200 /\ ShortClaimed(c, b, a)
    \/ /\ c.op = "assign_short_code"
       /\ \/ /\ a.to = b /\ a.status = 404 /\ a.body.code = "short_code_not_found"
             /\ c.code \notin Ours(b)
          \/ a.status = 200 /\ PointsTo(c, b, c.code, a) /\ c.code \in Ours(b)

LEMMA ShortCallsAre ==
    ASSUME NEW c \in ShortCodeCalls
    PROVE  \/ /\ c.op = "create_short_code" /\ c.code \in Claims \cup {None}
              /\ c.latch_id \in Gates \cup {None}
           \/ /\ c.op = "assign_short_code" /\ c.code \in ShortNames
              /\ c.latch_id \in Gates
BY DEF ShortCodeCalls, create_short_code, assign_short_code

LEMMA ShortAnswer ==
    ASSUME NEW b \in ShortBooks, NEW c \in ShortCodeCalls,
           NEW a, a = ShortCodeServe(b, ShortCodeRequest(c))
    PROVE  ShortAnswers(c, b, a)
<1>1. CASE c.op = "create_short_code"
  <2> DEFINE optional == [code |-> c.code, latch_id |-> c.latch_id]
  <2>1. PICK r : r = ShortCodeRequest(c)
      OBVIOUS
  <2>2. PICK none, sent : none = NoFields /\ sent = optional
      OBVIOUS
  <2>3. /\ "code" \notin DOMAIN none /\ "latch_id" \notin DOMAIN none
        /\ "code" \in DOMAIN sent /\ "latch_id" \in DOMAIN sent
        /\ sent["code"] = c.code /\ sent["latch_id"] = c.latch_id
      BY <2>2 DEF NoFields
  <2>4. r.path = "short-codes" /\ r.json = Body(none, sent)
      BY <1>1, <2>1, <2>2 DEF ShortCodeRequest
  <2>5. /\ "code" \in DOMAIN r.json <=> c.code # None
        /\ c.code # None => r.json["code"] = c.code
        /\ Get(r.json, "latch_id", None) = c.latch_id
    <3>1. Get(Body(none, sent), "latch_id", None) =
            IF sent["latch_id"] # None THEN sent["latch_id"] ELSE None
        BY <2>3, OptionalField
    <3>2. /\ "code" \in DOMAIN Body(none, sent) <=> sent["code"] # None
          /\ sent["code"] # None => Body(none, sent)["code"] = sent["code"]
        BY <2>3, OptionalSent
    <3> QED
        BY <2>3, <2>4, <3>1, <3>2
  <2> HIDE DEF optional
  <2> DEFINE fresh == {n \in Generated : b.codes[n] = Never}
             Points(n) == Says([b EXCEPT !.codes[n] = c.latch_id], 200,
                               [result |-> "ok", short_code |->
                                  ShortRow([b EXCEPT !.codes[n] = c.latch_id], n)])
  <2>6. a = ShortCodeServe(b, r)
      BY <2>1
  <2>7. CASE c.code # None
    <3>1. a = IF b.codes[c.code] = Never THEN Points(c.code)
              ELSE Refuses(b, 409, "short_code_taken")
        BY <2>4, <2>5, <2>6, <2>7 DEF ShortCodeServe
    <3>2. c.code \in ShortNames
        BY <1>1, <2>7, ShortCallsAre DEF ShortNames
    <3>3. CASE b.codes[c.code] = Never
      <4>1. PointsTo(c, b, c.code, a)
          BY <3>1, <3>3 DEF Says, PointsTo
      <4>2. a.status = 200
          BY <4>1 DEF PointsTo
      <4> QED
          BY <1>1, <3>2, <3>3, <4>1, <4>2 DEF ShortAnswers, ShortClaimed
    <3>4. CASE b.codes[c.code] # Never
        BY <1>1, <3>1, <3>2, <3>4 DEF ShortAnswers, Says, Refuses
    <3> QED
        BY <3>3, <3>4
  <2>8. CASE c.code = None
    <3>1. a = IF fresh = {} THEN Refuses(b, 422, "bound")
              ELSE Points(CHOOSE n \in fresh : TRUE)
        BY <2>4, <2>5, <2>6, <2>8 DEF ShortCodeServe
    <3>2. CASE fresh = {}
        BY <1>1, <3>1, <3>2 DEF ShortAnswers, Refuses, Says
    <3>3. CASE fresh # {}
      <4>1. PICK n \in fresh : a = Points(n)
          BY <3>1, <3>3
      <4>2. n \in ShortNames /\ b.codes[n] = Never
          BY DEF ShortNames
      <4>3. PointsTo(c, b, n, a)
          BY <4>1 DEF Says, PointsTo
      <4>4. a.status = 200
          BY <4>3 DEF PointsTo
      <4> QED
          BY <1>1, <2>8, <4>2, <4>3, <4>4 DEF ShortAnswers, ShortClaimed
    <3> QED
        BY <3>2, <3>3
  <2> QED
      BY <2>7, <2>8
<1>2. CASE c.op = "assign_short_code"
  <2>1. PICK r : r = ShortCodeRequest(c)
      OBVIOUS
  <2>2. r = [path |-> "short-codes/code", id |-> c.code, json |-> [latch_id |-> c.latch_id]]
      BY <1>2, <2>1 DEF ShortCodeRequest
  <2>3. r.path = "short-codes/code" /\ r.id = c.code /\ r.json.latch_id = c.latch_id
      BY <2>2
  <2> DEFINE to == [b EXCEPT !.codes[c.code] = c.latch_id]
  <2>4. a = IF c.code \in Ours(b)
            THEN Says(to, 200, [result |-> "ok", short_code |-> ShortRow(to, c.code)])
            ELSE Refuses(b, 404, "short_code_not_found")
    <3>1. a = ShortCodeServe(b, r)
        BY <2>1
    <3> QED
        BY <2>3, <3>1 DEF ShortCodeServe
  <2> QED
      BY <1>2, <2>4 DEF ShortAnswers, PointsTo, Says, Refuses
<1> QED
    BY <1>1, <1>2, ShortCallsAre

\* What is left of the codes, and which of them an answer names.
LEMMA ShortLeft ==
    ASSUME NEW b \in ShortBooks, NEW c \in ShortCodeCalls, NEW a, ShortAnswers(c, b, a),
           a.status \in 200..299
    PROVE  \E n \in ShortNames :
             /\ PointsTo(c, b, n, a)
             /\ a.to \in ShortBooks /\ a.to.codes[n] = c.latch_id
             /\ \A x \in ShortNames \ {n} : a.to.codes[x] = b.codes[x]
             /\ c.latch_id \in Gates \cup {None}
             /\ b.codes[n] # Elsewhere
             /\ c.op = "create_short_code" => b.codes[n] = Never /\ c.code \in {n, None}
             /\ c.op = "assign_short_code" => n = c.code
<1>1. PICK n \in ShortNames :
        /\ PointsTo(c, b, n, a)
        /\ b.codes[n] # Elsewhere
        /\ c.op = "create_short_code" => b.codes[n] = Never /\ c.code \in {n, None}
        /\ c.op = "assign_short_code" => n = c.code
  <2>1. CASE c.op = "create_short_code"
      BY <2>1, ShortCodeAssumption DEF ShortAnswers, ShortClaimed
  <2>2. CASE c.op = "assign_short_code"
      BY <2>2, ShortCallsAre DEF ShortAnswers, Ours
  <2> QED
      BY <2>1, <2>2, ShortCallsAre
<1>2. c.latch_id \in Gates \cup {None}
    BY ShortCallsAre
<1>3. /\ a.to \in ShortBooks /\ a.to.codes[n] = c.latch_id
      /\ \A x \in ShortNames \ {n} : a.to.codes[x] = b.codes[x]
    BY <1>1, <1>2 DEF ShortBooks, PointsTo
<1> QED
    BY <1>1, <1>2, <1>3

LEMMA ShortRefused ==
    ASSUME NEW b \in ShortBooks, NEW c \in ShortCodeCalls, NEW a, ShortAnswers(c, b, a),
           a.status \notin 200..299
    PROVE  /\ a.to = b
           /\ \/ /\ a.status = 409 /\ a.body.code = "short_code_taken"
                 /\ b.codes[c.code] # Never
              \/ a.status = 422 /\ a.body.code = "bound"
              \/ /\ a.status = 404 /\ a.body.code = "short_code_not_found"
                 /\ c.code \notin Ours(b)
BY DEF ShortAnswers

LEMMA ShortKeepsWithin ==
    ASSUME NEW b \in ShortBooks, NEW c \in ShortCodeCalls, NEW a, ShortAnswers(c, b, a),
           a.to # b
    PROVE  ShortCodeWithin(c, b, a.to)
<1>1. a.status \in 200..299
    BY ShortRefused
<1>2. PICK n \in ShortNames :
        /\ a.to.codes[n] = c.latch_id /\ c.latch_id \in Gates \cup {None}
        /\ \A x \in ShortNames \ {n} : a.to.codes[x] = b.codes[x]
        /\ b.codes[n] # Elsewhere
        /\ c.op = "create_short_code" => b.codes[n] = Never /\ c.code \in {n, None}
        /\ c.op = "assign_short_code" => n = c.code
    BY <1>1, ShortLeft
<1> QED
    BY <1>2, ShortCallsAre, ShortCodeAssumption DEF ShortCodeWithin

LEMMA ShortKeepsMeant ==
    ASSUME NEW b \in ShortBooks, NEW c \in ShortCodeCalls, NEW a, ShortAnswers(c, b, a),
           a.status \in 200..299
    PROVE  \A before : ShortCodeMeant(c, before, a.to)
BY ShortLeft DEF ShortCodeMeant

LEMMA ShortRead ==
    ASSUME NEW b, NEW n \in ShortNames, b.codes[n] \in Gates \cup {None}
    PROVE  ShortCode([result |-> "ok", short_code |-> ShortRow(b, n)]) =
             [short_code |-> n, latch_id |-> b.codes[n], simulated |-> FALSE]
<1> DEFINE row == ShortRow(b, n)
           d == [result |-> "ok", short_code |-> row]
<1>1. row \notin ShortNames \cup {None}
    BY ShortCodeAssumption DEF ShortRow
<1>2. Get(row, "short_code", None) = n /\ Get(row, "latch_id", None) = b.codes[n]
    BY DEF ShortRow, Get
<1> HIDE DEF row
<1>3. Get(d, "short_code", None) = row /\ Get(d, "result", None) = "ok"
    BY DEF Get
<1> HIDE DEF d
<1>4. ShortCode(d) = [short_code |-> n, latch_id |-> b.codes[n], simulated |-> FALSE]
    BY <1>1, <1>2, <1>3 DEF ShortCode
<1> QED
    BY <1>4 DEF d, row

LEMMA ShortAnswerRead ==
    ASSUME NEW b \in ShortBooks, NEW c \in ShortCodeCalls, NEW a, ShortAnswers(c, b, a),
           a.status \in 200..299,
           NEW result, result = ShortCode(a.body)
    PROVE  /\ result.short_code \in Ours(a.to)
           /\ result.latch_id = a.to.codes[result.short_code]
           /\ result.latch_id = c.latch_id /\ ~result.simulated
<1>1. PICK n \in ShortNames :
        /\ a.to.codes[n] = c.latch_id /\ c.latch_id \in Gates \cup {None}
        /\ PointsTo(c, b, n, a)
    BY ShortLeft
<1>a. PICK to : to = a.to
    OBVIOUS
<1>b. a.body = [result |-> "ok", short_code |-> ShortRow(to, n)] /\ to.codes[n] \in Gates \cup {None}
    BY <1>1, <1>a DEF PointsTo
<1>c. ShortCode(a.body) = [short_code |-> n, latch_id |-> to.codes[n], simulated |-> FALSE]
    BY <1>b, ShortRead
<1>2. result = [short_code |-> n, latch_id |-> a.to.codes[n], simulated |-> FALSE]
    BY <1>a, <1>c
<1>3. n \in Ours(a.to)
    BY <1>1, ShortCodeAssumption DEF Ours
<1> QED
    BY <1>1, <1>2, <1>3

LEMMA ShortTold ==
    ASSUME NEW b \in ShortBooks, NEW c \in ShortCodeCalls, NEW a, ShortAnswers(c, b, a),
           a.status \in 200..299
    PROVE  ~ShortCode(a.body).simulated /\ ShortCode([result |-> "simulated"]).simulated
<1>1. PICK x : x = ShortCode(a.body)
    OBVIOUS
<1>2. ~x.simulated
    BY <1>1, ShortAnswerRead
<1>3. ShortCode([result |-> "simulated"]).simulated
    BY DEF ShortCode, Get
<1> QED
    BY <1>1, <1>2, <1>3

LEMMA ShortKeepsHonest ==
    ASSUME NEW b \in ShortBooks, NEW c \in ShortCodeCalls, NEW a, ShortAnswers(c, b, a),
           NEW r, r.call = c, EndsWith(r, a, ShortCode(a.body)),
           NEW before, NEW alone
    PROVE  ShortCodeHonest(r, before, a.to, alone)
<1>1. CASE a.status \in 200..299
  <2>1. r.raised = None /\ r.result = ShortCode(a.body)
      BY <1>1 DEF EndsWith
  <2>2. PICK x : x = r.result
      OBVIOUS
  <2>3. /\ x.short_code \in Ours(a.to) /\ x.latch_id = a.to.codes[x.short_code]
        /\ x.latch_id = c.latch_id
      BY <1>1, <2>1, <2>2, ShortAnswerRead
  <2>4. r.raised # "ConflictError" /\ r.raised # "NotFoundError"
      BY <2>1, ExceptionsAssumption DEF Exceptions
  <2> QED
      BY <2>2, <2>3, <2>4 DEF ShortCodeHonest
<1>2. CASE a.status \notin 200..299
  <2>1. /\ a.to = b
        /\ \/ /\ a.status = 409 /\ a.body.code = "short_code_taken"
              /\ b.codes[c.code] # Never
           \/ a.status = 422 /\ a.body.code = "bound"
           \/ /\ a.status = 404 /\ a.body.code = "short_code_not_found"
              /\ c.code \notin Ours(b)
      BY <1>2, ShortRefused
  <2>2. \/ r.raised = "ConflictError" /\ b.codes[c.code] # Never
        \/ r.raised = "APIError"
        \/ r.raised = "NotFoundError" /\ c.code \notin Ours(b)
      BY <1>2, <2>1, Refusals DEF EndsWith
  <2>3. r.raised # None
      BY <2>2, ExceptionsAssumption DEF Exceptions
  <2> QED
      BY <2>1, <2>2, <2>3 DEF ShortCodeHonest
<1> QED
    BY <1>1, <1>2

----------------------------------------------------------------------------
(* The schedule of a key.                                                  *)

\* The schedule that a PUT of the windows given leaves.
PutBack(c) == [windows |-> {NewWindow(w.hours) : w \in c.windows}, enabled |-> TRUE]

ScheduleAnswers(c, a) ==
    a.status = 200 /\ a.to = PutBack(c) /\ a.body = KeyScheduleFields(a.to)

LEMMA PutBackTyped ==
    ASSUME NEW c \in KeyScheduleCalls
    PROVE  /\ PutBack(c) \in Schedules /\ PutBack(c).enabled = TRUE
           /\ PutBack(c).windows = {NewWindow(w.hours) : w \in c.windows}
           /\ c.windows \in SUBSET KeyWindows /\ c.hours \in WeeklyHours
<1>1. c.windows \in SUBSET KeyWindows /\ c.hours \in WeeklyHours
    BY DEF KeyScheduleCalls, set_schedule
<1>2. \A w \in c.windows : NewWindow(w.hours) \in KeyWindows
    BY <1>1 DEF NewWindow, KeyWindows
<1> DEFINE windows == {NewWindow(w.hours) : w \in c.windows}
<1>3. windows \in SUBSET KeyWindows
    BY <1>2
<1>4. PutBack(c) = [windows |-> windows, enabled |-> TRUE]
    BY DEF PutBack
<1> HIDE DEF windows
<1>5. PutBack(c) \in Schedules /\ PutBack(c).enabled = TRUE /\ PutBack(c).windows = windows
    BY <1>3, <1>4 DEF Schedules
<1> QED
    BY <1>1, <1>5 DEF windows

LEMMA ScheduleAnswer ==
    ASSUME NEW k \in Schedules, NEW c \in KeyScheduleCalls,
           NEW a, a = KeyScheduleServe(k, KeyScheduleRequest(c))
    PROVE  ScheduleAnswers(c, a)
<1> DEFINE json == [windows |-> {to_payload(w) : w \in c.windows}]
           sent == {NewWindow(h) : h \in {w.hours : w \in c.windows}}
<1>1. KeyScheduleRequest(c) = [path |-> "keys/schedule", json |-> json]
    BY DEF KeyScheduleRequest
<1>2. {NewWindow(h) : h \in json.windows} = sent
    BY DEF to_payload
<1>3. sent = {NewWindow(w.hours) : w \in c.windows}
    OBVIOUS
<1> DEFINE to == [k EXCEPT !.windows = sent, !.enabled = TRUE]
<1>4. PICK r : r = KeyScheduleRequest(c)
    OBVIOUS
<1>5. {NewWindow(h) : h \in r.json.windows} = sent
  <2>1. r.json = json
    <3> HIDE DEF json
    <3> QED
        BY <1>1, <1>4
  <2> QED
      BY <1>2, <2>1
<1>6. a = KeyScheduleServe(k, r)
    BY <1>4
<1> HIDE DEF json, sent
<1>7. a = Says(to, 200, KeyScheduleFields(to))
    BY <1>5, <1>6 DEF KeyScheduleServe
<1>8. to = [windows |-> sent, enabled |-> TRUE]
  <2>1. to.windows = sent /\ to.enabled = TRUE
      BY DEF Schedules
  <2>2. sent \in SUBSET KeyWindows
    <3>1. c.windows \in SUBSET KeyWindows
        BY PutBackTyped
    <3>2. \A w \in c.windows : NewWindow(w.hours) \in KeyWindows
        BY <3>1 DEF NewWindow, KeyWindows
    <3> QED
        BY <1>3, <3>2
  <2>3. to \in [windows : SUBSET KeyWindows, enabled : BOOLEAN]
      BY <2>2 DEF Schedules
  <2>4. to = [windows |-> to.windows, enabled |-> to.enabled]
    <3> HIDE DEF to
    <3> QED
        BY <2>3
  <2> QED
      BY <2>1, <2>4
<1>9. to = PutBack(c)
    BY <1>3, <1>8 DEF PutBack
<1> HIDE DEF to
<1> QED
    BY <1>7, <1>9 DEF ScheduleAnswers, Says

LEMMA ScheduleTyped ==
    ASSUME NEW c \in KeyScheduleCalls, NEW a, ScheduleAnswers(c, a)
    PROVE  a.to \in Schedules
BY PutBackTyped DEF ScheduleAnswers

LEMMA ScheduleKeepsWithin ==
    ASSUME NEW k, NEW c \in KeyScheduleCalls, NEW a, ScheduleAnswers(c, a)
    PROVE  KeyScheduleWithin(c, k, a.to)
BY PutBackTyped DEF ScheduleAnswers, KeyScheduleWithin

LEMMA ScheduleRead ==
    ASSUME NEW k \in Schedules
    PROVE  KeySchedule(KeyScheduleFields(k)) =
             [restricted |-> Restricted(k), permanently_blocked |-> Blocked(k),
              windows |-> k.windows, inactive |-> 0, simulated |-> FALSE]
<1> DEFINE d == KeyScheduleFields(k)
<1>1. d = [restricted |-> Restricted(k), permanently_blocked |-> Blocked(k),
           windows |-> k.windows, result |-> "ok"]
    BY DEF KeyScheduleFields
<1>2. Bool(Restricted(k)) = Restricted(k) /\ Bool(Blocked(k)) = Blocked(k)
  <2>1. Restricted(k) \in BOOLEAN /\ Blocked(k) \in BOOLEAN
      BY DEF Restricted, Blocked
  <2> QED
      BY <2>1, BoolOfBoolean
<1>3. k.windows # None
    BY WindowsAssumption DEF Schedules
<1> HIDE DEF d
<1>a. PICK restricted, blocked : restricted = Restricted(k) /\ blocked = Blocked(k)
    OBVIOUS
<1>b. d = [restricted |-> restricted, permanently_blocked |-> blocked,
           windows |-> k.windows, result |-> "ok"]
    BY <1>1, <1>a
<1>4. /\ Get(d, "restricted", None) = restricted
      /\ Get(d, "permanently_blocked", None) = blocked
      /\ GetOr(d, "windows", {}) = k.windows
      /\ GetOr(d, "inactive_window_count", 0) = 0
      /\ Get(d, "result", None) = "ok"
    BY <1>3, <1>b DEF Get, GetOr
<1>5. KeySchedule(d) =
             [restricted |-> restricted, permanently_blocked |-> blocked,
              windows |-> k.windows, inactive |-> 0, simulated |-> FALSE]
    BY <1>2, <1>4, <1>a DEF KeySchedule
<1> QED
    BY <1>5, <1>a DEF d

LEMMA ScheduleKeepsMeant ==
    ASSUME NEW k \in Schedules, NEW c \in KeyScheduleCalls, NEW a, ScheduleAnswers(c, a),
           KeyScheduleOffered(KeyScheduleView(k), c)
    PROVE  KeyScheduleMeant(c, k, a.to)
<1>1. /\ a.to.windows = {NewWindow(w.hours) : w \in c.windows}
      /\ c.windows \in SUBSET KeyWindows /\ c.hours \in WeeklyHours
    BY PutBackTyped DEF ScheduleAnswers
<1>2. \A h \in WeeklyHours : (\E w \in InForce(a.to) : w.hours = h)
                               <=> \E w \in c.windows : w.hours = h
  <2> SUFFICES ASSUME NEW h \in WeeklyHours
               PROVE  (\E w \in InForce(a.to) : w.hours = h) <=> \E w \in c.windows : w.hours = h
      OBVIOUS
  <2>1. \A x \in WeeklyHours : NewWindow(x).hours = x /\ NewWindow(x).over = FALSE
      BY DEF NewWindow
  <2>2. \A w \in c.windows : w.hours \in WeeklyHours
      BY <1>1 DEF KeyWindows
  <2>3. ASSUME NEW w \in InForce(a.to), w.hours = h PROVE \E v \in c.windows : v.hours = h
    <3>1. PICK v \in c.windows : w = NewWindow(v.hours)
        BY <1>1 DEF InForce
    <3> QED
        BY <2>1, <2>2, <2>3, <3>1
  <2>4. ASSUME NEW v \in c.windows, v.hours = h PROVE \E w \in InForce(a.to) : w.hours = h
    <3>1. NewWindow(h) \in a.to.windows
        BY <1>1, <2>4
    <3>2. NewWindow(h) \in InForce(a.to)
        BY <2>1, <3>1 DEF InForce
    <3> QED
        BY <2>1, <3>2
  <2> QED
      BY <2>3, <2>4
<1>3. KeyScheduleView(k).windows = k.windows
  <2>1. PICK x : x = KeyScheduleView(k)
      OBVIOUS
  <2>2. x.windows = k.windows
      BY <2>1, ScheduleRead DEF KeyScheduleView
  <2> QED
      BY <2>1, <2>2
<1>4. c.windows \in {k.windows \cup {NewWindow(c.hours)},
                     {w \in k.windows : w.hours # c.hours}}
    BY <1>3 DEF KeyScheduleOffered
<1>5. \A h \in WeeklyHours \ {c.hours} :
        (\E w \in k.windows : w.hours = h) <=> \E w \in c.windows : w.hours = h
    BY <1>4 DEF NewWindow
<1>6. k.windows = InForce(k) => KeepsHours(c, k, a.to)
    BY <1>2, <1>5 DEF KeepsHours
<1> QED
    BY <1>1, <1>2, <1>6 DEF KeyScheduleMeant

LEMMA ScheduleTold ==
    ASSUME NEW c \in KeyScheduleCalls, NEW a, ScheduleAnswers(c, a)
    PROVE  ~KeySchedule(a.body).simulated /\ KeySchedule([result |-> "simulated"]).simulated
<1>1. a.body = KeyScheduleFields(a.to) /\ a.to \in Schedules
    BY ScheduleTyped DEF ScheduleAnswers
<1>2. PICK x : x = KeySchedule(a.body)
    OBVIOUS
<1>a. PICK restricted, blocked : restricted = Restricted(a.to) /\ blocked = Blocked(a.to)
    OBVIOUS
<1>3. x = [restricted |-> restricted, permanently_blocked |-> blocked,
           windows |-> a.to.windows, inactive |-> 0, simulated |-> FALSE]
    BY <1>1, <1>2, <1>a, ScheduleRead
<1>4. ~x.simulated
    BY <1>3
<1>5. KeySchedule([result |-> "simulated"]).simulated
    BY DEF KeySchedule, Get
<1> QED
    BY <1>2, <1>4, <1>5

LEMMA ScheduleKeepsHonest ==
    ASSUME NEW c \in KeyScheduleCalls, NEW a, ScheduleAnswers(c, a),
           NEW r, EndsWith(r, a, KeySchedule(a.body)), NEW before, NEW alone
    PROVE  KeyScheduleHonest(r, before, a.to, alone)
<1>1. a.body = KeyScheduleFields(a.to) /\ a.to \in Schedules /\ a.to.enabled = TRUE
    BY PutBackTyped DEF ScheduleAnswers
<1>2. r.result = KeySchedule(a.body)
    BY DEF EndsWith, ScheduleAnswers
<1>a. PICK restricted, blocked : restricted = Restricted(a.to) /\ blocked = Blocked(a.to)
    OBVIOUS
<1>3. r.result = [restricted |-> restricted, permanently_blocked |-> blocked,
           windows |-> a.to.windows, inactive |-> 0, simulated |-> FALSE]
    BY <1>1, <1>2, <1>a, ScheduleRead
<1>4. (restricted <=> a.to.windows # {}) /\ ~blocked
    BY <1>1, <1>a DEF Restricted, Blocked
<1>5. a.to.windows = {} => OpenHours(a.to) = WeeklyHours
    BY DEF OpenHours, Restricted, Blocked
<1>6. /\ r.result.windows = a.to.windows /\ ~r.result.permanently_blocked
      /\ r.result.restricted <=> a.to.windows # {}
    BY <1>3, <1>4
<1> QED
    BY <1>5, <1>6 DEF KeyScheduleHonest

----------------------------------------------------------------------------
(* The guest links.                                                        *)

\* The link that a create makes.
NewLink(c) ==
    [max |-> IF c.link_type = "event" THEN None ELSE c.max_uses, used |-> 0,
     revoked |-> FALSE, gates |-> c.latch_ids]

\* An answer shows the link i, which has become x.
LinkShown(b, i, x, a) ==
    /\ a.status = 200
    /\ a.to = [b EXCEPT !.links[i] = x]
    /\ a.body = [result |-> "ok", guest_link |-> LinkFields(a.to, i)]

LinkMade(c, b, a) == \E i \in Unused(b.links) : LinkShown(b, i, NewLink(c), a)
LinkRevoked(c, b, a) ==
    c.id \in Live(b.links) /\ LinkShown(b, c.id, [b.links[c.id] EXCEPT !.revoked = TRUE], a)

LinkAnswers(c, b, a) ==
    \/ /\ c.op = "create_guest_link" /\ a.to = b
       /\ a.status = 422 /\ a.body.code = "invalid"
    \/ /\ c.op = "create_guest_link" /\ NewLink(c) \in LinkRows
       /\ a.status = 200 /\ LinkMade(c, b, a)
    \/ /\ c.op = "revoke_guest_link" /\ a.to = b
       /\ a.status = 404 /\ a.body.code = "not_found"
    \/ c.op = "revoke_guest_link" /\ a.status = 200 /\ LinkRevoked(c, b, a)

LEMMA LinkCallsAre ==
    ASSUME NEW c \in GuestLinkCalls
    PROVE  \/ /\ c.op = "create_guest_link" /\ c.latch_ids \in (SUBSET Gates) \ {{}}
              /\ \/ c.link_type = "event" /\ c.max_uses = None
                 \/ c.link_type = "limited_use" /\ c.max_uses \in Limits
           \/ c.op = "revoke_guest_link" /\ c.id \in LinkIds
BY DEF GuestLinkCalls, create_guest_link, revoke_guest_link

LEMMA LinkAnswer ==
    ASSUME NEW b \in LinkBooks, NEW c \in GuestLinkCalls,
           NEW a, a = GuestLinkServe(b, GuestLinkRequest(c))
    PROVE  LinkAnswers(c, b, a)
<1>1. PICK r : r = GuestLinkRequest(c)
    OBVIOUS
<1>2. a = GuestLinkServe(b, r)
    BY <1>1
<1>3. CASE c.op = "create_guest_link"
  <2>1. PICK always, optional :
          /\ always = [link_type |-> c.link_type, latch_ids |-> c.latch_ids]
          /\ optional = [max_uses |-> c.max_uses, window |-> c.window]
      OBVIOUS
  <2>2. r = [path |-> "guest-links", json |-> Body(always, optional)]
      BY <1>1, <1>3, <2>1 DEF GuestLinkRequest
  <2>3. r.path = "guest-links" /\ r.json = Body(always, optional)
      BY <2>2
  <2>4. /\ "link_type" \in DOMAIN always /\ always["link_type"] = c.link_type
        /\ "latch_ids" \in DOMAIN always /\ always["latch_ids"] = c.latch_ids
        /\ "max_uses" \notin DOMAIN always /\ "max_uses" \in DOMAIN optional
        /\ optional["max_uses"] = c.max_uses
      BY <2>1
  <2>5. /\ r.json["link_type"] = c.link_type /\ r.json["latch_ids"] = c.latch_ids
        /\ "max_uses" \in DOMAIN r.json <=> c.max_uses # None
        /\ c.max_uses # None => r.json["max_uses"] = c.max_uses
    <3>1. Body(always, optional)["link_type"] = always["link_type"]
          /\ Body(always, optional)["latch_ids"] = always["latch_ids"]
        BY <2>4 DEF Body
    <3>2. /\ "max_uses" \in DOMAIN Body(always, optional) <=> optional["max_uses"] # None
          /\ optional["max_uses"] # None =>
               Body(always, optional)["max_uses"] = optional["max_uses"]
        BY <2>4, OptionalSent
    <3> QED
        BY <2>3, <2>4, <3>1, <3>2
  <2>6. PICK i : i = NextUnused(b.links)
      OBVIOUS
  <2>7. CASE ~WellFormed(r.json) \/ Unused(b.links) = {}
    <3>1. a = Refuses(b, 422, "invalid")
        BY <1>2, <2>3, <2>7 DEF GuestLinkServe
    <3> QED
        BY <1>3, <3>1 DEF Refuses, Says, LinkAnswers
  <2>8. CASE WellFormed(r.json) /\ Unused(b.links) # {}
    <3>1. i \in Unused(b.links)
      <4>1. DOMAIN b.links \subseteq Nat
          BY LinkAssumption DEF LinkBooks, LinkIds
      <4> QED
          BY <2>6, <2>8, <4>1, NextIsUnused
    <3>2. c.link_type # "event" => c.max_uses \in Uses
        BY <1>3, <2>5, <2>8, LinkCallsAre DEF WellFormed, Limits
    <3> DEFINE limit == IF r.json.link_type = "event" THEN None ELSE r.json.max_uses
               x == [max |-> limit, used |-> 0, revoked |-> FALSE,
                     gates |-> r.json.latch_ids]
               to == [b EXCEPT !.links[i] = x]
    <3>3. a = Says(to, 200, [result |-> "ok", guest_link |-> LinkFields(to, i)])
        BY <1>2, <2>3, <2>6, <2>8 DEF GuestLinkServe
    <3>4. x = NewLink(c) /\ x \in LinkRows
      <4>1. /\ limit = IF c.link_type = "event" THEN None ELSE c.max_uses
            /\ r.json.latch_ids = c.latch_ids /\ limit \in Limits
          BY <2>5, <3>2, UsesAssumption DEF Limits
      <4>2. c.latch_ids \in (SUBSET Gates) \ {{}}
          BY <1>3, LinkCallsAre
      <4> HIDE DEF limit
      <4> QED
          BY <4>1, <4>2 DEF NewLink, LinkRows
    <3> HIDE DEF x
    <3>5. LinkShown(b, i, x, a)
        BY <3>3 DEF Says, LinkShown
    <3>6. a.status = 200
        BY <3>5 DEF LinkShown
    <3> QED
        BY <1>3, <3>1, <3>4, <3>5, <3>6 DEF LinkAnswers, LinkMade
  <2> QED
      BY <2>7, <2>8
<1>4. CASE c.op = "revoke_guest_link"
  <2>1. r = [path |-> "guest-links/delete", id |-> c.id, json |-> NoFields]
      BY <1>1, <1>4 DEF GuestLinkRequest
  <2>2. r.path = "guest-links/delete" /\ r.id = c.id
      BY <2>1
  <2> DEFINE to == [b EXCEPT !.links[c.id].revoked = TRUE]
  <2>3. a = IF c.id \notin Live(b.links) THEN Refuses(b, 404, "not_found")
            ELSE Says(to, 200, [result |-> "ok", guest_link |-> LinkFields(to, c.id)])
      BY <1>2, <2>2 DEF GuestLinkServe
  <2>4. CASE c.id \notin Live(b.links)
      BY <1>4, <2>3, <2>4 DEF Refuses, Says, LinkAnswers
  <2>5. CASE c.id \in Live(b.links)
    <3> DEFINE x == [b.links[c.id] EXCEPT !.revoked = TRUE]
    <3>1. to = [b EXCEPT !.links[c.id] = x]
        OBVIOUS
    <3> HIDE DEF to, x
    <3>2. LinkShown(b, c.id, x, a)
        BY <2>3, <2>5, <3>1 DEF Says, LinkShown
    <3>3. a.status = 200
        BY <3>2 DEF LinkShown
    <3> QED
        BY <1>4, <2>5, <3>2, <3>3 DEF LinkAnswers, LinkRevoked, x
  <2> QED
      BY <2>4, <2>5
<1> QED
    BY <1>3, <1>4, LinkCallsAre

\* What is left of the links.
LEMMA LinkLeft ==
    ASSUME NEW b \in LinkBooks, NEW i \in LinkIds, NEW x \in LinkRows,
           NEW a, LinkShown(b, i, x, a)
    PROVE  /\ a.to \in LinkBooks /\ a.to.links[i] = x
           /\ \A j \in LinkIds \ {i} : a.to.links[j] = b.links[j]
BY DEF LinkShown, LinkBooks

LEMMA LinksAre ==
    ASSUME NEW b \in LinkBooks
    PROVE  /\ DOMAIN b.links = LinkIds /\ Live(b.links) \subseteq LinkIds
           /\ \A i \in Live(b.links) :
                /\ b.links[i] \in LinkRows /\ b.links[i] # Never
                /\ [b.links[i] EXCEPT !.revoked = TRUE] \in LinkRows
           /\ \A i \in Unused(b.links) : i \in LinkIds /\ b.links[i] = Never
BY DEF LinkBooks, Live, Unused, LinkRows

\* The link a 2xx is about, and what becomes of it.
LEMMA LinkChanged ==
    ASSUME NEW b \in LinkBooks, NEW c \in GuestLinkCalls, NEW a, LinkAnswers(c, b, a),
           a.status \in 200..299
    PROVE  \E i \in LinkIds, x \in LinkRows :
             /\ LinkShown(b, i, x, a)
             /\ \/ c.op = "create_guest_link" /\ x = NewLink(c) /\ b.links[i] = Never
                \/ /\ c.op = "revoke_guest_link" /\ i = c.id /\ b.links[i] # Never
                   /\ x = [b.links[i] EXCEPT !.revoked = TRUE] /\ x.revoked = TRUE
<1>1. CASE c.op = "create_guest_link"
  <2>1. LinkMade(c, b, a) /\ NewLink(c) \in LinkRows
      BY <1>1 DEF LinkAnswers
  <2>2. PICK i \in Unused(b.links) : LinkShown(b, i, NewLink(c), a)
      BY <2>1 DEF LinkMade
  <2>3. i \in LinkIds /\ b.links[i] = Never
      BY LinksAre
  <2> QED
      BY <1>1, <2>1, <2>2, <2>3
<1>2. CASE c.op = "revoke_guest_link"
  <2>1. LinkRevoked(c, b, a)
      BY <1>2 DEF LinkAnswers
  <2>2. /\ c.id \in Live(b.links) /\ c.id \in LinkIds /\ b.links[c.id] # Never
        /\ b.links[c.id] \in LinkRows
        /\ [b.links[c.id] EXCEPT !.revoked = TRUE] \in LinkRows
      BY <2>1, LinksAre DEF LinkRevoked
  <2>3. PICK x \in LinkRows : x = [b.links[c.id] EXCEPT !.revoked = TRUE]
      BY <2>2
  <2>4. x.revoked = TRUE
      BY <2>2, <2>3 DEF LinkRows
  <2>5. LinkShown(b, c.id, x, a)
      BY <2>1, <2>3 DEF LinkRevoked
  <2> QED
      BY <1>2, <2>2, <2>3, <2>4, <2>5
<1> QED
    BY <1>1, <1>2, LinkCallsAre

LEMMA LinkRefused ==
    ASSUME NEW b, NEW c, NEW a, LinkAnswers(c, b, a), a.status \notin 200..299
    PROVE  /\ a.to = b
           /\ a.status \in {404, 422} /\ a.body.code \in {"invalid", "not_found"}
BY DEF LinkAnswers

LEMMA LinksTyped ==
    ASSUME NEW b \in LinkBooks, NEW c \in GuestLinkCalls, NEW a, LinkAnswers(c, b, a)
    PROVE  a.to \in LinkBooks
<1>1. CASE a.status \in 200..299
  <2>1. PICK i \in LinkIds, x \in LinkRows : LinkShown(b, i, x, a)
      BY <1>1, LinkChanged
  <2> QED
      BY <2>1, LinkLeft
<1> QED
    BY <1>1, LinkRefused

LEMMA LinksKeepWithin ==
    ASSUME NEW b \in LinkBooks, NEW c \in GuestLinkCalls, NEW a, LinkAnswers(c, b, a)
    PROVE  GuestLinkWithin(c, b, a.to)
<1>1. CASE a.status \in 200..299
  <2>1. PICK i \in LinkIds, x \in LinkRows :
             /\ LinkShown(b, i, x, a)
             /\ \/ c.op = "create_guest_link" /\ x = NewLink(c) /\ b.links[i] = Never
                \/ /\ c.op = "revoke_guest_link" /\ i = c.id /\ b.links[i] # Never
                   /\ x = [b.links[i] EXCEPT !.revoked = TRUE] /\ x.revoked = TRUE
      BY <1>1, LinkChanged
  <2>2. a.to.links[i] = x /\ \A j \in LinkIds \ {i} : a.to.links[j] = b.links[j]
      BY <2>1, LinkLeft
  <2> QED
      BY <2>1, <2>2 DEF GuestLinkWithin
<1>2. CASE a.status \notin 200..299
    BY <1>2, LinkRefused DEF GuestLinkWithin
<1> QED
    BY <1>1, <1>2

LEMMA LinksKeepMeant ==
    ASSUME NEW b \in LinkBooks, NEW c \in GuestLinkCalls, NEW a, LinkAnswers(c, b, a),
           a.status \in 200..299
    PROVE  \A before : GuestLinkMeant(c, before, a.to)
<1>0. PICK i \in LinkIds, x \in LinkRows :
             /\ LinkShown(b, i, x, a)
             /\ \/ c.op = "create_guest_link" /\ x = NewLink(c) /\ b.links[i] = Never
                \/ /\ c.op = "revoke_guest_link" /\ i = c.id /\ b.links[i] # Never
                   /\ x = [b.links[i] EXCEPT !.revoked = TRUE] /\ x.revoked = TRUE
    BY LinkChanged
<1>1. LinkShown(b, i, x, a) /\ (c.op = "revoke_guest_link" => i = c.id /\ x.revoked = TRUE)
    BY <1>0
<1>2. a.to.links[i] = x
    BY <1>1, LinkLeft
<1> QED
    BY <1>1, <1>2 DEF GuestLinkMeant, Opens

LEMMA LinkRead ==
    ASSUME NEW b, NEW i, NEW x \in LinkRows, b.links[i] = x
    PROVE  GuestLink([result |-> "ok", guest_link |-> LinkFields(b, i)]) =
             [id |-> i, link_type |-> IF x.max = None THEN "event" ELSE "limited_use",
              active |-> Opens(x), latch_ids |-> x.gates,
              remaining |-> uses_remaining(x.max, x.used), revoked |-> x.revoked,
              simulated |-> FALSE]
<1> DEFINE type == IF x.max = None THEN "event" ELSE "limited_use"
           state == IF x.revoked THEN "revoked" ELSE IF Opens(x) THEN "active" ELSE "spent"
           link == LinkFields(b, i)
           d == [result |-> "ok", guest_link |-> link]
           active == state = "active"
           open == Opens(x)
<1>1. link = [guest_link_id |-> i, link_type |-> type, state |-> state,
              latches |-> x.gates, max_uses |-> x.max, uses_consumed |-> x.used,
              revoked |-> x.revoked]
    BY DEF LinkFields
<1>2. x.gates # None /\ x.used # None
    BY GatesAssumption, UsesAssumption DEF LinkRows
<1>3. active = open /\ Bool(x.revoked) = x.revoked
  <2>1. active = open
    <3>1. active <=> open
        BY DEF Opens
    <3>2. active \in BOOLEAN /\ open \in BOOLEAN
        BY DEF Opens
    <3> HIDE DEF active, open
    <3> QED
        BY <3>1, <3>2, SameTruth
  <2>2. Bool(x.revoked) = x.revoked
      BY BoolOfBoolean DEF LinkRows
  <2> QED
      BY <2>1, <2>2
<1> HIDE DEF link, type, state
<1>4. /\ Get(link, "guest_link_id", None) = i /\ Get(link, "link_type", None) = type
      /\ Get(link, "state", None) = state /\ Get(link, "max_uses", None) = x.max
      /\ GetOr(link, "latches", {}) = x.gates /\ GetOr(link, "uses_consumed", 0) = x.used
      /\ Get(link, "revoked", None) = x.revoked
    BY <1>1, <1>2 DEF Get, GetOr
<1>5. Unwrap(d, "guest_link") = link /\ Get(d, "result", None) = "ok"
    BY DEF Unwrap, Get
<1> HIDE DEF d
<1>6. GuestLink(d) = [id |-> i, link_type |-> type, active |-> active,
                      latch_ids |-> x.gates, remaining |-> uses_remaining(x.max, x.used),
                      revoked |-> x.revoked, simulated |-> FALSE]
    BY <1>3, <1>4, <1>5 DEF GuestLink
<1> HIDE DEF active, open
<1>7. GuestLink(d) = [id |-> i, link_type |-> type, active |-> open,
                      latch_ids |-> x.gates, remaining |-> uses_remaining(x.max, x.used),
                      revoked |-> x.revoked, simulated |-> FALSE]
    BY <1>3, <1>6
<1> QED
    BY <1>7 DEF d, link, open, type

\* What is true of the result of a 2xx.
LEMMA LinkAnswerRead ==
    ASSUME NEW b \in LinkBooks, NEW c \in GuestLinkCalls, NEW a, LinkAnswers(c, b, a),
           a.status \in 200..299, NEW result, result = GuestLink(a.body)
    PROVE  \E x \in LinkRows, active \in BOOLEAN :
             /\ x = a.to.links[result.id] /\ result.active = active
             /\ active <=> Opens(x)
             /\ result.latch_ids = x.gates
             /\ result.remaining = uses_remaining(x.max, x.used)
             /\ c.op = "create_guest_link" => active /\ x.gates = c.latch_ids
             /\ c.op = "revoke_guest_link" => result.revoked
             /\ ~result.simulated
<1>0. PICK i \in LinkIds, x \in LinkRows :
             /\ LinkShown(b, i, x, a)
             /\ \/ c.op = "create_guest_link" /\ x = NewLink(c) /\ b.links[i] = Never
                \/ /\ c.op = "revoke_guest_link" /\ i = c.id /\ b.links[i] # Never
                   /\ x = [b.links[i] EXCEPT !.revoked = TRUE] /\ x.revoked = TRUE
    BY LinkChanged
<1>1. /\ LinkShown(b, i, x, a)
      /\ \/ c.op = "create_guest_link" /\ x = NewLink(c)
         \/ c.op = "revoke_guest_link" /\ x.revoked = TRUE
    BY <1>0
<1>2. a.to.links[i] = x
    BY <1>1, LinkLeft
<1>3. PICK to : to = a.to
    OBVIOUS
<1>4. a.body = [result |-> "ok", guest_link |-> LinkFields(to, i)] /\ to.links[i] = x
    BY <1>1, <1>2, <1>3 DEF LinkShown
<1> DEFINE active == Opens(x)
           type == IF x.max = None THEN "event" ELSE "limited_use"
<1>5. active \in BOOLEAN /\ (active <=> Opens(x))
    BY DEF Opens
<1>6. result = [id |-> i, link_type |-> type, active |-> active, latch_ids |-> x.gates,
                remaining |-> uses_remaining(x.max, x.used), revoked |-> x.revoked,
                simulated |-> FALSE]
    BY <1>4, LinkRead
<1> HIDE DEF active, type
<1>7. /\ result.id = i /\ result.active = active /\ result.latch_ids = x.gates
      /\ result.remaining = uses_remaining(x.max, x.used) /\ result.revoked = x.revoked
      /\ ~result.simulated
    BY <1>6
<1>8. c.op = "create_guest_link" => Opens(x) /\ x.gates = c.latch_ids
  <2>1. SUFFICES ASSUME c.op = "create_guest_link" PROVE Opens(x) /\ x.gates = c.latch_ids
      OBVIOUS
  <2>2. PICK max : x = [max |-> max, used |-> 0, revoked |-> FALSE, gates |-> c.latch_ids]
      BY <1>1, <2>1 DEF NewLink
  <2>3. x.used = 0 /\ x.revoked = FALSE /\ x.gates = c.latch_ids /\ x.max \in Uses \cup {None}
      BY <2>2 DEF LinkRows, Limits
  <2>4. x.max # None => x.max \in Nat /\ 0 < x.max
    <3>1. \A u \in Uses : u \in Nat /\ 0 < u
        BY UsesAssumption
    <3> QED
        BY <2>3, <3>1
  <2> QED
      BY <2>3, <2>4 DEF Opens
<1> QED
    BY <1>1, <1>2, <1>5, <1>7, <1>8

LEMMA LinksTold ==
    ASSUME NEW b \in LinkBooks, NEW c \in GuestLinkCalls, NEW a, LinkAnswers(c, b, a),
           a.status \in 200..299
    PROVE  ~GuestLink(a.body).simulated /\ GuestLink([result |-> "simulated"]).simulated
<1>1. PICK x : x = GuestLink(a.body)
    OBVIOUS
<1>2. ~x.simulated
    BY <1>1, LinkAnswerRead
<1>3. GuestLink([result |-> "simulated"]).simulated
    BY DEF GuestLink, Get
<1> QED
    BY <1>1, <1>2, <1>3

LEMMA LinksKeepHonest ==
    ASSUME NEW b \in LinkBooks, NEW c \in GuestLinkCalls, NEW a, LinkAnswers(c, b, a),
           NEW r, r.call = c, EndsWith(r, a, GuestLink(a.body)),
           NEW before, NEW alone
    PROVE  GuestLinkHonest(r, before, a.to, alone)
<1>1. CASE a.status \in 200..299
  <2>1. PICK result : result = r.result
      OBVIOUS
  <2>2. result = GuestLink(a.body)
      BY <1>1, <2>1 DEF EndsWith
  <2>3. PICK x \in LinkRows, active \in BOOLEAN :
             /\ x = a.to.links[result.id] /\ result.active = active
             /\ active <=> Opens(x)
             /\ result.latch_ids = x.gates
             /\ result.remaining = uses_remaining(x.max, x.used)
             /\ c.op = "create_guest_link" => active /\ x.gates = c.latch_ids
             /\ c.op = "revoke_guest_link" => result.revoked
      BY <1>1, <2>2, LinkAnswerRead
  <2>4. active /\ x.max # None => result.remaining > 0
    <3>1. SUFFICES ASSUME active, x.max # None PROVE result.remaining > 0
        OBVIOUS
    <3>2. x.max \in Nat /\ x.used \in Nat /\ x.used < x.max
      <4>1. x.max \in Uses \cup {None} /\ x.used \in 0..1
          BY DEF LinkRows, Limits
      <4>2. Opens(x)
          BY <2>3, <3>1
      <4>3. \A u \in Uses : u \in Nat
          BY UsesAssumption
      <4>4. x.max \in Nat /\ x.used \in Nat
          BY <3>1, <4>1, <4>3
      <4> QED
          BY <3>1, <4>2, <4>4 DEF Opens
    <3> QED
        BY <2>3, <3>1, <3>2 DEF uses_remaining
  <2>5. /\ result.active <=> Opens(x)
        /\ result.active /\ x.max # None => result.remaining > 0
        /\ c.op = "create_guest_link" => result.active
      BY <2>3, <2>4
  <2> QED
      BY <2>1, <2>3, <2>5 DEF GuestLinkHonest
<1>2. CASE a.status \notin 200..299
  <2>1. a.status \in {404, 422} /\ a.body.code \in {"invalid", "not_found"}
      BY <1>2, LinkRefused
  <2>2. r.raised \in {"NotFoundError", "APIError"}
      BY <1>2, <2>1, Refusals DEF EndsWith
  <2>3. r.raised # None
      BY <2>2, ExceptionsAssumption DEF Exceptions
  <2> QED
      BY <2>3 DEF GuestLinkHonest
<1> QED
    BY <1>1, <1>2

----------------------------------------------------------------------------
(* Hold-opens.                                                             *)

\* The weekly schedule w, or what an update makes of it.
WeeklyGiven(c) == [days |-> c.days, times |-> c.times]
WeeklyEdited(c, w) ==
    [days |-> IF c.days # None THEN c.days ELSE w.days,
     times |-> IF c.clear_times = TRUE THEN None
               ELSE IF c.times # None THEN c.times ELSE w.times]

ManualSet(c, h, a) ==
    /\ a.status = 200 /\ a.to = [h EXCEPT !.manual = Bool(c.state)]
    /\ a.body = [result |-> "ok", manual |-> Bool(c.state)]
EventAdded(h, i, a) ==
    /\ a.status = 200 /\ a.to = [h EXCEPT !.events[i] = TRUE]
    /\ a.body = [result |-> "ok", event_id |-> i]
EventRemoved(c, h, a) ==
    /\ a.status = 200
    /\ a.to = [h EXCEPT !.events[c.id] = IF h.events[c.id] = TRUE THEN Gone
                                         ELSE h.events[c.id]]
    /\ a.body = [result |-> "ok", removed |-> c.id \in Live(h.events)]
UntilSet(c, h, a) ==
    /\ a.status = 200 /\ a.to = [h EXCEPT !.until = c.until]
    /\ a.body = [result |-> "ok", disabled_until |-> c.until]
WeeklySet(h, i, w, a) ==
    /\ a.status = 200 /\ a.to = [h EXCEPT !.weekly[i] = w]
    /\ a.body = [result |-> "ok", temporal_date_id |-> i, schedule |-> w]
WeeklyRemoved(c, h, a) ==
    /\ a.status = 200 /\ a.to = [h EXCEPT !.weekly[c.id] = Gone]
    /\ a.body = [result |-> "ok", removed |-> TRUE, temporal_date_id |-> c.id]

AnyEventAdded(h, a) == \E i \in Unused(h.events) : EventAdded(h, i, a)
AnyWeeklyAdded(c, h, a) == \E i \in Unused(h.weekly) : WeeklySet(h, i, WeeklyGiven(c), a)

HoldRefused(c, h, a) ==
    /\ a.to = h
    /\ \/ a.status \in {400, 422} /\ a.body.code \in {"bound", "empty_body"}
       \/ /\ a.status = 404 /\ a.body.code = "not_found" /\ c.id \notin Live(h.weekly)
    /\ c.op \in {"add_hold_open_event", "add_hold_open_recurring",
                 "update_hold_open_recurring", "remove_hold_open_recurring"}

HoldAnswers(c, h, a) ==
    \/ HoldRefused(c, h, a)
    \/ a.status = 200 /\ c.op = "set_hold_open" /\ ManualSet(c, h, a)
    \/ a.status = 200 /\ c.op = "add_hold_open_event" /\ AnyEventAdded(h, a)
    \/ a.status = 200 /\ c.op = "remove_hold_open_event" /\ EventRemoved(c, h, a)
    \/ a.status = 200 /\ c.op = "set_hold_open_disabled_until" /\ UntilSet(c, h, a)
    \/ a.status = 200 /\ c.op = "add_hold_open_recurring" /\ AnyWeeklyAdded(c, h, a)
    \/ /\ a.status = 200 /\ c.op = "update_hold_open_recurring" /\ c.id \in Live(h.weekly)
       /\ WeeklySet(h, c.id, WeeklyEdited(c, h.weekly[c.id]), a)
    \/ /\ a.status = 200 /\ c.op = "remove_hold_open_recurring" /\ c.id \in Live(h.weekly)
       /\ WeeklyRemoved(c, h, a)

HoldCallIs(c) ==
    \/ c.op = "set_hold_open" /\ Bool(c.state) \in BOOLEAN
    \/ c.op = "add_hold_open_event"
    \/ c.op = "remove_hold_open_event" /\ c.id \in EventIds
    \/ c.op = "set_hold_open_disabled_until" /\ c.until \in {None, Until}
    \/ /\ c.op = "add_hold_open_recurring" /\ c.days \in Days
       /\ c.times \in Times \cup {None}
    \/ /\ c.op = "update_hold_open_recurring" /\ c.id \in WeeklyIds
       /\ c.days \in Days \cup {None} /\ c.times \in Times \cup {None}
       /\ c.clear_times \in {TRUE, None}
    \/ c.op = "remove_hold_open_recurring" /\ c.id \in WeeklyIds

LEMMA HoldCallsAre ==
    ASSUME NEW c \in HoldOpenCalls
    PROVE  HoldCallIs(c)
<1>1. CASE c \in {set_hold_open(on) : on \in BOOLEAN \cup {Truthy}}
  <2>1. PICK on \in BOOLEAN \cup {Truthy} : c = set_hold_open(on)
      BY <1>1
  <2>2. Bool(c.state) \in BOOLEAN
      BY DEF Bool
  <2> QED
      BY <2>1, <2>2 DEF HoldCallIs, set_hold_open
<1>2. CASE c = add_event
    BY <1>2 DEF HoldCallIs, add_event
<1>3. CASE c \in {remove_event(i) : i \in EventIds}
  <2>1. PICK i \in EventIds : c = remove_event(i)
      BY <1>3
  <2>2. c.op = "remove_hold_open_event" /\ c.id = i
      BY <2>1 DEF remove_event
  <2> QED
      BY <2>2 DEF HoldCallIs
<1>4. CASE c \in {disabled_until(u) : u \in {None, Until}}
  <2>1. PICK u \in {None, Until} : c = disabled_until(u)
      BY <1>4
  <2>2. c.op = "set_hold_open_disabled_until" /\ c.until = u
      BY <2>1 DEF disabled_until
  <2> QED
      BY <2>2 DEF HoldCallIs
<1>5. CASE c \in {add_recurring(d, t) : d \in Days, t \in Times \cup {None}}
  <2>1. PICK d \in Days, t \in Times \cup {None} : c = add_recurring(d, t)
      BY <1>5
  <2>2. c.op = "add_hold_open_recurring" /\ c.days = d /\ c.times = t
      BY <2>1 DEF add_recurring
  <2> QED
      BY <2>2 DEF HoldCallIs
<1>6. CASE c \in {update_recurring(i, d, None, None) : i \in WeeklyIds, d \in Days}
  <2>1. PICK i \in WeeklyIds, d \in Days : c = update_recurring(i, d, None, None)
      BY <1>6
  <2>2. /\ c.op = "update_hold_open_recurring" /\ c.id = i /\ c.days = d
        /\ c.times = None /\ c.clear_times = None
      BY <2>1 DEF update_recurring
  <2> QED
      BY <2>2 DEF HoldCallIs
<1>7. CASE c \in {update_recurring(i, None, t, clear) :
                    i \in WeeklyIds, t \in Times \cup {None}, clear \in Clears}
  <2>1. PICK i \in WeeklyIds, t \in Times \cup {None}, clear \in Clears :
               c = update_recurring(i, None, t, clear)
      BY <1>7
  <2>2. /\ c.op = "update_hold_open_recurring" /\ c.id = i /\ c.days = None
        /\ c.times = t /\ c.clear_times = clear
      BY <2>1 DEF update_recurring
  <2> QED
      BY <2>2 DEF HoldCallIs, Clears
<1>8. CASE c \in {remove_recurring(i) : i \in WeeklyIds}
  <2>1. PICK i \in WeeklyIds : c = remove_recurring(i)
      BY <1>8
  <2>2. c.op = "remove_hold_open_recurring" /\ c.id = i
      BY <2>1 DEF remove_recurring
  <2> QED
      BY <2>2 DEF HoldCallIs
<1>9. \/ c \in {set_hold_open(on) : on \in BOOLEAN \cup {Truthy}}
      \/ c = add_event
      \/ c \in {remove_event(i) : i \in EventIds}
      \/ c \in {disabled_until(u) : u \in {None, Until}}
      \/ c \in {add_recurring(d, t) : d \in Days, t \in Times \cup {None}}
      \/ c \in {update_recurring(i, d, None, None) : i \in WeeklyIds, d \in Days}
      \/ c \in {update_recurring(i, None, t, clear) :
                  i \in WeeklyIds, t \in Times \cup {None}, clear \in Clears}
      \/ c \in {remove_recurring(i) : i \in WeeklyIds}
    BY DEF HoldOpenCalls
<1> QED
    BY <1>1, <1>2, <1>3, <1>4, <1>5, <1>6, <1>7, <1>8, <1>9

LEMMA HoldsAre ==
    ASSUME NEW h \in Holds
    PROVE  /\ DOMAIN h.events = EventIds /\ DOMAIN h.weekly = WeeklyIds
           /\ Unused(h.events) \subseteq EventIds /\ Unused(h.weekly) \subseteq WeeklyIds
           /\ Live(h.weekly) \subseteq WeeklyIds
           /\ \A i \in Live(h.weekly) : h.weekly[i] \in Weekly
           /\ Unused(h.events) # {} => NextUnused(h.events) \in Unused(h.events)
           /\ Unused(h.weekly) # {} => NextUnused(h.weekly) \in Unused(h.weekly)
<1>1. DOMAIN h.events = EventIds /\ DOMAIN h.weekly = WeeklyIds
    BY DEF Holds
<1>2. EventIds \subseteq Nat /\ WeeklyIds \subseteq Nat
    BY HoldAssumption DEF EventIds, WeeklyIds
<1>3. /\ Unused(h.events) # {} => NextUnused(h.events) \in Unused(h.events)
      /\ Unused(h.weekly) # {} => NextUnused(h.weekly) \in Unused(h.weekly)
    BY <1>1, <1>2, NextIsUnused
<1>4. /\ Unused(h.events) \subseteq EventIds /\ Unused(h.weekly) \subseteq WeeklyIds
      /\ Live(h.weekly) \subseteq WeeklyIds
      /\ \A i \in Live(h.weekly) : h.weekly[i] \in Weekly
    BY <1>1 DEF Unused, Live, Holds
<1> QED
    BY <1>1, <1>3, <1>4

LEMMA HoldAnswer ==
    ASSUME NEW h \in Holds, NEW c \in HoldOpenCalls,
           NEW a, a = HoldOpenServe(h, HoldOpenRequest(c))
    PROVE  HoldAnswers(c, h, a)
<1>1. PICK r : r = HoldOpenRequest(c)
    OBVIOUS
<1>2. a = HoldOpenServe(h, r)
    BY <1>1
<1>3. CASE c.op = "set_hold_open"
  <2> DEFINE on == Bool(c.state)
  <2>1. r = [path |-> "hold-open", json |-> [state |-> on]]
      BY <1>1, <1>3 DEF HoldOpenRequest
  <2> HIDE DEF on
  <2>2. r.path = "hold-open" /\ r.json.state = on
      BY <2>1
  <2>3. a = Says([h EXCEPT !.manual = on], 200, [result |-> "ok", manual |-> on])
      BY <1>2, <2>2 DEF HoldOpenServe
  <2>4. ManualSet(c, h, a) /\ a.status = 200
      BY <2>3 DEF ManualSet, Says, on
  <2> QED
      BY <1>3, <2>4 DEF HoldAnswers
<1>4. CASE c.op = "add_hold_open_event"
  <2>1. r.path = "events"
      BY <1>1, <1>4 DEF HoldOpenRequest
  <2>2. PICK i : i = NextUnused(h.events)
      OBVIOUS
  <2>3. CASE Unused(h.events) = {}
    <3>1. a = Refuses(h, 422, "bound")
        BY <1>2, <2>1, <2>3 DEF HoldOpenServe
    <3> QED
        BY <1>4, <3>1 DEF HoldAnswers, HoldRefused, Refuses, Says
  <2>4. CASE Unused(h.events) # {}
    <3>1. a = Says([h EXCEPT !.events[i] = TRUE], 200, [result |-> "ok", event_id |-> i])
        BY <1>2, <2>1, <2>2, <2>4 DEF HoldOpenServe
    <3>2. EventAdded(h, i, a) /\ a.status = 200
        BY <3>1 DEF EventAdded, Says
    <3> QED
        BY <1>4, <2>2, <2>4, <3>2, HoldsAre DEF HoldAnswers, AnyEventAdded
  <2> QED
      BY <2>3, <2>4
<1>5. CASE c.op = "remove_hold_open_event"
  <2>1. r = [path |-> "events/id", id |-> c.id, json |-> NoFields]
      BY <1>1, <1>5 DEF HoldOpenRequest
  <2>2. r.path = "events/id" /\ r.id = c.id
      BY <2>1
  <2> DEFINE row == IF h.events[c.id] = TRUE THEN Gone ELSE h.events[c.id]
             removed == c.id \in Live(h.events)
  <2>3. a = Says([h EXCEPT !.events[c.id] = IF @ = TRUE THEN Gone ELSE @], 200,
                 [result |-> "ok", removed |-> removed])
      BY <1>2, <2>2 DEF HoldOpenServe
  <2>4. [h EXCEPT !.events[c.id] = IF @ = TRUE THEN Gone ELSE @] =
          [h EXCEPT !.events[c.id] = row]
      OBVIOUS
  <2>5. a = Says([h EXCEPT !.events[c.id] = row], 200, [result |-> "ok", removed |-> removed])
      BY <2>3, <2>4
  <2> HIDE DEF row, removed
  <2>6. a.status = 200 /\ a.to = [h EXCEPT !.events[c.id] = row]
        /\ a.body = [result |-> "ok", removed |-> removed]
      BY <2>5 DEF Says
  <2>7. EventRemoved(c, h, a)
      BY <2>6 DEF EventRemoved, row, removed
  <2> QED
      BY <1>5, <2>6, <2>7 DEF HoldAnswers
<1>6. CASE c.op = "set_hold_open_disabled_until"
  <2>1. r = [path |-> "disabled-until", json |-> [until |-> c.until]]
      BY <1>1, <1>6 DEF HoldOpenRequest
  <2>2. r.path = "disabled-until" /\ "until" \in DOMAIN r.json /\ r.json.until = c.until
      BY <2>1
  <2>3. a = Says([h EXCEPT !.until = c.until], 200,
                 [result |-> "ok", disabled_until |-> c.until])
      BY <1>2, <2>2 DEF HoldOpenServe
  <2>4. UntilSet(c, h, a) /\ a.status = 200
      BY <2>3 DEF UntilSet, Says
  <2> QED
      BY <1>6, <2>4 DEF HoldAnswers
<1>7. CASE c.op = "add_hold_open_recurring"
  <2>1. PICK always, optional : always = [days |-> c.days] /\ optional = [times |-> c.times]
      OBVIOUS
  <2>2. r = [path |-> "recurring", json |-> Body(always, optional)]
      BY <1>1, <1>7, <2>1 DEF HoldOpenRequest
  <2>3. /\ "days" \in DOMAIN always /\ always["days"] = c.days
        /\ "times" \notin DOMAIN always /\ "times" \in DOMAIN optional
        /\ optional["times"] = c.times
      BY <2>1
  <2>4. r.path = "recurring" /\ r.json = Body(always, optional)
      BY <2>2
  <2>5. r.json["days"] = c.days
      BY <2>3, <2>4 DEF Body
  <2>6. Get(r.json, "times", None) = c.times
    <3>1. Get(Body(always, optional), "times", None) =
            IF optional["times"] # None THEN optional["times"] ELSE None
        BY <2>3, OptionalField
    <3> QED
        BY <2>3, <2>4, <3>1
  <2>7. PICK i, w : i = NextUnused(h.weekly) /\ w = WeeklyGiven(c)
      OBVIOUS
  <2>8. CASE Unused(h.weekly) = {}
    <3>1. a = Refuses(h, 422, "bound")
        BY <1>2, <2>4, <2>8 DEF HoldOpenServe
    <3> QED
        BY <1>7, <3>1 DEF HoldAnswers, HoldRefused, Refuses, Says
  <2>9. CASE Unused(h.weekly) # {}
    <3>1. w = [days |-> r.json.days, times |-> Get(r.json, "times", None)]
        BY <2>5, <2>6, <2>7 DEF WeeklyGiven
    <3>2. a = Says([h EXCEPT !.weekly[i] = w], 200,
                   [result |-> "ok", temporal_date_id |-> i, schedule |-> w])
        BY <1>2, <2>4, <2>7, <2>9, <3>1 DEF HoldOpenServe
    <3>3. WeeklySet(h, i, w, a) /\ a.status = 200
        BY <3>2 DEF WeeklySet, Says
    <3> QED
        BY <1>7, <2>7, <2>9, <3>3, HoldsAre DEF HoldAnswers, AnyWeeklyAdded
  <2> QED
      BY <2>8, <2>9
<1>8. CASE c.op = "update_hold_open_recurring"
  <2>1. PICK none, optional :
          /\ none = NoFields
          /\ optional = [days |-> c.days, times |-> c.times, clear_times |-> c.clear_times]
      OBVIOUS
  <2>2. r = [path |-> "recurring/id", id |-> c.id, json |-> Body(none, optional)]
      BY <1>1, <1>8, <2>1 DEF HoldOpenRequest
  <2>3. /\ DOMAIN none = {} /\ "days" \in DOMAIN optional /\ "times" \in DOMAIN optional
        /\ "clear_times" \in DOMAIN optional
        /\ optional["days"] = c.days /\ optional["times"] = c.times
        /\ optional["clear_times"] = c.clear_times
      BY <2>1 DEF NoFields
  <2>4. r.path = "recurring/id" /\ r.id = c.id /\ r.json = Body(none, optional)
      BY <2>2
  <2>5. PICK json : json = Body(none, optional)
      OBVIOUS
  <2>6. \A default :
          /\ Get(json, "days", default) =
               IF optional["days"] # None THEN optional["days"] ELSE default
          /\ Get(json, "times", default) =
               IF optional["times"] # None THEN optional["times"] ELSE default
          /\ Get(json, "clear_times", default) =
               IF optional["clear_times"] # None THEN optional["clear_times"] ELSE default
      BY <2>3, <2>5, OptionalField
  <2>7. /\ c.clear_times = TRUE => Get(json, "clear_times", FALSE) = TRUE
        /\ c.clear_times # TRUE => Get(json, "clear_times", FALSE) = FALSE
    <3>1. c.clear_times \in {TRUE, None} /\ None # TRUE
        BY <1>8, HoldCallsAre, NoneAssumption DEF HoldCallIs
    <3> QED
        BY <2>3, <2>6, <3>1
  <2>8. CASE c.id \notin Live(h.weekly)
    <3>1. a = Refuses(h, 404, "not_found")
        BY <1>2, <2>4, <2>8 DEF HoldOpenServe
    <3> QED
        BY <1>8, <2>8, <3>1 DEF HoldAnswers, HoldRefused, Refuses, Says
  <2>9. CASE c.id \in Live(h.weekly) /\ DOMAIN json = {}
    <3>1. a = Refuses(h, 400, "empty_body")
        BY <1>2, <2>4, <2>5, <2>9 DEF HoldOpenServe
    <3> QED
        BY <1>8, <3>1 DEF HoldAnswers, HoldRefused, Refuses, Says
  <2>10. CASE c.id \in Live(h.weekly) /\ DOMAIN json # {}
    <3>1. PICK w : w = EditWeekly(h.weekly[c.id], json)
        OBVIOUS
    <3>2. w = WeeklyEdited(c, h.weekly[c.id])
      <4>1. /\ Get(json, "days", h.weekly[c.id].days) =
                  IF c.days # None THEN c.days ELSE h.weekly[c.id].days
            /\ Get(json, "times", h.weekly[c.id].times) =
                  IF c.times # None THEN c.times ELSE h.weekly[c.id].times
          BY <2>3, <2>6
      <4>2. CASE c.clear_times = TRUE
          BY <2>7, <3>1, <4>1, <4>2 DEF EditWeekly, WeeklyEdited
      <4>3. CASE c.clear_times # TRUE
          BY <2>7, <3>1, <4>1, <4>3 DEF EditWeekly, WeeklyEdited
      <4> QED
          BY <4>2, <4>3
    <3>3. a = Says([h EXCEPT !.weekly[c.id] = w], 200,
                   [result |-> "ok", temporal_date_id |-> c.id, schedule |-> w])
        BY <1>2, <2>4, <2>5, <2>10, <3>1 DEF HoldOpenServe
    <3>4. WeeklySet(h, c.id, w, a) /\ a.status = 200
        BY <3>3 DEF WeeklySet, Says
    <3> QED
        BY <1>8, <2>10, <3>2, <3>4 DEF HoldAnswers
  <2> QED
      BY <2>8, <2>9, <2>10
<1>9. CASE c.op = "remove_hold_open_recurring"
  <2>1. r = [path |-> "recurring/delete", id |-> c.id, json |-> NoFields]
      BY <1>1, <1>9 DEF HoldOpenRequest
  <2>2. r.path = "recurring/delete" /\ r.id = c.id
      BY <2>1
  <2>3. CASE c.id \notin Live(h.weekly)
    <3>1. a = Refuses(h, 404, "not_found")
        BY <1>2, <2>2, <2>3 DEF HoldOpenServe
    <3> QED
        BY <1>9, <2>3, <3>1 DEF HoldAnswers, HoldRefused, Refuses, Says
  <2>4. CASE c.id \in Live(h.weekly)
    <3>1. a = Says([h EXCEPT !.weekly[c.id] = Gone], 200,
                   [result |-> "ok", removed |-> TRUE, temporal_date_id |-> c.id])
        BY <1>2, <2>2, <2>4 DEF HoldOpenServe
    <3>2. WeeklyRemoved(c, h, a) /\ a.status = 200
        BY <3>1 DEF WeeklyRemoved, Says
    <3> QED
        BY <1>9, <2>4, <3>2 DEF HoldAnswers
  <2> QED
      BY <2>3, <2>4
<1> QED
    BY <1>3, <1>4, <1>5, <1>6, <1>7, <1>8, <1>9, HoldCallsAre DEF HoldCallIs

\* What each write leaves behind.
EventRows == {Never, Gone, TRUE}
EventBecomes(h, i, row, f) == f = [h EXCEPT !.events[i] = row]
WeeklyBecomes(h, i, row, f) == f = [h EXCEPT !.weekly[i] = row]

LEMMA EventLeft ==
    ASSUME NEW h \in Holds, NEW i \in EventIds, NEW row \in EventRows,
           NEW f, EventBecomes(h, i, row, f)
    PROVE  /\ f \in Holds /\ f.events[i] = row
           /\ \A j \in EventIds \ {i} : f.events[j] = h.events[j]
           /\ f.manual = h.manual /\ f.until = h.until /\ f.weekly = h.weekly
<1>1. PICK events : events = [h.events EXCEPT ![i] = row]
    OBVIOUS
<1>2. f = [h EXCEPT !.events = events]
    BY <1>1 DEF EventBecomes
<1>3. /\ events \in [EventIds -> {Never, Gone, TRUE}] /\ events[i] = row
      /\ \A j \in EventIds \ {i} : events[j] = h.events[j]
    BY <1>1 DEF Holds, EventRows
<1>4. f \in Holds
    BY <1>2, <1>3 DEF Holds, EventRows
<1>5. f.events = events /\ f.manual = h.manual /\ f.until = h.until /\ f.weekly = h.weekly
    BY <1>2 DEF Holds, EventRows
<1> QED
    BY <1>3, <1>4, <1>5

LEMMA WeeklyLeft ==
    ASSUME NEW h \in Holds, NEW i \in WeeklyIds, NEW row \in Weekly \cup {Never, Gone},
           NEW f, WeeklyBecomes(h, i, row, f)
    PROVE  /\ f \in Holds /\ f.weekly[i] = row
           /\ \A j \in WeeklyIds \ {i} : f.weekly[j] = h.weekly[j]
           /\ f.manual = h.manual /\ f.until = h.until /\ f.events = h.events
<1>1. PICK weekly : weekly = [h.weekly EXCEPT ![i] = row]
    OBVIOUS
<1>2. f = [h EXCEPT !.weekly = weekly]
    BY <1>1 DEF WeeklyBecomes
<1>3. /\ weekly \in [WeeklyIds -> Weekly \cup {Never, Gone}] /\ weekly[i] = row
      /\ \A j \in WeeklyIds \ {i} : weekly[j] = h.weekly[j]
    BY <1>1 DEF Holds
<1>4. f \in Holds
    BY <1>2, <1>3 DEF Holds
<1>5. f.weekly = weekly /\ f.manual = h.manual /\ f.until = h.until /\ f.events = h.events
    BY <1>2 DEF Holds
<1> QED
    BY <1>3, <1>4, <1>5

LEMMA ManualLeft ==
    ASSUME NEW h \in Holds, NEW c \in HoldOpenCalls, NEW a, c.op = "set_hold_open",
           ManualSet(c, h, a)
    PROVE  /\ a.to \in Holds /\ a.to.manual = Bool(c.state)
           /\ a.to.until = h.until /\ a.to.events = h.events /\ a.to.weekly = h.weekly
BY HoldCallsAre DEF HoldCallIs, ManualSet, Holds

LEMMA UntilLeft ==
    ASSUME NEW h \in Holds, NEW c \in HoldOpenCalls, NEW a,
           c.op = "set_hold_open_disabled_until", UntilSet(c, h, a)
    PROVE  /\ a.to \in Holds /\ a.to.until = c.until
           /\ a.to.manual = h.manual /\ a.to.events = h.events /\ a.to.weekly = h.weekly
BY HoldCallsAre DEF HoldCallIs, UntilSet, Holds

LEMMA EventAddedLeft ==
    ASSUME NEW h \in Holds, NEW i \in EventIds, NEW a, EventAdded(h, i, a)
    PROVE  /\ a.to \in Holds /\ ~(a.to.events[i] \in {Never, Gone})
           /\ \A j \in EventIds \ {i} : a.to.events[j] = h.events[j]
           /\ a.to.manual = h.manual /\ a.to.until = h.until /\ a.to.weekly = h.weekly
<1>1. PICK row, f : row = TRUE /\ f = a.to
    OBVIOUS
<1>2. row \in EventRows /\ EventBecomes(h, i, row, f)
    BY <1>1 DEF EventAdded, EventBecomes, EventRows
<1>3. /\ f \in Holds /\ f.events[i] = row
      /\ \A j \in EventIds \ {i} : f.events[j] = h.events[j]
      /\ f.manual = h.manual /\ f.until = h.until /\ f.weekly = h.weekly
    BY <1>2, EventLeft
<1> QED
    BY <1>1, <1>3, HoldRowAssumption

LEMMA WeeklySetLeft ==
    ASSUME NEW h \in Holds, NEW i \in WeeklyIds, NEW w \in Weekly, NEW a,
           WeeklySet(h, i, w, a)
    PROVE  /\ a.to \in Holds /\ a.to.weekly[i] = w
           /\ \A j \in WeeklyIds \ {i} : a.to.weekly[j] = h.weekly[j]
           /\ a.to.manual = h.manual /\ a.to.until = h.until /\ a.to.events = h.events
<1>1. PICK f : f = a.to
    OBVIOUS
<1>2. w \in Weekly \cup {Never, Gone} /\ WeeklyBecomes(h, i, w, f)
    BY <1>1 DEF WeeklySet, WeeklyBecomes
<1>3. /\ f \in Holds /\ f.weekly[i] = w
      /\ \A j \in WeeklyIds \ {i} : f.weekly[j] = h.weekly[j]
      /\ f.manual = h.manual /\ f.until = h.until /\ f.events = h.events
    BY <1>2, WeeklyLeft
<1> QED
    BY <1>1, <1>3

LEMMA WeeklyRemovedLeft ==
    ASSUME NEW h \in Holds, NEW c \in HoldOpenCalls, NEW a,
           c.op = "remove_hold_open_recurring", WeeklyRemoved(c, h, a)
    PROVE  /\ a.to \in Holds /\ a.to.weekly[c.id] = Gone
           /\ \A j \in WeeklyIds \ {c.id} : a.to.weekly[j] = h.weekly[j]
           /\ a.to.manual = h.manual /\ a.to.until = h.until /\ a.to.events = h.events
<1>1. PICK i \in WeeklyIds : i = c.id
    BY HoldCallsAre DEF HoldCallIs
<1>2. PICK f, row : f = a.to /\ row = Gone
    OBVIOUS
<1>3. row \in Weekly \cup {Never, Gone} /\ WeeklyBecomes(h, i, row, f)
    BY <1>1, <1>2 DEF WeeklyRemoved, WeeklyBecomes
<1>4. /\ f \in Holds /\ f.weekly[i] = row
      /\ \A j \in WeeklyIds \ {i} : f.weekly[j] = h.weekly[j]
      /\ f.manual = h.manual /\ f.until = h.until /\ f.events = h.events
    BY <1>3, WeeklyLeft
<1> QED
    BY <1>1, <1>2, <1>4

LEMMA EventRemovedLeft ==
    ASSUME NEW h \in Holds, NEW c \in HoldOpenCalls, NEW a,
           c.op = "remove_hold_open_event", EventRemoved(c, h, a)
    PROVE  /\ a.to \in Holds /\ a.to.events[c.id] \in {Never, Gone}
           /\ \A j \in EventIds \ {c.id} : a.to.events[j] = h.events[j]
           /\ a.to.manual = h.manual /\ a.to.until = h.until /\ a.to.weekly = h.weekly
<1>1. PICK i \in EventIds : i = c.id
    BY HoldCallsAre DEF HoldCallIs
<1>2. PICK row : row = IF h.events[i] = TRUE THEN Gone ELSE h.events[i]
    OBVIOUS
<1>3. row \in {Never, Gone}
    BY <1>2 DEF Holds
<1>4. PICK f : f = a.to
    OBVIOUS
<1>5. row \in EventRows /\ EventBecomes(h, i, row, f)
    BY <1>1, <1>2, <1>3, <1>4 DEF EventRemoved, EventBecomes, EventRows
<1>6. /\ f \in Holds /\ f.events[i] = row
      /\ \A j \in EventIds \ {i} : f.events[j] = h.events[j]
      /\ f.manual = h.manual /\ f.until = h.until /\ f.weekly = h.weekly
    BY <1>5, EventLeft
<1> QED
    BY <1>1, <1>3, <1>4, <1>6

LEMMA WeeklyTyped ==
    ASSUME NEW c \in HoldOpenCalls
    PROVE  /\ c.op = "add_hold_open_recurring" => WeeklyGiven(c) \in Weekly
           /\ c.op = "update_hold_open_recurring" =>
                \A w \in Weekly : WeeklyEdited(c, w) \in Weekly
BY HoldCallsAre DEF HoldCallIs, WeeklyGiven, WeeklyEdited, Weekly

LEMMA HoldTyped ==
    ASSUME NEW h \in Holds, NEW c \in HoldOpenCalls, NEW a, HoldAnswers(c, h, a)
    PROVE  a.to \in Holds
<1>1. CASE HoldRefused(c, h, a)
    BY <1>1 DEF HoldRefused
<1>2. CASE c.op = "set_hold_open" /\ ManualSet(c, h, a)
    BY <1>2, ManualLeft
<1>3. CASE c.op = "add_hold_open_event" /\ AnyEventAdded(h, a)
    BY <1>3, HoldsAre, EventAddedLeft DEF AnyEventAdded
<1>4. CASE c.op = "remove_hold_open_event" /\ EventRemoved(c, h, a)
    BY <1>4, EventRemovedLeft
<1>5. CASE c.op = "set_hold_open_disabled_until" /\ UntilSet(c, h, a)
    BY <1>5, UntilLeft
<1>6. CASE c.op = "add_hold_open_recurring" /\ AnyWeeklyAdded(c, h, a)
    BY <1>6, HoldsAre, WeeklyTyped, WeeklySetLeft DEF AnyWeeklyAdded
<1>7. CASE /\ c.op = "update_hold_open_recurring" /\ c.id \in Live(h.weekly)
           /\ WeeklySet(h, c.id, WeeklyEdited(c, h.weekly[c.id]), a)
    BY <1>7, HoldsAre, WeeklyTyped, WeeklySetLeft
<1>8. CASE c.op = "remove_hold_open_recurring" /\ WeeklyRemoved(c, h, a)
    BY <1>8, WeeklyRemovedLeft
<1> QED
    BY <1>1, <1>2, <1>3, <1>4, <1>5, <1>6, <1>7, <1>8 DEF HoldAnswers

LEMMA HoldKeepsWithin ==
    ASSUME NEW h \in Holds, NEW c \in HoldOpenCalls, NEW a, HoldAnswers(c, h, a)
    PROVE  HoldOpenWithin(c, h, a.to)
<1>1. CASE HoldRefused(c, h, a)
    BY <1>1 DEF HoldRefused, HoldOpenWithin
<1>2. CASE c.op = "set_hold_open" /\ ManualSet(c, h, a)
    BY <1>2, ManualLeft DEF HoldOpenWithin
<1>3. CASE c.op = "add_hold_open_event" /\ AnyEventAdded(h, a)
  <2>1. PICK i \in Unused(h.events) : EventAdded(h, i, a)
      BY <1>3 DEF AnyEventAdded
  <2>2. i \in EventIds /\ h.events[i] = Never
      BY HoldsAre DEF Unused
  <2>3. /\ \A j \in EventIds \ {i} : a.to.events[j] = h.events[j]
        /\ a.to.manual = h.manual /\ a.to.until = h.until /\ a.to.weekly = h.weekly
      BY <2>1, <2>2, EventAddedLeft
  <2> QED
      BY <1>3, <2>1, <2>2, <2>3 DEF HoldOpenWithin
<1>4. CASE c.op = "remove_hold_open_event" /\ EventRemoved(c, h, a)
    BY <1>4, EventRemovedLeft DEF HoldOpenWithin
<1>5. CASE c.op = "set_hold_open_disabled_until" /\ UntilSet(c, h, a)
    BY <1>5, UntilLeft DEF HoldOpenWithin
<1>6. CASE c.op = "add_hold_open_recurring" /\ AnyWeeklyAdded(c, h, a)
  <2>1. PICK i \in Unused(h.weekly) : WeeklySet(h, i, WeeklyGiven(c), a)
      BY <1>6 DEF AnyWeeklyAdded
  <2>2. i \in WeeklyIds /\ h.weekly[i] = Never /\ WeeklyGiven(c) \in Weekly
      BY <1>6, HoldsAre, WeeklyTyped DEF Unused
  <2> QED
      BY <1>6, <2>1, <2>2, WeeklySetLeft DEF HoldOpenWithin
<1>7. CASE /\ c.op = "update_hold_open_recurring" /\ c.id \in Live(h.weekly)
           /\ WeeklySet(h, c.id, WeeklyEdited(c, h.weekly[c.id]), a)
  <2>1. PICK w : w = WeeklyEdited(c, h.weekly[c.id])
      OBVIOUS
  <2>2. w \in Weekly /\ c.id \in WeeklyIds
      BY <1>7, <2>1, HoldsAre, WeeklyTyped
  <2>3. /\ a.to.weekly[c.id] = w
        /\ \A j \in WeeklyIds \ {c.id} : a.to.weekly[j] = h.weekly[j]
        /\ a.to.manual = h.manual /\ a.to.until = h.until /\ a.to.events = h.events
      BY <1>7, <2>1, <2>2, WeeklySetLeft
  <2>4. /\ c.days = None => w.days = h.weekly[c.id].days
        /\ c.times = None /\ c.clear_times = None => w.times = h.weekly[c.id].times
      BY <2>1, NoneAssumption DEF WeeklyEdited
  <2> QED
      BY <1>7, <2>3, <2>4 DEF HoldOpenWithin
<1>8. CASE c.op = "remove_hold_open_recurring" /\ WeeklyRemoved(c, h, a)
    BY <1>8, WeeklyRemovedLeft DEF HoldOpenWithin
<1> QED
    BY <1>1, <1>2, <1>3, <1>4, <1>5, <1>6, <1>7, <1>8 DEF HoldAnswers

LEMMA HoldKeepsMeant ==
    ASSUME NEW h \in Holds, NEW c \in HoldOpenCalls, NEW a, HoldAnswers(c, h, a),
           a.status \in 200..299
    PROVE  \A before : HoldOpenMeant(c, before, a.to)
<1>1. ~HoldRefused(c, h, a)
    BY DEF HoldRefused
<1>2. CASE c.op = "set_hold_open"
    BY <1>1, <1>2, ManualLeft DEF HoldAnswers, HoldOpenMeant
<1>3. CASE c.op \in {"add_hold_open_event", "add_hold_open_recurring"}
    BY <1>3 DEF HoldOpenMeant
<1>4. CASE c.op = "remove_hold_open_event"
  <2>1. a.to.events[c.id] \in {Never, Gone}
      BY <1>1, <1>4, EventRemovedLeft DEF HoldAnswers
  <2> QED
      BY <1>4, <2>1 DEF HoldOpenMeant, Live
<1>5. CASE c.op = "set_hold_open_disabled_until"
    BY <1>1, <1>5, UntilLeft DEF HoldAnswers, HoldOpenMeant
<1>6. CASE c.op = "update_hold_open_recurring"
  <2>1. PICK w : w = WeeklyEdited(c, h.weekly[c.id])
      OBVIOUS
  <2>2. c.id \in Live(h.weekly) /\ WeeklySet(h, c.id, w, a)
      BY <1>1, <1>6, <2>1 DEF HoldAnswers
  <2>3. w \in Weekly /\ c.id \in WeeklyIds
      BY <1>6, <2>1, <2>2, HoldsAre, WeeklyTyped
  <2>4. a.to.weekly[c.id] = w
      BY <2>2, <2>3, WeeklySetLeft
  <2>5. /\ c.days # None => w.days = c.days
        /\ c.clear_times = TRUE => w.times = None
        /\ c.clear_times = None /\ c.times # None => w.times = c.times
      BY <2>1, NoneAssumption DEF WeeklyEdited
  <2> QED
      BY <1>6, <2>4, <2>5 DEF HoldOpenMeant
<1>7. CASE c.op = "remove_hold_open_recurring"
  <2>1. a.to.weekly[c.id] = Gone
      BY <1>1, <1>7, WeeklyRemovedLeft DEF HoldAnswers
  <2> QED
      BY <1>7, <2>1 DEF HoldOpenMeant, Live
<1> QED
    BY <1>2, <1>3, <1>4, <1>5, <1>6, <1>7, HoldCallsAre DEF HoldCallIs

\* How the answers are read.
LEMMA RecurringRead ==
    ASSUME NEW i \in WeeklyIds, NEW w \in Weekly
    PROVE  RecurringHoldOpen([result |-> "ok", temporal_date_id |-> i, schedule |-> w]) =
             [id |-> i, schedule |-> w, simulated |-> FALSE]
<1>1. i # None /\ w # None
    BY HoldRowAssumption DEF Weekly
<1>2. PICK d : d = [result |-> "ok", temporal_date_id |-> i, schedule |-> w]
    OBVIOUS
<1>3. \A default : GetOr(d, "temporal_date_id", default) = i
      /\ GetOr(d, "schedule", NoFields) = w /\ Get(d, "result", None) = "ok"
    BY <1>1, <1>2 DEF GetOr, Get
<1> QED
    BY <1>2, <1>3 DEF RecurringHoldOpen, simulatedIn

\* What is true of the result x of c, from h to f.
HoldTrue(c, h, f, x) ==
    /\ x.simulated = FALSE
    /\ c.op = "set_hold_open" => x.manual = f.manual
    /\ c.op = "add_hold_open_event" => x.event_id \in Live(f.events)
    /\ c.op = "remove_hold_open_event" => x.removed = (c.id \in Live(h.events))
    /\ c.op = "set_hold_open_disabled_until" => x.disabled_until = f.until
    /\ c.op \in {"add_hold_open_recurring", "update_hold_open_recurring"} =>
         f.weekly[x.id] = x.schedule
    /\ c.op = "remove_hold_open_recurring" => x.removed = TRUE

LEMMA HoldRead ==
    ASSUME NEW h \in Holds, NEW c \in HoldOpenCalls, NEW a, HoldAnswers(c, h, a),
           a.status \in 200..299
    PROVE  HoldTrue(c, h, a.to, HoldOpenResult(c, a.body))
<1> DEFINE result == HoldOpenResult(c, a.body)
<1> SUFFICES HoldTrue(c, h, a.to, result)
    OBVIOUS
<1> HIDE DEF result
<1>1. ~HoldRefused(c, h, a)
    BY DEF HoldRefused
<1>2. CASE c.op = "set_hold_open"
  <2> DEFINE on == Bool(c.state)
  <2>1. ManualSet(c, h, a)
      BY <1>1, <1>2 DEF HoldAnswers
  <2>2. a.body = [result |-> "ok", manual |-> on] /\ a.to.manual = on
      BY <1>2, <2>1, ManualLeft DEF ManualSet
  <2> HIDE DEF on
  <2>3. Get(a.body, "manual", None) = on /\ Get(a.body, "result", None) = "ok"
      BY <2>2 DEF Get
  <2>4. result = [manual |-> on, simulated |-> FALSE]
      BY <1>2, <2>3 DEF result, HoldOpenResult, ManualHoldOpenResult, simulatedIn
  <2> QED
      BY <1>2, <2>2, <2>4 DEF HoldTrue
<1>3. CASE c.op = "add_hold_open_event"
  <2>1. PICK i \in Unused(h.events) : EventAdded(h, i, a)
      BY <1>1, <1>3 DEF HoldAnswers, AnyEventAdded
  <2>2. i \in EventIds
      BY HoldsAre
  <2>3. a.to.events[i] \notin {Never, Gone} /\ a.to \in Holds
      BY <2>1, <2>2, EventAddedLeft
  <2>4. i \in Live(a.to.events)
      BY <2>2, <2>3, HoldsAre, HoldRowAssumption DEF Live
  <2>5. Get(a.body, "event_id", None) = i /\ Get(a.body, "result", None) = "ok"
      BY <2>1 DEF EventAdded, Get
  <2>6. result = [event_id |-> i, simulated |-> FALSE]
      BY <1>3, <2>5 DEF result, HoldOpenResult, HoldOpenEventAdded, simulatedIn
  <2> QED
      BY <1>3, <2>4, <2>6 DEF HoldTrue
<1>4. CASE c.op = "remove_hold_open_event"
  <2> DEFINE removed == c.id \in Live(h.events)
  <2>1. EventRemoved(c, h, a)
      BY <1>1, <1>4 DEF HoldAnswers
  <2>2. a.body = [result |-> "ok", removed |-> removed]
      BY <2>1 DEF EventRemoved
  <2>8. removed \in BOOLEAN
      OBVIOUS
  <2>3. Bool(removed) = removed
      BY <2>8, BoolOfBoolean
  <2> HIDE DEF removed
  <2>4. Get(a.body, "removed", None) = removed /\ Get(a.body, "result", None) = "ok"
      BY <2>2 DEF Get
  <2>5. result = [removed |-> removed, simulated |-> FALSE]
      BY <1>4, <2>3, <2>4 DEF result, HoldOpenResult, HoldOpenEventRemoved,
         simulatedIn
  <2>6. result.removed = removed /\ result.simulated = FALSE
      BY <2>5
  <2>7. result.removed = (c.id \in Live(h.events))
      BY <2>6 DEF removed
  <2> QED
      BY <1>4, <2>6, <2>7 DEF HoldTrue
<1>5. CASE c.op = "set_hold_open_disabled_until"
  <2>1. UntilSet(c, h, a)
      BY <1>1, <1>5 DEF HoldAnswers
  <2>2. a.to.until = c.until
      BY <1>5, <2>1, UntilLeft
  <2>3. Get(a.body, "disabled_until", None) = c.until /\ Get(a.body, "result", None) = "ok"
      BY <2>1 DEF UntilSet, Get
  <2>4. result = [disabled_until |-> c.until, simulated |-> FALSE]
      BY <1>5, <2>3 DEF result, HoldOpenResult, HoldOpenDisabledUntil, simulatedIn
  <2> QED
      BY <1>5, <2>2, <2>4 DEF HoldTrue
<1>6. CASE c.op \in {"add_hold_open_recurring", "update_hold_open_recurring"}
  <2>1. PICK i \in WeeklyIds, w \in Weekly : WeeklySet(h, i, w, a)
    <3>1. CASE c.op = "add_hold_open_recurring"
      <4>1. PICK i \in Unused(h.weekly) : WeeklySet(h, i, WeeklyGiven(c), a)
          BY <1>1, <3>1 DEF HoldAnswers, AnyWeeklyAdded
      <4> QED
          BY <3>1, <4>1, HoldsAre, WeeklyTyped
    <3>2. CASE c.op = "update_hold_open_recurring"
      <4>1. c.id \in Live(h.weekly) /\ WeeklySet(h, c.id, WeeklyEdited(c, h.weekly[c.id]), a)
          BY <1>1, <3>2 DEF HoldAnswers
      <4> QED
          BY <3>2, <4>1, HoldsAre, WeeklyTyped
    <3> QED
        BY <1>6, <3>1, <3>2
  <2>2. a.to.weekly[i] = w
      BY <2>1, WeeklySetLeft
  <2>3. a.body = [result |-> "ok", temporal_date_id |-> i, schedule |-> w]
      BY <2>1 DEF WeeklySet
  <2>4. result = RecurringHoldOpen(a.body)
      BY <1>6 DEF result, HoldOpenResult
  <2>5. result = [id |-> i, schedule |-> w, simulated |-> FALSE]
      BY <2>3, <2>4, RecurringRead
  <2> QED
      BY <1>6, <2>2, <2>5 DEF HoldTrue
<1>7. CASE c.op = "remove_hold_open_recurring"
  <2>1. WeeklyRemoved(c, h, a)
      BY <1>1, <1>7 DEF HoldAnswers
  <2>2. /\ Get(a.body, "removed", None) = TRUE /\ Get(a.body, "result", None) = "ok"
        /\ Get(a.body, "temporal_date_id", None) = c.id
      BY <2>1 DEF WeeklyRemoved, Get
  <2>3. Bool(TRUE) = TRUE
      BY BoolOfBoolean
  <2>4. result = [removed |-> TRUE, id |-> c.id, simulated |-> FALSE]
      BY <1>7, <2>2, <2>3 DEF result, HoldOpenResult, RecurringHoldOpenRemoved,
         simulatedIn
  <2> QED
      BY <1>7, <2>4 DEF HoldTrue
<1> QED
    BY <1>2, <1>3, <1>4, <1>5, <1>6, <1>7, HoldCallsAre DEF HoldCallIs

LEMMA HoldTold ==
    ASSUME NEW h \in Holds, NEW c \in HoldOpenCalls, NEW a, HoldAnswers(c, h, a),
           a.status \in 200..299
    PROVE  /\ ~HoldOpenResult(c, a.body).simulated
           /\ HoldOpenResult(c, [result |-> "simulated"]).simulated
<1>1. PICK x : x = HoldOpenResult(c, a.body)
    OBVIOUS
<1>2. HoldTrue(c, h, a.to, x)
    BY <1>1, HoldRead
<1>3. PICK d : d = [result |-> "simulated"]
    OBVIOUS
<1>4. simulatedIn(d)
    BY <1>3 DEF simulatedIn, Get
<1>5. HoldOpenResult(c, d).simulated
    BY <1>4, HoldCallsAre
       DEF HoldCallIs, HoldOpenResult, ManualHoldOpenResult, HoldOpenEventAdded,
       HoldOpenEventRemoved,
           HoldOpenDisabledUntil, RecurringHoldOpen, RecurringHoldOpenRemoved
<1> QED
    BY <1>1, <1>2, <1>3, <1>5 DEF HoldTrue

LEMMA HoldKeepsHonest ==
    ASSUME NEW h \in Holds, NEW c \in HoldOpenCalls, NEW a, HoldAnswers(c, h, a),
           NEW r, r.call = c, EndsWith(r, a, HoldOpenResult(c, a.body)),
           NEW before \in Holds, r.trace.applied = 1 => before = h, NEW alone,
           c.op = "remove_hold_open_event" /\ r.trace.applied # 1 /\ alone =>
               \E first : HoldAnswers(c, before, first) /\ h = first.to
    PROVE  HoldOpenHonest(r, before, a.to, alone)
<1>1. CASE a.status \in 200..299
  <2>1. PICK result : result = r.result
      OBVIOUS
  <2>2. r.raised = None /\ result = HoldOpenResult(c, a.body)
      BY <1>1, <2>1 DEF EndsWith
  <2>3. HoldTrue(c, h, a.to, result)
      BY <1>1, <2>2, HoldRead
  <2>4. /\ c.op = "remove_hold_open_event" => c.id \notin Live(a.to.events)
        /\ c.op = "remove_hold_open_recurring" => c.id \notin Live(a.to.weekly)
      BY <1>1, HoldKeepsMeant DEF HoldOpenMeant
  <2>5. c.op = "remove_hold_open_event" /\ r.trace.applied # 1 /\ alone =>
           c.id \notin Live(h.events)
    <3> SUFFICES ASSUME c.op = "remove_hold_open_event", r.trace.applied # 1, alone
                 PROVE  c.id \notin Live(h.events)
        OBVIOUS
    <3>1. PICK first : HoldAnswers(c, before, first) /\ h = first.to
        OBVIOUS
    <3>2. first.status \in 200..299
        BY <3>1 DEF HoldAnswers, HoldRefused
    <3>3. HoldOpenMeant(c, before, first.to)
        BY <3>1, <3>2, HoldKeepsMeant
    <3> QED
        BY <3>1, <3>3 DEF HoldOpenMeant
  <2>6. c.op = "remove_hold_open_event" /\ alone =>
           (result.removed <=> r.trace.applied = 1 /\ c.id \in Live(before.events))
      BY <2>3, <2>5 DEF HoldTrue
  <2> QED
      BY <2>1, <2>2, <2>3, <2>4, <2>6 DEF HoldOpenHonest, HoldTrue
<1>2. CASE a.status \notin 200..299
  <2>1. HoldRefused(c, h, a)
      BY <1>2 DEF HoldAnswers
  <2>2. \/ r.raised \in {"BadRequestError", "APIError"}
        \/ r.raised = "NotFoundError" /\ c.id \notin Live(a.to.weekly)
      BY <1>2, <2>1, Refusals DEF EndsWith, HoldRefused
  <2>3. r.raised # None
      BY <2>2, ExceptionsAssumption DEF Exceptions
  <2> QED
      BY <2>2, <2>3 DEF HoldOpenHonest
<1> QED
    BY <1>1, <1>2

----------------------------------------------------------------------------
(* Notifications.                                                          *)

SwitchSet(c, x, f) == f = [x EXCEPT !.enabled[c.owner] = Bool(c.enabled)]
QuietGiven(c) == [owner |-> c.owner, times |-> c.times]
QuietBecomes(x, i, row, f) == f = [x EXCEPT !.quiet[i] = row]
AnyQuietAdded(c, x, f) == \E i \in Unused(x.quiet) : QuietBecomes(x, i, QuietGiven(c), f)
AlertsAnswered(c, a) == a.body = NotificationFields(a.to, c.owner)

AlertsRefused(c, x, a) ==
    /\ a.to = x
    /\ \/ a.status = 403 /\ a.body.code = "open_notifications_disabled"
       \/ a.status = 422 /\ a.body.code = "bound"
       \/ a.status = 404 /\ a.body.code = "quiet_hours_not_found" /\ c.id \notin Mine(x, c.owner)

AlertsAnswers(c, x, a) ==
    \/ AlertsRefused(c, x, a)
    \/ a.status = 200 /\ AlertsAnswered(c, a)
       /\ c.op = "set_my_notifications_enabled" /\ SwitchSet(c, x, a.to)
    \/ a.status = 200 /\ AlertsAnswered(c, a)
       /\ c.op = "add_quiet_hours" /\ AnyQuietAdded(c, x, a.to)
    \/ a.status = 200 /\ AlertsAnswered(c, a)
       /\ c.op = "remove_quiet_hours" /\ c.id \in Mine(x, c.owner)
       /\ QuietBecomes(x, c.id, Gone, a.to)

NotificationCallIs(c) ==
    \/ c.op = "set_my_notifications_enabled" /\ Bool(c.enabled) \in BOOLEAN
    \/ c.op = "add_quiet_hours" /\ c.times \in Nights \cup {None}
    \/ c.op = "remove_quiet_hours" /\ c.id \in QuietIds

LEMMA NotificationCallsAre ==
    ASSUME NEW c \in NotificationCalls
    PROVE  c.owner \in Owners /\ NotificationCallIs(c)
<1>1. CASE c \in {set_enabled_for(o, on) : o \in Owners, on \in BOOLEAN \cup {Truthy}}
  <2>1. PICK o \in Owners, on \in BOOLEAN \cup {Truthy} : c = set_enabled_for(o, on)
      BY <1>1
  <2>2. c.op = "set_my_notifications_enabled" /\ c.owner = o
      BY <2>1 DEF set_enabled_for
  <2>3. Bool(c.enabled) \in BOOLEAN
      BY DEF Bool
  <2> QED
      BY <2>2, <2>3 DEF NotificationCallIs
<1>2. CASE c \in {add_quiet_hours(o, t) : o \in Owners, t \in Nights \cup {None}}
  <2>1. PICK o \in Owners, t \in Nights \cup {None} : c = add_quiet_hours(o, t)
      BY <1>2
  <2>2. c.op = "add_quiet_hours" /\ c.owner = o /\ c.times = t
      BY <2>1 DEF add_quiet_hours
  <2> QED
      BY <2>2 DEF NotificationCallIs
<1>3. CASE c \in {remove_quiet_hours(o, i) : o \in Owners, i \in QuietIds}
  <2>1. PICK o \in Owners, i \in QuietIds : c = remove_quiet_hours(o, i)
      BY <1>3
  <2>2. c.op = "remove_quiet_hours" /\ c.owner = o /\ c.id = i
      BY <2>1 DEF remove_quiet_hours
  <2> QED
      BY <2>2 DEF NotificationCallIs
<1> QED
    BY <1>1, <1>2, <1>3 DEF NotificationCalls

LEMMA AlertsAre ==
    ASSUME NEW x \in Alerts
    PROVE  /\ DOMAIN x.quiet = QuietIds /\ Unused(x.quiet) \subseteq QuietIds
           /\ Live(x.quiet) \subseteq QuietIds
           /\ \A i \in Live(x.quiet) : x.quiet[i] \in QuietRows
           /\ \A o : Mine(x, o) \subseteq Live(x.quiet)
           /\ Unused(x.quiet) # {} => NextUnused(x.quiet) \in Unused(x.quiet)
<1>1. DOMAIN x.quiet = QuietIds
    BY DEF Alerts
<1>2. QuietIds \subseteq Nat
    BY QuietAssumption DEF QuietIds
<1>3. Unused(x.quiet) # {} => NextUnused(x.quiet) \in Unused(x.quiet)
    BY <1>1, <1>2, NextIsUnused
<1>4. /\ Unused(x.quiet) \subseteq QuietIds /\ Live(x.quiet) \subseteq QuietIds
      /\ \A i \in Live(x.quiet) : x.quiet[i] \in QuietRows
    BY <1>1 DEF Unused, Live, Alerts
<1> QED
    BY <1>1, <1>3, <1>4 DEF Mine

LEMMA QuietTimesSent ==
    ASSUME NEW c, NEW json, json = Body([days |-> "SU"], [times |-> c.times])
    PROVE  Get(json, "times", None) = c.times
<1>1. PICK always, optional : always = [days |-> "SU"] /\ optional = [times |-> c.times]
    OBVIOUS
<1>2. "times" \notin DOMAIN always /\ "times" \in DOMAIN optional /\ optional["times"] = c.times
    BY <1>1
<1>3. Get(Body(always, optional), "times", None) =
        IF optional["times"] # None THEN optional["times"] ELSE None
    BY <1>2, OptionalField
<1>4. json = Body(always, optional)
    BY <1>1
<1> QED
    BY <1>2, <1>3, <1>4

LEMMA AlertsAnswer ==
    ASSUME NEW x \in Alerts, NEW c \in NotificationCalls,
           NEW a, a = NotificationServe(x, NotificationRequest(c))
    PROVE  AlertsAnswers(c, x, a)
<1>1. PICK r : r = NotificationRequest(c)
    OBVIOUS
<1>2. a = NotificationServe(x, r)
    BY <1>1
<1>3. CASE ~x.available
  <2>1. a = Refuses(x, 403, "open_notifications_disabled")
      BY <1>2, <1>3 DEF NotificationServe
  <2> QED
      BY <2>1 DEF AlertsAnswers, AlertsRefused, Refuses, Says
<1>4. CASE x.available /\ c.op = "set_my_notifications_enabled"
  <2> DEFINE on == Bool(c.enabled)
  <2>1. r = [path |-> "alerts", owner |-> c.owner, json |-> [enabled |-> on]]
      BY <1>1, <1>4 DEF NotificationRequest
  <2> HIDE DEF on
  <2>2. r.path = "alerts" /\ r.owner = c.owner /\ r.json.enabled = on
      BY <2>1
  <2>3. PICK f : f = [x EXCEPT !.enabled[c.owner] = on]
      OBVIOUS
  <2>4. a = Says(f, 200, NotificationFields(f, c.owner))
      BY <1>2, <1>4, <2>2, <2>3 DEF NotificationServe
  <2>5. a.status = 200 /\ a.to = f /\ AlertsAnswered(c, a)
      BY <2>4 DEF Says, AlertsAnswered
  <2>6. SwitchSet(c, x, f)
      BY <2>3 DEF SwitchSet, on
  <2> QED
      BY <1>4, <2>5, <2>6 DEF AlertsAnswers
<1>5. CASE x.available /\ c.op = "add_quiet_hours"
  <2>1. PICK json : json = Body([days |-> "SU"], [times |-> c.times])
      OBVIOUS
  <2>2. r = [path |-> "quiet-hours", owner |-> c.owner, json |-> json]
      BY <1>1, <1>5, <2>1 DEF NotificationRequest
  <2>3. r.path = "quiet-hours" /\ r.owner = c.owner /\ r.json = json
      BY <2>2
  <2>4. CASE Unused(x.quiet) = {}
    <3>1. a = Refuses(x, 422, "bound")
        BY <1>2, <1>5, <2>3, <2>4 DEF NotificationServe
    <3> QED
        BY <3>1 DEF AlertsAnswers, AlertsRefused, Refuses, Says
  <2>5. CASE Unused(x.quiet) # {}
    <3>1. PICK i, row : i = NextUnused(x.quiet) /\ row = QuietGiven(c)
        OBVIOUS
    <3>2. row = [owner |-> c.owner, times |-> Get(json, "times", None)]
        BY <2>1, <3>1, QuietTimesSent DEF QuietGiven
    <3>3. PICK f : f = [x EXCEPT !.quiet[i] = row]
        OBVIOUS
    <3>4. a = Says(f, 200, NotificationFields(f, c.owner))
        BY <1>2, <1>5, <2>3, <2>5, <3>1, <3>2, <3>3 DEF NotificationServe
    <3>5. a.status = 200 /\ a.to = f /\ AlertsAnswered(c, a)
        BY <3>4 DEF Says, AlertsAnswered
    <3>6. QuietBecomes(x, i, row, f)
        BY <3>3 DEF QuietBecomes
    <3>7. AnyQuietAdded(c, x, f)
        BY <2>5, <3>1, <3>6, AlertsAre DEF AnyQuietAdded
    <3> QED
        BY <1>5, <3>5, <3>7 DEF AlertsAnswers
  <2> QED
      BY <2>4, <2>5
<1>6. CASE x.available /\ c.op = "remove_quiet_hours"
  <2>1. r = [path |-> "quiet-hours/id", owner |-> c.owner, id |-> c.id, json |-> NoFields]
      BY <1>1, <1>6 DEF NotificationRequest
  <2>2. r.path = "quiet-hours/id" /\ r.owner = c.owner /\ r.id = c.id
      BY <2>1
  <2>3. CASE c.id \in Mine(x, c.owner)
    <3>1. PICK f : f = [x EXCEPT !.quiet[c.id] = Gone]
        OBVIOUS
    <3>2. a = Says(f, 200, NotificationFields(f, c.owner))
        BY <1>2, <1>6, <2>2, <2>3, <3>1 DEF NotificationServe
    <3>3. a.status = 200 /\ a.to = f /\ AlertsAnswered(c, a)
        BY <3>2 DEF Says, AlertsAnswered
    <3>4. QuietBecomes(x, c.id, Gone, f)
        BY <3>1 DEF QuietBecomes
    <3> QED
        BY <1>6, <2>3, <3>3, <3>4 DEF AlertsAnswers
  <2>4. CASE c.id \notin Mine(x, c.owner)
    <3>1. a = Refuses(x, 404, "quiet_hours_not_found")
        BY <1>2, <1>6, <2>2, <2>4 DEF NotificationServe
    <3> QED
        BY <2>4, <3>1 DEF AlertsAnswers, AlertsRefused, Refuses, Says
  <2> QED
      BY <2>3, <2>4
<1> QED
    BY <1>3, <1>4, <1>5, <1>6, NotificationCallsAre DEF NotificationCallIs

\* What each write leaves behind.
LEMMA QuietLeft ==
    ASSUME NEW x \in Alerts, NEW i \in QuietIds, NEW row \in QuietRows \cup {Never, Gone},
           NEW f, QuietBecomes(x, i, row, f)
    PROVE  /\ f \in Alerts /\ f.quiet[i] = row
           /\ \A j \in QuietIds \ {i} : f.quiet[j] = x.quiet[j]
           /\ f.available = x.available /\ f.enabled = x.enabled
<1>1. PICK quiet : quiet = [x.quiet EXCEPT ![i] = row]
    OBVIOUS
<1>2. f = [x EXCEPT !.quiet = quiet]
    BY <1>1 DEF QuietBecomes
<1>3. /\ quiet \in [QuietIds -> QuietRows \cup {Never, Gone}] /\ quiet[i] = row
      /\ \A j \in QuietIds \ {i} : quiet[j] = x.quiet[j]
    BY <1>1 DEF Alerts
<1>4. f \in Alerts
    BY <1>2, <1>3 DEF Alerts
<1>5. f.quiet = quiet /\ f.available = x.available /\ f.enabled = x.enabled
    BY <1>2 DEF Alerts
<1> QED
    BY <1>3, <1>4, <1>5

LEMMA SwitchLeft ==
    ASSUME NEW x \in Alerts, NEW c \in NotificationCalls, NEW f,
           c.op = "set_my_notifications_enabled", SwitchSet(c, x, f)
    PROVE  /\ f \in Alerts /\ f.enabled[c.owner] = Bool(c.enabled)
           /\ \A o \in Owners \ {c.owner} : f.enabled[o] = x.enabled[o]
           /\ f.available = x.available /\ f.quiet = x.quiet
<1>1. PICK o \in Owners : o = c.owner
    BY NotificationCallsAre
<1>2. Bool(c.enabled) \in BOOLEAN
    BY DEF Bool
<1>3. PICK enabled : enabled = [x.enabled EXCEPT ![o] = Bool(c.enabled)]
    OBVIOUS
<1>4. f = [x EXCEPT !.enabled = enabled]
    BY <1>1, <1>3 DEF SwitchSet
<1>5. /\ enabled \in [Owners -> BOOLEAN] /\ enabled[o] = Bool(c.enabled)
      /\ \A p \in Owners \ {o} : enabled[p] = x.enabled[p]
    BY <1>2, <1>3 DEF Alerts
<1>6. f \in Alerts
    BY <1>4, <1>5 DEF Alerts
<1>7. f.enabled = enabled /\ f.available = x.available /\ f.quiet = x.quiet
    BY <1>4 DEF Alerts
<1> QED
    BY <1>1, <1>5, <1>6, <1>7

LEMMA QuietTyped ==
    ASSUME NEW c \in NotificationCalls, c.op = "add_quiet_hours"
    PROVE  QuietGiven(c) \in QuietRows /\ QuietGiven(c).owner = c.owner
BY NotificationCallsAre DEF NotificationCallIs, QuietGiven, QuietRows

LEMMA AlertsTyped ==
    ASSUME NEW x \in Alerts, NEW c \in NotificationCalls, NEW a, AlertsAnswers(c, x, a)
    PROVE  a.to \in Alerts
<1>1. CASE AlertsRefused(c, x, a)
    BY <1>1 DEF AlertsRefused
<1>2. CASE c.op = "set_my_notifications_enabled" /\ SwitchSet(c, x, a.to)
    BY <1>2, SwitchLeft
<1>3. CASE c.op = "add_quiet_hours" /\ AnyQuietAdded(c, x, a.to)
    BY <1>3, AlertsAre, QuietTyped, QuietLeft DEF AnyQuietAdded
<1>4. CASE /\ c.op = "remove_quiet_hours" /\ c.id \in Mine(x, c.owner)
           /\ QuietBecomes(x, c.id, Gone, a.to)
    BY <1>4, AlertsAre, QuietLeft
<1> QED
    BY <1>1, <1>2, <1>3, <1>4 DEF AlertsAnswers

LEMMA AlertsKeepWithin ==
    ASSUME NEW x \in Alerts, NEW c \in NotificationCalls, NEW a, AlertsAnswers(c, x, a)
    PROVE  NotificationWithin(c, x, a.to)
<1>1. CASE AlertsRefused(c, x, a)
    BY <1>1 DEF AlertsRefused, NotificationWithin
<1>2. CASE c.op = "set_my_notifications_enabled" /\ SwitchSet(c, x, a.to)
  <2>1. /\ \A o \in Owners \ {c.owner} : a.to.enabled[o] = x.enabled[o]
        /\ a.to.available = x.available /\ a.to.quiet = x.quiet
      BY <1>2, SwitchLeft
  <2> QED
      BY <1>2, <2>1 DEF NotificationWithin, Mine
<1>3. CASE c.op = "add_quiet_hours" /\ AnyQuietAdded(c, x, a.to)
  <2>1. PICK i \in Unused(x.quiet) : QuietBecomes(x, i, QuietGiven(c), a.to)
      BY <1>3 DEF AnyQuietAdded
  <2>2. i \in QuietIds /\ x.quiet[i] = Never /\ QuietGiven(c) \in QuietRows
      BY <1>3, AlertsAre, QuietTyped DEF Unused
  <2>3. /\ a.to \in Alerts /\ a.to.quiet[i] = QuietGiven(c)
        /\ \A j \in QuietIds \ {i} : a.to.quiet[j] = x.quiet[j]
        /\ a.to.available = x.available /\ a.to.enabled = x.enabled
      BY <2>1, <2>2, QuietLeft
  <2>4. ASSUME NEW o \in Owners \ {c.owner} PROVE Mine(a.to, o) = Mine(x, o)
    <3>1. a.to.quiet[i].owner # o
        BY <1>3, <2>3, QuietTyped
    <3>2. DOMAIN a.to.quiet = QuietIds /\ DOMAIN x.quiet = QuietIds
        BY <2>3, AlertsAre
    <3>3. i \notin Mine(x, o) /\ i \notin Mine(a.to, o)
        BY <2>2, <3>1 DEF Mine, Live
    <3>4. \A j \in QuietIds \ {i} : j \in Mine(x, o) <=> j \in Mine(a.to, o)
        BY <2>3, <3>2 DEF Mine, Live
    <3>5. Mine(x, o) \subseteq QuietIds /\ Mine(a.to, o) \subseteq QuietIds
        BY <2>3, AlertsAre
    <3> QED
        BY <3>3, <3>4, <3>5
  <2> QED
      BY <1>3, <2>2, <2>3, <2>4 DEF NotificationWithin
<1>4. CASE /\ c.op = "remove_quiet_hours" /\ c.id \in Mine(x, c.owner)
           /\ QuietBecomes(x, c.id, Gone, a.to)
  <2>1. PICK i \in QuietIds : i = c.id
      BY <1>4, AlertsAre
  <2>2. /\ a.to \in Alerts /\ a.to.quiet[i] = Gone
        /\ \A j \in QuietIds \ {i} : a.to.quiet[j] = x.quiet[j]
        /\ a.to.available = x.available /\ a.to.enabled = x.enabled
      BY <1>4, <2>1, QuietLeft
  <2>4. ASSUME NEW o \in Owners \ {c.owner} PROVE Mine(a.to, o) = Mine(x, o)
    <3>2. DOMAIN a.to.quiet = QuietIds /\ DOMAIN x.quiet = QuietIds
        BY <2>2, AlertsAre
    <3>3. i \notin Mine(x, o) /\ i \notin Mine(a.to, o)
        BY <1>4, <2>1, <2>2 DEF Mine, Live
    <3>4. \A j \in QuietIds \ {i} : j \in Mine(x, o) <=> j \in Mine(a.to, o)
        BY <2>2, <3>2 DEF Mine, Live
    <3>5. Mine(x, o) \subseteq QuietIds /\ Mine(a.to, o) \subseteq QuietIds
        BY <2>2, AlertsAre
    <3> QED
        BY <3>3, <3>4, <3>5
  <2> QED
      BY <1>4, <2>1, <2>2, <2>4 DEF NotificationWithin
<1> QED
    BY <1>1, <1>2, <1>3, <1>4 DEF AlertsAnswers

LEMMA AlertsKeepMeant ==
    ASSUME NEW x \in Alerts, NEW c \in NotificationCalls, NEW a, AlertsAnswers(c, x, a),
           a.status \in 200..299
    PROVE  \A before : NotificationMeant(c, before, a.to)
<1>1. ~AlertsRefused(c, x, a)
    BY DEF AlertsRefused
<1>2. CASE c.op = "set_my_notifications_enabled"
  <2>1. a.to.enabled[c.owner] = Bool(c.enabled)
      BY <1>1, <1>2, SwitchLeft DEF AlertsAnswers
  <2> QED
      BY <1>2, <2>1 DEF NotificationMeant
<1>3. CASE c.op = "add_quiet_hours"
    BY <1>3 DEF NotificationMeant
<1>4. CASE c.op = "remove_quiet_hours"
  <2>1. PICK i \in QuietIds : i = c.id
      BY <1>4, NotificationCallsAre DEF NotificationCallIs
  <2>2. a.to.quiet[i] = Gone
      BY <1>1, <1>4, <2>1, QuietLeft DEF AlertsAnswers
  <2> QED
      BY <1>4, <2>1, <2>2 DEF NotificationMeant, Live
<1> QED
    BY <1>2, <1>3, <1>4, NotificationCallsAre DEF NotificationCallIs

\* How the settings are read.
QuietShown(x, o) == [i \in Mine(x, o) |-> [times |-> x.quiet[i].times]]
QuietSeen(x, o) ==
    [i \in Mine(x, o) |-> [times |-> x.quiet[i].times, all_day |-> x.quiet[i].times = None]]

LEMMA QuietRead ==
    ASSUME NEW x \in Alerts, NEW o
    PROVE  /\ QuietShown(x, o) # None
           /\ [i \in DOMAIN QuietShown(x, o) |-> QuietHours(QuietShown(x, o)[i])] =
                QuietSeen(x, o)
<1>1. Mine(x, o) \in SUBSET QuietIds
    BY AlertsAre
<1>2. \A i \in Mine(x, o) : x.quiet[i].times \in Nights \cup {None}
    BY AlertsAre DEF QuietRows
<1>3. QuietShown(x, o) \in [Mine(x, o) -> [times : Nights \cup {None}]]
    BY <1>2 DEF QuietShown
<1>4. QuietShown(x, o) # None
    BY <1>1, <1>3, QuietRowAssumption
<1>5. \A t : QuietHours([times |-> t]) = [times |-> t, all_day |-> t = None]
  <2>1. SUFFICES ASSUME NEW t
                 PROVE  QuietHours([times |-> t]) = [times |-> t, all_day |-> t = None]
      OBVIOUS
  <2>2. Get([times |-> t], "times", None) = t
      BY DEF Get
  <2> QED
      BY <2>2 DEF QuietHours
<1> DEFINE row(i) == [times |-> x.quiet[i].times]
           seen(i) == [times |-> x.quiet[i].times, all_day |-> x.quiet[i].times = None]
<1>6. \A i : QuietHours(row(i)) = seen(i)
    BY <1>5
<1> HIDE DEF row, seen
<1>7. QuietShown(x, o) = [i \in Mine(x, o) |-> row(i)]
    BY DEF QuietShown, row
<1>8. QuietSeen(x, o) = [i \in Mine(x, o) |-> seen(i)]
    BY DEF QuietSeen, seen
<1>9. [i \in DOMAIN QuietShown(x, o) |-> QuietHours(QuietShown(x, o)[i])] =
        [i \in Mine(x, o) |-> seen(i)]
    BY <1>6, <1>7
<1> QED
    BY <1>4, <1>8, <1>9

LEMMA AlertsRead ==
    ASSUME NEW x \in Alerts, NEW o \in Owners
    PROVE  /\ NotificationSettings(NotificationFields(x, o)) =
                [enabled |-> x.enabled[o], feature_available |-> x.available,
                 quiet_hours |-> QuietSeen(x, o), simulated |-> FALSE]
           /\ NotificationSettings([NotificationFields(x, o) EXCEPT !.result = "simulated"]) =
                [enabled |-> x.enabled[o], feature_available |-> x.available,
                 quiet_hours |-> QuietSeen(x, o), simulated |-> TRUE]
<1>1. PICK on, available, shown :
         on = x.enabled[o] /\ available = x.available /\ shown = QuietShown(x, o)
    OBVIOUS
<1>2. Bool(on) = on /\ Bool(available) = available
  <2>1. on \in BOOLEAN /\ available \in BOOLEAN
      BY <1>1 DEF Alerts
  <2> QED
      BY <2>1, BoolOfBoolean
<1>3. /\ shown # None
      /\ [i \in DOMAIN shown |-> QuietHours(shown[i])] = QuietSeen(x, o)
    BY <1>1, QuietRead
<1> DEFINE sent(result) == [result |-> result, enabled |-> on,
                            feature_available |-> available, quiet_hours |-> shown]
<1>4. ASSUME NEW result, NEW simulated, simulated = (result = "simulated")
      PROVE  NotificationSettings(sent(result)) =
               [enabled |-> on, feature_available |-> available,
                quiet_hours |-> QuietSeen(x, o), simulated |-> simulated]
  <2>1. PICK d : d = sent(result)
      OBVIOUS
  <2>2. /\ Get(d, "enabled", None) = on /\ Get(d, "feature_available", None) = available
        /\ GetOr(d, "quiet_hours", NoFields) = shown /\ Get(d, "result", None) = result
      BY <1>3, <2>1 DEF Get, GetOr
  <2>3. NotificationSettings(d) =
          [enabled |-> on, feature_available |-> available,
           quiet_hours |-> QuietSeen(x, o), simulated |-> simulated]
      BY <1>2, <1>3, <1>4, <2>2 DEF NotificationSettings
  <2> QED
      BY <2>1, <2>3
<1>5. NotificationFields(x, o) = sent("ok")
    BY <1>1 DEF NotificationFields, QuietShown
<1>6. [NotificationFields(x, o) EXCEPT !.result = "simulated"] = sent("simulated")
    BY <1>5
<1> HIDE DEF sent
<1>7. NotificationSettings(sent("ok")) =
        [enabled |-> on, feature_available |-> available,
         quiet_hours |-> QuietSeen(x, o), simulated |-> FALSE]
  <2>1. FALSE = ("ok" = "simulated")
      OBVIOUS
  <2>2. PICK simulated : simulated = FALSE
      OBVIOUS
  <2>3. simulated = ("ok" = "simulated")
      BY <2>1, <2>2
  <2>4. NotificationSettings(sent("ok")) =
          [enabled |-> on, feature_available |-> available,
           quiet_hours |-> QuietSeen(x, o), simulated |-> simulated]
      BY <1>4, <2>3, Zenon
  <2> QED
      BY <2>2, <2>4
<1>8. NotificationSettings(sent("simulated")) =
        [enabled |-> on, feature_available |-> available,
         quiet_hours |-> QuietSeen(x, o), simulated |-> TRUE]
  <2>1. TRUE = ("simulated" = "simulated")
      OBVIOUS
  <2>2. PICK simulated : simulated = TRUE
      OBVIOUS
  <2>3. simulated = ("simulated" = "simulated")
      BY <2>1, <2>2
  <2>4. NotificationSettings(sent("simulated")) =
          [enabled |-> on, feature_available |-> available,
           quiet_hours |-> QuietSeen(x, o), simulated |-> simulated]
      BY <1>4, <2>3, Zenon
  <2> QED
      BY <2>2, <2>4
<1> QED
    BY <1>1, <1>5, <1>6, <1>7, <1>8

LEMMA AlertsTold ==
    ASSUME NEW x \in Alerts, NEW c \in NotificationCalls, NEW a, AlertsAnswers(c, x, a),
           a.status \in 200..299
    PROVE  /\ ~NotificationSettings(a.body).simulated
           /\ NotificationSettings(NotificationSimulated(x, NotificationRequest(c))).simulated
<1>1. a.body = NotificationFields(a.to, c.owner) /\ a.to \in Alerts /\ c.owner \in Owners
    BY AlertsTyped, NotificationCallsAre DEF AlertsAnswers, AlertsAnswered,
       AlertsRefused
<1>2. PICK v, on, available, quiet :
         /\ v = NotificationSettings(a.body)
         /\ on = a.to.enabled[c.owner] /\ available = a.to.available
         /\ quiet = QuietSeen(a.to, c.owner)
    OBVIOUS
<1>3. v = [enabled |-> on, feature_available |-> available, quiet_hours |-> quiet,
           simulated |-> FALSE]
    BY <1>1, <1>2, AlertsRead
<1>4. ~v.simulated
    BY <1>3
<1>5. NotificationRequest(c).owner = c.owner
    BY NotificationCallsAre DEF NotificationCallIs, NotificationRequest
<1>6. PICK w, on_, available_, quiet_ :
         /\ w = NotificationSettings(NotificationSimulated(x, NotificationRequest(c)))
         /\ on_ = x.enabled[c.owner] /\ available_ = x.available
         /\ quiet_ = QuietSeen(x, c.owner)
    OBVIOUS
<1>7. w = [enabled |-> on_, feature_available |-> available_, quiet_hours |-> quiet_,
           simulated |-> TRUE]
    BY <1>1, <1>5, <1>6, AlertsRead DEF NotificationSimulated
<1>8. w.simulated
    BY <1>7
<1> QED
    BY <1>2, <1>4, <1>6, <1>8

LEMMA AlertsKeepHonest ==
    ASSUME NEW x \in Alerts, NEW c \in NotificationCalls, NEW a, AlertsAnswers(c, x, a),
           NEW r, r.call = c, EndsWith(r, a, NotificationSettings(a.body)),
           NEW before, NEW alone
    PROVE  NotificationHonest(r, before, a.to, alone)
<1>1. CASE a.status \in 200..299
  <2>1. a.body = NotificationFields(a.to, c.owner) /\ a.to \in Alerts /\ c.owner \in Owners
      BY <1>1, AlertsTyped, NotificationCallsAre DEF AlertsAnswers, AlertsAnswered,
         AlertsRefused
  <2>2. PICK v, on, available, quiet :
           /\ v = r.result
           /\ on = a.to.enabled[c.owner] /\ available = a.to.available
           /\ quiet = QuietSeen(a.to, c.owner)
      OBVIOUS
  <2>3. v = [enabled |-> on, feature_available |-> available, quiet_hours |-> quiet,
             simulated |-> FALSE]
      BY <1>1, <2>1, <2>2, AlertsRead DEF EndsWith
  <2>4. v.enabled = on /\ v.quiet_hours = quiet /\ r.raised = None
      BY <1>1, <2>3 DEF EndsWith
  <2>5. /\ DOMAIN quiet = Mine(a.to, c.owner)
        /\ \A i \in Mine(a.to, c.owner) : quiet[i].times = a.to.quiet[i].times
      BY <2>2 DEF QuietSeen
  <2> QED
      BY <2>2, <2>4, <2>5, ExceptionsAssumption DEF NotificationHonest, Exceptions
<1>2. CASE a.status \notin 200..299
  <2>1. AlertsRefused(c, x, a)
      BY <1>2 DEF AlertsAnswers
  <2>2. \/ r.raised \in {"PermissionDeniedError", "APIError"}
        \/ r.raised = "NotFoundError" /\ c.id \notin Mine(a.to, c.owner)
      BY <1>2, <2>1, Refusals DEF EndsWith, AlertsRefused
  <2> QED
      BY <2>2, ExceptionsAssumption DEF NotificationHonest, Exceptions
<1> QED
    BY <1>1, <1>2

----------------------------------------------------------------------------
(* The roster.                                                             *)

RosterOps == BulkOps \cup {"add_member", "grant_keys", "revoke_keys", "set_keys_disabled",
                           "approve_member"}

RosterCallIs(c) ==
    /\ c.op \in RosterOps
    /\ DOMAIN c.items \subseteq People
    /\ \A p \in DOMAIN c.items : c.items[p] \in KeyLists
    /\ c.op \notin BulkOps => \E p \in People : DOMAIN c.items = {p}
    /\ "dry_run" \in DOMAIN c /\ c.dry_run \in DryRuns
    /\ c.op # "approve_member" => c.dry_run = None
    /\ c.op \in {"revoke_keys", "bulk_set_keys_disabled"} => c.flag \in Flags
    /\ c.op = "set_keys_disabled" => c.flag \in BOOLEAN
    /\ c.op \notin {"revoke_keys", "set_keys_disabled", "bulk_set_keys_disabled"} =>
         c.flag = None

Undried(c) == "dry_run" \in DOMAIN c /\ c.dry_run = None

LEMMA MemberWritten ==
    ASSUME NEW op, NEW p \in People, NEW keys \in KeyLists, NEW flag,
           NEW c, c = member_write(op, p, keys, flag)
    PROVE  /\ c.op = op /\ DOMAIN c.items = {p} /\ c.items[p] = keys
           /\ c.flag = flag /\ Undried(c)
BY DEF member_write, Undried

LEMMA BatchWritten ==
    ASSUME NEW op, NEW items \in Batches, NEW flag, NEW c, c = bulk_write(op, items, flag)
    PROVE  /\ c.op = op /\ DOMAIN c.items = People /\ \A p \in People : c.items[p] \in KeyLists
           /\ c.flag = flag /\ Undried(c)
<1>1. PICK keys \in KeyLists : items = [p \in People |-> keys]
    BY DEF Batches
<1>2. c.op = op /\ c.items = items /\ c.flag = flag /\ Undried(c)
    BY DEF bulk_write, Undried
<1> QED
    BY <1>1, <1>2

LEMMA RosterCallsAre ==
    ASSUME NEW c \in RosterCalls
    PROVE  RosterCallIs(c)
<1>0. None \in DryRuns
    BY DEF DryRuns
<1>1. CASE c \in {member_write(op, p, keys, None) :
                    op \in {"add_member", "grant_keys"}, p \in People, keys \in KeyLists}
  <2>1. PICK op \in {"add_member", "grant_keys"}, p \in People, keys \in KeyLists :
               c = member_write(op, p, keys, None)
      BY <1>1
  <2>2. /\ c.op = op /\ DOMAIN c.items = {p} /\ c.items[p] = keys
        /\ c.flag = None /\ Undried(c)
      BY <2>1, MemberWritten
  <2> QED
      BY <1>0, <2>2 DEF RosterCallIs, RosterOps, BulkOps, Undried
<1>2. CASE c \in {member_write("revoke_keys", p, keys, remove) :
                    p \in People, keys \in KeyLists, remove \in Flags}
  <2>1. PICK p \in People, keys \in KeyLists, remove \in Flags :
               c = member_write("revoke_keys", p, keys, remove)
      BY <1>2
  <2>2. /\ c.op = "revoke_keys" /\ DOMAIN c.items = {p} /\ c.items[p] = keys
        /\ c.flag = remove /\ Undried(c)
      BY <2>1, MemberWritten
  <2> QED
      BY <1>0, <2>2 DEF RosterCallIs, RosterOps, BulkOps, Undried
<1>3. CASE c \in {member_write("set_keys_disabled", p, keys, off) :
                    p \in People, keys \in KeyLists, off \in BOOLEAN}
  <2>1. PICK p \in People, keys \in KeyLists, off \in BOOLEAN :
               c = member_write("set_keys_disabled", p, keys, off)
      BY <1>3
  <2>2. /\ c.op = "set_keys_disabled" /\ DOMAIN c.items = {p} /\ c.items[p] = keys
        /\ c.flag = off /\ Undried(c)
      BY <2>1, MemberWritten
  <2> QED
      BY <1>0, <2>2 DEF RosterCallIs, RosterOps, BulkOps, Undried
<1>4. CASE c \in {approve_member(p, keys, dry) :
                    p \in People, keys \in KeyLists, dry \in DryRuns}
  <2>1. PICK p \in People, keys \in KeyLists, dry \in DryRuns : c = approve_member(p, keys, dry)
      BY <1>4
  <2>2. /\ c.op = "approve_member" /\ DOMAIN c.items = {p} /\ c.items[p] = keys
        /\ c.flag = None /\ "dry_run" \in DOMAIN c /\ c.dry_run = dry
      BY <2>1 DEF approve_member
  <2> QED
      BY <2>2 DEF RosterCallIs, RosterOps, BulkOps, Undried
<1>5. CASE c \in {bulk_write(op, items, None) : items \in Batches,
                    op \in {"bulk_add_members", "bulk_grant_keys", "bulk_revoke_keys"}}
  <2>1. PICK items \in Batches,
             op \in {"bulk_add_members", "bulk_grant_keys", "bulk_revoke_keys"} :
               c = bulk_write(op, items, None)
      BY <1>5
  <2>2. /\ c.op = op /\ DOMAIN c.items = People /\ \A p \in People : c.items[p] \in KeyLists
        /\ c.flag = None /\ Undried(c)
      BY <2>1, BatchWritten
  <2> QED
      BY <1>0, <2>2 DEF RosterCallIs, RosterOps, BulkOps, Undried
<1>6. CASE c \in {bulk_write("bulk_set_keys_disabled", items, off) :
                    items \in Batches, off \in Flags}
  <2>1. PICK items \in Batches, off \in Flags :
               c = bulk_write("bulk_set_keys_disabled", items, off)
      BY <1>6
  <2>2. /\ c.op = "bulk_set_keys_disabled" /\ DOMAIN c.items = People
        /\ \A p \in People : c.items[p] \in KeyLists
        /\ c.flag = off /\ Undried(c)
      BY <2>1, BatchWritten
  <2> QED
      BY <1>0, <2>2 DEF RosterCallIs, RosterOps, BulkOps, Undried
<1> QED
    BY <1>1, <1>2, <1>3, <1>4, <1>5, <1>6 DEF RosterCalls

LEMMA RosterRequestIs ==
    ASSUME NEW c \in RosterCalls, NEW r, r = RosterRequest(c)
    PROVE  /\ r.path = c.op /\ r.json.items = c.items
           /\ c.op = "revoke_keys" => Get(r.json, "remove_member", FALSE) = c.flag
           /\ c.op # "revoke_keys" => Get(r.json, "remove_member", FALSE) = FALSE
           /\ c.op = "set_keys_disabled" =>
                r.json.disabled = c.flag /\ Get(r.json, "disabled", FALSE) = c.flag
           /\ c.op = "bulk_set_keys_disabled" =>
                r.json.disabled = Bool(c.flag) /\ Get(r.json, "disabled", FALSE) = Bool(c.flag)
           /\ c.op \notin {"set_keys_disabled", "bulk_set_keys_disabled"} =>
                Get(r.json, "disabled", FALSE) = FALSE
           /\ Get(r.json, "dry_run", FALSE) =
                IF c.op = "approve_member" /\ c.dry_run # None THEN c.dry_run ELSE FALSE
<1> DEFINE given == [items |-> c.items]
<1>0. PICK json : json = r.json
    OBVIOUS
<1>1. CASE c.op = "revoke_keys"
  <2>1. PICK always, none : /\ always = [items |-> c.items, remove_member |-> c.flag]
                            /\ none = NoFields
      OBVIOUS
  <2>2. r = [path |-> c.op, json |-> Body(always, none)]
      BY <1>1, <2>1 DEF RosterRequest
  <2>3. DOMAIN always = {"items", "remove_member"} /\ DOMAIN none = {}
        /\ always["items"] = c.items /\ always["remove_member"] = c.flag
      BY <2>1 DEF NoFields
  <2>4. json = Body(always, none) /\ r.path = c.op
      BY <1>0, <2>2
  <2>5. DOMAIN json = {"items", "remove_member"} /\ json["items"] = c.items
        /\ json["remove_member"] = c.flag
      BY <2>3, <2>4 DEF Body
  <2> QED
      BY <1>0, <1>1, <2>4, <2>5 DEF Get
<1>2. CASE c.op = "set_keys_disabled"
  <2>1. PICK always, none : /\ always = [items |-> c.items, disabled |-> c.flag]
                            /\ none = NoFields
      OBVIOUS
  <2>2. r = [path |-> c.op, json |-> Body(always, none)]
      BY <1>2, <2>1 DEF RosterRequest
  <2>3. DOMAIN always = {"items", "disabled"} /\ DOMAIN none = {}
        /\ always["items"] = c.items /\ always["disabled"] = c.flag
      BY <2>1 DEF NoFields
  <2>4. json = Body(always, none) /\ r.path = c.op
      BY <1>0, <2>2
  <2>5. DOMAIN json = {"items", "disabled"} /\ json["items"] = c.items
        /\ json["disabled"] = c.flag
      BY <2>3, <2>4 DEF Body
  <2> QED
      BY <1>0, <1>2, <2>4, <2>5 DEF Get
<1>3. CASE c.op = "bulk_set_keys_disabled"
  <2>0. PICK off : off = Bool(c.flag)
      OBVIOUS
  <2>1. PICK always, none : /\ always = [items |-> c.items, disabled |-> off]
                            /\ none = NoFields
      OBVIOUS
  <2>2. r = [path |-> c.op, json |-> Body(always, none)]
      BY <1>3, <2>0, <2>1 DEF RosterRequest
  <2>3. DOMAIN always = {"items", "disabled"} /\ DOMAIN none = {}
        /\ always["items"] = c.items /\ always["disabled"] = off
      BY <2>1 DEF NoFields
  <2>4. json = Body(always, none) /\ r.path = c.op
      BY <1>0, <2>2
  <2>5. DOMAIN json = {"items", "disabled"} /\ json["items"] = c.items
        /\ json["disabled"] = off
      BY <2>3, <2>4 DEF Body
  <2> QED
      BY <1>0, <1>3, <2>0, <2>4, <2>5 DEF Get
<1>4. CASE c.op = "approve_member"
  <2>1. PICK always, optional : always = [items |-> c.items] /\ optional = [dry_run |-> c.dry_run]
      OBVIOUS
  <2>2. r = [path |-> c.op, json |-> Body(always, optional)]
      BY <1>4, <2>1 DEF RosterRequest
  <2>3. /\ DOMAIN always = {"items"} /\ always["items"] = c.items
        /\ DOMAIN optional = {"dry_run"} /\ optional["dry_run"] = c.dry_run
      BY <2>1
  <2>4. json = Body(always, optional) /\ r.path = c.op
      BY <1>0, <2>2
  <2>5. /\ DOMAIN json \subseteq {"items", "dry_run"} /\ json["items"] = c.items
        /\ "dry_run" \in DOMAIN json <=> c.dry_run # None
        /\ c.dry_run # None => json["dry_run"] = c.dry_run
      BY <2>3, <2>4 DEF Body
  <2>6. /\ "remove_member" \notin DOMAIN json /\ "disabled" \notin DOMAIN json
        /\ json.items = c.items
      BY <2>5
  <2>7. Get(json, "dry_run", FALSE) = IF c.dry_run # None THEN c.dry_run ELSE FALSE
    <3>1. CASE c.dry_run = None
        BY <2>5, <3>1, FieldMissing
    <3>2. CASE c.dry_run # None
        BY <2>5, <3>2, FieldThere
    <3> QED
        BY <3>1, <3>2
  <2>8. /\ Get(json, "remove_member", FALSE) = FALSE
        /\ Get(json, "disabled", FALSE) = FALSE
      BY <2>6, FieldMissing
  <2> QED
      BY <1>0, <1>4, <2>4, <2>6, <2>7, <2>8
<1>5. CASE c.op \notin {"revoke_keys", "set_keys_disabled", "bulk_set_keys_disabled",
                        "approve_member"}
  <2>1. r = [path |-> c.op, json |-> given]
      BY <1>5 DEF RosterRequest
  <2>2. json = given /\ r.path = c.op
      BY <1>0, <2>1
  <2>3. /\ "remove_member" \notin DOMAIN json /\ "disabled" \notin DOMAIN json
        /\ "dry_run" \notin DOMAIN json /\ json.items = c.items
      BY <2>2
  <2>4. /\ Get(json, "remove_member", FALSE) = FALSE
        /\ Get(json, "disabled", FALSE) = FALSE
        /\ Get(json, "dry_run", FALSE) = FALSE
      BY <2>3, FieldMissing
  <2> QED
      BY <1>0, <1>5, <2>2, <2>3, <2>4
<1> QED
    BY <1>1, <1>2, <1>3, <1>4, <1>5

Adds == {"add_member", "bulk_add_members"}
Revokes == {"revoke_keys", "bulk_revoke_keys"}
Switches == {"set_keys_disabled", "bulk_set_keys_disabled"}
GrantsOnly == {"grant_keys", "bulk_grant_keys"}

\* Why an item is refused.
LEMMA RefusalIs ==
    ASSUME NEW op \in RosterOps, NEW x, NEW keys
    PROVE  /\ op \in Adds => Refusal(op, x, keys) =
                IF x.status = "accepted" THEN "already_member" ELSE None
           /\ op = "approve_member" => Refusal(op, x, keys) =
                IF x.status = "accepted" THEN "already_accepted" ELSE None
           /\ op \in Revokes \cup GrantsOnly => Refusal(op, x, keys) =
                IF x.status = "pending" THEN "member_not_accepted" ELSE None
           /\ op \in Switches => Refusal(op, x, keys) =
                IF x.status = "pending" THEN "member_not_accepted"
                ELSE IF x.status = "accepted" /\ ~(keys \subseteq Held(x))
                THEN "key_not_held" ELSE None
<1> DEFINE lacks == ~(keys \subseteq Held(x))
<1>1. CASE op \in Adds
    BY <1>1 DEF Refusal, Adds, Revokes, Switches, GrantsOnly
<1>2. CASE op = "approve_member"
    BY <1>2 DEF Refusal, Adds, Revokes, Switches, GrantsOnly
<1>3. CASE op \in Revokes \cup GrantsOnly
    BY <1>3 DEF Refusal, Adds, Revokes, Switches, GrantsOnly
<1>4. CASE op \in Switches
  <2>1. op \notin Adds /\ op # "approve_member" /\ op \notin Revokes \cup GrantsOnly
      BY <1>4 DEF Adds, Revokes, Switches, GrantsOnly
  <2>2. CASE x.status = "pending"
      BY <1>4, <2>1, <2>2 DEF Refusal, Adds, Switches
  <2>3. CASE x.status # "pending" /\ x.status = "accepted" /\ lacks
      BY <1>4, <2>1, <2>3 DEF Refusal, Adds, Switches
  <2>4. CASE x.status # "pending" /\ ~(x.status = "accepted" /\ lacks)
      BY <1>4, <2>1, <2>4 DEF Refusal, Adds, Switches
  <2> QED
      BY <1>4, <2>1, <2>2, <2>3, <2>4
<1> QED
    BY <1>1, <1>2, <1>3, <1>4 DEF RosterOps, BulkOps, Adds, Revokes, Switches,
       GrantsOnly

\* What becomes of a person whose item is not refused.
Without(x, keys) ==
    [status |-> x.status, keys |-> [k \in KeyIds |-> IF k \in keys THEN "none" ELSE x.keys[k]]]
Switched(x, keys, off) ==
    [status |-> x.status,
     keys |-> [k \in KeyIds |-> IF k \in keys THEN (IF off THEN "off" ELSE "on")
                                ELSE x.keys[k]]]
TakenOut == [status |-> "out", keys |-> Nothing]
PersonAfter(c, x, keys) ==
    IF c.op \in Revokes THEN IF c.flag = TRUE THEN TakenOut ELSE Without(x, keys)
    ELSE IF c.op \in Switches THEN Switched(x, keys, Bool(c.flag))
    ELSE Grants(x, keys)

LEMMA KeysChanged ==
    ASSUME NEW x \in Persons, NEW keys
    PROVE  [x EXCEPT !.keys = keys] = [status |-> x.status, keys |-> keys]
BY DEF Persons

LEMMA EditedIs ==
    ASSUME NEW c \in RosterCalls, NEW x \in Persons, NEW keys,
           c.op = "revoke_keys" => c.flag \in BOOLEAN,
           NEW r, r = RosterRequest(c)
    PROVE  Edited(c.op, x, keys, r.json) = PersonAfter(c, x, keys)
<1>1. CASE c.op \in Revokes
  <2>1. c.op \notin Switches
      BY <1>1 DEF Revokes, Switches
  <2>2. Edited(c.op, x, keys, r.json) =
          IF Get(r.json, "remove_member", FALSE)
          THEN [status |-> "out", keys |-> Nothing]
          ELSE [x EXCEPT !.keys = [k \in KeyIds |-> IF k \in keys THEN "none" ELSE @[k]]]
      BY <1>1, <2>1 DEF Edited, Revokes, Switches
  <2>3. [x EXCEPT !.keys = [k \in KeyIds |-> IF k \in keys THEN "none" ELSE @[k]]] =
          Without(x, keys)
      BY KeysChanged DEF Without
  <2>4. Get(r.json, "remove_member", FALSE) <=> c.flag = TRUE
    <3>1. CASE c.op = "revoke_keys"
        BY <3>1, RosterRequestIs
    <3>2. CASE c.op # "revoke_keys"
      <4>1. Get(r.json, "remove_member", FALSE) = FALSE
          BY <3>2, RosterRequestIs
      <4>2. c.flag = None
          BY <1>1, <3>2, RosterCallsAre DEF RosterCallIs, Revokes
      <4> QED
          BY <4>1, <4>2, NoneAssumption
    <3> QED
        BY <3>1, <3>2
  <2> QED
      BY <1>1, <2>2, <2>3, <2>4 DEF PersonAfter, TakenOut
<1>2. CASE c.op \in Switches
  <2>1. c.op \notin Revokes
      BY <1>2 DEF Revokes, Switches
  <2>2. Edited(c.op, x, keys, r.json) =
          [x EXCEPT !.keys = [k \in KeyIds |->
               IF k \in keys THEN (IF r.json.disabled THEN "off" ELSE "on") ELSE @[k]]]
      BY <1>2, <2>1 DEF Edited, Revokes, Switches
  <2>3. PICK off : off = r.json.disabled
      OBVIOUS
  <2>4. off = Bool(c.flag)
    <3>1. CASE c.op = "set_keys_disabled"
      <4>1. off = c.flag /\ c.flag \in BOOLEAN
          BY <2>3, <3>1, RosterRequestIs, RosterCallsAre DEF RosterCallIs
      <4> QED
          BY <4>1, BoolOfBoolean
    <3>2. CASE c.op = "bulk_set_keys_disabled"
        BY <2>3, <3>2, RosterRequestIs
    <3> QED
        BY <1>2, <3>1, <3>2 DEF Switches
  <2>5. [x EXCEPT !.keys = [k \in KeyIds |->
               IF k \in keys THEN (IF off THEN "off" ELSE "on") ELSE @[k]]] =
          Switched(x, keys, off)
      BY KeysChanged DEF Switched
  <2>6. Edited(c.op, x, keys, r.json) = Switched(x, keys, off)
      BY <2>2, <2>3, <2>5
  <2>7. PersonAfter(c, x, keys) = Switched(x, keys, Bool(c.flag))
      BY <1>2, <2>1 DEF PersonAfter
  <2> QED
      BY <2>4, <2>6, <2>7
<1>3. CASE c.op \notin Revokes \cup Switches
    BY <1>3 DEF Edited, PersonAfter, Revokes, Switches
<1> QED
    BY <1>1, <1>2, <1>3

\* The answers of the server.
WhyNot(c, o) == [p \in DOMAIN c.items |-> Refusal(c.op, o.people[p], c.items[p])]
FailedOf(c, o) == {p \in DOMAIN c.items : WhyNot(c, o)[p] # None}
RosterLeft(c, o) ==
    [people |-> [p \in People |->
        IF p \in DOMAIN c.items \ FailedOf(c, o)
        THEN PersonAfter(c, o.people[p], c.items[p]) ELSE o.people[p]]]
Verdicts(c, o) ==
    [p \in DOMAIN c.items |-> [ok |-> p \notin FailedOf(c, o), code |-> WhyNot(c, o)[p]]]
Totals(c, o) == [total |-> Cardinality(DOMAIN c.items),
                 succeeded |-> Cardinality(DOMAIN c.items \ FailedOf(c, o)),
                 failed |-> Cardinality(FailedOf(c, o))]
BatchBody(c, o) ==
    [result |-> "batch_processed", simulated |-> FALSE, summary |-> Totals(c, o),
     results |-> Verdicts(c, o)]
ItemsFit(c, o) ==
    /\ c.op \notin Adds => \A p \in DOMAIN c.items : o.people[p].status # "out"
    /\ c.op = "revoke_keys" => c.flag \in BOOLEAN

RosterRefused(c, o, a) ==
    /\ a.to = o
    /\ \/ a.status = 422 /\ a.body.code \in Reasons \cup {"invalid_items"}
       \/ /\ a.status = 409 /\ a.body.code = "already_accepted"
          /\ \A p \in DOMAIN c.items : o.people[p].status = "accepted"
    /\ c.op # "bulk_add_members"
RosterRehearsed(c, o, a) ==
    c.op \notin BulkOps /\ c.dry_run = TRUE /\ a.to = o /\ a.body = [result |-> "simulated"]
RosterWritten(c, o, a) ==
    /\ c.op \notin BulkOps /\ c.dry_run # TRUE /\ ItemsFit(c, o) /\ FailedOf(c, o) = {}
    /\ a.to = RosterLeft(c, o) /\ a.body = [result |-> c.op]
RosterProcessed(c, o, a) ==
    /\ c.op \in BulkOps /\ ItemsFit(c, o)
    /\ a.to = RosterLeft(c, o) /\ a.body = BatchBody(c, o)

RosterAnswers(c, o, a) ==
    \/ RosterRefused(c, o, a)
    \/ a.status = 200 /\ RosterRehearsed(c, o, a)
    \/ a.status = 200 /\ RosterWritten(c, o, a)
    \/ a.status = 207 /\ RosterProcessed(c, o, a)

\* The answer to a request that is well formed.
RosterOutcome(o, r, items, why, failed, to) ==
    IF r.path \in BulkOps
    THEN Says(to, 207,
          [result |-> "batch_processed", simulated |-> FALSE,
           summary |-> [total |-> Cardinality(DOMAIN items),
                        succeeded |-> Cardinality(DOMAIN items \ failed),
                        failed |-> Cardinality(failed)],
           results |-> [p \in DOMAIN items |->
                          [ok |-> p \notin failed, code |-> why[p]]]])
    ELSE IF failed # {}
    THEN LET code == why[CHOOSE p \in failed : TRUE]
         IN  Refuses(o, IF code = "already_accepted" THEN 409 ELSE 422, code)
    ELSE IF Get(r.json, "dry_run", FALSE)
    THEN Says(o, 200, [result |-> "simulated"])
    ELSE Says(to, 200, [result |-> r.path])

LEMMA RosterAnswer ==
    ASSUME NEW o \in Rosters, NEW c \in RosterCalls,
           NEW a, a = RosterServe(o, RosterRequest(c))
    PROVE  RosterAnswers(c, o, a)
<1>1. PICK r : r = RosterRequest(c)
    OBVIOUS
<1>2. a = RosterServe(o, r) /\ r.path = c.op /\ r.json.items = c.items
    BY <1>1, RosterRequestIs
<1>3. PICK why, failed, items : why = WhyNot(c, o) /\ failed = FailedOf(c, o) /\ items = c.items
    OBVIOUS
<1>4. [p \in DOMAIN items |-> Refusal(r.path, o.people[p], items[p])] = why
    BY <1>2, <1>3 DEF WhyNot
<1>5. {p \in DOMAIN items : why[p] # None} = failed
    BY <1>3 DEF FailedOf
<1>6. PICK to : to = [o EXCEPT !.people = [p \in People |->
                        IF p \in DOMAIN items \ failed
                        THEN Edited(r.path, @[p], items[p], r.json) ELSE @[p]]]
    OBVIOUS
<1>7. CASE Malformed(o, c.op, c.items, r.json)
  <2>1. a = Refuses(o, 422, "invalid_items")
      BY <1>2, <1>7 DEF RosterServe
  <2>2. c.op # "bulk_add_members"
      BY <1>1, <1>7, RosterRequestIs DEF Malformed
  <2> QED
      BY <2>1, <2>2 DEF RosterAnswers, RosterRefused, Refuses, Says
<1>8. CASE ~Malformed(o, c.op, c.items, r.json)
  <2>1. ItemsFit(c, o)
    <3>1. c.op \notin Adds => \A p \in DOMAIN c.items : o.people[p].status # "out"
        BY <1>8 DEF Malformed, Adds
    <3>2. Get(r.json, "remove_member", FALSE) \in BOOLEAN
        BY <1>8 DEF Malformed
    <3>3. c.op = "revoke_keys" => c.flag \in BOOLEAN
        BY <1>1, <3>2, RosterRequestIs
    <3> QED
        BY <3>1, <3>3 DEF ItemsFit
  <2>2. to = RosterLeft(c, o)
    <3>1. \A p \in People : Edited(r.path, o.people[p], items[p], r.json) =
                              PersonAfter(c, o.people[p], c.items[p])
        BY <1>1, <1>2, <1>3, <2>1, EditedIs DEF ItemsFit, Rosters
    <3>2. to = [o EXCEPT !.people = [p \in People |->
                  IF p \in DOMAIN items \ failed
                  THEN PersonAfter(c, o.people[p], c.items[p]) ELSE o.people[p]]]
        BY <1>6, <3>1
    <3>3. \A g : [o EXCEPT !.people = g] = [people |-> g]
        BY DEF Rosters
    <3> QED
        BY <1>3, <3>2, <3>3 DEF RosterLeft
  <2>3. a = RosterOutcome(o, r, items, why, failed, to)
    <3> DEFINE items_ == r.json.items
               why_ == [p \in DOMAIN items_ |-> Refusal(r.path, o.people[p], items_[p])]
               failed_ == {p \in DOMAIN items_ : why_[p] # None}
               to_ == [o EXCEPT !.people = [p \in People |->
                         IF p \in DOMAIN items_ \ failed_
                         THEN Edited(r.path, @[p], items_[p], r.json) ELSE @[p]]]
    <3>1. RosterServe(o, r) =
            IF Malformed(o, r.path, items_, r.json) THEN Refuses(o, 422, "invalid_items")
            ELSE RosterOutcome(o, r, items_, why_, failed_, to_)
        BY DEF RosterServe, RosterOutcome
    <3>2. items_ = items
        BY <1>2, <1>3
    <3>3. why_ = why
        BY <1>4, <3>2
    <3>4. failed_ = failed
        BY <1>5, <3>2, <3>3
    <3>5. to_ = to
        BY <1>6, <3>2, <3>4
    <3> HIDE DEF items_, why_, failed_, to_
    <3> QED
        BY <1>2, <1>3, <1>8, <3>1, <3>2, <3>3, <3>4, <3>5
  <2>4. CASE c.op \in BulkOps
    <3>1. a = Says(to, 207, BatchBody(c, o))
        BY <1>2, <1>3, <2>3, <2>4 DEF RosterOutcome, BatchBody, Totals, Verdicts
    <3> QED
        BY <2>1, <2>2, <2>4, <3>1 DEF RosterAnswers, RosterProcessed, Says
  <2>5. CASE c.op \notin BulkOps /\ failed # {}
    <3>1. PICK p : p = CHOOSE q \in failed : TRUE
        OBVIOUS
    <3>2. p \in failed
        BY <2>5, <3>1
    <3>3. a = Refuses(o, IF why[p] = "already_accepted" THEN 409 ELSE 422, why[p])
        BY <1>2, <2>3, <2>5, <3>1 DEF RosterOutcome
    <3>4. p \in DOMAIN c.items /\ why[p] = Refusal(c.op, o.people[p], c.items[p])
          /\ why[p] # None
        BY <1>3, <3>2 DEF FailedOf, WhyNot
    <3>5. /\ why[p] \in Reasons
          /\ why[p] = "already_accepted" =>
               c.op = "approve_member" /\ o.people[p].status = "accepted"
      <4>1. c.op \in Adds \cup {"approve_member"} \cup Revokes \cup GrantsOnly \cup Switches
          BY RosterCallsAre
             DEF RosterCallIs, RosterOps, BulkOps, Adds, Revokes, GrantsOnly, Switches
      <4>2. c.op \in RosterOps
          BY RosterCallsAre DEF RosterCallIs
      <4>3. PICK reason : reason = Refusal(c.op, o.people[p], c.items[p])
          OBVIOUS
      <4>4. PICK lacks \in BOOLEAN : lacks <=> ~(c.items[p] \subseteq Held(o.people[p]))
          OBVIOUS
      <4>5. /\ c.op \in Adds =>
                 reason = IF o.people[p].status = "accepted" THEN "already_member" ELSE None
            /\ c.op = "approve_member" =>
                 reason = IF o.people[p].status = "accepted" THEN "already_accepted" ELSE None
            /\ c.op \in Revokes \cup GrantsOnly =>
                 reason = IF o.people[p].status = "pending" THEN "member_not_accepted" ELSE None
            /\ c.op \in Switches => reason \in {"member_not_accepted", "key_not_held", None}
          BY <4>2, <4>3, RefusalIs
      <4> QED
          BY <3>4, <4>1, <4>3, <4>5 DEF Reasons
    <3>6. DOMAIN c.items = {p}
        BY <2>5, <3>4, RosterCallsAre DEF RosterCallIs
    <3>7. a.to = o /\ a.body.code = why[p]
          /\ a.status = IF why[p] = "already_accepted" THEN 409 ELSE 422
        BY <3>3 DEF Refuses, Says
    <3>8. c.op # "bulk_add_members"
        BY <2>5 DEF BulkOps
    <3> QED
        BY <3>5, <3>6, <3>7, <3>8 DEF RosterAnswers, RosterRefused
  <2>6. CASE c.op \notin BulkOps /\ failed = {} /\ Get(r.json, "dry_run", FALSE)
    <3>1. a = Says(o, 200, [result |-> "simulated"])
        BY <1>2, <2>3, <2>6 DEF RosterOutcome
    <3>2. c.dry_run = TRUE
      <4>1. Get(r.json, "dry_run", FALSE) =
              IF c.op = "approve_member" /\ c.dry_run # None THEN c.dry_run ELSE FALSE
          BY <1>1, RosterRequestIs
      <4>2. c.dry_run \in {TRUE, None}
          BY RosterCallsAre DEF RosterCallIs, DryRuns
      <4> QED
          BY <2>6, <4>1, <4>2
    <3> QED
        BY <2>6, <3>1, <3>2 DEF RosterAnswers, RosterRehearsed, Says
  <2>7. CASE c.op \notin BulkOps /\ failed = {} /\ ~Get(r.json, "dry_run", FALSE)
    <3>1. a = Says(to, 200, [result |-> c.op])
        BY <1>2, <2>3, <2>7 DEF RosterOutcome
    <3>2. c.dry_run # TRUE
      <4>1. Get(r.json, "dry_run", FALSE) =
              IF c.op = "approve_member" /\ c.dry_run # None THEN c.dry_run ELSE FALSE
          BY <1>1, RosterRequestIs
      <4>2. c.op # "approve_member" => c.dry_run = None
          BY RosterCallsAre DEF RosterCallIs
      <4> QED
          BY <2>7, <4>1, <4>2, NoneAssumption
    <3>3. a.to = to /\ a.status = 200 /\ a.body = [result |-> c.op]
        BY <3>1 DEF Says
    <3>4. FailedOf(c, o) = {}
        BY <1>3, <2>7
    <3>5. RosterWritten(c, o, a)
        BY <2>1, <2>2, <2>7, <3>2, <3>3, <3>4 DEF RosterWritten
    <3> QED
        BY <3>3, <3>5 DEF RosterAnswers
  <2> QED
      BY <2>4, <2>5, <2>6, <2>7
<1> QED
    BY <1>7, <1>8

\* What has been done for a person.
DoneOne(c, y, keys) ==
    IF c.op \in Revokes THEN Held(y) \cap keys = {} /\ (c.flag = TRUE => y.status = "out")
    ELSE IF c.op \in Switches
    THEN \A k \in keys : y.keys[k] = IF Bool(c.flag) THEN "off" ELSE "on"
    ELSE y.status = "accepted" /\ keys \subseteq Held(y)

LEMMA DoneForIs ==
    ASSUME NEW c, NEW p, NEW f
    PROVE  DoneFor(c, p, f) <=> DoneOne(c, f.people[p], c.items[p])
<1>1. CASE c.op \in Revokes
    BY <1>1 DEF DoneFor, DoneOne, Revokes, Switches
<1>2. CASE c.op \in Switches
    BY <1>2 DEF DoneFor, DoneOne, Revokes, Switches
<1>3. CASE c.op \notin Revokes \cup Switches
    BY <1>3 DEF DoneFor, DoneOne, Revokes, Switches
<1> QED
    BY <1>1, <1>2, <1>3

LEMMA RosterOpsAre ==
    \A op \in RosterOps : /\ op \in Adds \cup {"approve_member"} \cup Revokes \cup GrantsOnly
                                    \cup Switches
                          /\ op \in Revokes => op \notin Adds \cup {"approve_member"}
                                                          \cup GrantsOnly \cup Switches
                          /\ op \in Switches => op \notin Adds \cup {"approve_member"}
                                                           \cup GrantsOnly \cup Revokes
                          /\ op \in GrantsOnly => op \notin Adds \cup {"approve_member"}
                                                             \cup Revokes \cup Switches
BY DEF RosterOps, BulkOps, Adds, Revokes, GrantsOnly, Switches

LEMMA PersonGranted ==
    ASSUME NEW x \in Persons, NEW keys \in KeyLists
    PROVE  /\ Grants(x, keys) \in Persons /\ Grants(x, keys).status = "accepted"
           /\ keys \subseteq Held(Grants(x, keys))
           /\ \A k \in KeyIds \ keys : Grants(x, keys).keys[k] = x.keys[k]
<1>1. \A k \in KeyIds : x.keys[k] \in {"none", "on", "off"}
    BY DEF Persons, Nothing
<1>2. PICK after : after = [k \in KeyIds |-> IF k \in keys \ Held(x) THEN "on" ELSE x.keys[k]]
    OBVIOUS
<1>3. /\ after \in [KeyIds -> {"none", "on", "off"}]
      /\ \A k \in KeyIds \ keys : after[k] = x.keys[k]
      /\ \A k \in keys : after[k] # "none"
    BY <1>1, <1>2 DEF Held, KeyLists
<1>4. Grants(x, keys) = [status |-> "accepted", keys |-> after]
    BY <1>2 DEF Grants
<1>5. Grants(x, keys) \in Persons
    BY <1>3, <1>4 DEF Persons
<1>6. Grants(x, keys).status = "accepted" /\ Grants(x, keys).keys = after
    BY <1>4
<1> QED
    BY <1>3, <1>5, <1>6 DEF Held, KeyLists

LEMMA PersonWithout ==
    ASSUME NEW x \in Persons, x.status = "accepted", NEW keys \in KeyLists
    PROVE  /\ Without(x, keys) \in Persons /\ Without(x, keys).status = "accepted"
           /\ Held(Without(x, keys)) \cap keys = {}
           /\ \A k \in KeyIds \ keys : Without(x, keys).keys[k] = x.keys[k]
<1>1. \A k \in KeyIds : x.keys[k] \in {"none", "on", "off"}
    BY DEF Persons, Nothing
<1>2. PICK after : after = [k \in KeyIds |-> IF k \in keys THEN "none" ELSE x.keys[k]]
    OBVIOUS
<1>3. /\ after \in [KeyIds -> {"none", "on", "off"}]
      /\ \A k \in KeyIds \ keys : after[k] = x.keys[k]
      /\ \A k \in keys : after[k] = "none"
    BY <1>1, <1>2 DEF KeyLists
<1>4. Without(x, keys) = [status |-> "accepted", keys |-> after]
    BY <1>2 DEF Without
<1>5. Without(x, keys) \in Persons
    BY <1>3, <1>4 DEF Persons
<1>6. Without(x, keys).status = "accepted" /\ Without(x, keys).keys = after
    BY <1>4
<1> QED
    BY <1>3, <1>5, <1>6 DEF Held

LEMMA PersonSwitched ==
    ASSUME NEW x \in Persons, x.status = "accepted", NEW keys \in KeyLists, NEW off \in BOOLEAN
    PROVE  /\ Switched(x, keys, off) \in Persons /\ Switched(x, keys, off).status = "accepted"
           /\ \A k \in keys : Switched(x, keys, off).keys[k] = IF off THEN "off" ELSE "on"
           /\ \A k \in KeyIds \ keys : Switched(x, keys, off).keys[k] = x.keys[k]
<1>1. \A k \in KeyIds : x.keys[k] \in {"none", "on", "off"}
    BY DEF Persons, Nothing
<1>2. PICK value : value = IF off THEN "off" ELSE "on"
    OBVIOUS
<1>3. PICK after : after = [k \in KeyIds |-> IF k \in keys THEN value ELSE x.keys[k]]
    OBVIOUS
<1>4. /\ after \in [KeyIds -> {"none", "on", "off"}]
      /\ \A k \in KeyIds \ keys : after[k] = x.keys[k]
      /\ \A k \in keys : after[k] = value
    BY <1>1, <1>2, <1>3 DEF KeyLists
<1>5. Switched(x, keys, off) = [status |-> "accepted", keys |-> after]
    BY <1>2, <1>3 DEF Switched
<1>6. Switched(x, keys, off) \in Persons
    BY <1>4, <1>5 DEF Persons
<1>7. Switched(x, keys, off).status = "accepted" /\ Switched(x, keys, off).keys = after
    BY <1>5
<1> QED
    BY <1>2, <1>4, <1>6, <1>7

LEMMA PersonChanged ==
    ASSUME NEW c \in RosterCalls, NEW x \in Persons, NEW keys \in KeyLists,
           Refusal(c.op, x, keys) = None, c.op \notin Adds => x.status # "out"
    PROVE  /\ PersonAfter(c, x, keys) \in Persons
           /\ PersonAfter(c, x, keys).status # x.status =>
                \/ c.op \in Adds \cup {"approve_member"}
                \/ c.op = "revoke_keys" /\ c.flag = TRUE
           /\ PersonAfter(c, x, keys).status = "accepted" =>
                \A k \in KeyIds \ keys : PersonAfter(c, x, keys).keys[k] = x.keys[k]
           /\ DoneOne(c, PersonAfter(c, x, keys), keys)
           /\ x.status = "accepted" <=> c.op \notin Adds \cup {"approve_member"}
<1>1. c.op \in RosterOps
    BY RosterCallsAre DEF RosterCallIs
<1>2. x.status \in {"out", "pending", "accepted"}
    BY DEF Persons
<1>3. None \notin Reasons
    BY VerdictAssumption
<1>4. /\ c.op \in Adds \cup {"approve_member"} => x.status # "accepted"
      /\ c.op \in Revokes \cup GrantsOnly \cup Switches => x.status # "pending"
  <2>1. /\ c.op \in Adds => None =
             IF x.status = "accepted" THEN "already_member" ELSE None
        /\ c.op = "approve_member" => None =
             IF x.status = "accepted" THEN "already_accepted" ELSE None
        /\ c.op \in Revokes \cup GrantsOnly => None =
             IF x.status = "pending" THEN "member_not_accepted" ELSE None
        /\ c.op \in Switches => None =
             IF x.status = "pending" THEN "member_not_accepted"
             ELSE IF x.status = "accepted" /\ ~(keys \subseteq Held(x))
             THEN "key_not_held" ELSE None
      BY <1>1, RefusalIs
  <2> QED
      BY <1>3, <2>1 DEF Reasons
<1>5. x.status = "accepted" <=> c.op \notin Adds \cup {"approve_member"}
    BY <1>1, <1>2, <1>4, RosterOpsAre
<1>6. CASE c.op \in Revokes /\ c.flag = TRUE
  <2>1. PersonAfter(c, x, keys) = TakenOut
      BY <1>6 DEF PersonAfter
  <2>2. TakenOut \in Persons /\ TakenOut.status = "out" /\ TakenOut.keys = Nothing
      BY DEF TakenOut, Persons
  <2>3. c.op = "revoke_keys"
      BY <1>6, RosterCallsAre, NoneAssumption DEF RosterCallIs, Revokes
  <2>4. Held(TakenOut) = {}
      BY <2>2 DEF Held, Nothing
  <2> QED
      BY <1>5, <1>6, <2>1, <2>2, <2>3, <2>4 DEF DoneOne
<1>7. CASE c.op \in Revokes /\ c.flag # TRUE
  <2>1. PersonAfter(c, x, keys) = Without(x, keys) /\ x.status = "accepted"
      BY <1>1, <1>5, <1>7, RosterOpsAre DEF PersonAfter
  <2>2. /\ Without(x, keys) \in Persons /\ Without(x, keys).status = "accepted"
        /\ Held(Without(x, keys)) \cap keys = {}
        /\ \A k \in KeyIds \ keys : Without(x, keys).keys[k] = x.keys[k]
      BY <2>1, PersonWithout
  <2> QED
      BY <1>5, <1>7, <2>1, <2>2 DEF DoneOne
<1>8. CASE c.op \in Switches
  <2>0. Bool(c.flag) \in BOOLEAN
      BY DEF Bool
  <2>1. PICK off \in BOOLEAN : off = Bool(c.flag)
      BY <2>0
  <2>2. PersonAfter(c, x, keys) = Switched(x, keys, off) /\ x.status = "accepted"
      BY <1>1, <1>5, <1>8, <2>1, RosterOpsAre DEF PersonAfter
  <2>3. /\ Switched(x, keys, off) \in Persons /\ Switched(x, keys, off).status = "accepted"
        /\ \A k \in keys : Switched(x, keys, off).keys[k] = IF off THEN "off" ELSE "on"
        /\ \A k \in KeyIds \ keys : Switched(x, keys, off).keys[k] = x.keys[k]
      BY <2>2, PersonSwitched
  <2>4. DoneOne(c, Switched(x, keys, off), keys)
      BY <1>1, <1>8, <2>1, <2>3, RosterOpsAre DEF DoneOne
  <2> QED
      BY <1>5, <1>8, <2>2, <2>3, <2>4
<1>9. CASE c.op \notin Revokes \cup Switches
  <2>1. PersonAfter(c, x, keys) = Grants(x, keys)
      BY <1>9 DEF PersonAfter
  <2>2. /\ Grants(x, keys) \in Persons /\ Grants(x, keys).status = "accepted"
        /\ keys \subseteq Held(Grants(x, keys))
        /\ \A k \in KeyIds \ keys : Grants(x, keys).keys[k] = x.keys[k]
      BY PersonGranted
  <2>3. DoneOne(c, Grants(x, keys), keys)
      BY <1>9, <2>2 DEF DoneOne
  <2> QED
      BY <1>5, <1>9, <2>1, <2>2, <2>3
<1> QED
    BY <1>6, <1>7, <1>8, <1>9

\* Person by person, what a write leaves.
LEMMA EachPerson ==
    ASSUME NEW o \in Rosters, NEW c \in RosterCalls, ItemsFit(c, o), NEW p \in People
    PROVE  /\ p \in DOMAIN c.items \ FailedOf(c, o) =>
                /\ RosterLeft(c, o).people[p] = PersonAfter(c, o.people[p], c.items[p])
                /\ o.people[p] \in Persons /\ c.items[p] \in KeyLists
                /\ Refusal(c.op, o.people[p], c.items[p]) = None
                /\ c.op \notin Adds => o.people[p].status # "out"
           /\ p \notin DOMAIN c.items \ FailedOf(c, o) =>
                RosterLeft(c, o).people[p] = o.people[p]
<1>1. o.people[p] \in Persons
    BY DEF Rosters
<1>2. p \in DOMAIN c.items => c.items[p] \in KeyLists
    BY RosterCallsAre DEF RosterCallIs
<1>3. p \in DOMAIN c.items \ FailedOf(c, o) => Refusal(c.op, o.people[p], c.items[p]) = None
    BY DEF FailedOf, WhyNot
<1>4. p \in DOMAIN c.items => (c.op \notin Adds => o.people[p].status # "out")
    BY DEF ItemsFit
<1>5. RosterLeft(c, o).people[p] =
        IF p \in DOMAIN c.items \ FailedOf(c, o)
        THEN PersonAfter(c, o.people[p], c.items[p]) ELSE o.people[p]
    BY DEF RosterLeft
<1> QED
    BY <1>1, <1>2, <1>3, <1>4, <1>5

LEMMA RosterWriteTyped ==
    ASSUME NEW o \in Rosters, NEW c \in RosterCalls, ItemsFit(c, o)
    PROVE  RosterLeft(c, o) \in Rosters
<1>1. \A p \in People : RosterLeft(c, o).people[p] \in Persons
  <2>1. SUFFICES ASSUME NEW p \in People PROVE RosterLeft(c, o).people[p] \in Persons
      OBVIOUS
  <2>2. o.people[p] \in Persons
      BY DEF Rosters
  <2> QED
      BY <2>2, EachPerson, PersonChanged
<1>2. PICK g : g = [p \in People |->
        IF p \in DOMAIN c.items \ FailedOf(c, o)
        THEN PersonAfter(c, o.people[p], c.items[p]) ELSE o.people[p]]
    OBVIOUS
<1>3. RosterLeft(c, o) = [people |-> g]
    BY <1>2 DEF RosterLeft
<1>4. RosterLeft(c, o).people = g
    BY <1>3
<1>5. g \in [People -> Persons]
    BY <1>1, <1>2, <1>4
<1> QED
    BY <1>3, <1>5 DEF Rosters

LEMMA RosterTyped ==
    ASSUME NEW o \in Rosters, NEW c \in RosterCalls, NEW a, RosterAnswers(c, o, a)
    PROVE  a.to \in Rosters
<1>1. CASE RosterRefused(c, o, a)
    BY <1>1 DEF RosterRefused
<1>2. CASE RosterRehearsed(c, o, a)
    BY <1>2 DEF RosterRehearsed
<1>3. CASE RosterWritten(c, o, a)
    BY <1>3, RosterWriteTyped DEF RosterWritten
<1>4. CASE RosterProcessed(c, o, a)
    BY <1>4, RosterWriteTyped DEF RosterProcessed
<1> QED
    BY <1>1, <1>2, <1>3, <1>4 DEF RosterAnswers

LEMMA RosterWriteWithin ==
    ASSUME NEW o \in Rosters, NEW c \in RosterCalls, ItemsFit(c, o), c.dry_run # TRUE
    PROVE  RosterWithin(c, o, RosterLeft(c, o))
<1>1. SUFFICES ASSUME NEW p \in People, RosterLeft(c, o).people[p] # o.people[p]
               PROVE  /\ p \in DOMAIN c.items
                      /\ RosterLeft(c, o).people[p].status # o.people[p].status =>
                           \/ c.op \in {"add_member", "bulk_add_members", "approve_member"}
                           \/ c.op = "revoke_keys" /\ c.flag = TRUE
                      /\ RosterLeft(c, o).people[p].status = "accepted" =>
                           \A k \in KeyIds \ c.items[p] :
                               RosterLeft(c, o).people[p].keys[k] = o.people[p].keys[k]
    BY DEF RosterWithin
<1>2. /\ p \in DOMAIN c.items \ FailedOf(c, o)
      /\ RosterLeft(c, o).people[p] = PersonAfter(c, o.people[p], c.items[p])
      /\ o.people[p] \in Persons /\ c.items[p] \in KeyLists
      /\ Refusal(c.op, o.people[p], c.items[p]) = None
      /\ c.op \notin Adds => o.people[p].status # "out"
    BY <1>1, EachPerson
<1>3. PICK x, keys, y : x = o.people[p] /\ keys = c.items[p] /\ y = PersonAfter(c, x, keys)
    OBVIOUS
<1>4. /\ y.status # x.status => \/ c.op \in Adds \cup {"approve_member"}
                                \/ c.op = "revoke_keys" /\ c.flag = TRUE
      /\ y.status = "accepted" => \A k \in KeyIds \ keys : y.keys[k] = x.keys[k]
    BY <1>2, <1>3, PersonChanged
<1> QED
    BY <1>2, <1>3, <1>4 DEF Adds

LEMMA RosterKeepsWithin ==
    ASSUME NEW o \in Rosters, NEW c \in RosterCalls, NEW a, RosterAnswers(c, o, a)
    PROVE  RosterWithin(c, o, a.to)
<1>1. CASE a.to = o
    BY <1>1 DEF RosterWithin
<1>2. CASE RosterWritten(c, o, a)
    BY <1>2, RosterWriteWithin DEF RosterWritten
<1>3. CASE RosterProcessed(c, o, a)
  <2>1. c.dry_run # TRUE
      BY <1>3, RosterCallsAre, NoneAssumption DEF RosterProcessed, RosterCallIs,
         BulkOps
  <2> QED
      BY <1>3, <2>1, RosterWriteWithin DEF RosterProcessed
<1> QED
    BY <1>1, <1>2, <1>3 DEF RosterAnswers, RosterRefused, RosterRehearsed

\* Every item that is not refused is done.
LEMMA ItemsDone ==
    ASSUME NEW o \in Rosters, NEW c \in RosterCalls, ItemsFit(c, o),
           NEW p \in DOMAIN c.items \ FailedOf(c, o)
    PROVE  DoneFor(c, p, RosterLeft(c, o))
<1>1. p \in People
    BY RosterCallsAre DEF RosterCallIs
<1>2. PICK x, keys, y : x = o.people[p] /\ keys = c.items[p] /\ y = PersonAfter(c, x, keys)
    OBVIOUS
<1>3. /\ RosterLeft(c, o).people[p] = y
      /\ x \in Persons /\ keys \in KeyLists /\ Refusal(c.op, x, keys) = None
      /\ c.op \notin Adds => x.status # "out"
    BY <1>1, <1>2, EachPerson
<1>4. DoneOne(c, y, keys)
    BY <1>2, <1>3, PersonChanged
<1> QED
    BY <1>2, <1>3, <1>4, DoneForIs

LEMMA RosterKeepsMeant ==
    ASSUME NEW o \in Rosters, NEW c \in RosterCalls, NEW a, RosterAnswers(c, o, a),
           a.status \in 200..299
    PROVE  \A before : RosterMeant(c, before, a.to)
<1>1. ~RosterRefused(c, o, a)
    BY DEF RosterRefused
<1>2. CASE RosterRehearsed(c, o, a) \/ RosterProcessed(c, o, a)
    BY <1>2 DEF RosterRehearsed, RosterProcessed, RosterMeant
<1>3. CASE RosterWritten(c, o, a)
  <2>1. \A p \in DOMAIN c.items : DoneFor(c, p, RosterLeft(c, o))
      BY <1>3, ItemsDone DEF RosterWritten
  <2> QED
      BY <1>3, <2>1 DEF RosterWritten, RosterMeant
<1> QED
    BY <1>1, <1>2, <1>3 DEF RosterAnswers

\* How the answer to a batch is read.
LEMMA TotalsRead ==
    ASSUME NEW o, NEW c \in RosterCalls
    PROVE  /\ Totals(c, o) # None /\ BulkSummary(Totals(c, o)) = Totals(c, o)
           /\ Totals(c, o).failed = Cardinality(FailedOf(c, o))
           /\ Totals(c, o).succeeded + Totals(c, o).failed = Totals(c, o).total
<1>1. DOMAIN c.items \subseteq People /\ FailedOf(c, o) \subseteq DOMAIN c.items
    BY RosterCallsAre DEF RosterCallIs, FailedOf
<1>2. PICK S, F : S = DOMAIN c.items /\ F = FailedOf(c, o)
    OBVIOUS
<1>3. IsFiniteSet(S) /\ IsFiniteSet(F) /\ F \subseteq S
    BY <1>1, <1>2, PeopleAssumption, FS_Subset
<1>4. IsFiniteSet(S \ F)
    BY <1>3, FS_Difference
<1>5. /\ Cardinality(S) \in Nat /\ Cardinality(F) \in Nat /\ Cardinality(S \ F) \in Nat
    BY <1>3, <1>4, FS_CardinalityType
<1>6. Cardinality(S \ F) = Cardinality(S) - Cardinality(F)
  <2>1. Cardinality(S \ F) = Cardinality(S) - Cardinality(S \cap F)
      BY <1>3, FS_Difference
  <2>2. S \cap F = F
      BY <1>3
  <2> QED
      BY <2>1, <2>2
<1>7. PICK total, succeeded, failed :
        /\ total = Cardinality(S) /\ succeeded = Cardinality(S \ F) /\ failed = Cardinality(F)
    OBVIOUS
<1>8. Totals(c, o) = [total |-> total, succeeded |-> succeeded, failed |-> failed]
    BY <1>2, <1>7 DEF Totals
<1>9. total # None /\ succeeded # None /\ failed # None
    BY <1>5, <1>7, VerdictAssumption
<1>10. Totals(c, o) \in [total : Nat, succeeded : Nat, failed : Nat]
    BY <1>5, <1>7, <1>8
<1>11. PICK d : d = Totals(c, o)
    OBVIOUS
<1>12. /\ GetOr(d, "total", 0) = total /\ GetOr(d, "succeeded", 0) = succeeded
       /\ GetOr(d, "failed", 0) = failed
    BY <1>8, <1>9, <1>11 DEF GetOr
<1>13. BulkSummary(d) = [total |-> total, succeeded |-> succeeded, failed |-> failed]
    BY <1>12 DEF BulkSummary
<1>14. d # None
    BY <1>10, <1>11, VerdictAssumption
<1>15. d.failed = failed /\ d.succeeded = succeeded /\ d.total = total
    BY <1>8, <1>11
<1> QED
    BY <1>2, <1>5, <1>6, <1>7, <1>8, <1>11, <1>13, <1>14, <1>15

LEMMA VerdictRead ==
    ASSUME NEW ok \in BOOLEAN, NEW code
    PROVE  BulkItemResult([ok |-> ok, code |-> code]) = [ok |-> ok, code |-> code]
<1>1. PICK d : d = [ok |-> ok, code |-> code]
    OBVIOUS
<1>2. Get(d, "ok", None) = ok /\ Get(d, "code", None) = code
    BY <1>1 DEF Get
<1>3. Bool(ok) = ok
    BY BoolOfBoolean
<1> QED
    BY <1>1, <1>2, <1>3 DEF BulkItemResult

LEMMA ReasonsAre ==
    ASSUME NEW o, NEW c \in RosterCalls, NEW p \in DOMAIN c.items
    PROVE  WhyNot(c, o)[p] \in Reasons \cup {None}
<1>1. c.op \in RosterOps
    BY RosterCallsAre DEF RosterCallIs
<1>2. PICK reason : reason = Refusal(c.op, o.people[p], c.items[p])
    OBVIOUS
<1>3. /\ c.op \in Adds =>
           reason = IF o.people[p].status = "accepted" THEN "already_member" ELSE None
      /\ c.op = "approve_member" =>
           reason = IF o.people[p].status = "accepted" THEN "already_accepted" ELSE None
      /\ c.op \in Revokes \cup GrantsOnly =>
           reason = IF o.people[p].status = "pending" THEN "member_not_accepted" ELSE None
      /\ c.op \in Switches => reason \in {"member_not_accepted", "key_not_held", None}
    BY <1>1, <1>2, RefusalIs
<1>4. reason \in Reasons \cup {None}
    BY <1>1, <1>3, RosterOpsAre DEF Reasons
<1> QED
    BY <1>2, <1>4 DEF WhyNot

LEMMA VerdictsRead ==
    ASSUME NEW o, NEW c \in RosterCalls
    PROVE  /\ Verdicts(c, o) # None
           /\ [p \in DOMAIN Verdicts(c, o) |-> BulkItemResult(Verdicts(c, o)[p])] = Verdicts(c, o)
<1>0. PICK F : F = FailedOf(c, o)
    OBVIOUS
<1>1. PICK S \in SUBSET People : S = DOMAIN c.items /\ F = FailedOf(c, o)
    BY <1>0, RosterCallsAre DEF RosterCallIs
<1>2. PICK why : why = WhyNot(c, o)
    OBVIOUS
<1>3. \A p \in S : why[p] \in Reasons \cup {None}
    BY <1>1, <1>2, ReasonsAre
<1> DEFINE row(p) == [ok |-> p \notin F, code |-> why[p]]
<1>4. \A p \in S : BulkItemResult(row(p)) = row(p) /\ row(p) \in [ok : BOOLEAN, code : Reasons \cup {None}]
  <2>1. SUFFICES ASSUME NEW p \in S
                 PROVE  /\ BulkItemResult(row(p)) = row(p)
                        /\ row(p) \in [ok : BOOLEAN, code : Reasons \cup {None}]
      OBVIOUS
  <2>2. PICK ok \in BOOLEAN : ok = (p \notin F)
      OBVIOUS
  <2>3. row(p) = [ok |-> ok, code |-> why[p]]
      BY <2>2
  <2> HIDE DEF row
  <2> QED
      BY <1>3, <2>3, VerdictRead
<1>5. Verdicts(c, o) = [p \in S |-> row(p)]
    BY <1>1, <1>2 DEF Verdicts
<1> HIDE DEF row
<1>6. PICK v : v = Verdicts(c, o)
    OBVIOUS
<1>7. DOMAIN v = S /\ \A p \in S : v[p] = row(p)
    BY <1>5, <1>6
<1>8. v \in [S -> [ok : BOOLEAN, code : Reasons \cup {None}]]
    BY <1>4, <1>5, <1>6
<1>9. v # None
    BY <1>8, VerdictAssumption
<1>10. [p \in DOMAIN v |-> BulkItemResult(v[p])] = [p \in S |-> row(p)]
    BY <1>4, <1>7
<1> QED
    BY <1>5, <1>6, <1>9, <1>10

LEMMA BatchRead ==
    ASSUME NEW o, NEW c \in RosterCalls, NEW simulated \in BOOLEAN
    PROVE  BulkResult([result |-> "batch_processed", simulated |-> simulated,
                       summary |-> Totals(c, o), results |-> Verdicts(c, o)]) =
             [simulated |-> simulated, summary |-> Totals(c, o), results |-> Verdicts(c, o)]
<1>1. PICK totals, verdicts : totals = Totals(c, o) /\ verdicts = Verdicts(c, o)
    OBVIOUS
<1>2. PICK d : d = [result |-> "batch_processed", simulated |-> simulated,
                    summary |-> totals, results |-> verdicts]
    OBVIOUS
<1>3. totals # None /\ BulkSummary(totals) = totals
    BY <1>1, TotalsRead
<1>4. verdicts # None /\ [p \in DOMAIN verdicts |-> BulkItemResult(verdicts[p])] = verdicts
    BY <1>1, VerdictsRead
<1>5. /\ GetOr(d, "results", NoFields) = verdicts /\ GetOr(d, "summary", NoFields) = totals
      /\ Get(d, "simulated", None) = simulated
    BY <1>2, <1>3, <1>4 DEF GetOr, Get
<1>6. BulkSimulated(d) = simulated
    BY <1>5, BoolOfBoolean DEF BulkSimulated
<1>7. BulkResult(d) = [simulated |-> simulated, summary |-> totals, results |-> verdicts]
    BY <1>3, <1>4, <1>5, <1>6 DEF BulkResult
<1> QED
    BY <1>1, <1>2, <1>7

LEMMA BatchAnswerRead ==
    ASSUME NEW o \in Rosters, NEW c \in RosterCalls, NEW a, RosterProcessed(c, o, a)
    PROVE  /\ RosterResult(c, a.body) =
                [simulated |-> FALSE, summary |-> Totals(c, o), results |-> Verdicts(c, o)]
           /\ RosterResult(c, [a.body EXCEPT !.simulated = TRUE]) =
                [simulated |-> TRUE, summary |-> Totals(c, o), results |-> Verdicts(c, o)]
<1>1. c.op \in BulkOps /\ a.body = BatchBody(c, o)
    BY DEF RosterProcessed
<1>2. PICK totals, verdicts : totals = Totals(c, o) /\ verdicts = Verdicts(c, o)
    OBVIOUS
<1>3. a.body = [result |-> "batch_processed", simulated |-> FALSE,
                summary |-> totals, results |-> verdicts]
    BY <1>1, <1>2 DEF BatchBody
<1>4. [a.body EXCEPT !.simulated = TRUE] =
        [result |-> "batch_processed", simulated |-> TRUE,
         summary |-> totals, results |-> verdicts]
  <2>1. PICK off, on : off = FALSE /\ on = TRUE
      OBVIOUS
  <2>2. a.body = [result |-> "batch_processed", simulated |-> off,
                  summary |-> totals, results |-> verdicts]
      BY <1>3, <2>1
  <2>3. [a.body EXCEPT !.simulated = on] =
          [result |-> "batch_processed", simulated |-> on,
           summary |-> totals, results |-> verdicts]
      BY <2>2
  <2> QED
      BY <2>1, <2>3
<1>5. \A d : RosterResult(c, d) = BulkResult(d)
    BY <1>1 DEF RosterResult
<1>6. \A simulated \in BOOLEAN :
        BulkResult([result |-> "batch_processed", simulated |-> simulated,
                    summary |-> totals, results |-> verdicts]) =
          [simulated |-> simulated, summary |-> totals, results |-> verdicts]
    BY <1>2, BatchRead
<1>7. BulkResult([result |-> "batch_processed", simulated |-> FALSE,
                  summary |-> totals, results |-> verdicts]) =
        [simulated |-> FALSE, summary |-> totals, results |-> verdicts]
    BY <1>6
<1>8. BulkResult([result |-> "batch_processed", simulated |-> TRUE,
                  summary |-> totals, results |-> verdicts]) =
        [simulated |-> TRUE, summary |-> totals, results |-> verdicts]
    BY <1>6
<1> QED
    BY <1>2, <1>3, <1>4, <1>5, <1>7, <1>8

LEMMA WriteRead ==
    ASSUME NEW c, c.op \notin BulkOps, NEW result
    PROVE  RosterResult(c, [result |-> result]) =
             [result |-> result, simulated |-> result = "simulated"]
<1>1. PICK d : d = [result |-> result]
    OBVIOUS
<1>2. Get(d, "result", None) = result
    BY <1>1 DEF Get
<1> QED
    BY <1>1, <1>2 DEF RosterResult, WriteResult

\* What the server tells a live key, and what a test key.
RosterSimulated(c, body) ==
    IF c.op \in BulkOps THEN [body EXCEPT !.simulated = TRUE] ELSE [result |-> "simulated"]

LEMMA RosterTold ==
    ASSUME NEW o \in Rosters, NEW c \in RosterCalls, NEW a, RosterAnswers(c, o, a),
           a.status \in 200..299
    PROVE  /\ RosterResult(c, a.body).simulated => c.dry_run = TRUE /\ a.to = o
           /\ RosterResult(c, RosterSimulated(c, a.body)).simulated
<1>1. ~RosterRefused(c, o, a)
    BY DEF RosterRefused
<1>2. CASE c.op \in BulkOps
  <2>1. RosterProcessed(c, o, a)
      BY <1>1, <1>2 DEF RosterAnswers, RosterRehearsed, RosterWritten
  <2>2. PICK x, y, totals, verdicts :
           /\ x = RosterResult(c, a.body)
           /\ y = RosterResult(c, [a.body EXCEPT !.simulated = TRUE])
           /\ totals = Totals(c, o) /\ verdicts = Verdicts(c, o)
      OBVIOUS
  <2>3. /\ x = [simulated |-> FALSE, summary |-> totals, results |-> verdicts]
        /\ y = [simulated |-> TRUE, summary |-> totals, results |-> verdicts]
      BY <2>1, <2>2, BatchAnswerRead
  <2>4. ~x.simulated /\ y.simulated
      BY <2>3
  <2> QED
      BY <1>2, <2>2, <2>4 DEF RosterSimulated
<1>3. CASE c.op \notin BulkOps
  <2>1. PICK x, y : /\ x = RosterResult(c, a.body)
                    /\ y = RosterResult(c, [result |-> "simulated"])
      OBVIOUS
  <2>2. y.simulated
    <3>1. y = [result |-> "simulated", simulated |-> "simulated" = "simulated"]
        BY <1>3, <2>1, WriteRead
    <3> QED
        BY <3>1
  <2>3. x.simulated => c.dry_run = TRUE /\ a.to = o
    <3>1. CASE RosterRehearsed(c, o, a)
        BY <3>1 DEF RosterRehearsed
    <3>2. CASE RosterWritten(c, o, a)
      <4>1. x = [result |-> c.op, simulated |-> c.op = "simulated"]
          BY <1>3, <2>1, <3>2, WriteRead DEF RosterWritten
      <4>2. c.op # "simulated"
          BY RosterCallsAre DEF RosterCallIs, RosterOps, BulkOps
      <4>3. ~x.simulated
          BY <4>1, <4>2
      <4> QED
          BY <4>3
    <3> QED
        BY <1>1, <1>3, <3>1, <3>2 DEF RosterAnswers, RosterProcessed
  <2> QED
      BY <1>3, <2>1, <2>2, <2>3 DEF RosterSimulated
<1> QED
    BY <1>2, <1>3

LEMMA RosterDryIsTold ==
    ASSUME NEW o \in Rosters, NEW c \in RosterCalls, NEW a, RosterAnswers(c, o, a),
           a.status \in 200..299, c.dry_run = TRUE
    PROVE  RosterResult(c, a.body).simulated
<1>1. c.op \notin BulkOps
    BY RosterCallsAre, NoneAssumption DEF RosterCallIs, BulkOps
<1>2. ~RosterRefused(c, o, a)
    BY DEF RosterRefused
<1>3. ~RosterWritten(c, o, a) /\ ~RosterProcessed(c, o, a)
    BY <1>1 DEF RosterWritten, RosterProcessed
<1>4. a.body = [result |-> "simulated"]
    BY <1>2, <1>3 DEF RosterAnswers, RosterRehearsed
<1>5. PICK x : x = RosterResult(c, a.body)
    OBVIOUS
<1>6. x = [result |-> "simulated", simulated |-> "simulated" = "simulated"]
    BY <1>1, <1>4, <1>5, WriteRead
<1>7. x.simulated
    BY <1>6
<1> QED
    BY <1>5, <1>7

\* A bulk add fails for those who are members, and leaves none that is not.
LEMMA EverybodyAdded ==
    ASSUME NEW o \in Rosters, NEW c \in RosterCalls, NEW a,
           ItemsFit(c, o), a.to = RosterLeft(c, o), c.op = "bulk_add_members"
    PROVE  /\ FailedOf(c, o) = {p \in DOMAIN c.items : o.people[p].status = "accepted"}
           /\ \A p \in DOMAIN c.items : a.to.people[p].status = "accepted"
<1>1. c.op \in RosterOps /\ c.op \in Adds /\ DOMAIN c.items \subseteq People
    BY RosterCallsAre DEF RosterCallIs, Adds
<1>2. \A p \in DOMAIN c.items :
        WhyNot(c, o)[p] = IF o.people[p].status = "accepted" THEN "already_member" ELSE None
  <2>1. SUFFICES ASSUME NEW p \in DOMAIN c.items
                 PROVE  WhyNot(c, o)[p] = IF o.people[p].status = "accepted"
                                          THEN "already_member" ELSE None
      OBVIOUS
  <2>2. WhyNot(c, o)[p] = Refusal(c.op, o.people[p], c.items[p])
      BY DEF WhyNot
  <2>3. Refusal(c.op, o.people[p], c.items[p]) =
          IF o.people[p].status = "accepted" THEN "already_member" ELSE None
      BY <1>1, RefusalIs
  <2> QED
      BY <2>2, <2>3
<1>3. "already_member" # None
    BY VerdictAssumption DEF Reasons
<1>4. FailedOf(c, o) = {p \in DOMAIN c.items : o.people[p].status = "accepted"}
    BY <1>2, <1>3 DEF FailedOf
<1>5. ASSUME NEW p \in DOMAIN c.items PROVE a.to.people[p].status = "accepted"
  <2>1. CASE p \in FailedOf(c, o)
    <3>1. a.to.people[p] = o.people[p]
        BY <1>1, <2>1, EachPerson
    <3> QED
        BY <1>4, <2>1, <3>1
  <2>2. CASE p \notin FailedOf(c, o)
    <3>1. DoneOne(c, a.to.people[p], c.items[p])
        BY <2>2, ItemsDone, DoneForIs
    <3> QED
        BY <1>1, <3>1 DEF DoneOne, Adds, Revokes, Switches
  <2> QED
      BY <2>1, <2>2
<1> QED
    BY <1>4, <1>5

LEMMA RosterKeepsHonest ==
    ASSUME NEW o \in Rosters, NEW c \in RosterCalls, NEW a, RosterAnswers(c, o, a),
           NEW r, r.call = c, EndsWith(r, a, RosterResult(c, a.body)),
           r.trace.applied \in Nat, r.trace.applied > 0,
           NEW before \in Rosters, r.trace.applied = 1 => before = o, NEW alone,
           r.trace.applied > 1 /\ alone =>
               \E first : RosterAnswers(c, before, first) /\ o = first.to
    PROVE  RosterHonest(r, before, a.to, alone)
<1>1. CASE RosterRefused(c, o, a)
  <2>1. a.status \notin 200..299
      BY <1>1 DEF RosterRefused
  <2>2. r.raised = exception_for(a.status, a.body.code)
      BY <2>1 DEF EndsWith
  <2>3. \/ r.raised = "APIError"
        \/ r.raised = "ConflictError" /\ \A p \in DOMAIN c.items : a.to.people[p].status = "accepted"
    <3>1. a.body.code # "did_not_open"
        BY <1>1 DEF RosterRefused, Reasons
    <3> QED
        BY <1>1, <2>2, <3>1, Refusals DEF RosterRefused
  <2> QED
      BY <2>3, ExceptionsAssumption DEF RosterHonest, Exceptions
<1>2. CASE a.status = 200 /\ (RosterRehearsed(c, o, a) \/ RosterWritten(c, o, a))
  <2>1. r.raised = None
      BY <1>2 DEF EndsWith
  <2>2. c.op \notin BulkOps
      BY <1>2 DEF RosterRehearsed, RosterWritten
  <2>3. c.dry_run # TRUE => \A p \in DOMAIN c.items : DoneFor(c, p, a.to)
    <3>1. RosterMeant(c, o, a.to)
        BY <1>2, RosterKeepsMeant
    <3> QED
        BY <2>2, <3>1 DEF RosterMeant
  <2> QED
      BY <2>1, <2>2, <2>3, ExceptionsAssumption DEF RosterHonest, Exceptions
<1>3. CASE a.status = 207 /\ RosterProcessed(c, o, a)
  <2>1. r.raised = None /\ r.result = RosterResult(c, a.body)
      BY <1>3 DEF EndsWith
  <2>2. PICK x, totals, verdicts :
           x = r.result /\ totals = Totals(c, o) /\ verdicts = Verdicts(c, o)
      OBVIOUS
  <2>3. x = [simulated |-> FALSE, summary |-> totals, results |-> verdicts]
      BY <1>3, <2>1, <2>2, BatchAnswerRead
  <2>4. x.summary = totals /\ x.results = verdicts
      BY <2>3
  <2>5. /\ totals.failed = Cardinality(FailedOf(c, o))
        /\ totals.succeeded + totals.failed = totals.total
      BY <2>2, TotalsRead
  <2>6. DOMAIN verdicts = DOMAIN c.items
        /\ \A p \in DOMAIN c.items : verdicts[p].ok <=> p \notin FailedOf(c, o)
      BY <2>2 DEF Verdicts
  <2>7. failures(x) = FailedOf(c, o)
      BY <2>4, <2>6 DEF failures, FailedOf
  <2>8. c.op \in BulkOps /\ ItemsFit(c, o) /\ a.to = RosterLeft(c, o)
      BY <1>3 DEF RosterProcessed
  <2>9. \A p \in DOMAIN c.items \ FailedOf(c, o) : DoneFor(c, p, a.to)
      BY <2>8, ItemsDone
  <2>10. c.op = "bulk_add_members" =>
           /\ FailedOf(c, o) = {p \in DOMAIN c.items : o.people[p].status = "accepted"}
           /\ \A p \in DOMAIN c.items : a.to.people[p].status = "accepted"
      BY <2>8, EverybodyAdded
  <2>11. /\ DOMAIN r.result.results = DOMAIN c.items
         /\ failures(r.result) = FailedOf(c, o)
         /\ r.result.summary.failed = Cardinality(FailedOf(c, o))
         /\ r.result.summary.succeeded + r.result.summary.failed = r.result.summary.total
      BY <2>2, <2>4, <2>5, <2>6, <2>7
  <2>12. r.raised # "ConflictError"
      BY <2>1, ExceptionsAssumption DEF Exceptions
  <2>16. c.op = "bulk_add_members" /\ alone /\ r.trace.applied > 1 =>
           \A p \in DOMAIN c.items : o.people[p].status = "accepted"
    <3> SUFFICES ASSUME c.op = "bulk_add_members", alone, r.trace.applied > 1
                 PROVE  \A p \in DOMAIN c.items : o.people[p].status = "accepted"
        OBVIOUS
    <3>1. PICK first : RosterAnswers(c, before, first) /\ o = first.to
        OBVIOUS
    <3>2. RosterProcessed(c, before, first)
        BY <2>8, <3>1 DEF RosterAnswers, RosterRefused, RosterRehearsed, RosterWritten
    <3> QED
        BY <3>1, <3>2, EverybodyAdded DEF RosterProcessed
  <2>13. c.op = "bulk_add_members" /\ alone =>
           failures(r.result) =
             {p \in DOMAIN c.items :
                r.trace.applied > 1 \/ before.people[p].status = "accepted"}
    <3>1. CASE r.trace.applied = 1
        BY <2>10, <2>11, <3>1
    <3>2. CASE r.trace.applied > 1
      <4>1. c.op = "bulk_add_members" /\ alone => FailedOf(c, o) = DOMAIN c.items
          BY <2>10, <2>16, <3>2
      <4> QED
          BY <2>11, <3>2, <4>1
    <3> QED
        BY <3>1, <3>2
  <2>14. c.op = "bulk_add_members" =>
           \A p \in DOMAIN c.items : a.to.people[p].status = "accepted"
      BY <2>10
  <2>15. \A p \in DOMAIN c.items \ failures(r.result) : DoneFor(c, p, a.to)
      BY <2>9, <2>11
  <2> QED
      BY <2>8, <2>11, <2>12, <2>13, <2>14, <2>15 DEF RosterHonest
<1> QED
    BY <1>1, <1>2, <1>3 DEF RosterAnswers

\* What a test key is told of the answer a, that a live key would get.
LEMMA RosterPreviewed ==
    ASSUME NEW o \in Rosters, NEW c \in RosterCalls, NEW a, RosterAnswers(c, o, a),
           a.status \in 200..299,
           NEW r, r.call = c, r.result = RosterResult(c, RosterSimulated(c, a.body))
    PROVE  RosterPreviews(r, o, a.to)
<1>1. CASE c.op \notin BulkOps
    BY <1>1 DEF RosterPreviews
<1>2. CASE c.op \in BulkOps
  <2>0. ~RosterRefused(c, o, a)
      BY DEF RosterRefused
  <2>1. RosterProcessed(c, o, a)
      BY <1>2, <2>0 DEF RosterAnswers, RosterRehearsed, RosterWritten
  <2>2. PICK x, totals, verdicts :
           x = r.result /\ totals = Totals(c, o) /\ verdicts = Verdicts(c, o)
      OBVIOUS
  <2>3. x = [simulated |-> TRUE, summary |-> totals, results |-> verdicts]
      BY <1>2, <2>1, <2>2, BatchAnswerRead DEF RosterSimulated
  <2>4. x.results = verdicts
      BY <2>3
  <2>5. \A p \in DOMAIN c.items : verdicts[p].ok <=> p \notin FailedOf(c, o)
      BY <2>2 DEF Verdicts
  <2>6. ItemsFit(c, o) /\ a.to = RosterLeft(c, o)
      BY <2>1 DEF RosterProcessed
  <2>7. ASSUME NEW p \in DOMAIN c.items
        PROVE  p \notin FailedOf(c, o) <=>
                 \/ o.people[p] # a.to.people[p]
                 \/ /\ c.op # "bulk_add_members" /\ DoneFor(c, p, o)
                    /\ o.people[p].status = "accepted"
    <3>1. p \in People /\ c.items[p] \in KeyLists /\ c.op \in RosterOps
        BY RosterCallsAre DEF RosterCallIs
    <3>2. PICK x_, keys, y : x_ = o.people[p] /\ keys = c.items[p] /\ y = a.to.people[p]
        OBVIOUS
    <3>3. CASE p \notin FailedOf(c, o)
      <4>1. /\ y = PersonAfter(c, x_, keys)
            /\ x_ \in Persons /\ keys \in KeyLists /\ Refusal(c.op, x_, keys) = None
            /\ c.op \notin Adds => x_.status # "out"
          BY <2>6, <3>1, <3>2, <3>3, EachPerson
      <4>2. DoneOne(c, y, keys) /\ (x_.status = "accepted" <=> c.op \notin Adds \cup {"approve_member"})
          BY <4>1, PersonChanged
      <4>3. CASE y = x_
        <5>1. DoneFor(c, p, o)
            BY <3>2, <4>2, <4>3, DoneForIs
        <5>2. c.op \notin Adds
          <6>1. SUFFICES ASSUME c.op \in Adds PROVE FALSE
              OBVIOUS
          <6>2. y.status = "accepted"
              BY <4>2, <6>1 DEF DoneOne, Adds, Revokes, Switches
          <6> QED
              BY <4>2, <4>3, <6>1, <6>2
        <5>3. c.op # "approve_member" /\ c.op # "bulk_add_members"
            BY <1>2, <5>2 DEF BulkOps, Adds
        <5> QED
            BY <3>2, <3>3, <4>2, <5>1, <5>2, <5>3
      <4>4. CASE y # x_
          BY <3>2, <3>3, <4>4
      <4> QED
          BY <4>3, <4>4
    <3>4. CASE p \in FailedOf(c, o)
      <4>1. y = x_
          BY <2>6, <3>1, <3>2, <3>4, EachPerson
      <4>2. Refusal(c.op, x_, keys) # None
          BY <3>2, <3>4 DEF FailedOf, WhyNot
      <4>3. SUFFICES ASSUME c.op # "bulk_add_members", DoneOne(c, x_, keys),
                            x_.status = "accepted"
                     PROVE  FALSE
          BY <3>2, <3>4, <4>1, DoneForIs
      <4>4. c.op \in Revokes \cup GrantsOnly \cup Switches
          BY <1>2, <4>3 DEF BulkOps, Revokes, GrantsOnly, Switches
      <4>5. CASE c.op \in Revokes \cup GrantsOnly
        <5>1. Refusal(c.op, x_, keys) =
                IF x_.status = "pending" THEN "member_not_accepted" ELSE None
            BY <3>1, <4>5, RefusalIs
        <5> QED
            BY <4>2, <4>3, <5>1
      <4>6. CASE c.op \in Switches
        <5>1. Refusal(c.op, x_, keys) =
                IF x_.status = "pending" THEN "member_not_accepted"
                ELSE IF x_.status = "accepted" /\ ~(keys \subseteq Held(x_))
                THEN "key_not_held" ELSE None
            BY <3>1, <4>6, RefusalIs
        <5>2. c.op \notin Revokes
            BY <4>6 DEF Switches, Revokes
        <5>3. \A k \in keys : x_.keys[k] \in {"off", "on"}
            BY <4>3, <4>6, <5>2 DEF DoneOne
        <5>4. keys \subseteq Held(x_)
            BY <3>1, <3>2, <5>3 DEF Held, KeyLists
        <5> QED
            BY <4>2, <4>3, <5>1, <5>4
      <4> QED
          BY <4>4, <4>5, <4>6
    <3> QED
        BY <3>3, <3>4
  <2> QED
      BY <1>2, <2>2, <2>4, <2>5, <2>7 DEF RosterPreviews
<1> QED
    BY <1>1, <1>2

----------------------------------------------------------------------------
(* The homes.                                                              *)

HomeBecomes(o, i, row, f) == f = [o EXCEPT !.homes[i] = row]
HomeNew(c) == [address |-> c.address, owner |-> FALSE, hidden |-> FALSE]
HomeGiven(c, x) ==
    [address |-> Chosen(c.address, x.address),
     owner |-> Chosen(c.owner_occupied, x.owner), hidden |-> Chosen(c.hidden, x.hidden)]
HomeEmptied(o, i, f) ==
    f = [o EXCEPT !.homes[i] = Gone,
                  !.lives = [p \in Residents |->
                                IF o.lives[p] = i THEN None ELSE o.lives[p]]]
LeavesAt(c, o, f) == f = [o EXCEPT !.leaves[c.id] = c.date]

HomeStands(a, i) == a.body = [result |-> "ok", home |-> HomeFields(a.to, i)]
RemovalStands(c, o, a) ==
    a.body = [result |-> "ok", home_id |-> c.id, deleted |-> TRUE,
              detached_member_count |-> Cardinality(In(o, c.id))]
DateStands(c, a) ==
    a.body = [result |-> "ok", account_community_id |-> c.id, move_out_date |-> c.date]

HomeAdded(c, o, a) ==
    \E i \in Unused(o.homes) : HomeBecomes(o, i, HomeNew(c), a.to) /\ HomeStands(a, i)
HomeEdited(c, o, a) ==
    /\ c.id \in Live(o.homes) /\ HomeStands(a, c.id)
    /\ c.hidden # None => In(o, c.id) = {}
    /\ HomeBecomes(o, c.id, HomeGiven(c, o.homes[c.id]), a.to)
HomeRemovedIn(c, o, a) ==
    c.id \in Live(o.homes) /\ HomeEmptied(o, c.id, a.to) /\ RemovalStands(c, o, a)

HomesRefused(c, o, a) ==
    /\ a.to = o
    /\ \/ a.status = 422 /\ a.body.code = "bound"
       \/ a.status = 400 /\ a.body.code = "no_fields"
       \/ a.status = 404 /\ a.body.code = "not_found" /\ c.id \notin Live(o.homes)
       \/ a.status = 409 /\ a.body.code = "home_occupied" /\ In(o, c.id) # {}

HomesAnswers(c, o, a) ==
    \/ HomesRefused(c, o, a)
    \/ a.status = 200 /\ c.op = "add_home" /\ HomeAdded(c, o, a)
    \/ a.status = 200 /\ c.op = "update_home" /\ HomeEdited(c, o, a)
    \/ a.status = 200 /\ c.op = "remove_home" /\ HomeRemovedIn(c, o, a)
    \/ a.status = 200 /\ c.op = "set_move_out_date" /\ LeavesAt(c, o, a.to)
         /\ DateStands(c, a)

HomeCallIs(c) ==
    \/ c.op = "add_home" /\ c.address \in Addresses
    \/ /\ c.op = "update_home" /\ c.id \in HomeIds /\ c.address \in Addresses \cup {None}
       /\ c.owner_occupied \in BOOLEAN \cup {None} /\ c.hidden \in Hides
    \/ c.op = "remove_home" /\ c.id \in HomeIds
    \/ c.op = "set_move_out_date" /\ c.id \in Residents /\ c.date \in {None, MoveOut}

LEMMA HomeCallsAre ==
    ASSUME NEW c \in HomeCalls PROVE HomeCallIs(c)
<1>1. CASE c \in {add_home(a) : a \in Addresses}
  <2>1. PICK a \in Addresses : c = add_home(a)
      BY <1>1
  <2>2. c.op = "add_home" /\ c.address = a
      BY <2>1 DEF add_home
  <2> QED
      BY <2>2 DEF HomeCallIs
<1>2. CASE c \in {update_home(i, a, None, hidden) :
                    i \in HomeIds, a \in Addresses \cup {None}, hidden \in Hides}
  <2>1. PICK i \in HomeIds, a \in Addresses \cup {None}, hidden \in Hides :
          c = update_home(i, a, None, hidden)
      BY <1>2
  <2>2. /\ c.op = "update_home" /\ c.id = i /\ c.address = a /\ c.owner_occupied = None
        /\ c.hidden = hidden
      BY <2>1 DEF update_home
  <2> QED
      BY <2>2 DEF HomeCallIs
<1>3. CASE c \in {update_home(i, None, owner, None) : i \in HomeIds, owner \in BOOLEAN}
  <2>1. PICK i \in HomeIds, owner \in BOOLEAN : c = update_home(i, None, owner, None)
      BY <1>3
  <2>2. /\ c.op = "update_home" /\ c.id = i /\ c.address = None /\ c.owner_occupied = owner
        /\ c.hidden = None
      BY <2>1 DEF update_home
  <2>3. None \in Hides
      BY DEF Hides
  <2> QED
      BY <2>2, <2>3 DEF HomeCallIs
<1>4. CASE c \in {remove_home(i) : i \in HomeIds}
  <2>1. PICK i \in HomeIds : c = remove_home(i)
      BY <1>4
  <2>2. c.op = "remove_home" /\ c.id = i
      BY <2>1 DEF remove_home
  <2> QED
      BY <2>2 DEF HomeCallIs
<1>5. CASE c \in {set_move_out_date(p, d) : p \in Residents, d \in {None, MoveOut}}
  <2>1. PICK p \in Residents, d \in {None, MoveOut} : c = set_move_out_date(p, d)
      BY <1>5
  <2>2. c.op = "set_move_out_date" /\ c.id = p /\ c.date = d
      BY <2>1 DEF set_move_out_date
  <2> QED
      BY <2>2 DEF HomeCallIs
<1> QED
    BY <1>1, <1>2, <1>3, <1>4, <1>5 DEF HomeCalls

LEMMA UnitsAre ==
    ASSUME NEW o \in Units
    PROVE  /\ DOMAIN o.homes = HomeIds /\ Unused(o.homes) \subseteq HomeIds
           /\ Live(o.homes) \subseteq HomeIds
           /\ \A i \in Live(o.homes) : o.homes[i] \in HomeRows
           /\ Unused(o.homes) # {} => NextUnused(o.homes) \in Unused(o.homes)
           /\ o.lives \in [Residents -> HomeIds \cup {None}]
<1>1. DOMAIN o.homes = HomeIds
    BY DEF Units
<1>2. HomeIds \subseteq Nat
    BY HomeAssumption DEF HomeIds
<1>3. Unused(o.homes) # {} => NextUnused(o.homes) \in Unused(o.homes)
    BY <1>1, <1>2, NextIsUnused
<1>4. /\ Unused(o.homes) \subseteq HomeIds /\ Live(o.homes) \subseteq HomeIds
      /\ \A i \in Live(o.homes) : o.homes[i] \in HomeRows
    BY <1>1 DEF Unused, Live, Units
<1> QED
    BY <1>1, <1>3, <1>4 DEF Units

LEMMA HomeFieldsSent ==
    ASSUME NEW c, NEW x, NEW json,
           json = Body(NoFields, [home_address |-> c.address,
                                  owner_occupied |-> c.owner_occupied,
                                  hidden |-> c.hidden])
    PROVE  /\ EditHome(x, json) = HomeGiven(c, x)
           /\ \A no : Get(json, "hidden", no) = Chosen(c.hidden, no)
<1>1. PICK optional : optional = [home_address |-> c.address,
                                  owner_occupied |-> c.owner_occupied,
                                  hidden |-> c.hidden]
    OBVIOUS
<1>2. /\ "home_address" \in DOMAIN optional /\ "owner_occupied" \in DOMAIN optional
      /\ "hidden" \in DOMAIN optional
      /\ optional["home_address"] = c.address /\ optional["owner_occupied"] = c.owner_occupied
      /\ optional["hidden"] = c.hidden
    BY <1>1
<1>3. PICK js : js = Body(NoFields, optional)
    OBVIOUS
<1>4. Get(js, "home_address", x.address) = Chosen(c.address, x.address)
    BY <1>2, <1>3, FieldGiven
<1>5. Get(js, "owner_occupied", x.owner) = Chosen(c.owner_occupied, x.owner)
    BY <1>2, <1>3, FieldGiven
<1>6. \A no : Get(js, "hidden", no) = Chosen(c.hidden, no)
    BY <1>2, <1>3, FieldGiven
<1>7. EditHome(x, js) = HomeGiven(c, x)
    BY <1>4, <1>5, <1>6 DEF EditHome, HomeGiven
<1> QED
    BY <1>1, <1>3, <1>6, <1>7

LEMMA HomesAnswer ==
    ASSUME NEW o \in Units, NEW c \in HomeCalls, NEW a, a = HomesServe(o, HomesRequest(c))
    PROVE  HomesAnswers(c, o, a)
<1>1. PICK r : r = HomesRequest(c)
    OBVIOUS
<1>2. a = HomesServe(o, r)
    BY <1>1
<1>3. CASE c.op = "add_home"
  <2>1. r = [path |-> "homes", json |-> [home_address |-> c.address]]
      BY <1>1, <1>3 DEF HomesRequest
  <2>2. r.path = "homes" /\ r.json.home_address = c.address
      BY <2>1
  <2>3. CASE Unused(o.homes) = {}
    <3>1. a = Refuses(o, 422, "bound")
        BY <1>2, <2>2, <2>3 DEF HomesServe
    <3> QED
        BY <3>1 DEF HomesAnswers, HomesRefused, Refuses, Says
  <2>4. CASE Unused(o.homes) # {}
    <3>1. PICK i, row : i = NextUnused(o.homes) /\ row = HomeNew(c)
        OBVIOUS
    <3>2. row = [address |-> r.json.home_address, owner |-> FALSE, hidden |-> FALSE]
        BY <2>2, <3>1 DEF HomeNew
    <3>3. PICK f : f = [o EXCEPT !.homes[i] = row]
        OBVIOUS
    <3>4. a = Says(f, 200, [result |-> "ok", home |-> HomeFields(f, i)])
        BY <1>2, <2>2, <2>4, <3>1, <3>2, <3>3 DEF HomesServe
    <3>5. a.status = 200 /\ a.to = f /\ HomeStands(a, i)
        BY <3>4 DEF Says, HomeStands
    <3>6. HomeBecomes(o, i, row, f)
        BY <3>3 DEF HomeBecomes
    <3>7. HomeAdded(c, o, a)
        BY <2>4, <3>1, <3>5, <3>6, UnitsAre DEF HomeAdded
    <3> QED
        BY <1>3, <3>5, <3>7 DEF HomesAnswers
  <2> QED
      BY <2>3, <2>4
<1>4. CASE c.op = "update_home"
  <2>1. PICK json : json = Body(NoFields, [home_address |-> c.address,
                                           owner_occupied |-> c.owner_occupied,
                                           hidden |-> c.hidden])
      OBVIOUS
  <2>2. r = [path |-> "homes/id", id |-> c.id, json |-> json]
      BY <1>1, <1>4, <2>1 DEF HomesRequest
  <2>3. r.path = "homes/id" /\ r.id = c.id /\ r.json = json
      BY <2>2
  <2>4. PICK i, no, row : i = c.id /\ no = FALSE /\ row = HomeGiven(c, o.homes[c.id])
      OBVIOUS
  <2>5. row = EditHome(o.homes[i], json)
      BY <2>1, <2>4, HomeFieldsSent
  <2>6. PICK f : f = [o EXCEPT !.homes[i] = row]
      OBVIOUS
  <2>7. i \in Live(o.homes) => f = [o EXCEPT !.homes[i] = EditHome(@, json)]
    <3>1. i \in Live(o.homes) => i \in DOMAIN o.homes /\ "homes" \in DOMAIN o
        BY DEF Live, Units
    <3> QED
        BY <2>5, <2>6, <3>1
  <2>8. \/ i \notin Live(o.homes) /\ a = Refuses(o, 404, "not_found")
        \/ a = Refuses(o, 400, "no_fields")
        \/ In(o, i) # {} /\ a = Refuses(o, 409, "home_occupied")
        \/ /\ i \in Live(o.homes) /\ ~(Get(json, "hidden", no) /\ In(o, i) # {})
           /\ a = Says(f, 200, [result |-> "ok", home |-> HomeFields(f, i)])
      BY <1>2, <2>3, <2>4, <2>7 DEF HomesServe
  <2>9. CASE i \notin Live(o.homes) /\ a = Refuses(o, 404, "not_found")
      BY <2>4, <2>9 DEF HomesAnswers, HomesRefused, Refuses, Says
  <2>10. CASE a = Refuses(o, 400, "no_fields")
      BY <2>10 DEF HomesAnswers, HomesRefused, Refuses, Says
  <2>11. CASE In(o, i) # {} /\ a = Refuses(o, 409, "home_occupied")
      BY <2>4, <2>11 DEF HomesAnswers, HomesRefused, Refuses, Says
  <2>12. CASE /\ i \in Live(o.homes) /\ ~(Get(json, "hidden", no) /\ In(o, i) # {})
              /\ a = Says(f, 200, [result |-> "ok", home |-> HomeFields(f, i)])
    <3>1. a.status = 200 /\ a.to = f /\ HomeStands(a, i)
        BY <2>12 DEF Says, HomeStands
    <3>2. c.hidden # None => In(o, i) = {}
      <4>1. Get(json, "hidden", no) = Chosen(c.hidden, no)
          BY <2>1, HomeFieldsSent
      <4>2. c.hidden # None => c.hidden
          BY <1>4, HomeCallsAre DEF HomeCallIs, Hides
      <4> QED
          BY <2>12, <4>1, <4>2 DEF Chosen
    <3>3. HomeBecomes(o, i, row, f)
        BY <2>6 DEF HomeBecomes
    <3>4. HomeEdited(c, o, a)
        BY <2>4, <2>12, <3>1, <3>2, <3>3 DEF HomeEdited
    <3> QED
        BY <1>4, <3>1, <3>4 DEF HomesAnswers
  <2> QED
      BY <2>8, <2>9, <2>10, <2>11, <2>12
<1>5. CASE c.op = "remove_home"
  <2>1. r = [path |-> "homes/delete", id |-> c.id, json |-> NoFields]
      BY <1>1, <1>5 DEF HomesRequest
  <2>2. PICK i : i = c.id
      OBVIOUS
  <2>3. r.path = "homes/delete" /\ r.id = i
      BY <2>1, <2>2
  <2>4. CASE i \notin Live(o.homes)
    <3>1. a = Refuses(o, 404, "not_found")
        BY <1>2, <2>3, <2>4 DEF HomesServe
    <3> QED
        BY <2>2, <2>4, <3>1 DEF HomesAnswers, HomesRefused, Refuses, Says
  <2>5. CASE i \in Live(o.homes)
    <3>1. PICK f, count : HomeEmptied(o, i, f) /\ count = Cardinality(In(o, i))
        BY DEF HomeEmptied
    <3>2. f = [o EXCEPT !.homes[i] = Gone,
                        !.lives = [p \in Residents |->
                                      IF @[p] = i THEN None ELSE @[p]]]
        BY <3>1 DEF HomeEmptied, Units
    <3>3. a = Says(f, 200, [result |-> "ok", home_id |-> i, deleted |-> TRUE,
                            detached_member_count |-> count])
        BY <1>2, <2>3, <2>5, <3>1, <3>2 DEF HomesServe
    <3>4. a.status = 200 /\ a.to = f
          /\ a.body = [result |-> "ok", home_id |-> i, deleted |-> TRUE,
                       detached_member_count |-> count]
        BY <3>3 DEF Says
    <3>5. HomeRemovedIn(c, o, a)
        BY <2>2, <2>5, <3>1, <3>4 DEF HomeRemovedIn, RemovalStands
    <3> QED
        BY <1>5, <3>4, <3>5 DEF HomesAnswers
  <2> QED
      BY <2>4, <2>5
<1>6. CASE c.op = "set_move_out_date"
  <2>1. PICK p, date : p = c.id /\ date = c.date
      OBVIOUS
  <2>2. r = [path |-> "members/move-out-date", id |-> p, json |-> [move_out_date |-> date]]
      BY <1>1, <1>6, <2>1 DEF HomesRequest
  <2>3. /\ r.path = "members/move-out-date" /\ r.id = p
        /\ "move_out_date" \in DOMAIN r.json /\ r.json.move_out_date = date
      BY <2>2
  <2>4. PICK f : f = [o EXCEPT !.leaves[p] = date]
      OBVIOUS
  <2>5. a = Says(f, 200, [result |-> "ok", account_community_id |-> p,
                          move_out_date |-> date])
      BY <1>2, <2>3, <2>4 DEF HomesServe
  <2>6. a.status = 200 /\ a.to = f
        /\ a.body = [result |-> "ok", account_community_id |-> p, move_out_date |-> date]
      BY <2>5 DEF Says
  <2>7. LeavesAt(c, o, f) /\ DateStands(c, a)
      BY <2>1, <2>4, <2>6 DEF LeavesAt, DateStands
  <2> QED
      BY <1>6, <2>6, <2>7 DEF HomesAnswers
<1> QED
    BY <1>3, <1>4, <1>5, <1>6, HomeCallsAre DEF HomeCallIs

LEMMA HomeLeft ==
    ASSUME NEW o \in Units, NEW i \in HomeIds, NEW row \in HomeRows,
           NEW f, HomeBecomes(o, i, row, f)
    PROVE  /\ f \in Units /\ f.homes[i] = row
           /\ \A j \in HomeIds \ {i} : f.homes[j] = o.homes[j]
           /\ f.lives = o.lives /\ f.leaves = o.leaves
           /\ i \in Live(f.homes) /\ Live(o.homes) \subseteq Live(f.homes)
<1>1. PICK homes : homes = [o.homes EXCEPT ![i] = row]
    OBVIOUS
<1>2. f = [o EXCEPT !.homes = homes]
    BY <1>1 DEF HomeBecomes
<1>3. /\ homes \in [HomeIds -> HomeRows \cup {Never, Gone}] /\ homes[i] = row
      /\ \A j \in HomeIds \ {i} : homes[j] = o.homes[j]
    BY <1>1 DEF Units
<1>4. f \in Units
    BY <1>2, <1>3 DEF Units
<1>5. f.homes = homes /\ f.lives = o.lives /\ f.leaves = o.leaves
    BY <1>2 DEF Units
<1>6. row \notin {Never, Gone}
    BY HomeRowAssumption
<1>7. DOMAIN homes = HomeIds /\ DOMAIN o.homes = HomeIds
    BY <1>3 DEF Units
<1>8. i \in Live(homes) /\ Live(o.homes) \subseteq Live(homes)
    BY <1>3, <1>6, <1>7 DEF Live
<1> QED
    BY <1>3, <1>4, <1>5, <1>8

LEMMA EmptiedLeft ==
    ASSUME NEW o \in Units, NEW i \in HomeIds, NEW f, HomeEmptied(o, i, f)
    PROVE  /\ f \in Units /\ f.leaves = o.leaves
           /\ \A j \in HomeIds \ {i} : f.homes[j] = o.homes[j]
           /\ \A j : j \in Live(f.homes) <=> j \in Live(o.homes) /\ j # i
           /\ \A p \in Residents :
                 f.lives[p] = IF o.lives[p] = i THEN None ELSE o.lives[p]
<1>1. PICK homes, lives :
         /\ homes = [o.homes EXCEPT ![i] = Gone]
         /\ lives = [p \in Residents |-> IF o.lives[p] = i THEN None ELSE o.lives[p]]
    OBVIOUS
<1>2. f = [o EXCEPT !.homes = homes, !.lives = lives]
    BY <1>1 DEF HomeEmptied
<1>3. /\ homes \in [HomeIds -> HomeRows \cup {Never, Gone}] /\ homes[i] = Gone
      /\ \A j \in HomeIds \ {i} : homes[j] = o.homes[j]
    BY <1>1 DEF Units
<1>4. lives \in [Residents -> HomeIds \cup {None}]
    BY <1>1 DEF Units
<1>5. f \in Units
    BY <1>2, <1>3, <1>4 DEF Units
<1>6. f.homes = homes /\ f.lives = lives /\ f.leaves = o.leaves
    BY <1>2 DEF Units
<1>7. DOMAIN homes = HomeIds /\ DOMAIN o.homes = HomeIds
    BY <1>3 DEF Units
<1>8. \A j : j \in Live(homes) <=> j \in Live(o.homes) /\ j # i
    BY <1>3, <1>7 DEF Live
<1> QED
    BY <1>1, <1>3, <1>5, <1>6, <1>8

LEMMA EmptiedGone ==
    ASSUME NEW o \in Units, NEW i \in HomeIds, NEW f, HomeEmptied(o, i, f)
    PROVE  i \notin Live(f.homes)
BY EmptiedLeft

LEMMA LeavesLeft ==
    ASSUME NEW o \in Units, NEW c \in HomeCalls, c.op = "set_move_out_date",
           NEW f, LeavesAt(c, o, f)
    PROVE  /\ f \in Units /\ f.homes = o.homes /\ f.lives = o.lives
           /\ f.leaves[c.id] = c.date
           /\ \A p \in Residents \ {c.id} : f.leaves[p] = o.leaves[p]
<1>1. PICK p \in Residents, date \in {None, MoveOut} : p = c.id /\ date = c.date
    BY HomeCallsAre DEF HomeCallIs
<1>2. PICK leaves : leaves = [o.leaves EXCEPT ![p] = date]
    OBVIOUS
<1>3. f = [o EXCEPT !.leaves = leaves]
    BY <1>1, <1>2 DEF LeavesAt
<1>4. /\ leaves \in [Residents -> {None, MoveOut}] /\ leaves[p] = date
      /\ \A q \in Residents \ {p} : leaves[q] = o.leaves[q]
    BY <1>2 DEF Units
<1>5. f \in Units
    BY <1>3, <1>4 DEF Units
<1>6. f.leaves = leaves /\ f.homes = o.homes /\ f.lives = o.lives
    BY <1>3 DEF Units
<1> QED
    BY <1>1, <1>4, <1>5, <1>6

LEMMA HomeNewIs ==
    ASSUME NEW c \in HomeCalls, c.op = "add_home"
    PROVE  /\ HomeNew(c) \in HomeRows /\ ~HomeNew(c).hidden
<1>1. PICK address \in Addresses, no \in BOOLEAN : address = c.address /\ no = FALSE
    BY HomeCallsAre DEF HomeCallIs
<1>2. PICK row : row = HomeNew(c)
    OBVIOUS
<1>3. row = [address |-> address, owner |-> no, hidden |-> no]
    BY <1>1, <1>2 DEF HomeNew
<1>4. row \in HomeRows /\ row.hidden = no
    BY <1>3 DEF HomeRows
<1> QED
    BY <1>1, <1>2, <1>4

LEMMA HomeGivenIs ==
    ASSUME NEW c \in HomeCalls, c.op = "update_home", NEW x \in HomeRows
    PROVE  /\ HomeGiven(c, x) \in HomeRows
           /\ HomeGiven(c, x).address = Chosen(c.address, x.address)
           /\ HomeGiven(c, x).owner = Chosen(c.owner_occupied, x.owner)
           /\ HomeGiven(c, x).hidden = Chosen(c.hidden, x.hidden)
<1>1. PICK address, owner, hidden :
        /\ address = Chosen(c.address, x.address) /\ owner = Chosen(c.owner_occupied, x.owner)
        /\ hidden = Chosen(c.hidden, x.hidden)
    OBVIOUS
<1>2. /\ c.address \in Addresses \cup {None} /\ c.owner_occupied \in BOOLEAN \cup {None}
      /\ c.hidden \in BOOLEAN \cup {None}
    BY HomeCallsAre DEF HomeCallIs, Hides
<1>3. address \in Addresses /\ owner \in BOOLEAN /\ hidden \in BOOLEAN
    BY <1>1, <1>2 DEF Chosen, HomeRows
<1>4. PICK row : row = HomeGiven(c, x)
    OBVIOUS
<1>5. row = [address |-> address, owner |-> owner, hidden |-> hidden]
    BY <1>1, <1>4 DEF HomeGiven
<1>6. row \in HomeRows /\ row.address = address /\ row.owner = owner /\ row.hidden = hidden
    BY <1>3, <1>5 DEF HomeRows
<1> QED
    BY <1>1, <1>4, <1>6

\* What the four outcomes leave, together.
LEMMA HomesTyped ==
    ASSUME NEW o \in Units, NEW c \in HomeCalls, NEW a, HomesAnswers(c, o, a)
    PROVE  a.to \in Units
<1>1. CASE HomesRefused(c, o, a)
    BY <1>1 DEF HomesRefused
<1>2. CASE c.op = "add_home" /\ HomeAdded(c, o, a)
  <2>1. PICK i \in Unused(o.homes) : HomeBecomes(o, i, HomeNew(c), a.to)
      BY <1>2 DEF HomeAdded
  <2> QED
      BY <1>2, <2>1, UnitsAre, HomeNewIs, HomeLeft
<1>3. CASE c.op = "update_home" /\ HomeEdited(c, o, a)
  <2>1. c.id \in HomeIds /\ o.homes[c.id] \in HomeRows
      BY <1>3, UnitsAre DEF HomeEdited
  <2>2. HomeGiven(c, o.homes[c.id]) \in HomeRows
      BY <1>3, <2>1, HomeGivenIs
  <2> QED
      BY <1>3, <2>1, <2>2, HomeLeft DEF HomeEdited
<1>4. CASE c.op = "remove_home" /\ HomeRemovedIn(c, o, a)
    BY <1>4, UnitsAre, EmptiedLeft DEF HomeRemovedIn
<1>5. CASE c.op = "set_move_out_date" /\ LeavesAt(c, o, a.to)
    BY <1>5, LeavesLeft
<1> QED
    BY <1>1, <1>2, <1>3, <1>4, <1>5 DEF HomesAnswers

LEMMA HomesKeepWithin ==
    ASSUME NEW o \in Units, NEW c \in HomeCalls, NEW a, HomesAnswers(c, o, a)
    PROVE  HomesWithin(c, o, a.to)
<1>1. CASE HomesRefused(c, o, a)
    BY <1>1 DEF HomesRefused, HomesWithin
<1>2. CASE c.op = "add_home" /\ HomeAdded(c, o, a)
  <2>1. PICK i \in Unused(o.homes) : HomeBecomes(o, i, HomeNew(c), a.to)
      BY <1>2 DEF HomeAdded
  <2>2. i \in HomeIds /\ o.homes[i] = Never
      BY UnitsAre DEF Unused
  <2>3. /\ \A j \in HomeIds \ {i} : a.to.homes[j] = o.homes[j]
        /\ a.to.lives = o.lives /\ a.to.leaves = o.leaves
      BY <1>2, <2>1, <2>2, HomeNewIs, HomeLeft
  <2> QED
      BY <1>2, <2>2, <2>3 DEF HomesWithin
<1>3. CASE c.op = "update_home" /\ HomeEdited(c, o, a)
  <2>1. PICK i \in HomeIds : i = c.id
      BY <1>3, UnitsAre DEF HomeEdited
  <2>2. PICK x \in HomeRows : x = o.homes[i]
      BY <1>3, <2>1, UnitsAre DEF HomeEdited
  <2>3. PICK y \in HomeRows : y = HomeGiven(c, x)
      BY <1>3, <2>2, HomeGivenIs
  <2>4. /\ a.to.homes[i] = y /\ \A j \in HomeIds \ {i} : a.to.homes[j] = o.homes[j]
        /\ a.to.lives = o.lives /\ a.to.leaves = o.leaves
      BY <1>3, <2>1, <2>2, <2>3, HomeLeft DEF HomeEdited
  <2>5. /\ y.address = Chosen(c.address, x.address)
        /\ y.owner = Chosen(c.owner_occupied, x.owner)
        /\ y.hidden = Chosen(c.hidden, x.hidden)
      BY <1>3, <2>3, HomeGivenIs
  <2>6. /\ c.address = None => y.address = x.address
        /\ c.owner_occupied = None => y.owner = x.owner
        /\ c.hidden = None => y.hidden = x.hidden
      BY <2>5 DEF Chosen
  <2> QED
      BY <1>3, <2>1, <2>2, <2>4, <2>6 DEF HomesWithin
<1>4. CASE c.op = "remove_home" /\ HomeRemovedIn(c, o, a)
  <2>1. PICK i \in HomeIds : i = c.id
      BY <1>4, UnitsAre DEF HomeRemovedIn
  <2>2. /\ a.to.leaves = o.leaves
        /\ \A j \in HomeIds \ {i} : a.to.homes[j] = o.homes[j]
        /\ \A p \in Residents :
              a.to.lives[p] = IF o.lives[p] = i THEN None ELSE o.lives[p]
      BY <1>4, <2>1, EmptiedLeft DEF HomeRemovedIn
  <2> QED
      BY <1>4, <2>1, <2>2 DEF HomesWithin
<1>5. CASE c.op = "set_move_out_date" /\ LeavesAt(c, o, a.to)
  <2>1. /\ a.to.homes = o.homes /\ a.to.lives = o.lives
        /\ \A p \in Residents \ {c.id} : a.to.leaves[p] = o.leaves[p]
      BY <1>5, LeavesLeft
  <2> QED
      BY <1>5, <2>1 DEF HomesWithin
<1> QED
    BY <1>1, <1>2, <1>3, <1>4, <1>5 DEF HomesAnswers

LEMMA HomesKeepMeant ==
    ASSUME NEW o \in Units, NEW c \in HomeCalls, NEW a, HomesAnswers(c, o, a),
           a.status \in 200..299
    PROVE  \A before : HomesMeant(c, before, a.to)
<1>1. ~HomesRefused(c, o, a)
    BY DEF HomesRefused
<1>2. CASE c.op \in {"add_home", "remove_home"}
    BY <1>2 DEF HomesMeant
<1>3. CASE c.op = "update_home"
  <2>1. PICK i \in HomeIds : i = c.id /\ HomeEdited(c, o, a)
      BY <1>1, <1>3, UnitsAre DEF HomeEdited, HomesAnswers
  <2>2. PICK x \in HomeRows : x = o.homes[i]
      BY <2>1, UnitsAre DEF HomeEdited
  <2>3. PICK y \in HomeRows : y = HomeGiven(c, x)
      BY <1>3, <2>2, HomeGivenIs
  <2>4. a.to.homes[i] = y
      BY <1>3, <2>1, <2>2, <2>3, HomeLeft DEF HomeEdited
  <2>5. /\ y.address = Chosen(c.address, x.address)
        /\ y.owner = Chosen(c.owner_occupied, x.owner)
        /\ y.hidden = Chosen(c.hidden, x.hidden)
      BY <1>3, <2>3, HomeGivenIs
  <2>6. /\ c.address # None => y.address = c.address
        /\ c.owner_occupied # None => y.owner = c.owner_occupied
        /\ c.hidden # None => y.hidden = c.hidden
      BY <2>5 DEF Chosen
  <2> QED
      BY <1>3, <2>1, <2>4, <2>6 DEF HomesMeant
<1>4. CASE c.op = "set_move_out_date"
  <2>1. a.to.leaves[c.id] = c.date
      BY <1>1, <1>4, LeavesLeft DEF HomesAnswers
  <2> QED
      BY <1>4, <2>1 DEF HomesMeant
<1> QED
    BY <1>2, <1>3, <1>4, HomeCallsAre DEF HomeCallIs

\* Nobody lives in a home that is hidden or removed.
Housed(o) ==
    \A p \in Residents : o.lives[p] # None =>
        o.lives[p] \in Live(o.homes) /\ ~o.homes[o.lives[p]].hidden

LEMMA HomesKeepHoused ==
    ASSUME NEW o \in Units, NEW c \in HomeCalls, NEW a, HomesAnswers(c, o, a), Housed(o)
    PROVE  Housed(a.to)
<1>0. \A i \in Live(o.homes) : i \in HomeIds /\ o.homes[i] # Never
    BY UnitsAre DEF Live
<1>1. CASE HomesRefused(c, o, a)
    BY <1>1 DEF HomesRefused
<1>2. CASE c.op = "add_home" /\ HomeAdded(c, o, a)
  <2>1. PICK i \in Unused(o.homes) : HomeBecomes(o, i, HomeNew(c), a.to)
      BY <1>2 DEF HomeAdded
  <2>2. i \in HomeIds /\ o.homes[i] = Never
      BY UnitsAre DEF Unused
  <2>3. /\ \A j \in HomeIds \ {i} : a.to.homes[j] = o.homes[j]
        /\ a.to.lives = o.lives /\ Live(o.homes) \subseteq Live(a.to.homes)
    <3>1. PICK row \in HomeRows : row = HomeNew(c)
        BY <1>2, HomeNewIs
    <3>2. HomeBecomes(o, i, row, a.to)
        BY <2>1, <3>1
    <3> QED
        BY <2>2, <3>2, HomeLeft
  <2>4. \A j \in Live(o.homes) : a.to.homes[j] = o.homes[j]
      BY <1>0, <2>2, <2>3
  <2> QED
      BY <2>3, <2>4 DEF Housed
<1>3. CASE c.op = "update_home" /\ HomeEdited(c, o, a)
  <2>1. PICK i \in HomeIds : i = c.id
      BY <1>3, UnitsAre DEF HomeEdited
  <2>2. PICK x \in HomeRows : x = o.homes[i]
      BY <1>3, <2>1, UnitsAre DEF HomeEdited
  <2>3. PICK y \in HomeRows : y = HomeGiven(c, x)
      BY <1>3, <2>2, HomeGivenIs
  <2>4. /\ a.to.homes[i] = y /\ \A j \in HomeIds \ {i} : a.to.homes[j] = o.homes[j]
        /\ a.to.lives = o.lives /\ Live(o.homes) \subseteq Live(a.to.homes)
      BY <1>3, <2>1, <2>2, <2>3, HomeLeft DEF HomeEdited
  <2>5. y.hidden = Chosen(c.hidden, x.hidden)
      BY <1>3, <2>3, HomeGivenIs
  <2>6. ASSUME NEW p \in Residents, a.to.lives[p] # None
        PROVE  a.to.lives[p] \in Live(a.to.homes) /\ ~a.to.homes[a.to.lives[p]].hidden
    <3>1. PICK j : j = o.lives[p] /\ j = a.to.lives[p] /\ j \in Live(o.homes)
                   /\ ~o.homes[j].hidden
        BY <2>4, <2>6 DEF Housed
    <3>2. CASE j = i
      <4>1. p \in In(o, i)
          BY <3>1, <3>2 DEF In
      <4>2. c.hidden = None
          BY <1>3, <2>1, <4>1 DEF HomeEdited
      <4>3. y.hidden = x.hidden
          BY <2>5, <4>2 DEF Chosen
      <4> QED
          BY <2>2, <2>4, <3>1, <3>2, <4>3
    <3>3. CASE j # i
        BY <1>0, <2>4, <3>1, <3>3
    <3> QED
        BY <3>2, <3>3
  <2> QED
      BY <2>6 DEF Housed
<1>4. CASE c.op = "remove_home" /\ HomeRemovedIn(c, o, a)
  <2>1. PICK i \in HomeIds : i = c.id
      BY <1>4, UnitsAre DEF HomeRemovedIn
  <2>2. /\ \A j \in HomeIds \ {i} : a.to.homes[j] = o.homes[j]
        /\ \A j : j \in Live(a.to.homes) <=> j \in Live(o.homes) /\ j # i
        /\ \A p \in Residents :
              a.to.lives[p] = IF o.lives[p] = i THEN None ELSE o.lives[p]
    <3>1. PICK f : f = a.to
        OBVIOUS
    <3>2. HomeEmptied(o, i, f)
        BY <1>4, <2>1, <3>1 DEF HomeRemovedIn
    <3>3. /\ f \in Units /\ f.leaves = o.leaves
          /\ \A j \in HomeIds \ {i} : f.homes[j] = o.homes[j]
          /\ \A j : j \in Live(f.homes) <=> j \in Live(o.homes) /\ j # i
          /\ \A p \in Residents :
                 f.lives[p] = IF o.lives[p] = i THEN None ELSE o.lives[p]
        BY <2>1, <3>2, EmptiedLeft
    <3> QED
        BY <3>1, <3>3
  <2>3. ASSUME NEW p \in Residents, a.to.lives[p] # None
        PROVE  a.to.lives[p] \in Live(a.to.homes) /\ ~a.to.homes[a.to.lives[p]].hidden
    <3>1. PICK j : j = o.lives[p] /\ j = a.to.lives[p] /\ j \in Live(o.homes) /\ j # i
                   /\ ~o.homes[j].hidden
        BY <2>2, <2>3 DEF Housed
    <3> QED
        BY <1>0, <2>2, <3>1
  <2> QED
      BY <2>3 DEF Housed
<1>5. CASE c.op = "set_move_out_date" /\ LeavesAt(c, o, a.to)
    BY <1>5, LeavesLeft DEF Housed
<1> QED
    BY <1>1, <1>2, <1>3, <1>4, <1>5 DEF HomesAnswers

LEMMA HousedAtFirst == \A o \in HomesStart : o \in Units /\ Housed(o)
<1> SUFFICES ASSUME NEW o \in HomesStart PROVE Housed(o)
    BY DEF HomesStart
<1>1. PICK i \in {1, None} : \A p \in Residents : o.lives[p] = i
    BY DEF HomesStart
<1>2. 1 \in Live(o.homes) /\ ~o.homes[1].hidden
    BY DEF HomesStart
<1> QED
    BY <1>1, <1>2 DEF Housed

\* How a home is read.
HomeSeen(x, o, i) ==
    /\ x.home_id = i /\ x.address = o.homes[i].address /\ x.hidden = o.homes[i].hidden
    /\ x.member_count = Cardinality(In(o, i)) /\ ~x.simulated

LEMMA Counts == \A o, i : Cardinality(In(o, i)) \in Nat /\ Cardinality(In(o, i)) # None
<1>1. \A o, i : IsFiniteSet(In(o, i))
    BY ResidentAssumption, FS_Subset DEF In
<1> QED
    BY <1>1, FS_CardinalityType, HomeRowAssumption

LEMMA HomeRead ==
    ASSUME NEW o \in Units, NEW i \in Live(o.homes), NEW body,
           body = [result |-> "ok", home |-> HomeFields(o, i)]
    PROVE  HomeSeen(Home(body), o, i)
<1>0. PICK count : count = Cardinality(In(o, i))
    OBVIOUS
<1>1. PICK x \in HomeRows : x = o.homes[i] /\ count = Cardinality(In(o, i))
    BY <1>0, UnitsAre
<1>2. count # None
    BY <1>1, Counts
<1>3. PICK address, owner, hidden : address = x.address /\ owner = x.owner /\ hidden = x.hidden
    OBVIOUS
<1>4. PICK home : home = HomeFields(o, i)
    OBVIOUS
<1>5. home = [home_id |-> i, address |-> address, owner_occupied |-> owner,
              hidden |-> hidden, member_count |-> count]
    BY <1>1, <1>3, <1>4 DEF HomeFields
<1>6. PICK d : d = [result |-> "ok", home |-> home]
    OBVIOUS
<1>7. Unwrap(d, "home") = home /\ Get(d, "result", None) = "ok"
    BY <1>6 DEF Unwrap, Get
<1>8. /\ Get(home, "home_id", Get(d, "home_id", None)) = i
      /\ Get(home, "address", None) = address
      /\ Get(home, "owner_occupied", None) = owner
      /\ Get(home, "hidden", None) = hidden
      /\ GetOr(home, "member_count", 0) = count
    BY <1>2, <1>5 DEF Get, GetOr
<1>9. Bool(hidden) = hidden
    BY <1>3, BoolOfBoolean DEF HomeRows
<1>10. PICK v, occupied, no : v = Home(d) /\ occupied = Bool(owner) /\ no = FALSE
    OBVIOUS
<1>11. no = ("ok" = "simulated")
    BY <1>10
<1>12. v = [home_id |-> i, address |-> address, owner_occupied |-> occupied,
            hidden |-> hidden, member_count |-> count, simulated |-> no]
    BY <1>7, <1>8, <1>9, <1>10, <1>11 DEF Home
<1>13. /\ v.home_id = i /\ v.address = address /\ v.hidden = hidden
       /\ v.member_count = count /\ v.simulated = no
    BY <1>12
<1>14. d = body
    BY <1>4, <1>6
<1> QED
    BY <1>1, <1>3, <1>10, <1>13, <1>14 DEF HomeSeen

LEMMA RemovalRead ==
    ASSUME NEW c, NEW o, NEW a, RemovalStands(c, o, a)
    PROVE  /\ HomeRemoved(a.body).deleted /\ ~HomeRemoved(a.body).simulated
           /\ HomeRemoved(a.body).detached = Cardinality(In(o, c.id))
<1>1. PICK i, count, yes, no : /\ i = c.id /\ count = Cardinality(In(o, c.id))
                               /\ yes = TRUE /\ no = FALSE
    OBVIOUS
<1>2. PICK d : d = a.body
    OBVIOUS
<1>3. d = [result |-> "ok", home_id |-> i, deleted |-> yes, detached_member_count |-> count]
    BY <1>1, <1>2 DEF RemovalStands
<1>4. count # None
    BY <1>1, Counts
<1>5. /\ Get(d, "home_id", None) = i /\ Get(d, "deleted", None) = yes
      /\ Get(d, "result", None) = "ok"
    BY <1>3 DEF Get
<1>6. DetachedCount(d) = count
    BY <1>3, <1>4 DEF DetachedCount, GetOr
<1>7. Bool(yes) = yes
    BY <1>1, BoolOfBoolean
<1>8. PICK v : v = HomeRemoved(d)
    OBVIOUS
<1>9. no = ("ok" = "simulated")
    BY <1>1
<1>10. v = [home_id |-> i, deleted |-> yes, detached |-> count, simulated |-> no]
    BY <1>5, <1>6, <1>7, <1>8, <1>9 DEF HomeRemoved
<1>11. v.deleted = yes /\ v.detached = count /\ v.simulated = no
    BY <1>10
<1> QED
    BY <1>1, <1>2, <1>8, <1>11

LEMMA DateRead ==
    ASSUME NEW c, NEW a, DateStands(c, a)
    PROVE  MoveOutDate(a.body).move_out_date = c.date /\ ~MoveOutDate(a.body).simulated
<1>1. PICK p, date, no : p = c.id /\ date = c.date /\ no = FALSE
    OBVIOUS
<1>2. PICK d : d = a.body
    OBVIOUS
<1>3. d = [result |-> "ok", account_community_id |-> p, move_out_date |-> date]
    BY <1>1, <1>2 DEF DateStands
<1>4. /\ Get(d, "account_community_id", None) = p /\ Get(d, "result", None) = "ok"
      /\ Get(d, "move_out_date", Get(d, "would_set", None)) = date
    BY <1>3 DEF Get
<1>5. PICK v : v = MoveOutDate(d)
    OBVIOUS
<1>6. no = ("ok" = "simulated")
    BY <1>1
<1>7. v = [member |-> p, move_out_date |-> date, simulated |-> no]
    BY <1>4, <1>5, <1>6 DEF MoveOutDate
<1>8. v.move_out_date = date /\ v.simulated = no
    BY <1>7
<1> QED
    BY <1>1, <1>2, <1>5, <1>8

\* What a test key is told, and how it is read.
LEMMA HomesRehearsed ==
    ASSUME NEW o \in Units, NEW c \in HomeCalls, NEW d, d = HomesSimulated(o, HomesRequest(c))
    PROVE  /\ HomesResult(c, d).simulated
           /\ c.op = "remove_home" =>
                /\ ~HomesResult(c, d).deleted
                /\ HomesResult(c, d).detached = Cardinality(In(o, c.id))
           /\ c.op = "set_move_out_date" => HomesResult(c, d).move_out_date = c.date
<1>1. PICK r, yes, no : r = HomesRequest(c) /\ yes = TRUE /\ no = FALSE
    OBVIOUS
<1>2. PICK e : e = HomesSimulated(o, r)
    OBVIOUS
<1>3. yes = ("simulated" = "simulated")
    BY <1>1
<1>4. CASE c.op \in {"add_home", "update_home"}
  <2>1. r.path \in {"homes", "homes/id"}
      BY <1>1, <1>4 DEF HomesRequest
  <2>2. e = [result |-> "simulated"]
      BY <1>2, <2>1 DEF HomesSimulated
  <2>3. Get(e, "result", None) = "simulated"
      BY <2>2 DEF Get
  <2>4. Home(e).simulated
      BY <2>3 DEF Home
  <2> QED
      BY <1>1, <1>2, <1>4, <2>4 DEF HomesResult
<1>5. CASE c.op = "remove_home"
  <2>1. PICK i, count : i = c.id /\ count = Cardinality(In(o, c.id))
      OBVIOUS
  <2>2. r = [path |-> "homes/delete", id |-> i, json |-> NoFields]
      BY <1>1, <1>5, <2>1 DEF HomesRequest
  <2>3. r.path = "homes/delete" /\ r.id = i
      BY <2>2
  <2>4. e = [result |-> "simulated", home_id |-> i, would_detach_member_count |-> count]
      BY <1>2, <2>1, <2>3 DEF HomesSimulated
  <2>5. count # None
      BY <2>1, Counts
  <2>6. /\ Get(e, "home_id", None) = i /\ Get(e, "deleted", None) = None
        /\ Get(e, "result", None) = "simulated"
      BY <2>4 DEF Get
  <2>7. DetachedCount(e) = count
      BY <2>4, <2>5 DEF DetachedCount, GetOr
  <2>8. Bool(None) = no
      BY <1>1, BoolOfNone
  <2>9. PICK v : v = HomeRemoved(e)
      OBVIOUS
  <2>10. v = [home_id |-> i, deleted |-> no, detached |-> count, simulated |-> yes]
      BY <1>3, <2>6, <2>7, <2>8, <2>9 DEF HomeRemoved
  <2>11. v.deleted = no /\ v.detached = count /\ v.simulated = yes
      BY <2>10
  <2>12. HomesResult(c, d) = v
      BY <1>1, <1>2, <1>5, <2>9 DEF HomesResult
  <2> QED
      BY <1>1, <1>5, <2>1, <2>11, <2>12
<1>6. CASE c.op = "set_move_out_date"
  <2>1. PICK p, date : p = c.id /\ date = c.date
      OBVIOUS
  <2>2. r = [path |-> "members/move-out-date", id |-> p, json |-> [move_out_date |-> date]]
      BY <1>1, <1>6, <2>1 DEF HomesRequest
  <2>3. r.path = "members/move-out-date" /\ r.id = p /\ r.json.move_out_date = date
      BY <2>2
  <2>4. e = [result |-> "simulated", account_community_id |-> p, would_set |-> date]
      BY <1>2, <2>3 DEF HomesSimulated
  <2>5. /\ Get(e, "account_community_id", None) = p /\ Get(e, "result", None) = "simulated"
        /\ Get(e, "move_out_date", Get(e, "would_set", None)) = date
      BY <2>4 DEF Get
  <2>6. PICK v : v = MoveOutDate(e)
      OBVIOUS
  <2>7. v = [member |-> p, move_out_date |-> date, simulated |-> yes]
      BY <1>3, <2>5, <2>6 DEF MoveOutDate
  <2>8. v.move_out_date = date /\ v.simulated = yes
      BY <2>7
  <2>9. HomesResult(c, d) = v
      BY <1>1, <1>2, <1>6, <2>6 DEF HomesResult
  <2> QED
      BY <1>1, <1>6, <2>1, <2>8, <2>9
<1> QED
    BY <1>4, <1>5, <1>6, HomeCallsAre DEF HomeCallIs

LEMMA HomesTold ==
    ASSUME NEW o \in Units, NEW c \in HomeCalls, NEW a, HomesAnswers(c, o, a),
           a.status \in 200..299
    PROVE  /\ ~HomesResult(c, a.body).simulated
           /\ HomesResult(c, HomesSimulated(o, HomesRequest(c))).simulated
<1>1. ~HomesRefused(c, o, a)
    BY DEF HomesRefused
<1>2. ~HomesResult(c, a.body).simulated
  <2>1. CASE c.op = "add_home"
    <3>1. PICK i \in Unused(o.homes) : HomeBecomes(o, i, HomeNew(c), a.to) /\ HomeStands(a, i)
        BY <1>1, <2>1 DEF HomesAnswers, HomeAdded
    <3>2. PICK f \in Units : f = a.to
        BY HomesTyped
    <3>3. i \in Live(f.homes)
      <4>1. PICK row \in HomeRows : row = HomeNew(c)
          BY <2>1, HomeNewIs
      <4>2. HomeBecomes(o, i, row, f) /\ i \in HomeIds
          BY <3>1, <3>2, <4>1, UnitsAre
      <4> QED
          BY <4>2, HomeLeft
    <3>4. ~Home(a.body).simulated
        BY <3>1, <3>2, <3>3, HomeRead DEF HomeStands, HomeSeen
    <3> QED
        BY <2>1, <3>4 DEF HomesResult
  <2>2. CASE c.op = "update_home"
    <3>1. HomeEdited(c, o, a)
        BY <1>1, <2>2 DEF HomesAnswers
    <3>2. PICK f \in Units : f = a.to
        BY HomesTyped
    <3>3. c.id \in Live(f.homes)
      <4>1. PICK row \in HomeRows : row = HomeGiven(c, o.homes[c.id])
          BY <2>2, <3>1, UnitsAre, HomeGivenIs DEF HomeEdited
      <4>2. HomeBecomes(o, c.id, row, f) /\ c.id \in HomeIds
          BY <3>1, <3>2, <4>1, UnitsAre DEF HomeEdited
      <4> QED
          BY <4>2, HomeLeft
    <3>4. ~Home(a.body).simulated
        BY <3>1, <3>2, <3>3, HomeRead DEF HomeEdited, HomeStands, HomeSeen
    <3> QED
        BY <2>2, <3>4 DEF HomesResult
  <2>3. CASE c.op = "remove_home"
      BY <1>1, <2>3, RemovalRead DEF HomesAnswers, HomeRemovedIn, HomesResult
  <2>4. CASE c.op = "set_move_out_date"
      BY <1>1, <2>4, DateRead DEF HomesAnswers, HomesResult
  <2> QED
      BY <2>1, <2>2, <2>3, <2>4, HomeCallsAre DEF HomeCallIs
<1> QED
    BY <1>2, HomesRehearsed

LEMMA HomesPreviewed ==
    ASSUME NEW o \in Units, NEW c \in HomeCalls, NEW a, HomesAnswers(c, o, a),
           a.status \in 200..299, NEW r, r.call = c,
           r.result = HomesResult(c, HomesSimulated(o, HomesRequest(c)))
    PROVE  HomesPreviews(r, o, a.to)
<1>1. ~HomesRefused(c, o, a)
    BY DEF HomesRefused
<1>2. CASE c.op \in {"add_home", "update_home"}
    BY <1>2 DEF HomesPreviews
<1>3. CASE c.op = "remove_home"
  <2>1. PICK i \in HomeIds, f \in Units : i = c.id /\ f = a.to /\ HomeEmptied(o, i, f)
      BY <1>1, <1>3, HomesTyped, UnitsAre DEF HomesAnswers, HomeRemovedIn
  <2>2. /\ \A p \in Residents : f.lives[p] = IF o.lives[p] = i THEN None ELSE o.lives[p]
        /\ None # i
      BY <2>1, EmptiedLeft, HomeRowAssumption, HomeAssumption DEF HomeIds
  <2>3. {p \in Residents : o.lives[p] # f.lives[p]} = In(o, i)
      BY <2>2 DEF In
  <2>4. ~r.result.deleted /\ r.result.detached = Cardinality(In(o, i))
      BY <1>3, <2>1, HomesRehearsed
  <2> QED
      BY <1>3, <2>1, <2>3, <2>4 DEF HomesPreviews
<1>4. CASE c.op = "set_move_out_date"
  <2>1. a.to.leaves[c.id] = c.date
      BY <1>1, <1>4, LeavesLeft DEF HomesAnswers
  <2>2. r.result.move_out_date = c.date
      BY <1>4, HomesRehearsed
  <2> QED
      BY <1>4, <2>1, <2>2 DEF HomesPreviews
<1> QED
    BY <1>2, <1>3, <1>4, HomeCallsAre DEF HomeCallIs

LEMMA HomesKeepHonest ==
    ASSUME NEW o \in Units, NEW c \in HomeCalls, NEW a, HomesAnswers(c, o, a),
           Housed(a.to),
           NEW r, r.call = c, EndsWith(r, a, HomesResult(c, a.body)),
           NEW alone, NEW before \in Units,
           c.op = "remove_home" /\ alone =>
               \/ before = o
               \/ \E first : HomesAnswers(c, before, first) /\ o = first.to
    PROVE  HomesHonest(r, before, a.to, alone)
<1>1. PICK f \in Units : f = a.to /\ Housed(f)
    BY HomesTyped
<1>2. /\ a.status \in 200..299 => r.raised = None /\ ~HomesRefused(c, o, a)
      /\ a.status \notin 200..299 =>
           /\ r.raised # None
           /\ \/ r.raised \in {"APIError", "BadRequestError"}
              \/ r.raised = "NotFoundError" /\ c.id \notin Live(f.homes)
              \/ r.raised = "ConflictError" /\ In(f, c.id) # {}
  <2>1. CASE a.status \in 200..299
      BY <2>1 DEF EndsWith, HomesRefused
  <2>2. CASE a.status \notin 200..299
    <3>1. HomesRefused(c, o, a)
        BY <2>2 DEF HomesAnswers
    <3>2. \/ r.raised \in {"APIError", "BadRequestError"}
          \/ r.raised = "NotFoundError" /\ c.id \notin Live(f.homes)
          \/ r.raised = "ConflictError" /\ In(f, c.id) # {}
        BY <1>1, <2>2, <3>1, Refusals DEF EndsWith, HomesRefused
    <3> QED
        BY <2>2, <3>2, ExceptionsAssumption DEF Exceptions
  <2> QED
      BY <2>1, <2>2
<1>3. \A i : i \notin Live(f.homes) /\ i \in HomeIds => In(f, i) = {}
  <2>1. None \notin HomeIds
      BY HomeRowAssumption, HomeAssumption DEF HomeIds
  <2> QED
      BY <1>1, <2>1 DEF Housed, In
<1>4. r.raised = "ConflictError" => In(f, c.id) # {}
    BY <1>2, ExceptionsAssumption DEF Exceptions
<1>5. CASE c.op = "add_home"
  <2>1. ASSUME r.raised = None
        PROVE  HomeSeen(r.result, f, r.result.home_id) /\ r.result.home_id \in Live(f.homes)
    <3>1. PICK i \in Unused(o.homes) : HomeBecomes(o, i, HomeNew(c), a.to) /\ HomeStands(a, i)
        BY <1>2, <1>5, <2>1 DEF HomesAnswers, HomeAdded
    <3>2. i \in Live(f.homes)
      <4>1. PICK row \in HomeRows : row = HomeNew(c)
          BY <1>5, HomeNewIs
      <4>2. HomeBecomes(o, i, row, f) /\ i \in HomeIds
          BY <1>1, <3>1, <4>1, UnitsAre
      <4> QED
          BY <4>2, HomeLeft
    <3>3. r.result = Home(a.body)
        BY <1>2, <1>5, <2>1 DEF EndsWith, HomesResult
    <3>4. HomeSeen(r.result, f, i)
        BY <1>1, <3>1, <3>2, <3>3, HomeRead DEF HomeStands
    <3>5. r.result.home_id = i
        BY <3>4 DEF HomeSeen
    <3> QED
        BY <3>2, <3>4, <3>5
  <2> QED
      BY <1>1, <1>4, <1>5, <2>1 DEF HomesHonest, Housed, HomeSeen
<1>6. CASE c.op = "update_home"
  <2>1. ASSUME r.raised = None
        PROVE  HomeSeen(r.result, f, r.result.home_id) /\ r.result.home_id \in Live(f.homes)
    <3>1. HomeEdited(c, o, a)
        BY <1>2, <1>6, <2>1 DEF HomesAnswers
    <3>2. PICK i : i = c.id /\ i \in Live(f.homes)
      <4>1. PICK row \in HomeRows : row = HomeGiven(c, o.homes[c.id])
          BY <1>6, <3>1, UnitsAre, HomeGivenIs DEF HomeEdited
      <4>2. HomeBecomes(o, c.id, row, f) /\ c.id \in HomeIds
          BY <1>1, <3>1, <4>1, UnitsAre DEF HomeEdited
      <4> QED
          BY <4>2, HomeLeft
    <3>3. r.result = Home(a.body)
        BY <1>2, <1>6, <2>1 DEF EndsWith, HomesResult
    <3>4. HomeSeen(r.result, f, i)
        BY <1>1, <3>1, <3>2, <3>3, HomeRead DEF HomeStands, HomeEdited
    <3>5. r.result.home_id = i
        BY <3>4 DEF HomeSeen
    <3> QED
        BY <3>2, <3>4, <3>5
  <2> QED
      BY <1>1, <1>4, <1>6, <2>1 DEF HomesHonest, Housed, HomeSeen
<1>7. CASE c.op = "remove_home"
  <2>1. PICK i \in HomeIds : i = c.id
      BY <1>7, HomeCallsAre DEF HomeCallIs
  <2>2. ASSUME r.raised = None
        PROVE  /\ r.result.deleted /\ r.result.detached = Cardinality(In(o, i))
               /\ i \in Live(o.homes) /\ i \notin Live(f.homes)
    <3>1. HomeRemovedIn(c, o, a)
        BY <1>2, <1>7, <2>2 DEF HomesAnswers
    <3>2. r.result = HomeRemoved(a.body)
        BY <1>2, <1>7, <2>2 DEF EndsWith, HomesResult
    <3>3. r.result.deleted /\ r.result.detached = Cardinality(In(o, i))
        BY <2>1, <3>1, <3>2, RemovalRead DEF HomeRemovedIn
    <3> QED
      <4>1. HomeEmptied(o, i, f) /\ i \in Live(o.homes)
          BY <1>1, <2>1, <3>1 DEF HomeRemovedIn
      <4>2. i \notin Live(f.homes)
          BY <2>1, <4>1, EmptiedGone
      <4> QED
          BY <3>3, <4>1, <4>2
  <2>3. ASSUME r.raised = None, alone PROVE before = o
    <3>1. CASE before = o
        BY <3>1
    <3>2. CASE \E first : HomesAnswers(c, before, first) /\ o = first.to
      <4>1. PICK first : HomesAnswers(c, before, first) /\ o = first.to
          BY <3>2
      <4>2. CASE HomesRefused(c, before, first)
          BY <4>1, <4>2 DEF HomesRefused
      <4>3. CASE HomeRemovedIn(c, before, first)
        <5>1. HomeEmptied(before, i, o)
            BY <2>1, <4>1, <4>3 DEF HomeRemovedIn
        <5>2. i \notin Live(o.homes)
            BY <2>1, <5>1, EmptiedGone
        <5> QED
            BY <2>2, <2>3, <5>2
      <4> QED
          BY <1>7, <4>1, <4>2, <4>3 DEF HomesAnswers
    <3> QED
        BY <1>7, <2>3, <3>1, <3>2
  <2>4. r.raised \in {None, "NotFoundError"} => i \notin Live(f.homes)
      BY <1>2, <2>1, <2>2
  <2> QED
      BY <1>1, <1>3, <1>4, <1>7, <2>1, <2>2, <2>3, <2>4 DEF HomesHonest, Housed
<1>8. CASE c.op = "set_move_out_date"
  <2>1. ASSUME r.raised = None PROVE r.result.move_out_date = f.leaves[c.id]
    <3>1. LeavesAt(c, o, f) /\ DateStands(c, a)
        BY <1>1, <1>2, <1>8, <2>1 DEF HomesAnswers
    <3>2. r.result = MoveOutDate(a.body)
        BY <1>2, <1>8, <2>1 DEF EndsWith, HomesResult
    <3> QED
        BY <1>8, <3>1, <3>2, DateRead, LeavesLeft
  <2> QED
      BY <1>1, <1>4, <1>8, <2>1 DEF HomesHonest, Housed
<1> QED
    BY <1>5, <1>6, <1>7, <1>8, HomeCallsAre DEF HomeCallIs

----------------------------------------------------------------------------
(* Settings, a key, the sense lines, a geofence.                           *)

(* Settings *)
SettingsEdited(c, o, f) == f = [o EXCEPT !.settings = EditSettings(o.settings, c.patch)]
SettingsAnswers(c, o, a) ==
    \/ a.to = o /\ a.status = 422 /\ a.body.code = "invalid_setting"
    \/ /\ a.status = 200 /\ a.body = SettingsFields(a.to, DOMAIN c.patch)
       /\ DOMAIN c.patch \subseteq SettingNames /\ Exclusive(a.to.settings)
       /\ SettingsEdited(c, o, a.to)

LEMMA SettingsAnswer ==
    ASSUME NEW o, NEW c \in SettingsCalls,
           NEW a, a = ConfigServe(o, ConfigRequest(c))
    PROVE  SettingsAnswers(c, o, a)
<1>1. c.op = "update_settings"
    BY DEF SettingsCalls, update_settings
<1>2. PICK r : r = ConfigRequest(c)
    OBVIOUS
<1>3. r = [path |-> "settings", json |-> [settings |-> c.patch]]
    BY <1>1, <1>2 DEF ConfigRequest
<1>4. r.path = "settings" /\ r.json.settings = c.patch
    BY <1>3
<1>5. PICK to : to = [o EXCEPT !.settings = EditSettings(@, c.patch)]
    OBVIOUS
<1>6. a = IF ~(DOMAIN c.patch \subseteq SettingNames) \/ ~Exclusive(to.settings)
          THEN Refuses(o, 422, "invalid_setting")
          ELSE Says(to, 200, SettingsFields(to, DOMAIN c.patch))
    BY <1>2, <1>4, <1>5 DEF ConfigServe
<1>7. SettingsEdited(c, o, to)
    BY <1>5 DEF SettingsEdited
<1> QED
    BY <1>6, <1>7 DEF SettingsAnswers, Refuses, Says

LEMMA SettingsPatched ==
    ASSUME NEW c \in SettingsCalls, DOMAIN c.patch \subseteq SettingNames
    PROVE  c.patch \in [DOMAIN c.patch -> {"custom", None}]
<1>1. PICK patch \in Patches : c = update_settings(patch)
    BY DEF SettingsCalls
<1>2. c.patch = patch
    BY <1>1 DEF update_settings
<1>3. CASE \E names \in SUBSET SettingNames : patch \in [names -> {"custom", None}]
    BY <1>2, <1>3
<1>4. CASE patch \in [ReadOnly -> {"custom"}]
    BY <1>2, <1>4
<1>5. CASE patch \in [SettingNames \cup ReadOnly -> {None}]
    BY <1>2, <1>5
<1> DEFINE some == {[names -> {"custom", None}] : names \in (SUBSET SettingNames) \ {{}}}
<1>6. Patches = (UNION some) \cup [ReadOnly -> {"custom"}]
                  \cup [SettingNames \cup ReadOnly -> {None}]
    BY DEF Patches
<1>7. ASSUME patch \in UNION some PROVE \E names \in SUBSET SettingNames : patch \in [names -> {"custom", None}]
    BY <1>7
<1> HIDE DEF some
<1> QED
    BY <1>1, <1>3, <1>4, <1>5, <1>6, <1>7

LEMMA SettingsLeft ==
    ASSUME NEW o \in Settings, NEW c \in SettingsCalls, NEW f,
           DOMAIN c.patch \subseteq SettingNames, SettingsEdited(c, o, f)
    PROVE  /\ f \in Settings /\ f.features = o.features
           /\ \A n \in DOMAIN c.patch : f.settings[n] = c.patch[n]
<1>1. PICK patch, names : patch = c.patch /\ names = DOMAIN c.patch
    OBVIOUS
<1>2. patch \in [names -> {"custom", None}] /\ names \subseteq SettingNames
    BY <1>1, SettingsPatched
<1>3. PICK settings : settings = EditSettings(o.settings, patch)
    OBVIOUS
<1>4. o.settings \in [SettingNames -> {"custom", None}]
    BY DEF Settings
<1>5. /\ settings \in [SettingNames -> {"custom", None}]
      /\ \A n \in names : settings[n] = patch[n]
    BY <1>2, <1>3, <1>4 DEF EditSettings
<1>6. f = [o EXCEPT !.settings = settings]
    BY <1>1, <1>3 DEF SettingsEdited
<1>7. f \in Settings /\ f.features = o.features /\ f.settings = settings
    BY <1>5, <1>6 DEF Settings
<1> QED
    BY <1>1, <1>5, <1>7

LEMMA SettingsTyped ==
    ASSUME NEW o \in Settings, NEW c \in SettingsCalls, NEW a, SettingsAnswers(c, o, a)
    PROVE  a.to \in Settings
BY SettingsLeft DEF SettingsAnswers

LEMMA SettingsKeepExclusive ==
    ASSUME NEW o, NEW c, NEW a, SettingsAnswers(c, o, a), Exclusive(o.settings)
    PROVE  Exclusive(a.to.settings)
BY DEF SettingsAnswers

LEMMA SettingsKeepWithin ==
    ASSUME NEW o \in Settings, NEW c \in SettingsCalls, NEW a, SettingsAnswers(c, o, a)
    PROVE  ConfigWithin(c, o, a.to)
<1>1. c.op = "update_settings"
    BY DEF SettingsCalls, update_settings
<1>2. a.to.features = o.features
    BY SettingsLeft DEF SettingsAnswers
<1> QED
    BY <1>1, <1>2 DEF ConfigWithin

LEMMA SettingsKeepMeant ==
    ASSUME NEW o \in Settings, NEW c \in SettingsCalls, NEW a, SettingsAnswers(c, o, a),
           a.status \in 200..299
    PROVE  \A before : ConfigMeant(c, before, a.to)
<1>1. c.op = "update_settings"
    BY DEF SettingsCalls, update_settings
<1>2. \A n \in DOMAIN c.patch : a.to.settings[n] = c.patch[n]
    BY SettingsLeft DEF SettingsAnswers
<1> QED
    BY <1>1, <1>2 DEF ConfigMeant

SettingsShown(o, names, result) ==
    [result |-> result, settings |-> o.settings, read_only |-> o.features, changed |-> names]
SettingsSeen(x, o, names, result) ==
    /\ x.settings = o.settings /\ x.read_only = o.features /\ x.changed = names
    /\ x.simulated <=> (result = "simulated")

LEMMA SettingsRead ==
    ASSUME NEW o \in Settings, NEW names \in SUBSET SettingNames, NEW result
    PROVE  SettingsSeen(CommunitySettings(SettingsShown(o, names, result)), o, names, result)
<1>0. PICK d : d = SettingsShown(o, names, result)
    OBVIOUS
<1>1. d = [result |-> result, settings |-> o.settings, read_only |-> o.features,
           changed |-> names]
    BY <1>0 DEF SettingsShown
<1>2. o.settings # None /\ o.features # None /\ names # None
    BY SettingsAssumption DEF Settings
<1>3. /\ GetOr(d, "settings", NoFields) = o.settings
      /\ GetOr(d, "read_only", NoFields) = o.features
      /\ GetOr(d, "changed", {}) = names
      /\ Get(d, "result", None) = result
    BY <1>1, <1>2 DEF Get, GetOr
<1>4. PICK simulated : simulated = (result = "simulated")
    OBVIOUS
<1>5. PICK x : x = CommunitySettings(d)
    OBVIOUS
<1>6. x = [settings |-> o.settings, read_only |-> o.features, changed |-> names,
           simulated |-> simulated]
    BY <1>3, <1>4, <1>5 DEF CommunitySettings
<1>7. x.settings = o.settings /\ x.read_only = o.features /\ x.changed = names
      /\ x.simulated = simulated
    BY <1>6
<1> QED
    BY <1>0, <1>4, <1>5, <1>7 DEF SettingsSeen

LEMMA SettingsTold ==
    ASSUME NEW o \in Settings, NEW c \in SettingsCalls, NEW a, SettingsAnswers(c, o, a),
           a.status \in 200..299
    PROVE  /\ ~ConfigResult(c, a.body).simulated
           /\ ConfigResult(c, ConfigSimulated(o, ConfigRequest(c))).simulated
<1>1. c.op = "update_settings"
    BY DEF SettingsCalls, update_settings
<1>2. /\ a.body = SettingsFields(a.to, DOMAIN c.patch) /\ a.to \in Settings
      /\ DOMAIN c.patch \in SUBSET SettingNames
    BY SettingsTyped DEF SettingsAnswers
<1>3. a.body = SettingsShown(a.to, DOMAIN c.patch, "ok")
    BY <1>2 DEF SettingsFields, SettingsShown
<1>4. ~CommunitySettings(a.body).simulated
  <2>1. PICK names : names = DOMAIN c.patch
      OBVIOUS
  <2>2. CommunitySettings(a.body).simulated <=> ("ok" = "simulated")
      BY <1>2, <1>3, <2>1, SettingsRead DEF SettingsSeen
  <2> QED
      BY <2>2
<1>5. PICK r : r = ConfigRequest(c)
    OBVIOUS
<1>6. r.path = "settings"
    BY <1>1, <1>5 DEF ConfigRequest
<1>7. ConfigSimulated(o, r) = SettingsShown(o, {}, "simulated")
    BY <1>6 DEF ConfigSimulated, SettingsFields, SettingsShown
<1>8. CommunitySettings(ConfigSimulated(o, r)).simulated
    BY <1>7, SettingsRead DEF SettingsSeen
<1> QED
    BY <1>1, <1>4, <1>5, <1>8 DEF ConfigResult

LEMMA SettingsKeepHonest ==
    ASSUME NEW o \in Settings, NEW c \in SettingsCalls, NEW a, SettingsAnswers(c, o, a),
           Exclusive(a.to.settings),
           NEW r, r.call = c, EndsWith(r, a, ConfigResult(c, a.body)), NEW before, NEW alone
    PROVE  ConfigHonest(r, before, a.to, alone)
<1>1. c.op = "update_settings"
    BY DEF SettingsCalls, update_settings
<1>2. CASE a.status = 200
  <2>1. PICK names : names = DOMAIN c.patch
      OBVIOUS
  <2>2. a.body = SettingsFields(a.to, names) /\ a.to \in Settings
        /\ names \in SUBSET SettingNames
      BY <1>2, <2>1, SettingsTyped DEF SettingsAnswers
  <2>3. a.body = SettingsShown(a.to, names, "ok")
      BY <2>2 DEF SettingsFields, SettingsShown
  <2>4. r.result = CommunitySettings(a.body)
      BY <1>1, <1>2 DEF EndsWith, ConfigResult
  <2>5. PICK x : x = CommunitySettings(a.body)
      OBVIOUS
  <2>6. x.settings = a.to.settings /\ x.read_only = a.to.features /\ x.changed = names
      BY <2>2, <2>3, <2>5, SettingsRead DEF SettingsSeen
  <2>7. \A n \in ReadOnly : feature(x, n) = a.to.features[n]
    <3> SUFFICES ASSUME NEW n \in ReadOnly PROVE feature(x, n) = a.to.features[n]
        OBVIOUS
    <3>1. Get(x.read_only, n, None) = a.to.features[n]
        BY <2>2, <2>6 DEF Get, Settings
    <3>2. a.to.features[n] \in BOOLEAN
        BY <2>2 DEF Settings
    <3> QED
        BY <3>1, <3>2, BoolOfBoolean DEF feature
  <2> QED
      BY <1>1, <2>1, <2>4, <2>5, <2>6, <2>7 DEF ConfigHonest
<1>3. CASE a.status = 422 /\ a.body.code = "invalid_setting"
  <2>1. r.raised = "APIError"
      BY <1>3, Refusals DEF EndsWith
  <2>2. r.raised # None
      BY <2>1, ExceptionsAssumption DEF Exceptions
  <2> QED
      BY <1>1, <2>2 DEF ConfigHonest
<1> QED
    BY <1>2, <1>3 DEF SettingsAnswers

(* Keys *)
KeyEdited(c, k, f) ==
    f = [name |-> Chosen(c.name, k.name), disabled |-> Chosen(c.disabled, k.disabled)]
KeyAnswers(c, k, a) ==
    \/ a.to = k /\ a.status = 422 /\ a.body.code = "invalid"
    \/ /\ a.status = 200 /\ a.body = [result |-> "ok", key |-> a.to]
       /\ KeyEdited(c, k, a.to) /\ c.disabled \in BOOLEAN \cup {None}

LEMMA KeyCallsAre ==
    ASSUME NEW c \in KeyCalls
    PROVE  /\ c.op = "update_key" /\ c.name \in {"renamed", None}
           /\ c.disabled \in BOOLEAN \cup {None, Truthy}
BY DEF KeyCalls, update_key

LEMMA KeyAnswer ==
    ASSUME NEW k \in Keys, NEW c \in KeyCalls, NEW a, a = ConfigServe(k, ConfigRequest(c))
    PROVE  KeyAnswers(c, k, a)
<1>1. PICK r, optional : /\ r = ConfigRequest(c)
                         /\ optional = [name |-> c.name, disabled |-> c.disabled]
    OBVIOUS
<1>2. PICK json : json = Body(NoFields, optional)
    OBVIOUS
<1>3. r = [path |-> "keys/id", json |-> json]
    BY <1>1, <1>2, KeyCallsAre DEF ConfigRequest
<1>4. r.path = "keys/id" /\ r.json = json
    BY <1>3
<1>5. /\ "name" \in DOMAIN optional /\ "disabled" \in DOMAIN optional
      /\ optional["name"] = c.name /\ optional["disabled"] = c.disabled
    BY <1>1
<1>6. /\ Get(json, "name", k.name) = Chosen(c.name, k.name)
      /\ Get(json, "disabled", k.disabled) = Chosen(c.disabled, k.disabled)
      /\ Get(json, "disabled", FALSE) = Chosen(c.disabled, FALSE)
  <2>1. Get(json, "name", k.name) = Chosen(c.name, k.name)
      BY <1>2, <1>5, FieldGiven
  <2>2. Get(json, "disabled", k.disabled) = Chosen(c.disabled, k.disabled)
      BY <1>2, <1>5, FieldGiven
  <2>3. PICK no : no = FALSE
      OBVIOUS
  <2>4. Get(json, "disabled", no) = Chosen(c.disabled, no)
      BY <1>2, <1>5, FieldGiven
  <2> QED
      BY <2>1, <2>2, <2>3, <2>4
<1>7. PICK to : KeyEdited(c, k, to)
    BY DEF KeyEdited
<1>8. to = [name |-> Get(json, "name", k.name), disabled |-> Get(json, "disabled", k.disabled)]
    BY <1>6, <1>7 DEF KeyEdited
<1>9. a = IF DOMAIN json = {} \/ Get(json, "disabled", FALSE) \notin BOOLEAN
          THEN Refuses(k, 422, "invalid")
          ELSE Says(to, 200, [result |-> "ok", key |-> to])
    BY <1>1, <1>4, <1>8 DEF ConfigServe
<1>10. CASE DOMAIN json = {} \/ Get(json, "disabled", FALSE) \notin BOOLEAN
  <2>1. a = Refuses(k, 422, "invalid")
      BY <1>9, <1>10
  <2> QED
      BY <2>1 DEF KeyAnswers, Refuses, Says
<1>11. CASE ~(DOMAIN json = {} \/ Get(json, "disabled", FALSE) \notin BOOLEAN)
  <2>1. Chosen(c.disabled, FALSE) \in BOOLEAN
      BY <1>6, <1>11
  <2>2. c.disabled \in BOOLEAN \cup {None}
      BY <2>1 DEF Chosen
  <2>3. a = Says(to, 200, [result |-> "ok", key |-> to])
      BY <1>9, <1>11
  <2>4. a.to = to /\ a.status = 200 /\ a.body = [result |-> "ok", key |-> to]
      BY <2>3 DEF Says
  <2> QED
      BY <1>7, <2>2, <2>4 DEF KeyAnswers
<1> QED
    BY <1>10, <1>11

LEMMA KeyLeft ==
    ASSUME NEW k \in Keys, NEW c \in KeyCalls, c.disabled \in BOOLEAN \cup {None},
           NEW f, KeyEdited(c, k, f)
    PROVE  /\ f \in Keys /\ f.name = Chosen(c.name, k.name)
           /\ f.disabled = Chosen(c.disabled, k.disabled)
<1>1. PICK name, disabled : /\ name = Chosen(c.name, k.name)
                            /\ disabled = Chosen(c.disabled, k.disabled)
    OBVIOUS
<1>2. f = [name |-> name, disabled |-> disabled]
    BY <1>1 DEF KeyEdited
<1>3. name \in Labels
    BY <1>1, KeyCallsAre DEF Chosen, Keys, Labels
<1>4. disabled \in BOOLEAN
    BY <1>1 DEF Chosen, Keys
<1>5. f \in Keys /\ f.name = name /\ f.disabled = disabled
    BY <1>2, <1>3, <1>4 DEF Keys
<1> QED
    BY <1>1, <1>5

LEMMA KeyTyped ==
    ASSUME NEW k \in Keys, NEW c \in KeyCalls, NEW a, KeyAnswers(c, k, a)
    PROVE  a.to \in Keys
BY KeyLeft DEF KeyAnswers

LEMMA KeyKeepsWithin ==
    ASSUME NEW k \in Keys, NEW c \in KeyCalls, NEW a, KeyAnswers(c, k, a)
    PROVE  ConfigWithin(c, k, a.to)
<1>1. c.op = "update_key"
    BY KeyCallsAre
<1>2. \/ a.to = k
      \/ a.to.name = Chosen(c.name, k.name) /\ a.to.disabled = Chosen(c.disabled, k.disabled)
    BY KeyLeft DEF KeyAnswers
<1>3. /\ c.name = None => a.to.name = k.name
      /\ c.disabled = None => a.to.disabled = k.disabled
    BY <1>2 DEF Chosen
<1> QED
    BY <1>1, <1>3 DEF ConfigWithin

LEMMA KeyKeepsMeant ==
    ASSUME NEW k \in Keys, NEW c \in KeyCalls, NEW a, KeyAnswers(c, k, a),
           a.status \in 200..299
    PROVE  \A before : ConfigMeant(c, before, a.to)
<1>1. c.op = "update_key"
    BY KeyCallsAre
<1>2. a.to.disabled = Chosen(c.disabled, k.disabled)
    BY KeyLeft DEF KeyAnswers
<1>3. c.disabled # None => a.to.disabled = c.disabled
    BY <1>2 DEF Chosen
<1> QED
    BY <1>1, <1>3 DEF ConfigMeant

LEMMA KeyTold ==
    ASSUME NEW k \in Keys, NEW c \in KeyCalls, NEW a, KeyAnswers(c, k, a),
           a.status \in 200..299
    PROVE  /\ ~ConfigResult(c, a.body).simulated
           /\ ConfigResult(c, ConfigSimulated(k, ConfigRequest(c))).simulated
<1>1. c.op = "update_key"
    BY KeyCallsAre
<1>2. PICK to : to = a.to
    OBVIOUS
<1>3. a.body = [result |-> "ok", key |-> to]
    BY <1>2 DEF KeyAnswers
<1>4. Get(a.body, "result", None) = "ok"
    BY <1>3 DEF Get
<1>5. ~KeyUpdateResult(a.body).simulated
    BY <1>4 DEF KeyUpdateResult
<1>6. PICK r : r = ConfigRequest(c)
    OBVIOUS
<1>7. r.path = "keys/id"
    BY <1>1, <1>6 DEF ConfigRequest
<1>8. ConfigSimulated(k, r) = [result |-> "simulated"]
    BY <1>7 DEF ConfigSimulated
<1>9. KeyUpdateResult(ConfigSimulated(k, r)).simulated
  <2>1. PICK d : d = [result |-> "simulated"]
      OBVIOUS
  <2>2. Get(d, "result", None) = "simulated"
      BY <2>1 DEF Get
  <2>3. KeyUpdateResult(d).simulated
      BY <2>2 DEF KeyUpdateResult
  <2> QED
      BY <1>8, <2>1, <2>3
<1> QED
    BY <1>1, <1>5, <1>6, <1>9 DEF ConfigResult

LEMMA KeyKeepsHonest ==
    ASSUME NEW k \in Keys, NEW c \in KeyCalls, NEW a, KeyAnswers(c, k, a),
           NEW r, r.call = c, EndsWith(r, a, ConfigResult(c, a.body)), NEW before, NEW alone
    PROVE  ConfigHonest(r, before, a.to, alone)
<1>1. c.op = "update_key"
    BY KeyCallsAre
<1>2. CASE a.status = 200 /\ a.body = [result |-> "ok", key |-> a.to]
  <2>1. PICK to : to = a.to
      OBVIOUS
  <2>2. a.body = [result |-> "ok", key |-> to]
      BY <1>2, <2>1
  <2>3. GetOr(a.body, "key", None) = to
      BY <2>2 DEF GetOr
  <2>4. KeyUpdateResult(a.body).key = to
      BY <2>3 DEF KeyUpdateResult
  <2>5. r.result = KeyUpdateResult(a.body)
      BY <1>1, <1>2 DEF EndsWith, ConfigResult
  <2> QED
      BY <1>1, <2>1, <2>4, <2>5 DEF ConfigHonest
<1>3. CASE a.status = 422 /\ a.body.code = "invalid"
  <2>1. r.raised = "APIError"
      BY <1>3, Refusals DEF EndsWith
  <2>2. r.raised # None
      BY <2>1, ExceptionsAssumption DEF Exceptions
  <2> QED
      BY <1>1, <2>2 DEF ConfigHonest
<1> QED
    BY <1>2, <1>3 DEF KeyAnswers

(* Sense lines *)
LineGiven(c, x) ==
    [online |-> Chosen(c.sense_line_online, x.online),
     data |-> Chosen(c.latch_data_online, x.data)]
LineEdited(c, o, f) == f = [o EXCEPT ![c.box_id] = LineGiven(c, o[c.box_id])]
LineAnswers(c, o, a) ==
    \/ a.to = o /\ a.status = 422 /\ a.body.code = "no_fields"
    \/ /\ a.status = 200 /\ a.body = LineFields(a.to, c.box_id) /\ LineEdited(c, o, a.to)

LEMMA LineCallsAre ==
    ASSUME NEW c \in SenseLineCalls
    PROVE  /\ c.op = "update_sense_line" /\ c.box_id \in Boxes
           /\ c.sense_line_online \in BOOLEAN \cup {None}
           /\ c.latch_data_online \in BOOLEAN \cup {None}
BY DEF SenseLineCalls, update_sense_line

LEMMA LineAnswer ==
    ASSUME NEW o \in SenseLines, NEW c \in SenseLineCalls,
           NEW a, a = ConfigServe(o, ConfigRequest(c))
    PROVE  LineAnswers(c, o, a)
<1>1. PICK r, optional : /\ r = ConfigRequest(c)
                         /\ optional = [sense_line_online |-> c.sense_line_online,
                                        latch_data_online |-> c.latch_data_online]
    OBVIOUS
<1>2. PICK json, b : json = Body(NoFields, optional) /\ b = c.box_id
    OBVIOUS
<1>3. r = [path |-> "sense-lines/id", box_id |-> b, json |-> json]
    BY <1>1, <1>2, LineCallsAre DEF ConfigRequest
<1>4. r.path = "sense-lines/id" /\ r.json = json /\ r.box_id = b
    BY <1>3
<1>5. /\ "sense_line_online" \in DOMAIN optional /\ "latch_data_online" \in DOMAIN optional
      /\ optional["sense_line_online"] = c.sense_line_online
      /\ optional["latch_data_online"] = c.latch_data_online
    BY <1>1
<1>6. PICK online, data : /\ online = Chosen(c.sense_line_online, o[b].online)
                          /\ data = Chosen(c.latch_data_online, o[b].data)
    OBVIOUS
<1>7. /\ Get(json, "sense_line_online", o[b].online) = online
      /\ Get(json, "latch_data_online", o[b].data) = data
    BY <1>2, <1>5, <1>6, FieldGiven
<1>8. PICK to : to = [o EXCEPT ![b] = [online |-> online, data |-> data]]
    OBVIOUS
<1>9. b \in DOMAIN o
    BY <1>2, LineCallsAre DEF SenseLines
<1>10. to = [o EXCEPT ![b] = [online |-> Get(json, "sense_line_online", @.online),
                              data |-> Get(json, "latch_data_online", @.data)]]
    BY <1>7, <1>8, <1>9
<1>11. a = IF DOMAIN json = {} THEN Refuses(o, 422, "no_fields")
           ELSE Says(to, 200, LineFields(to, b))
    BY <1>1, <1>4, <1>10 DEF ConfigServe
<1>12. LineEdited(c, o, to)
    BY <1>2, <1>6, <1>8 DEF LineEdited, LineGiven
<1> QED
    BY <1>2, <1>11, <1>12 DEF LineAnswers, Refuses, Says

LEMMA LineLeft ==
    ASSUME NEW o \in SenseLines, NEW c \in SenseLineCalls, NEW f, LineEdited(c, o, f)
    PROVE  /\ f \in SenseLines
           /\ \A b \in Boxes \ {c.box_id} : f[b] = o[b]
           /\ f[c.box_id].online = Chosen(c.sense_line_online, o[c.box_id].online)
           /\ f[c.box_id].data = Chosen(c.latch_data_online, o[c.box_id].data)
<1>1. PICK b \in Boxes : b = c.box_id
    BY LineCallsAre
<1>2. PICK online, data : /\ online = Chosen(c.sense_line_online, o[b].online)
                          /\ data = Chosen(c.latch_data_online, o[b].data)
    OBVIOUS
<1>3. o[b].online \in BOOLEAN /\ o[b].data \in BOOLEAN
    BY DEF SenseLines
<1>4. online \in BOOLEAN /\ data \in BOOLEAN
    BY <1>2, <1>3, LineCallsAre DEF Chosen
<1>5. f = [o EXCEPT ![b] = [online |-> online, data |-> data]]
    BY <1>1, <1>2 DEF LineEdited, LineGiven
<1>6. /\ f \in SenseLines /\ \A d \in Boxes \ {b} : f[d] = o[d]
      /\ f[b] = [online |-> online, data |-> data]
    BY <1>4, <1>5 DEF SenseLines
<1>7. f[b].online = online /\ f[b].data = data
    BY <1>6
<1> QED
    BY <1>1, <1>2, <1>6, <1>7

LEMMA LineTyped ==
    ASSUME NEW o \in SenseLines, NEW c \in SenseLineCalls, NEW a, LineAnswers(c, o, a)
    PROVE  a.to \in SenseLines
BY LineLeft DEF LineAnswers

LEMMA LineKeepsWithin ==
    ASSUME NEW o \in SenseLines, NEW c \in SenseLineCalls, NEW a, LineAnswers(c, o, a)
    PROVE  ConfigWithin(c, o, a.to)
<1>1. c.op = "update_sense_line"
    BY LineCallsAre
<1>2. CASE a.to = o
    BY <1>1, <1>2 DEF ConfigWithin
<1>3. CASE LineEdited(c, o, a.to)
  <2>1. /\ \A b \in Boxes \ {c.box_id} : a.to[b] = o[b]
        /\ a.to[c.box_id].online = Chosen(c.sense_line_online, o[c.box_id].online)
        /\ a.to[c.box_id].data = Chosen(c.latch_data_online, o[c.box_id].data)
      BY <1>3, LineLeft
  <2>2. /\ c.sense_line_online = None => a.to[c.box_id].online = o[c.box_id].online
        /\ c.latch_data_online = None => a.to[c.box_id].data = o[c.box_id].data
      BY <2>1 DEF Chosen
  <2> QED
      BY <1>1, <2>1, <2>2 DEF ConfigWithin
<1> QED
    BY <1>2, <1>3 DEF LineAnswers

LEMMA LineKeepsMeant ==
    ASSUME NEW c \in SenseLineCalls PROVE \A before, f : ConfigMeant(c, before, f)
BY LineCallsAre DEF ConfigMeant

LineShown(o, b, result) ==
    [result |-> result, box_id |-> b, sense_line_online |-> o[b].online,
     latch_data_online |-> o[b].data, reporting |-> o[b].online /\ o[b].data]
LineSeen(x, o, b, result) ==
    /\ x.reporting = (o[b].online /\ o[b].data)
    /\ x.simulated <=> (result = "simulated")

LEMMA LineRead ==
    ASSUME NEW o \in SenseLines, NEW b \in Boxes, NEW result
    PROVE  LineSeen(SenseLine(LineShown(o, b, result)), o, b, result)
<1>1. PICK online, data, both : /\ online = o[b].online /\ data = o[b].data
                                /\ both = (o[b].online /\ o[b].data)
    OBVIOUS
<1>2. PICK e : e = LineShown(o, b, result)
    OBVIOUS
<1>3. e = [result |-> result, box_id |-> b, sense_line_online |-> online,
           latch_data_online |-> data, reporting |-> both]
    BY <1>1, <1>2 DEF LineShown
<1>4. Get(e, "reporting", Bool(Get(e, "sense_line_online", None))
                            /\ Bool(Get(e, "latch_data_online", None))) = both
    BY <1>3 DEF Get
<1>5. Bool(both) = both
    BY <1>1, BoolOfBoolean
<1>6. Get(e, "result", None) = result
    BY <1>3 DEF Get
<1>7. SenseLine(e).reporting = both /\ (SenseLine(e).simulated <=> (result = "simulated"))
    BY <1>4, <1>5, <1>6 DEF SenseLine
<1> QED
    BY <1>1, <1>2, <1>7 DEF LineSeen

LEMMA LineTold ==
    ASSUME NEW o \in SenseLines, NEW c \in SenseLineCalls, NEW a, LineAnswers(c, o, a),
           a.status \in 200..299
    PROVE  /\ ~ConfigResult(c, a.body).simulated
           /\ ConfigResult(c, ConfigSimulated(o, ConfigRequest(c))).simulated
<1>1. c.op = "update_sense_line"
    BY LineCallsAre
<1>2. PICK b \in Boxes : b = c.box_id
    BY LineCallsAre
<1>3. a.body = LineShown(a.to, b, "ok") /\ a.to \in SenseLines
    BY <1>2, LineTyped DEF LineAnswers, LineFields, LineShown
<1>4. ~SenseLine(a.body).simulated
    BY <1>3, LineRead DEF LineSeen
<1>5. PICK r : r = ConfigRequest(c)
    OBVIOUS
<1>6. r.path = "sense-lines/id" /\ r.box_id = b
    BY <1>1, <1>2, <1>5 DEF ConfigRequest
<1>7. ConfigSimulated(o, r) = LineShown(o, b, "simulated")
    BY <1>6 DEF ConfigSimulated, LineFields, LineShown
<1>8. SenseLine(ConfigSimulated(o, r)).simulated
    BY <1>7, LineRead DEF LineSeen
<1> QED
    BY <1>1, <1>4, <1>5, <1>8 DEF ConfigResult

LEMMA LineKeepsHonest ==
    ASSUME NEW o \in SenseLines, NEW c \in SenseLineCalls, NEW a, LineAnswers(c, o, a),
           NEW r, r.call = c, EndsWith(r, a, ConfigResult(c, a.body)), NEW before, NEW alone
    PROVE  ConfigHonest(r, before, a.to, alone)
<1>1. c.op = "update_sense_line"
    BY LineCallsAre
<1>2. PICK b \in Boxes : b = c.box_id
    BY LineCallsAre
<1>3. CASE a.status = 200 /\ a.body = LineFields(a.to, c.box_id)
  <2>1. a.body = LineShown(a.to, b, "ok") /\ a.to \in SenseLines
      BY <1>2, <1>3, LineTyped DEF LineFields, LineShown
  <2>2. r.result = SenseLine(a.body)
      BY <1>1, <1>3 DEF EndsWith, ConfigResult
  <2>3. r.result.reporting = (a.to[b].online /\ a.to[b].data)
      BY <2>1, <2>2, LineRead DEF LineSeen
  <2> QED
      BY <1>1, <1>2, <2>3 DEF ConfigHonest
<1>4. CASE a.status = 422 /\ a.body.code = "no_fields"
  <2>1. r.raised = "APIError"
      BY <1>4, Refusals DEF EndsWith
  <2>2. r.raised # None
      BY <2>1, ExceptionsAssumption DEF Exceptions
  <2> QED
      BY <1>1, <2>2 DEF ConfigHonest
<1> QED
    BY <1>3, <1>4 DEF LineAnswers

(* Geofence *)
FenceGiven(c, x) ==
    [enabled |-> Chosen(c.enabled, x.enabled), center |-> x.center \/ c.latitude # None,
     radius |-> Chosen(c.radius_meters, x.radius), located |-> x.located]
FenceAnswers(c, x, a) ==
    \/ a.to = x /\ a.status = 400 /\ a.body.code = "nothing_to_update"
    \/ a.to = x /\ a.status = 422 /\ a.body.code = "radius_below_minimum"
    \/ /\ a.status = 200 /\ a.body = LatchFields(a.to) /\ a.to = FenceGiven(c, x)
       /\ a.to.radius \in Radii
       /\ a.to.enabled => a.to.center \/ a.to.located

LEMMA FenceCallsAre ==
    ASSUME NEW c \in GeofenceCalls
    PROVE  /\ c.op = "update_geofence" /\ c.enabled \in Turns
           /\ c.radius_meters \in {50, 300, None}
BY DEF GeofenceCalls, update_geofence

LEMMA FenceIs ==
    ASSUME NEW x \in Fences, NEW c \in GeofenceCalls,
           NEW f, f = FenceGiven(c, x)
    PROVE  /\ f.enabled = Chosen(c.enabled, x.enabled) /\ f.enabled \in BOOLEAN
           /\ f.center = (x.center \/ c.latitude # None) /\ f.center \in BOOLEAN
           /\ f.radius = Chosen(c.radius_meters, x.radius)
           /\ f.located = x.located /\ f.located \in BOOLEAN
           /\ f = [enabled |-> f.enabled, center |-> f.center, radius |-> f.radius,
                   located |-> f.located]
<1>1. PICK enabled, center, radius, located :
        /\ enabled = Chosen(c.enabled, x.enabled) /\ center = (x.center \/ c.latitude # None)
        /\ radius = Chosen(c.radius_meters, x.radius) /\ located = x.located
    OBVIOUS
<1>2. PICK g : g = FenceGiven(c, x)
    OBVIOUS
<1>3. g = [enabled |-> enabled, center |-> center, radius |-> radius, located |-> located]
    BY <1>1, <1>2 DEF FenceGiven
<1>4. /\ g.enabled = enabled /\ g.center = center /\ g.radius = radius /\ g.located = located
    BY <1>3
<1>5. enabled \in BOOLEAN
  <2>1. c.enabled \in BOOLEAN \cup {None}
      BY FenceCallsAre DEF Turns
  <2> QED
      BY <1>1, <2>1 DEF Chosen, Fences
<1>6. center \in BOOLEAN /\ located \in BOOLEAN
    BY <1>1 DEF Fences
<1> QED
    BY <1>1, <1>2, <1>3, <1>4, <1>5, <1>6

LEMMA FenceTyped ==
    ASSUME NEW x \in Fences, NEW c \in GeofenceCalls, NEW a, FenceAnswers(c, x, a)
    PROVE  a.to \in Fences
<1>1. CASE a.to = x
    BY <1>1
<1>2. CASE a.to = FenceGiven(c, x) /\ a.to.radius \in Radii
  <2>1. PICK f, enabled, center, radius, located :
          /\ f = a.to /\ enabled = f.enabled /\ center = f.center /\ radius = f.radius
          /\ located = f.located
      OBVIOUS
  <2>2. /\ f = [enabled |-> enabled, center |-> center, radius |-> radius,
                located |-> located]
        /\ enabled \in BOOLEAN /\ center \in BOOLEAN /\ located \in BOOLEAN
        /\ radius \in Radii
      BY <1>2, <2>1, FenceIs
  <2> QED
      BY <2>1, <2>2 DEF Fences
<1> QED
    BY <1>1, <1>2 DEF FenceAnswers

LEMMA FenceAnswer ==
    ASSUME NEW x \in Fences, NEW c \in GeofenceCalls,
           NEW a, a = ConfigServe(x, ConfigRequest(c))
    PROVE  FenceAnswers(c, x, a)
<1>1. PICK r, optional : /\ r = ConfigRequest(c)
                         /\ optional = [enabled |-> c.enabled, latitude |-> c.latitude,
                                        longitude |-> c.longitude,
                                        radius_meters |-> c.radius_meters]
    OBVIOUS
<1>2. PICK json : json = Body(NoFields, optional)
    OBVIOUS
<1>3. r = [path |-> "latches/geofence", json |-> json]
    BY <1>1, <1>2, FenceCallsAre DEF ConfigRequest
<1>4. r.path = "latches/geofence" /\ r.json = json
    BY <1>3
<1>5. /\ "enabled" \in DOMAIN optional /\ "radius_meters" \in DOMAIN optional
      /\ "latitude" \in DOMAIN optional
      /\ optional["enabled"] = c.enabled /\ optional["radius_meters"] = c.radius_meters
      /\ optional["latitude"] = c.latitude
    BY <1>1
<1>6. PICK enabled, center, radius, located, moved :
        /\ enabled = Chosen(c.enabled, x.enabled) /\ center = (x.center \/ c.latitude # None)
        /\ radius = Chosen(c.radius_meters, x.radius) /\ located = x.located
        /\ moved = ("latitude" \in DOMAIN json)
    OBVIOUS
<1>7. Get(json, "enabled", x.enabled) = enabled
    BY <1>2, <1>5, <1>6, FieldGiven
<1>8. Get(json, "radius_meters", x.radius) = radius
    BY <1>2, <1>5, <1>6, FieldGiven
<1>9. moved <=> c.latitude # None
    BY <1>2, <1>5, <1>6, FieldGiven
<1>10. (x.center \/ moved) = center
    BY <1>6, <1>9
<1>11. EditFence(x, json) = [enabled |-> enabled, center |-> center, radius |-> radius,
                             located |-> located]
  <2>1. EditFence(x, json) = [x EXCEPT !.enabled = Get(json, "enabled", x.enabled),
                                       !.center = x.center \/ "latitude" \in DOMAIN json,
                                       !.radius = Get(json, "radius_meters", x.radius)]
      BY DEF EditFence, Fences
  <2>2. EditFence(x, json) = [x EXCEPT !.enabled = enabled, !.center = center, !.radius = radius]
      BY <1>6, <1>7, <1>8, <1>10, <2>1
  <2> QED
      BY <1>6, <2>2 DEF Fences
<1>12. EditFence(x, json) = FenceGiven(c, x)
    BY <1>6, <1>11 DEF FenceGiven
<1>13. PICK to : to = FenceGiven(c, x)
    OBVIOUS
<1>14. a = IF DOMAIN json = {} THEN Refuses(x, 400, "nothing_to_update")
           ELSE IF \/ ("latitude" \in DOMAIN json) # ("longitude" \in DOMAIN json)
                   \/ to.radius \notin Radii
                   \/ to.enabled /\ ~(to.center \/ to.located)
           THEN Refuses(x, 422, "radius_below_minimum")
           ELSE Says(to, 200, LatchFields(to))
    BY <1>1, <1>4, <1>12, <1>13 DEF ConfigServe
<1>15. \/ a = Refuses(x, 400, "nothing_to_update")
       \/ a = Refuses(x, 422, "radius_below_minimum")
       \/ /\ a = Says(to, 200, LatchFields(to)) /\ to.radius \in Radii
          /\ to.enabled => to.center \/ to.located
    BY <1>14
<1>16. CASE a = Refuses(x, 400, "nothing_to_update")
    BY <1>16 DEF FenceAnswers, Refuses, Says
<1>17. CASE a = Refuses(x, 422, "radius_below_minimum")
    BY <1>17 DEF FenceAnswers, Refuses, Says
<1>18. CASE /\ a = Says(to, 200, LatchFields(to)) /\ to.radius \in Radii
            /\ to.enabled => to.center \/ to.located
  <2>1. a.to = to /\ a.status = 200 /\ a.body = LatchFields(to)
      BY <1>18 DEF Says
  <2> QED
      BY <1>13, <1>18, <2>1 DEF FenceAnswers
<1> QED
    BY <1>15, <1>16, <1>17, <1>18

LEMMA FenceKeepsWithin ==
    ASSUME NEW x \in Fences, NEW c \in GeofenceCalls, NEW a, FenceAnswers(c, x, a)
    PROVE  ConfigWithin(c, x, a.to)
<1>1. c.op = "update_geofence"
    BY FenceCallsAre
<1>2. CASE a.to = x
    BY <1>1, <1>2 DEF ConfigWithin
<1>3. CASE a.to = FenceGiven(c, x)
  <2>1. PICK f : f = a.to
      OBVIOUS
  <2>2. /\ f.enabled = Chosen(c.enabled, x.enabled)
        /\ f.center = (x.center \/ c.latitude # None)
        /\ f.radius = Chosen(c.radius_meters, x.radius) /\ f.located = x.located
      BY <1>3, <2>1, FenceIs
  <2>3. /\ c.enabled = None => f.enabled = x.enabled
        /\ c.radius_meters = None => f.radius = x.radius
        /\ x.center => f.center
      BY <2>2 DEF Chosen
  <2> QED
      BY <1>1, <2>1, <2>2, <2>3 DEF ConfigWithin
<1> QED
    BY <1>2, <1>3 DEF FenceAnswers

LEMMA FenceKeepsMeant ==
    ASSUME NEW x \in Fences, NEW c \in GeofenceCalls, NEW a, FenceAnswers(c, x, a),
           a.status \in 200..299
    PROVE  \A before : ConfigMeant(c, before, a.to)
<1>1. c.op = "update_geofence"
    BY FenceCallsAre
<1>2. PICK f : f = a.to
    OBVIOUS
<1>3. f = FenceGiven(c, x)
    BY <1>2 DEF FenceAnswers
<1>4. f.enabled = Chosen(c.enabled, x.enabled) /\ f.radius = Chosen(c.radius_meters, x.radius)
    BY <1>3, FenceIs
<1>5. /\ c.enabled # None => f.enabled = c.enabled
      /\ c.radius_meters # None => f.radius = c.radius_meters
    BY <1>4 DEF Chosen
<1> QED
    BY <1>1, <1>2, <1>5 DEF ConfigMeant

FenceShown(x, result) ==
    [result |-> result,
     latch |-> [box_location |-> Point(x.located, "box"),
                geofence |-> [enabled |-> x.enabled, radius_meters |-> x.radius,
                              center |-> Point(x.center, "gate")]]]
FenceSeen(m, x, result) ==
    /\ m.box_location = Point(x.located, "box") /\ m.geofence # None
    /\ m.geofence.enabled = x.enabled /\ m.geofence.radius = x.radius
    /\ m.geofence.center = Point(x.center, "gate")
    /\ m.simulated <=> (result = "simulated")

LEMMA FenceRead ==
    ASSUME NEW x \in Fences, NEW result
    PROVE  FenceSeen(MapLatch(FenceShown(x, result)), x, result)
<1>1. PICK enabled, radius, center, box :
        /\ enabled = x.enabled /\ radius = x.radius /\ center = Point(x.center, "gate")
        /\ box = Point(x.located, "box")
    OBVIOUS
<1>2. PICK fence : fence = [enabled |-> enabled, radius_meters |-> radius, center |-> center]
    OBVIOUS
<1>3. PICK latch : latch = [box_location |-> box, geofence |-> fence]
    OBVIOUS
<1>4. PICK d : d = FenceShown(x, result)
    OBVIOUS
<1>5. d = [result |-> result, latch |-> latch]
    BY <1>1, <1>2, <1>3, <1>4 DEF FenceShown
<1>6. enabled \in BOOLEAN /\ radius \in Radii /\ center \in {"gate", None}
    BY <1>1 DEF Fences, Point
<1>7. fence # None
    BY <1>2, <1>6, FenceAssumption
<1>8. Unwrap(d, "latch") = latch /\ Get(d, "result", None) = result
    BY <1>5 DEF Unwrap, Get
<1>9. GetOr(latch, "geofence", None) = fence /\ Get(latch, "box_location", None) = box
    BY <1>3, <1>7 DEF Get, GetOr
<1>10. PICK g : g = Geofence(fence)
    OBVIOUS
<1>11. /\ Get(fence, "enabled", None) = enabled /\ Get(fence, "radius_meters", None) = radius
       /\ Get(fence, "center", None) = center
    BY <1>2 DEF Get
<1>12. g = [enabled |-> enabled, radius |-> radius, center |-> center]
    BY <1>6, <1>10, <1>11, BoolOfBoolean DEF Geofence
<1>13. g.enabled = enabled /\ g.radius = radius /\ g.center = center
    BY <1>12
<1>14. g # None
    BY <1>6, <1>12, FenceAssumption
<1>15. PICK m, simulated : m = MapLatch(d) /\ simulated = (result = "simulated")
    OBVIOUS
<1>16. m = [box_location |-> box, geofence |-> g, simulated |-> simulated]
    BY <1>7, <1>8, <1>9, <1>10, <1>15 DEF MapLatch
<1>17. m.box_location = box /\ m.geofence = g /\ m.simulated = simulated
    BY <1>16
<1> QED
    BY <1>1, <1>4, <1>13, <1>14, <1>15, <1>17 DEF FenceSeen

LEMMA FenceTold ==
    ASSUME NEW x \in Fences, NEW c \in GeofenceCalls, NEW a, FenceAnswers(c, x, a),
           a.status \in 200..299
    PROVE  /\ ~ConfigResult(c, a.body).simulated
           /\ ConfigResult(c, ConfigSimulated(x, ConfigRequest(c))).simulated
<1>1. c.op = "update_geofence"
    BY FenceCallsAre
<1>3. a.body = FenceShown(a.to, "ok") /\ a.to \in Fences
    BY FenceTyped DEF FenceAnswers, LatchFields, FenceShown
<1>4. ~MapLatch(a.body).simulated
    BY <1>3, FenceRead DEF FenceSeen
<1>5. PICK r : r = ConfigRequest(c)
    OBVIOUS
<1>6. r.path = "latches/geofence"
    BY <1>1, <1>5 DEF ConfigRequest
<1>7. ConfigSimulated(x, r) = FenceShown(x, "simulated")
    BY <1>6 DEF ConfigSimulated, LatchFields, FenceShown
<1>8. MapLatch(ConfigSimulated(x, r)).simulated
    BY <1>7, FenceRead DEF FenceSeen
<1> QED
    BY <1>1, <1>4, <1>5, <1>8 DEF ConfigResult

LEMMA FenceKeepsHonest ==
    ASSUME NEW x \in Fences, NEW c \in GeofenceCalls, NEW a, FenceAnswers(c, x, a),
           NEW r, r.call = c, EndsWith(r, a, ConfigResult(c, a.body)), NEW before, NEW alone
    PROVE  ConfigHonest(r, before, a.to, alone)
<1>1. c.op = "update_geofence"
    BY FenceCallsAre
<1>3. CASE a.status = 200
  <2>1. /\ a.body = FenceShown(a.to, "ok") /\ a.to \in Fences
        /\ a.to.enabled => a.to.center \/ a.to.located
      BY <1>3, FenceTyped DEF FenceAnswers, LatchFields, FenceShown
  <2>2. PICK m, f : m = r.result /\ f = a.to
      OBVIOUS
  <2>3. m = MapLatch(a.body)
      BY <1>1, <1>3, <2>2 DEF EndsWith, ConfigResult
  <2>4. FenceSeen(m, f, "ok")
      BY <2>1, <2>2, <2>3, FenceRead
  <2>5. m.geofence.enabled => suggested_center(m) # None
      BY <2>1, <2>2, <2>4, FenceAssumption DEF FenceSeen, suggested_center, Point
  <2> QED
      BY <1>1, <2>2, <2>4, <2>5 DEF ConfigHonest, FenceSeen
<1>4. CASE a.status \in {400, 422} /\ a.body.code \in {"nothing_to_update", "radius_below_minimum"}
  <2>1. r.raised \in {"APIError", "BadRequestError"}
      BY <1>4, Refusals DEF EndsWith
  <2>2. r.raised # None
      BY <2>1, ExceptionsAssumption DEF Exceptions
  <2> QED
      BY <1>1, <2>2 DEF ConfigHonest
<1> QED
    BY <1>3, <1>4 DEF FenceAnswers

=============================================================================
