----------------------------- MODULE GuestEntry -----------------------------
(***************************************************************************)
(* GuestView Entry: the master switch, the set of gates a visitor may open *)
(* and the weekly windows of each.  The whole set is replaced by a PUT     *)
(* that also deletes the windows of the gates left out; a gate in the set  *)
(* that has no windows is open to visitors at any hour.                    *)
(***************************************************************************)
EXTENDS WireFormat

CONSTANTS Hours,     \* hours of the day
          MaxEntryId \* bound: the schedule ids the server can assign

ASSUME EntryAssumption == MaxEntryId \in Nat

EntryIds == 1..MaxEntryId

Window == [gate : Gates, hours : Hours]

GuestEntries == [allowed : BOOLEAN, eligible : SUBSET Gates,
                 windows : [EntryIds -> Window \cup {Never, Gone}]]

\* A place for a window may be empty, and null is nothing an answer has here.
ASSUME WindowAssumption ==
    /\ \A w \in Window : w \notin {Never, Gone}
    /\ \A ids \in SUBSET EntryIds : ids # None /\ None \notin [ids -> Window]

\* One gate has its windows, the others are open at any hour.
GuestEntryStart ==
    {e \in GuestEntries :
        /\ e.allowed /\ e.eligible = Gates /\ Live(e.windows) = {1}
        /\ Unused(e.windows) = EntryIds \ {1}}

\* What the five endpoints answer with: the complete settings object.
EntryEnvelope(e, created, removed) ==
    [guest_view_entry |->
        [allowed |-> e.allowed, eligible_latches |-> e.eligible,
         schedule |-> [i \in Live(e.windows) |-> e.windows[i]]],
     created_schedule_ids |-> created,
     removed_schedule_id |-> removed,
     result |-> "ok"]

----------------------------------------------------------------------------
(* The client.                                                             *)

\* Mutant of latch_ids: the gates that have windows.
ScheduledLatchIds(e) ==
    LET schedule == GetOr(e, "schedule", NoFields)
    IN  {schedule[i].gate : i \in DOMAIN schedule}

\* latch_ids: the gates that may be opened, with windows or without.
latch_ids(e) == GetOr(e, "eligible_latches", {})

\* GuestViewEntry.from_dict
GuestViewEntry(d) ==
    LET e == Unwrap(d, "guest_view_entry")
    IN  [allowed |-> Bool(Get(e, "allowed", None)),
         latch_ids |-> latch_ids(e),
         schedule |-> GetOr(e, "schedule", NoFields),
         created |-> GetOr(d, "created_schedule_ids", {}),
         removed |-> Get(d, "removed_schedule_id", None),
         simulated |-> Get(d, "result", None) = "simulated"]

EntryView(e) == GuestViewEntry(EntryEnvelope(e, {}, None))

\* The four writes.  A set of gates is put together as the docs ask for:
\* read, change one gate, send the whole set back.
set_enabled(allowed) ==
    [op |-> "set_guest_view_entry_enabled", allowed |-> allowed, creates |-> 0]
set_latches(gates, gate) ==
    [op |-> "set_guest_view_entry_latches", latch_ids |-> gates, gate |-> gate,
     creates |-> 0]
add_schedule(gates, hours) ==
    [op |-> "add_guest_view_entry_schedule", latch_ids |-> gates,
     hours |-> hours, creates |-> Cardinality(gates)]
remove_schedule(id) ==
    [op |-> "remove_guest_view_entry_schedule", schedule_id |-> id,
     creates |-> 0]

GuestEntryCalls ==
    {set_enabled(a) : a \in BOOLEAN \cup {Truthy}}
      \cup {set_latches(gates, g) : gates \in SUBSET Gates, g \in Gates}
      \cup {add_schedule(gates, h) : gates \in (SUBSET Gates) \ {{}}, h \in Hours}
      \cup {remove_schedule(i) : i \in EntryIds}

GuestEntryOffered(v, c) ==
    CASE c.op = "set_guest_view_entry_latches" ->
           c.latch_ids \in {v.latch_ids \cup {c.gate}, v.latch_ids \ {c.gate}}
      [] c.op = "remove_guest_view_entry_schedule" ->
           c.schedule_id \in DOMAIN v.schedule
      [] OTHER -> TRUE

\* The builders.
GuestEntryRequest(c) ==
    CASE c.op = "set_guest_view_entry_enabled" ->
           [path |-> "guest-view-entry", json |-> [allowed |-> Bool(c.allowed)]]
      [] c.op = "set_guest_view_entry_latches" ->
           [path |-> "eligible-latches", json |-> [latch_ids |-> c.latch_ids]]
      [] c.op = "add_guest_view_entry_schedule" ->
           [path |-> "schedule",
            json |-> [latch_ids |-> c.latch_ids, hours |-> c.hours]]
      [] c.op = "remove_guest_view_entry_schedule" ->
           [path |-> "schedule/id", id |-> c.schedule_id, json |-> NoFields]

----------------------------------------------------------------------------
(* The server (external, from what the docstrings promise).                *)

SetLatches(e, gates) ==
    [e EXCEPT !.eligible = gates,
              !.windows = [i \in EntryIds |->
                 IF i \in Live(@) /\ @[i].gate \notin gates THEN Gone ELSE @[i]]]

\* One window for each gate, in any order of the gates.
NewWindows(e, gates, hours) ==
    CHOOSE f \in [gates -> Unused(e.windows)] :
        \A g, h \in gates : g # h => f[g] # f[h]

AddWindows(e, new, hours) ==
    [e EXCEPT !.windows = [i \in EntryIds |->
        IF \E g \in DOMAIN new : new[g] = i
        THEN [gate |-> CHOOSE g \in DOMAIN new : new[g] = i, hours |-> hours]
        ELSE @[i]]]

GuestEntryServe(e, r) ==
    LET Settings(to, created, removed) ==
          Says(to, 200, EntryEnvelope(to, created, removed))
    IN
    CASE r.path = "guest-view-entry" ->
           Settings([e EXCEPT !.allowed = r.json.allowed], {}, None)
      [] r.path = "eligible-latches" ->
           IF e.allowed THEN Settings(SetLatches(e, r.json.latch_ids), {}, None)
           ELSE Refuses(e, 403, "guest_view_entry_disabled")
      [] r.path = "schedule" ->
           IF Cardinality(Unused(e.windows)) < Cardinality(r.json.latch_ids)
           THEN Refuses(e, 422, "bound")
           ELSE LET new == NewWindows(e, r.json.latch_ids, r.json.hours)
                IN  Settings(AddWindows(e, new, r.json.hours),
                             {new[g] : g \in DOMAIN new}, None)
      [] r.path = "schedule/id" ->
           IF r.id \in Live(e.windows)
           THEN Settings([e EXCEPT !.windows[r.id] = Gone], {}, r.id)
           ELSE Refuses(e, 404, "not_found")

----------------------------------------------------------------------------
(* What the properties ask of this family.                                 *)

WindowsOf(e, g) == {i \in Live(e.windows) : e.windows[i].gate = g}

\* What a visitor may do at gate g: never, at any hour, or in these hours.
Access(e, g) ==
    CASE ~e.allowed \/ g \notin e.eligible -> {}
      [] e.allowed /\ g \in e.eligible /\ WindowsOf(e, g) = {} -> Hours
      [] OTHER -> {e.windows[i].hours : i \in WindowsOf(e, g)}

GuestEntryRepeatable(c) == c.op # "add_guest_view_entry_schedule"

GuestEntryWithin(c, e, f) ==
    /\ c.op # "set_guest_view_entry_enabled" => f.allowed = e.allowed
    /\ c.op # "set_guest_view_entry_latches" => f.eligible = e.eligible
    /\ c.op = "set_guest_view_entry_enabled" => f.windows = e.windows
    /\ c.op = "set_guest_view_entry_latches" =>
         \A g \in c.latch_ids : WindowsOf(f, g) = WindowsOf(e, g)
    /\ c.op = "add_guest_view_entry_schedule" =>
         \A i \in EntryIds : e.windows[i] # f.windows[i] =>
             /\ i \in Unused(e.windows)
             /\ f.windows[i].gate \in c.latch_ids
    /\ c.op = "remove_guest_view_entry_schedule" =>
         \A i \in EntryIds \ {c.schedule_id} : f.windows[i] = e.windows[i]

\* A gate that the caller did not mean to change lets in whom it let in.
GuestEntryMeant(c, e, f) ==
    /\ c.op = "set_guest_view_entry_enabled" => f.allowed = Bool(c.allowed)
    /\ c.op = "set_guest_view_entry_latches" =>
         /\ \A g \in Gates \ {c.gate} : Access(f, g) = Access(e, g)
         /\ c.gate \in f.eligible <=> c.gate \in c.latch_ids
    /\ c.op = "add_guest_view_entry_schedule" =>
         \A g \in c.latch_ids : \E i \in WindowsOf(f, g) :
             f.windows[i].hours = c.hours
    /\ c.op = "remove_guest_view_entry_schedule" =>
         WindowsOf(f, e.windows[c.schedule_id].gate) =
           WindowsOf(e, e.windows[c.schedule_id].gate) \ {c.schedule_id}

GuestEntryHonest(r, e, f, alone) ==
    /\ r.raised = None =>
         /\ r.result.allowed = f.allowed
         /\ r.result.latch_ids = f.eligible
         /\ DOMAIN r.result.schedule = Live(f.windows)
         /\ \A i \in Live(f.windows) : r.result.schedule[i] = f.windows[i]
         /\ r.result.created \subseteq Live(f.windows)
         /\ r.result.created # {} <=> r.call.creates > 0
         /\ r.call.op = "remove_guest_view_entry_schedule" =>
              r.result.removed = r.call.schedule_id
    /\ r.raised = "NotFoundError" => r.call.schedule_id \notin Live(f.windows)
=============================================================================
