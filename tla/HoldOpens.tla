------------------------------ MODULE HoldOpens ------------------------------
(***************************************************************************)
(* What holds one gate open: the manual switch, one-time windows, weekly   *)
(* schedules; and the date until which the schedules are suspended.        *)
(***************************************************************************)
EXTENDS WireFormat

CONSTANTS MaxEventId, \* bound: the ids of one-time windows
          MaxWeeklyId,\* bound: the ids of weekly schedules
          Days,       \* values of days_of_the_week
          Times       \* windows start_time..end_time; an all-day one is None

ASSUME HoldAssumption == MaxEventId \in Nat /\ MaxWeeklyId \in Nat
ASSUME DaysAssumption == None \notin Days /\ None \notin Times

EventIds == 1..MaxEventId
WeeklyIds == 1..MaxWeeklyId

Until == "2026-12-26 06:00"
Weekly == [days : Days, times : Times \cup {None}]
Holds == [manual : BOOLEAN, until : {None, Until},
          events : [EventIds -> {Never, Gone, TRUE}],
          weekly : [WeeklyIds -> Weekly \cup {Never, Gone}]]

\* A place for a window or a schedule may be empty, and is not null.
ASSUME HoldRowAssumption ==
    /\ TRUE \notin {Never, Gone} /\ None \notin WeeklyIds
    /\ \A days \in Days, times \in Times \cup {None} :
         [days |-> days, times |-> times] \notin {Never, Gone, None}

HoldOpenStart ==
    {h \in Holds : /\ ~h.manual /\ h.until = None
                   /\ Unused(h.events) = EventIds
                   /\ Live(h.weekly) = {1}
                   /\ Unused(h.weekly) = WeeklyIds \ {1}}

----------------------------------------------------------------------------
(* The client.                                                             *)

simulatedIn(d) == Get(d, "result", None) = "simulated"

\* HoldOpenLatch.from_dict
HoldOpenLatch(d) ==
    [manual |-> Bool(Get(d, "manual", None)),
     disabled_until |-> Get(d, "disabled_until", None),
     events |-> GetOr(d, "events", {}),
     recurring |-> GetOr(d, "recurring", NoFields)]

ManualHoldOpenResult(d) ==
    [manual |-> Get(d, "manual", None), simulated |-> simulatedIn(d)]
HoldOpenEventAdded(d) ==
    [event_id |-> Get(d, "event_id", None), simulated |-> simulatedIn(d)]
HoldOpenEventRemoved(d) ==
    [removed |-> Bool(Get(d, "removed", None)), simulated |-> simulatedIn(d)]
HoldOpenDisabledUntil(d) ==
    [disabled_until |-> Get(d, "disabled_until", None),
     simulated |-> simulatedIn(d)]

\* RecurringHoldOpen.from_dict: the id, or else the one inside the schedule.
RecurringHoldOpen(d) ==
    LET schedule == GetOr(d, "schedule", NoFields)
    IN  [id |-> GetOr(d, "temporal_date_id", Get(schedule, "temporal_date_id", None)),
         schedule |-> schedule,
         simulated |-> simulatedIn(d)]
RecurringHoldOpenRemoved(d) ==
    [removed |-> Bool(Get(d, "removed", None)),
     id |-> Get(d, "temporal_date_id", None), simulated |-> simulatedIn(d)]

set_hold_open(state) == [op |-> "set_hold_open", state |-> state, creates |-> 0]
add_event == [op |-> "add_hold_open_event", creates |-> 1]
remove_event(i) == [op |-> "remove_hold_open_event", id |-> i, creates |-> 0]
disabled_until(until) ==
    [op |-> "set_hold_open_disabled_until", until |-> until, creates |-> 0]
add_recurring(days, times) ==
    [op |-> "add_hold_open_recurring", days |-> days, times |-> times,
     creates |-> 1]
update_recurring(i, days, times, clear) ==
    [op |-> "update_hold_open_recurring", id |-> i, days |-> days,
     times |-> times, clear_times |-> clear, creates |-> 0]
remove_recurring(i) ==
    [op |-> "remove_hold_open_recurring", id |-> i, creates |-> 0]

\* clear_times
Clears == {TRUE, None}

HoldOpenCalls ==
    {set_hold_open(on) : on \in BOOLEAN \cup {Truthy}}
      \cup {add_event} \cup {remove_event(i) : i \in EventIds}
      \cup {disabled_until(u) : u \in {None, Until}}
      \cup {add_recurring(d, t) : d \in Days, t \in Times \cup {None}}
      \cup {update_recurring(i, d, None, None) : i \in WeeklyIds, d \in Days}
      \cup {update_recurring(i, None, t, clear) :
              i \in WeeklyIds, t \in Times \cup {None}, clear \in Clears}
      \cup {remove_recurring(i) : i \in WeeklyIds}

HoldOpenOffered(v, c) ==
    CASE c.op = "remove_hold_open_event" -> c.id \in v.events
      [] c.op \in {"update_hold_open_recurring", "remove_hold_open_recurring"} ->
           c.id \in DOMAIN v.recurring
      [] OTHER -> TRUE

\* start_time and end_time travel together here: one without the other is
\* refused.
HoldOpenRequest(c) ==
    CASE c.op = "set_hold_open" ->
           [path |-> "hold-open", json |-> [state |-> Bool(c.state)]]
      [] c.op = "add_hold_open_event" -> [path |-> "events", json |-> NoFields]
      [] c.op = "remove_hold_open_event" ->
           [path |-> "events/id", id |-> c.id, json |-> NoFields]
      [] c.op = "set_hold_open_disabled_until" ->
           [path |-> "disabled-until", json |-> [until |-> c.until]]
      [] c.op = "add_hold_open_recurring" ->
           [path |-> "recurring",
            json |-> Body([days |-> c.days], [times |-> c.times])]
      [] c.op = "update_hold_open_recurring" ->
           [path |-> "recurring/id", id |-> c.id,
            json |-> Body(NoFields, [days |-> c.days, times |-> c.times,
                                     clear_times |-> c.clear_times])]
      [] c.op = "remove_hold_open_recurring" ->
           [path |-> "recurring/delete", id |-> c.id, json |-> NoFields]

HoldOpenResult(c, d) ==
    CASE c.op = "set_hold_open" -> ManualHoldOpenResult(d)
      [] c.op = "add_hold_open_event" -> HoldOpenEventAdded(d)
      [] c.op = "remove_hold_open_event" -> HoldOpenEventRemoved(d)
      [] c.op = "set_hold_open_disabled_until" -> HoldOpenDisabledUntil(d)
      [] c.op \in {"add_hold_open_recurring", "update_hold_open_recurring"} ->
           RecurringHoldOpen(d)
      [] c.op = "remove_hold_open_recurring" -> RecurringHoldOpenRemoved(d)

----------------------------------------------------------------------------
(* The server (external).                                                  *)

HoldOpenView(h) ==
    HoldOpenLatch([manual |-> h.manual, disabled_until |-> h.until,
                   events |-> Live(h.events),
                   recurring |-> [i \in Live(h.weekly) |-> h.weekly[i]]])

EditWeekly(w, json) ==
    [days |-> Get(json, "days", w.days),
     times |-> IF Get(json, "clear_times", FALSE) THEN None
               ELSE Get(json, "times", w.times)]

HoldOpenServe(h, r) ==
    LET Scheduled(i, w) ==
          Says([h EXCEPT !.weekly[i] = w], 200,
               [result |-> "ok", temporal_date_id |-> i, schedule |-> w])
    IN
    CASE r.path = "hold-open" ->
           Says([h EXCEPT !.manual = r.json.state], 200,
                [result |-> "ok", manual |-> r.json.state])
      [] r.path = "events" ->
           IF Unused(h.events) = {} THEN Refuses(h, 422, "bound")
           ELSE LET i == NextUnused(h.events)
                IN  Says([h EXCEPT !.events[i] = TRUE], 200,
                         [result |-> "ok", event_id |-> i])
      [] r.path = "events/id" ->
           Says([h EXCEPT !.events[r.id] = IF @ = TRUE THEN Gone ELSE @], 200,
                [result |-> "ok", removed |-> r.id \in Live(h.events)])
      [] r.path = "disabled-until" ->
           IF "until" \notin DOMAIN r.json THEN Refuses(h, 400, "missing")
           ELSE Says([h EXCEPT !.until = r.json.until], 200,
                     [result |-> "ok", disabled_until |-> r.json.until])
      [] r.path = "recurring" ->
           IF Unused(h.weekly) = {} THEN Refuses(h, 422, "bound")
           ELSE Scheduled(NextUnused(h.weekly),
                          [days |-> r.json.days,
                           times |-> Get(r.json, "times", None)])
      [] r.path = "recurring/id" ->
           IF r.id \notin Live(h.weekly) THEN Refuses(h, 404, "not_found")
           ELSE IF DOMAIN r.json = {} THEN Refuses(h, 400, "empty_body")
           ELSE Scheduled(r.id, EditWeekly(h.weekly[r.id], r.json))
      [] r.path = "recurring/delete" ->
           IF r.id \notin Live(h.weekly) THEN Refuses(h, 404, "not_found")
           ELSE Says([h EXCEPT !.weekly[r.id] = Gone], 200,
                     [result |-> "ok", removed |-> TRUE, temporal_date_id |-> r.id])

----------------------------------------------------------------------------
(* What the properties ask of this family.                                 *)

HoldOpenWithin(c, h, f) ==
    /\ c.op # "set_hold_open" => f.manual = h.manual
    /\ c.op # "set_hold_open_disabled_until" => f.until = h.until
    /\ \A i \in EventIds : f.events[i] # h.events[i] =>
         \/ c.op = "add_hold_open_event" /\ h.events[i] = Never
         \/ c.op = "remove_hold_open_event" /\ c.id = i
    /\ \A i \in WeeklyIds : f.weekly[i] # h.weekly[i] =>
         \/ c.op = "add_hold_open_recurring" /\ h.weekly[i] = Never
         \/ c.op \in {"update_hold_open_recurring", "remove_hold_open_recurring"}
            /\ c.id = i
    /\ c.op = "update_hold_open_recurring" /\ c.id \in Live(h.weekly) =>
         /\ c.days = None => f.weekly[c.id].days = h.weekly[c.id].days
         /\ c.times = None /\ c.clear_times = None =>
              f.weekly[c.id].times = h.weekly[c.id].times

HoldOpenMeant(c, h, f) ==
    /\ c.op = "set_hold_open" => f.manual = Bool(c.state)
    /\ c.op = "set_hold_open_disabled_until" => f.until = c.until
    /\ c.op = "remove_hold_open_event" => c.id \notin Live(f.events)
    /\ c.op = "update_hold_open_recurring" =>
         /\ c.days # None => f.weekly[c.id].days = c.days
         /\ c.clear_times = TRUE => f.weekly[c.id].times = None
         /\ c.clear_times = None /\ c.times # None => f.weekly[c.id].times = c.times
    /\ c.op = "remove_hold_open_recurring" => c.id \notin Live(f.weekly)

\* A repeated removal of a window says removed = False though the call has
\* removed it; a repeated removal of a schedule raises NotFoundError.  Either
\* way what is to be removed is gone: no gate is held open behind the caller.
HoldOpenHonest(r, h, f, alone) ==
    LET c == r.call
    IN
    /\ r.raised = None =>
         /\ c.op = "set_hold_open" => r.result.manual = f.manual
         /\ c.op = "add_hold_open_event" => r.result.event_id \in Live(f.events)
         /\ c.op = "remove_hold_open_event" =>
              /\ c.id \notin Live(f.events)
              /\ alone => (r.result.removed
                             <=> r.trace.applied = 1 /\ c.id \in Live(h.events))
         /\ c.op = "set_hold_open_disabled_until" =>
              r.result.disabled_until = f.until
         /\ c.op \in {"add_hold_open_recurring", "update_hold_open_recurring"} =>
              f.weekly[r.result.id] = r.result.schedule
         /\ c.op = "remove_hold_open_recurring" => r.result.removed
    /\ c.op = "remove_hold_open_recurring" /\ r.raised \in {None, "NotFoundError"}
         => c.id \notin Live(f.weekly)

\* "removed is False on an idempotent re-remove (the window was already gone)"
\* (HoldOpenEventRemoved): it was gone before the call.
HoldOpenDenied(r, h) ==
    r.call.op = "remove_hold_open_event" /\ ~r.result.removed =>
        r.call.id \notin Live(h.events)
=============================================================================
