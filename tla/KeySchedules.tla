---------------------------- MODULE KeySchedules ----------------------------
(***************************************************************************)
(* The access schedule of a community key: weekly windows, some of which   *)
(* have a range of dates that is over.  A PUT replaces the whole schedule  *)
(* by windows that consist of days and times alone.                        *)
(***************************************************************************)
EXTENDS WireFormat

CONSTANTS WeeklyHours  \* days and times of a window

\* over: the window's range of dates has passed.  No windows: no restriction.
KeyWindows == [hours : WeeklyHours, over : BOOLEAN]
Schedules == [windows : SUBSET KeyWindows, enabled : BOOLEAN]

\* A list of windows, even an empty one, is not null.
ASSUME WindowsAssumption == \A windows \in SUBSET KeyWindows : windows # None

KeyScheduleStart == Schedules

InForce(k) == {w \in k.windows : ~w.over}
Restricted(k) == k.windows # {} /\ k.enabled
Blocked(k) == k.windows # {} /\ ~k.enabled

----------------------------------------------------------------------------
(* The client.                                                             *)

\* ScheduleWindow.to_payload: what a window is sent back as.
to_payload(w) == w.hours

\* KeySchedule.from_dict
KeySchedule(d) ==
    [restricted |-> Bool(Get(d, "restricted", None)),
     permanently_blocked |-> Bool(Get(d, "permanently_blocked", None)),
     windows |-> GetOr(d, "windows", {}),
     inactive |-> GetOr(d, "inactive_window_count", 0),
     simulated |-> Get(d, "result", None) = "simulated"]

\* A schedule as it is given: windows that were read, one added or one left out.
set_schedule(windows, hours) ==
    [op |-> "set_key_schedule", windows |-> windows, hours |-> hours,
     creates |-> 0]

KeyScheduleCalls ==
    {set_schedule(ws, h) : ws \in SUBSET KeyWindows, h \in WeeklyHours}

NewWindow(hours) == [hours |-> hours, over |-> FALSE]

\* Read, change and send back what key_schedule returned: every window.
KeyScheduleOffered(v, c) ==
    c.windows \in {v.windows \cup {NewWindow(c.hours)},
                   {w \in v.windows : w.hours # c.hours}}

KeyScheduleRequest(c) ==
    [path |-> "keys/schedule",
     json |-> [windows |-> {to_payload(w) : w \in c.windows}]]

----------------------------------------------------------------------------
(* The server (external).                                                  *)

KeyScheduleFields(k) ==
    [restricted |-> Restricted(k), permanently_blocked |-> Blocked(k),
     windows |-> k.windows, result |-> "ok"]

\* key_schedule, the single read; the list of key_schedules filters.
KeyScheduleView(k) == KeySchedule(KeyScheduleFields(k))
KeyScheduleRow(k) ==
    KeySchedule([KeyScheduleFields(k) EXCEPT !.windows = InForce(k)])

KeyScheduleServe(k, r) ==
    LET to == [k EXCEPT !.windows = {NewWindow(h) : h \in r.json.windows},
                        !.enabled = TRUE]
    IN  Says(to, 200, KeyScheduleFields(to))

----------------------------------------------------------------------------
(* What the properties ask of this family.                                 *)

\* When a member may open: nobody is let in by a blocked key, anybody at any
\* hour by a key without windows.
OpenHours(k) ==
    CASE k.windows = {} -> WeeklyHours
      [] Blocked(k) -> {}
      [] Restricted(k) -> {w.hours : w \in InForce(k)}

\* A PUT names the whole schedule, and takes effect: a key that was blocked
\* by a schedule switched off is so no longer.
KeyScheduleWithin(c, k, f) == f # k => f.enabled

\* Windows that are over must not come back to life with an edit of another.
KeepsHours(c, k, f) ==
    \A h \in WeeklyHours \ {c.hours} :
        (\E w \in InForce(k) : w.hours = h) <=> (\E w \in InForce(f) : w.hours = h)

\* Edits of a schedule that has no window of the past.
KeyScheduleMeant(c, k, f) ==
    /\ (k.windows = InForce(k)) => KeepsHours(c, k, f)
    /\ (\E w \in InForce(f) : w.hours = c.hours)
         <=> (\E w \in c.windows : w.hours = c.hours)

KeyScheduleHonest(r, k, f, alone) ==
    r.raised = None =>
        /\ r.result.windows = f.windows
        /\ ~r.result.permanently_blocked
        /\ r.result.restricted <=> OpenHours(f) # WeeklyHours \/ f.windows # {}
=============================================================================
