--------------------------- MODULE Notifications ---------------------------
(***************************************************************************)
(* The member-open alerts of the manager who owns the API key: a switch    *)
(* and quiet hours.  Every manager of the community has settings of his    *)
(* own behind the same four paths.                                         *)
(***************************************************************************)
EXTENDS WireFormat

CONSTANTS Owners,    \* the managers, by the key that is used
          MaxQuietId,\* bound: the quiet_hours ids the server can assign
          Nights     \* windows of quiet hours

ASSUME QuietAssumption == MaxQuietId \in Nat
ASSUME NightAssumption == None \notin Nights

QuietIds == 1..MaxQuietId
QuietRows == [owner : Owners, times : Nights \cup {None}]
Alerts == [available : BOOLEAN,
           enabled : [Owners -> BOOLEAN],
           quiet : [QuietIds -> QuietRows \cup {Never, Gone}]]

\* A place for a window may be empty, and windows are not null.
ASSUME QuietRowAssumption ==
    /\ \A row \in QuietRows : row \notin {Never, Gone}
    /\ \A ids \in SUBSET QuietIds :
         \A rows \in [ids -> [times : Nights \cup {None}]] : rows # None

\* Somebody has a window.
NotificationStart ==
    {a \in Alerts : /\ Live(a.quiet) = {1} /\ Unused(a.quiet) = QuietIds \ {1}
                    /\ a.quiet[1].times = None
                    /\ \A o \in Owners : a.enabled[o] = a.available}

Mine(a, o) == {i \in Live(a.quiet) : a.quiet[i].owner = o}

----------------------------------------------------------------------------
(* The client.                                                             *)

\* QuietHours.from_dict, .all_day
QuietHours(d) == [times |-> Get(d, "times", None),
                  all_day |-> Get(d, "times", None) = None]

\* NotificationSettings.from_dict
NotificationSettings(d) ==
    LET quiet == GetOr(d, "quiet_hours", NoFields)
    IN  [enabled |-> Bool(Get(d, "enabled", None)),
         feature_available |-> Bool(Get(d, "feature_available", None)),
         quiet_hours |-> [i \in DOMAIN quiet |-> QuietHours(quiet[i])],
         simulated |-> Get(d, "result", None) = "simulated"]

set_enabled_for(o, enabled) ==
    [op |-> "set_my_notifications_enabled", owner |-> o, enabled |-> enabled,
     creates |-> 0]
add_quiet_hours(o, times) ==
    [op |-> "add_quiet_hours", owner |-> o, times |-> times, creates |-> 1]
remove_quiet_hours(o, i) ==
    [op |-> "remove_quiet_hours", owner |-> o, id |-> i, creates |-> 0]

NotificationCalls ==
    {set_enabled_for(o, on) : o \in Owners, on \in BOOLEAN \cup {Truthy}}
      \cup {add_quiet_hours(o, t) : o \in Owners, t \in Nights \cup {None}}
      \cup {remove_quiet_hours(o, i) : o \in Owners, i \in QuietIds}

\* An id of another manager's window may be tried.
NotificationOffered(v, c) ==
    c.op = "remove_quiet_hours" =>
        \E o \in Owners : c.id \in DOMAIN v[o].quiet_hours

NotificationRequest(c) ==
    CASE c.op = "set_my_notifications_enabled" ->
           [path |-> "alerts", owner |-> c.owner,
            json |-> [enabled |-> Bool(c.enabled)]]
      [] c.op = "add_quiet_hours" ->
           [path |-> "quiet-hours", owner |-> c.owner,
            json |-> Body([days |-> "SU"], [times |-> c.times])]
      [] c.op = "remove_quiet_hours" ->
           [path |-> "quiet-hours/id", owner |-> c.owner, id |-> c.id,
            json |-> NoFields]

----------------------------------------------------------------------------
(* The server (external).                                                  *)

NotificationFields(a, o) ==
    [result |-> "ok", enabled |-> a.enabled[o], feature_available |-> a.available,
     quiet_hours |-> [i \in Mine(a, o) |-> [times |-> a.quiet[i].times]]]

NotificationView(a) ==
    [o \in Owners |-> NotificationSettings(NotificationFields(a, o))]

NotificationServe(a, r) ==
    LET Complete(to) == Says(to, 200, NotificationFields(to, r.owner))
    IN  CASE ~a.available -> Refuses(a, 403, "open_notifications_disabled")
          [] a.available /\ r.path = "alerts" ->
               Complete([a EXCEPT !.enabled[r.owner] = r.json.enabled])
          [] a.available /\ r.path = "quiet-hours" ->
               IF Unused(a.quiet) = {} THEN Refuses(a, 422, "bound")
               ELSE Complete([a EXCEPT !.quiet[NextUnused(a.quiet)] =
                                 [owner |-> r.owner,
                                  times |-> Get(r.json, "times", None)]])
          [] a.available /\ r.path = "quiet-hours/id" ->
               IF r.id \in Mine(a, r.owner)
               THEN Complete([a EXCEPT !.quiet[r.id] = Gone])
               ELSE Refuses(a, 404, "quiet_hours_not_found")

\* A test key is shown the settings as they are.
NotificationSimulated(a, r) ==
    [NotificationFields(a, r.owner) EXCEPT !.result = "simulated"]

----------------------------------------------------------------------------
(* What the properties ask of this family.                                 *)

NotificationRepeatable(c) == c.op # "add_quiet_hours"

\* One manager's key never changes another manager's alerts.
NotificationWithin(c, a, b) ==
    /\ b.available = a.available
    /\ \A o \in Owners \ {c.owner} :
         b.enabled[o] = a.enabled[o] /\ Mine(b, o) = Mine(a, o)
    /\ c.op # "set_my_notifications_enabled" => b.enabled = a.enabled
    /\ \A i \in QuietIds : b.quiet[i] # a.quiet[i] =>
         \/ c.op = "add_quiet_hours" /\ a.quiet[i] = Never
         \/ c.op = "remove_quiet_hours" /\ c.id = i

NotificationMeant(c, a, b) ==
    /\ c.op = "set_my_notifications_enabled" =>
         b.enabled[c.owner] = Bool(c.enabled)
    /\ c.op = "remove_quiet_hours" => c.id \notin Live(b.quiet)

\* Every answer is the complete settings object.
NotificationHonest(r, a, b, alone) ==
    LET o == r.call.owner
    IN  /\ r.raised = None =>
             /\ r.result.enabled = b.enabled[o]
             /\ DOMAIN r.result.quiet_hours = Mine(b, o)
             /\ \A i \in Mine(b, o) :
                  r.result.quiet_hours[i].times = b.quiet[i].times
        /\ r.raised = "NotFoundError" => r.call.id \notin Mine(b, o)
=============================================================================
