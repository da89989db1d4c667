----------------------------- MODULE ConfigEdits -----------------------------
(***************************************************************************)
(* Partial updates of the community's settings, of one of its keys, of a   *)
(* sense line and of a geofence.  A field that is left out stays as it is; *)
(* an edit with one bad value is refused as a whole.                       *)
(***************************************************************************)
EXTENDS WireFormat

CONSTANTS Boxes  \* each has an input with the number 1

Radii == {150, 300}  \* min_radius_meters is between 50 and these
Labels == {"custom", "renamed"}

\* Two of the settings: a terminology side's custom label and picker option.
SettingNames == {"option_id", "term_custom"}
ReadOnly == {"allow_hold_opens"}

\* Each is edited by a method of its own, the community is one of the four.
Settings == [settings : [SettingNames -> {"custom", None}],
             features : [ReadOnly -> BOOLEAN]]
Keys == [name : Labels, disabled : BOOLEAN]
SenseLines == [Boxes -> [online : BOOLEAN, data : BOOLEAN]]
Fences == [enabled : BOOLEAN, center : BOOLEAN, radius : Radii, located : BOOLEAN]

ASSUME SettingsAssumption ==
    /\ \A s \in [SettingNames -> {"custom", None}] : s # None
    /\ \A s \in [ReadOnly -> BOOLEAN] : s # None
    /\ \A names \in SUBSET SettingNames : names # None
ASSUME FenceAssumption ==
    /\ None \notin {"box", "gate"}
    /\ None \notin [enabled : BOOLEAN, radius_meters : Radii, center : {"gate", None}]
    /\ None \notin [enabled : BOOLEAN, radius : Radii, center : {"gate", None}]

Exclusive(s) == s["option_id"] = None \/ s["term_custom"] = None

SettingsStart ==
    {o \in Settings : o.settings["option_id"] = "custom"
                       /\ o.settings["term_custom"] = None}
KeyStart == {[name |-> "custom", disabled |-> FALSE]}
SenseLineStart == {[b \in Boxes |-> [online |-> TRUE, data |-> FALSE]]}
GeofenceStart ==
    {x \in Fences : ~x.enabled /\ ~x.center /\ x.radius = 150}

----------------------------------------------------------------------------
(* The client.                                                             *)

\* CommunitySettings.from_dict and .feature
CommunitySettings(d) ==
    [settings |-> GetOr(d, "settings", NoFields),
     read_only |-> GetOr(d, "read_only", NoFields),
     changed |-> GetOr(d, "changed", {}),
     simulated |-> Get(d, "result", None) = "simulated"]
feature(s, name) == Bool(Get(s.read_only, name, None))

\* KeyUpdateResult.from_dict: there is no key in a test key's answer.
KeyUpdateResult(d) ==
    [key |-> GetOr(d, "key", None),
     simulated |-> Get(d, "result", None) = "simulated"]

\* SenseLine.from_dict: reporting is computed when the server omits it.
SenseLine(d) ==
    LET online == Bool(Get(d, "sense_line_online", None))
        data == Bool(Get(d, "latch_data_online", None))
    IN  [box_id |-> Get(d, "box_id", None), sense_line_online |-> online,
         latch_data_online |-> data,
         reporting |-> Bool(Get(d, "reporting", online /\ data)),
         simulated |-> Get(d, "result", None) = "simulated"]

\* MapLatch.from_dict with its Geofence; .suggested_center
Geofence(d) == [enabled |-> Bool(Get(d, "enabled", None)),
                radius |-> Get(d, "radius_meters", None),
                center |-> Get(d, "center", None)]
MapLatch(d) ==
    LET latch == Unwrap(d, "latch")
        fence == GetOr(latch, "geofence", None)
    IN  [box_location |-> Get(latch, "box_location", None),
         geofence |-> IF fence = None THEN None ELSE Geofence(fence),
         simulated |-> Get(d, "result", None) = "simulated"]

\* Mutant of suggested_center: a geofence has a centre of its own.
OwnCenter(m) == IF m.geofence # None THEN m.geofence.center ELSE m.box_location

suggested_center(m) ==
    IF m.geofence # None /\ m.geofence.center # None THEN m.geofence.center
    ELSE m.box_location

update_settings(patch) ==
    [op |-> "update_settings", patch |-> patch, creates |-> 0]
update_key(name, disabled) ==
    [op |-> "update_key", name |-> name, disabled |-> disabled, creates |-> 0]
update_sense_line(b, online, data) ==
    [op |-> "update_sense_line", box_id |-> b, sense_line_online |-> online,
     latch_data_online |-> data, creates |-> 0]
update_geofence(enabled, latitude, longitude, radius) ==
    [op |-> "update_geofence", enabled |-> enabled, latitude |-> latitude,
     longitude |-> longitude, radius_meters |-> radius, creates |-> 0]

\* A read-only feature cannot be patched, alone or with others.
Patches ==
    (UNION {[names -> {"custom", None}] : names \in (SUBSET SettingNames) \ {{}}})
      \cup [ReadOnly -> {"custom"}] \cup [SettingNames \cup ReadOnly -> {None}]

SettingsCalls == {update_settings(patch) : patch \in Patches}
KeyCalls ==
    {update_key(n, d) : n \in {"renamed", None}, d \in BOOLEAN \cup {None, Truthy}}
SenseLineCalls ==
    {update_sense_line(b, on, data) : b \in Boxes, on \in BOOLEAN \cup {None},
                                      data \in BOOLEAN \cup {None}}
\* A fence is turned on, or left as it is.
Turns == {TRUE, None}
GeofenceCalls ==
    {c \in {update_geofence(on, lat, long, r) :
              on \in Turns, lat \in {1, None}, long \in {1, None},
              r \in {50, 300, None}} :
        /\ c.enabled = TRUE => c.radius_meters = None
        /\ c.latitude = None => c.longitude = None}

\* The disabled of a key is sent as it was given.
ConfigRequest(c) ==
    CASE c.op = "update_settings" ->
           [path |-> "settings", json |-> [settings |-> c.patch]]
      [] c.op = "update_key" ->
           [path |-> "keys/id",
            json |-> Body(NoFields, [name |-> c.name, disabled |-> c.disabled])]
      [] c.op = "update_sense_line" ->
           [path |-> "sense-lines/id", box_id |-> c.box_id,
            json |-> Body(NoFields, [sense_line_online |-> c.sense_line_online,
                                     latch_data_online |-> c.latch_data_online])]
      [] c.op = "update_geofence" ->
           [path |-> "latches/geofence",
            json |-> Body(NoFields, [enabled |-> c.enabled,
                                     latitude |-> c.latitude,
                                     longitude |-> c.longitude,
                                     radius_meters |-> c.radius_meters])]

ConfigResult(c, d) ==
    CASE c.op = "update_settings" -> CommunitySettings(d)
      [] c.op = "update_key" -> KeyUpdateResult(d)
      [] c.op = "update_sense_line" -> SenseLine(d)
      [] c.op = "update_geofence" -> MapLatch(d)

----------------------------------------------------------------------------
(* The server (external).                                                  *)

\* Of the settings, a key, the sense lines and a fence.
SettingsFields(o, changed) ==
    [result |-> "ok", settings |-> o.settings, read_only |-> o.features,
     changed |-> changed]
LineFields(o, b) ==
    [result |-> "ok", box_id |-> b, sense_line_online |-> o[b].online,
     latch_data_online |-> o[b].data, reporting |-> o[b].online /\ o[b].data]
Point(known, p) == IF known THEN p ELSE None
LatchFields(x) ==
    [result |-> "ok",
     latch |-> [box_location |-> Point(x.located, "box"),
                geofence |-> [enabled |-> x.enabled, radius_meters |-> x.radius,
                              center |-> Point(x.center, "gate")]]]

SettingsView(o) == CommunitySettings(SettingsFields(o, {}))
SenseLineView(o) == [b \in Boxes |-> SenseLine(LineFields(o, b))]
GeofenceView(x) == MapLatch(LatchFields(x))

\* To set one of a label and an option clears the other.
EditSettings(s, patch) ==
    [n \in SettingNames |->
        IF n \in DOMAIN patch THEN patch[n]
        ELSE IF \E k \in DOMAIN patch \cap SettingNames : patch[k] # None
        THEN None ELSE s[n]]

EditFence(x, json) ==
    [x EXCEPT !.enabled = Get(json, "enabled", @),
              !.center = @ \/ "latitude" \in DOMAIN json,
              !.radius = Get(json, "radius_meters", @)]

ConfigServe(o, r) ==
    CASE r.path = "settings" ->
           LET patch == r.json.settings
               to == [o EXCEPT !.settings = EditSettings(@, patch)]
           IN  IF ~(DOMAIN patch \subseteq SettingNames) \/ ~Exclusive(to.settings)
               THEN Refuses(o, 422, "invalid_setting")
               ELSE Says(to, 200, SettingsFields(to, DOMAIN patch))
      [] r.path = "keys/id" ->
           LET to == [name |-> Get(r.json, "name", o.name),
                      disabled |-> Get(r.json, "disabled", o.disabled)]
           IN  IF DOMAIN r.json = {} \/ Get(r.json, "disabled", FALSE) \notin BOOLEAN
               THEN Refuses(o, 422, "invalid")
               ELSE Says(to, 200, [result |-> "ok", key |-> to])
      [] r.path = "sense-lines/id" ->
           LET to == [o EXCEPT ![r.box_id] =
                        [online |-> Get(r.json, "sense_line_online", @.online),
                         data |-> Get(r.json, "latch_data_online", @.data)]]
           IN  IF DOMAIN r.json = {} THEN Refuses(o, 422, "no_fields")
               ELSE Says(to, 200, LineFields(to, r.box_id))
      [] r.path = "latches/geofence" ->
           LET to == EditFence(o, r.json)
           IN  IF DOMAIN r.json = {} THEN Refuses(o, 400, "nothing_to_update")
               ELSE IF \/ ("latitude" \in DOMAIN r.json) # ("longitude" \in DOMAIN r.json)
                       \/ to.radius \notin Radii
                       \/ to.enabled /\ ~(to.center \/ to.located)
               THEN Refuses(o, 422, "radius_below_minimum")
               ELSE Says(to, 200, LatchFields(to))

\* A test key is shown what stands; of a key, nothing at all.
ConfigSimulated(o, r) ==
    CASE r.path = "settings" ->
           [SettingsFields(o, {}) EXCEPT !.result = "simulated"]
      [] r.path = "keys/id" -> [result |-> "simulated"]
      [] r.path = "sense-lines/id" ->
           [LineFields(o, r.box_id) EXCEPT !.result = "simulated"]
      [] r.path = "latches/geofence" ->
           [LatchFields(o) EXCEPT !.result = "simulated"]

----------------------------------------------------------------------------
(* What the properties ask of this family.                                 *)

ConfigWithin(c, o, f) ==
    /\ c.op = "update_settings" => f.features = o.features
    /\ c.op = "update_key" =>
         /\ c.name = None => f.name = o.name
         /\ c.disabled = None => f.disabled = o.disabled
    /\ c.op = "update_sense_line" =>
         /\ \A b \in Boxes \ {c.box_id} : f[b] = o[b]
         /\ c.sense_line_online = None => f[c.box_id].online = o[c.box_id].online
         /\ c.latch_data_online = None => f[c.box_id].data = o[c.box_id].data
    /\ c.op = "update_geofence" =>
         /\ f.located = o.located
         /\ o.center => f.center
         /\ c.enabled = None => f.enabled = o.enabled
         /\ c.radius_meters = None => f.radius = o.radius

ConfigMeant(c, o, f) ==
    /\ c.op = "update_settings" =>
         \A n \in DOMAIN c.patch : f.settings[n] = c.patch[n]
    /\ c.op = "update_key" /\ c.disabled # None => f.disabled = c.disabled
    /\ c.op = "update_geofence" =>
         /\ c.enabled # None => f.enabled = c.enabled
         /\ c.radius_meters # None => f.radius = c.radius_meters

\* The answer to an edit is the thing as it now stands, and no fence is on
\* that has no centre to be drawn round.
ConfigHonest(r, o, f, alone) ==
    LET c == r.call
    IN
    /\ c.op = "update_settings" => Exclusive(f.settings)
    /\ r.raised = None /\ c.op = "update_settings" =>
         /\ r.result.settings = f.settings /\ r.result.changed = DOMAIN c.patch
         /\ \A n \in ReadOnly : feature(r.result, n) = f.features[n]
    /\ r.raised = None /\ c.op = "update_key" => r.result.key = f
    /\ r.raised = None /\ c.op = "update_sense_line" =>
         LET x == f[c.box_id]
         IN  r.result.reporting = (x.online /\ x.data)
    /\ r.raised = None /\ c.op = "update_geofence" =>
         /\ r.result.geofence.enabled = f.enabled
         /\ r.result.geofence.radius = f.radius
         /\ r.result.geofence.enabled => suggested_center(r.result) # None
=============================================================================
