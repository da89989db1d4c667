--------------------------- MODULE CommunityAdmin ---------------------------
(***************************************************************************)
(* The methods of client.community that change something, one family after *)
(* another, as the calls of ManagerCalls.  A behaviour is about one family:*)
(* no method of one touches what another is about.                         *)
(***************************************************************************)
EXTENDS ManagerCalls, GuestEntry, AccessCodes, NfcTags, ShortCodes,
        KeySchedules, HoldOpens, Roster, Homes, GuestLinks, Notifications,
        ConfigEdits

ConfigScenes == {"settings", "keys", "lines", "fence"}
AdminScenes == {"entry", "codes", "tags", "short", "schedule", "hold", "roster",
                "homes", "links", "alerts"} \cup ConfigScenes

AdminCommunities(s) ==
    CASE s = "entry" -> GuestEntries
      [] s = "codes" -> CodeBooks
      [] s = "tags" -> TagBoards
      [] s = "short" -> ShortBooks
      [] s = "schedule" -> Schedules
      [] s = "hold" -> Holds
      [] s = "roster" -> Rosters
      [] s = "homes" -> Units
      [] s = "links" -> LinkBooks
      [] s = "alerts" -> Alerts
      [] s = "settings" -> Settings
      [] s = "keys" -> Keys
      [] s = "lines" -> SenseLines
      [] s = "fence" -> Fences

AdminStart(s) ==
    CASE s = "entry" -> GuestEntryStart
      [] s = "codes" -> AccessCodeStart
      [] s = "tags" -> NfcTagStart
      [] s = "short" -> ShortCodeStart
      [] s = "schedule" -> KeyScheduleStart
      [] s = "hold" -> HoldOpenStart
      [] s = "roster" -> RosterStart
      [] s = "homes" -> HomesStart
      [] s = "links" -> GuestLinkStart
      [] s = "alerts" -> NotificationStart
      [] s = "settings" -> SettingsStart
      [] s = "keys" -> KeyStart
      [] s = "lines" -> SenseLineStart
      [] s = "fence" -> GeofenceStart

AdminCalls(s) ==
    CASE s = "entry" -> GuestEntryCalls
      [] s = "codes" -> AccessCodeCalls
      [] s = "tags" -> NfcTagCalls
      [] s = "short" -> ShortCodeCalls
      [] s = "schedule" -> KeyScheduleCalls
      [] s = "hold" -> HoldOpenCalls
      [] s = "roster" -> RosterCalls
      [] s = "homes" -> HomeCalls
      [] s = "links" -> GuestLinkCalls
      [] s = "alerts" -> NotificationCalls
      [] s = "settings" -> SettingsCalls
      [] s = "keys" -> KeyCalls
      [] s = "lines" -> SenseLineCalls
      [] s = "fence" -> GeofenceCalls

\* Identifiers are those a manager has learned; the rest is known by name.
AdminOffered(s, v, c) ==
    CASE s = "entry" -> GuestEntryOffered(v, c)
      [] s = "codes" -> AccessCodeOffered(v, c)
      [] s = "tags" -> NfcTagOffered(v, c)
      [] s = "short" -> ShortCodeOffered(v, c)
      [] s = "schedule" -> KeyScheduleOffered(v, c)
      [] s = "hold" -> HoldOpenOffered(v, c)
      [] s = "homes" -> HomesOffered(v, c)
      [] s = "links" -> GuestLinkOffered(v, c)
      [] s = "alerts" -> NotificationOffered(v, c)
      [] OTHER -> TRUE

AdminRequest(s, c) ==
    CASE s = "entry" -> GuestEntryRequest(c)
      [] s = "codes" -> AccessCodeRequest(c)
      [] s = "tags" -> NfcTagRequest(c)
      [] s = "short" -> ShortCodeRequest(c)
      [] s = "schedule" -> KeyScheduleRequest(c)
      [] s = "hold" -> HoldOpenRequest(c)
      [] s = "roster" -> RosterRequest(c)
      [] s = "homes" -> HomesRequest(c)
      [] s = "links" -> GuestLinkRequest(c)
      [] s = "alerts" -> NotificationRequest(c)
      [] s \in ConfigScenes -> ConfigRequest(c)

LiveServe(s, o, r) ==
    CASE s = "entry" -> GuestEntryServe(o, r)
      [] s = "codes" -> AccessCodeServe(o, r)
      [] s = "tags" -> NfcTagServe(o, r)
      [] s = "short" -> ShortCodeServe(o, r)
      [] s = "schedule" -> KeyScheduleServe(o, r)
      [] s = "hold" -> HoldOpenServe(o, r)
      [] s = "roster" -> RosterServe(o, r)
      [] s = "homes" -> HomesServe(o, r)
      [] s = "links" -> GuestLinkServe(o, r)
      [] s = "alerts" -> NotificationServe(o, r)
      [] s \in ConfigScenes -> ConfigServe(o, r)

\* What a test key's answer says, where it says more than that.
Simulated(s, o, r) ==
    CASE s = "codes" -> AccessCodeSimulated(o, r)
      [] s = "roster" /\ r.path \in BulkOps ->
            [RosterServe(o, r).body EXCEPT !.simulated = TRUE]
      [] s = "homes" -> HomesSimulated(o, r)
      [] s = "alerts" -> NotificationSimulated(o, r)
      [] s \in ConfigScenes -> ConfigSimulated(o, r)
      [] OTHER -> [result |-> "simulated"]

\* With a test key everything is validated and nothing is done.
AdminServe(s, o, r, mode) ==
    LET a == LiveServe(s, o, r)
    IN  IF mode = "live" THEN a
        ELSE IF a.status \notin 200..299 THEN Says(o, a.status, a.body)
        ELSE Says(o, a.status, Simulated(s, o, r))

AdminView(s, o) ==
    CASE s = "entry" -> EntryView(o)
      [] s = "codes" -> AccessCodeView(o)
      [] s = "tags" -> NfcTagView(o)
      [] s = "short" -> ShortCodeView(o)
      [] s = "schedule" -> KeyScheduleView(o)
      [] s = "hold" -> HoldOpenView(o)
      [] s = "roster" -> RosterView(o)
      [] s = "homes" -> HomesView(o)
      [] s = "links" -> GuestLinkView(o)
      [] s = "alerts" -> NotificationView(o)
      [] s = "settings" -> SettingsView(o)
      [] s = "keys" -> o
      [] s = "lines" -> SenseLineView(o)
      [] s = "fence" -> GeofenceView(o)

AdminResult(s, c, d) ==
    CASE s = "entry" -> GuestViewEntry(d)
      [] s = "codes" -> AccessCodeResult(c, d)
      [] s = "tags" -> NfcTag(d)
      [] s = "short" -> ShortCode(d)
      [] s = "schedule" -> KeySchedule(d)
      [] s = "hold" -> HoldOpenResult(c, d)
      [] s = "roster" -> RosterResult(c, d)
      [] s = "homes" -> HomesResult(c, d)
      [] s = "links" -> GuestLink(d)
      [] s = "alerts" -> NotificationSettings(d)
      [] s \in ConfigScenes -> ConfigResult(c, d)

\* Three families answer a write with all that their reads return.
AdminLearn(s, v, c, result) ==
    CASE ~result.simulated /\ s = "entry" ->
           [result EXCEPT !.created = {}, !.removed = None]
      [] ~result.simulated /\ s = "schedule" -> result
      [] ~result.simulated /\ s = "alerts" -> [v EXCEPT ![c.owner] = result]
      [] OTHER -> v

\* Calls that may be sent again: all that set something, and those that create
\* what is named or owned by the caller.
AdminRepeatable(s, c) ==
    CASE s = "entry" -> GuestEntryRepeatable(c)
      [] s = "codes" -> AccessCodeRepeatable(c)
      [] s = "short" -> ShortCodeRepeatable(c)
      [] s = "links" -> GuestLinkRepeatable(c)
      [] s = "alerts" -> NotificationRepeatable(c)
      [] OTHER -> c.creates = 0

Created(slots) == Cardinality({i \in DOMAIN slots : slots[i] # Never})

AdminThings(s, o) ==
    CASE s = "entry" -> Created(o.windows)
      [] s = "codes" -> Created(o.codes)
      [] s = "short" -> Cardinality(Ours(o))
      [] s = "hold" -> Created(o.events) + Created(o.weekly)
      [] s = "homes" -> Created(o.homes)
      [] s = "links" -> Created(o.links)
      [] s = "alerts" -> Created(o.quiet)
      [] OTHER -> 0

AdminWithin(s, c, o, f) ==
    CASE s = "entry" -> GuestEntryWithin(c, o, f)
      [] s = "codes" -> AccessCodeWithin(c, o, f)
      [] s = "tags" -> NfcTagWithin(c, o, f)
      [] s = "short" -> ShortCodeWithin(c, o, f)
      [] s = "schedule" -> KeyScheduleWithin(c, o, f)
      [] s = "hold" -> HoldOpenWithin(c, o, f)
      [] s = "roster" -> RosterWithin(c, o, f)
      [] s = "homes" -> HomesWithin(c, o, f)
      [] s = "links" -> GuestLinkWithin(c, o, f)
      [] s = "alerts" -> NotificationWithin(c, o, f)
      [] s \in ConfigScenes -> ConfigWithin(c, o, f)

AdminMeant(s, c, o, f) ==
    CASE s = "entry" -> GuestEntryMeant(c, o, f)
      [] s = "codes" -> AccessCodeMeant(c, o, f)
      [] s = "tags" -> NfcTagMeant(c, o, f)
      [] s = "short" -> ShortCodeMeant(c, o, f)
      [] s = "schedule" -> KeyScheduleMeant(c, o, f)
      [] s = "hold" -> HoldOpenMeant(c, o, f)
      [] s = "roster" -> RosterMeant(c, o, f)
      [] s = "homes" -> HomesMeant(c, o, f)
      [] s = "links" -> GuestLinkMeant(c, o, f)
      [] s = "alerts" -> NotificationMeant(c, o, f)
      [] s \in ConfigScenes -> ConfigMeant(c, o, f)

AdminHarms(s, o, f) ==
    CASE s = "codes" -> AccessCodeHarms(o, f)
      [] s = "tags" -> NfcTagHarms(o, f)
      [] OTHER -> FALSE

AdminHonest(s, r, o, f, alone) ==
    CASE s = "entry" -> GuestEntryHonest(r, o, f, alone)
      [] s = "codes" -> AccessCodeHonest(r, o, f, alone)
      [] s = "tags" -> NfcTagHonest(r, o, f, alone)
      [] s = "short" -> ShortCodeHonest(r, o, f, alone)
      [] s = "schedule" -> KeyScheduleHonest(r, o, f, alone)
      [] s = "hold" -> HoldOpenHonest(r, o, f, alone)
      [] s = "roster" -> RosterHonest(r, o, f, alone)
      [] s = "homes" -> HomesHonest(r, o, f, alone)
      [] s = "links" -> GuestLinkHonest(r, o, f, alone)
      [] s = "alerts" -> NotificationHonest(r, o, f, alone)
      [] s \in ConfigScenes -> ConfigHonest(r, o, f, alone)

\* Of a result that says "this was so already": it was, before the call.
AdminDenied(s, r, o) ==
    CASE s = "codes" -> AccessCodeDenied(r, o)
      [] s = "roster" -> RosterDenied(r, o)
      [] s = "hold" -> HoldOpenDenied(r, o)
      [] OTHER -> TRUE

AdminPreviews(s, r, o, f) ==
    CASE s = "codes" -> AccessCodePreviews(r, o, f)
      [] s = "roster" -> RosterPreviews(r, o, f)
      [] s = "homes" -> HomesPreviews(r, o, f)
      [] OTHER -> TRUE

\* The constants of ManagerCalls are the families, for every single request.
ASSUME AdminAssumption ==
    \A s \in Scenes : \A o \in Communities(s) :
        /\ s \in AdminScenes
        /\ o \in AdminCommunities(s)
        /\ o \in Start(s) => o \in AdminStart(s)
        /\ View(s, o) = AdminView(s, o)
        /\ \A c \in Calls(s) :
             /\ c \in AdminCalls(s)
             /\ Offered(s, View(s, o), c) => AdminOffered(s, AdminView(s, o), c)
             /\ Repeatable(s, c) <=> AdminRepeatable(s, c)
             /\ \A mode \in KeyModes :
                  LET a == Serve(s, o, Request(s, c), mode)
                  IN  /\ a = AdminServe(s, o, AdminRequest(s, c), mode)
                      /\ a.status \in 200..299 =>
                           Result(s, c, a.body) = AdminResult(s, c, a.body)

----------------------------------------------------------------------------
(* Properties.                                                             *)

\* The community changes under somebody's call only, and only in what the call
\* names.
OnlyWhatWasNamed ==
    [][community' # community =>
         \E m \in Managers :
            Advances(m) /\ AdminWithin(scene, call[m], community, community')]_vars

\* What the API asks to have confirmed happens under a literal True alone.
HarmNeedsTrue ==
    [][AdminHarms(scene, community, community') =>
         \E m \in Managers :
            /\ Advances(m)
            /\ "confirm" \in DOMAIN call[m]
            /\ IsTrue(call[m].confirm)]_vars

\* A call made from up-to-date knowledge, undisturbed, does what its caller
\* had in mind: a set that is read, modified and sent back loses nothing.
EditsDoWhatIsMeant ==
    returned # NoReturn /\ Undisturbed(returned) /\ Succeeded(returned)
      /\ returned.trace.fresh /\ key[returned.by] = "live" =>
        AdminMeant(scene, returned.call, returned.trace.before, community)

\* The result of a live call is true of the community it leaves, and, if nobody
\* came between its attempts, it tells what the call did as far as its last
\* request did it: a mode switch, a bulk add or a removal that was applied again
\* reports that it found its work done.  No result claims what was not done.
ResultsAreTrue ==
    returned # NoReturn /\ Applied(returned) /\ key[returned.by] = "live" =>
        AdminHonest(scene, returned, returned.trace.before, community, Undisturbed(returned))

\* What the docs of the results say of such a report: a mode switch with
\* changed = False did nothing, a member who is already_member was one before,
\* an event that was not removed was gone before.
DenialsAreTrue ==
    returned # NoReturn /\ Undisturbed(returned) /\ Succeeded(returned)
      /\ key[returned.by] = "live" =>
        AdminDenied(scene, returned, returned.trace.before)

\* What a test key reports is what a live key would have done.
PreviewsAreTrue ==
    returned # NoReturn /\ Succeeded(returned) /\ returned.result.simulated
      /\ key[returned.by] = "test" =>
        AdminPreviews(scene, returned, community,
                 Serve(scene, community, Request(scene, returned.call), "live").to)

\* What the docs of key_schedule and set_key_schedule promise: a schedule that
\* is read, edited and sent back keeps every window that the edit is not about
\* ("so callers can round-trip what a read returned without converting").
RoundTripsLoseNothing ==
    scene = "schedule" /\ returned # NoReturn /\ Undisturbed(returned)
      /\ Succeeded(returned) /\ returned.trace.fresh /\ key[returned.by] = "live" =>
        KeepsHours(returned.call, returned.trace.before, community)
=============================================================================
