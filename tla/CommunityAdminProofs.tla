------------------------ MODULE CommunityAdminProofs ------------------------
(***************************************************************************)
(* What holds of every method of client.community under retries, refusals, *)
(* timeouts and other managers' calls: the lemmas of RequestProofs about   *)
(* one request and those of ManagerCallsProofs about the life of a call,   *)
(* put together, for every instance of the constants.                      *)
(***************************************************************************)
EXTENDS CommunityAdmin, ManagerCallsProofs, RequestProofs

----------------------------------------------------------------------------
(* One live request of any family.                                         *)

EntryAnswers(c, e, a) == a = GuestEntryServe(e, GuestEntryRequest(c))

\* The tables of RequestProofs, one family to a scene.
LiveAnswers(s, c, o, a) ==
    \/ /\ s = "entry" /\ o \in GuestEntries /\ c \in GuestEntryCalls
       /\ EntryAnswers(c, o, a)
    \/ s = "codes" /\ o \in CodeBooks /\ c \in AccessCodeCalls /\ CodeAnswers(c, o, a)
    \/ s = "tags" /\ o \in TagBoards /\ c \in NfcTagCalls /\ TagAnswers(c, o, a)
    \/ /\ s = "short" /\ o \in ShortBooks /\ c \in ShortCodeCalls
       /\ ShortAnswers(c, o, a)
    \/ /\ s = "schedule" /\ o \in Schedules /\ c \in KeyScheduleCalls
       /\ ScheduleAnswers(c, a)
    \/ s = "hold" /\ o \in Holds /\ c \in HoldOpenCalls /\ HoldAnswers(c, o, a)
    \/ s = "roster" /\ o \in Rosters /\ c \in RosterCalls /\ RosterAnswers(c, o, a)
    \/ s = "homes" /\ o \in Units /\ c \in HomeCalls /\ HomesAnswers(c, o, a)
    \/ s = "links" /\ o \in LinkBooks /\ c \in GuestLinkCalls /\ LinkAnswers(c, o, a)
    \/ /\ s = "alerts" /\ o \in Alerts /\ c \in NotificationCalls
       /\ AlertsAnswers(c, o, a)
    \/ /\ s = "settings" /\ o \in Settings /\ c \in SettingsCalls
       /\ SettingsAnswers(c, o, a)
    \/ s = "keys" /\ o \in Keys /\ c \in KeyCalls /\ KeyAnswers(c, o, a)
    \/ s = "lines" /\ o \in SenseLines /\ c \in SenseLineCalls /\ LineAnswers(c, o, a)
    \/ s = "fence" /\ o \in Fences /\ c \in GeofenceCalls /\ FenceAnswers(c, o, a)

\* What a live request is answered with is in its family's table.
LEMMA RequestAnswered ==
    ASSUME NEW s \in AdminScenes, NEW o \in AdminCommunities(s), NEW c \in AdminCalls(s),
           NEW a, a = LiveServe(s, o, AdminRequest(s, c))
    PROVE  LiveAnswers(s, c, o, a)
<1>1. CASE s = "entry"
  <2>1. o \in GuestEntries /\ c \in GuestEntryCalls
      BY <1>1 DEF AdminCommunities, AdminCalls
  <2>2. a = GuestEntryServe(o, GuestEntryRequest(c))
      BY <1>1 DEF LiveServe, AdminRequest, ConfigScenes
  <2> QED
      BY <1>1, <2>1, <2>2 DEF LiveAnswers, EntryAnswers
<1>2. CASE s = "codes"
  <2>1. o \in CodeBooks /\ c \in AccessCodeCalls
      BY <1>2 DEF AdminCommunities, AdminCalls
  <2>2. a = AccessCodeServe(o, AccessCodeRequest(c))
      BY <1>2 DEF LiveServe, AdminRequest, ConfigScenes
  <2> QED
      BY <1>2, <2>1, <2>2, CodeAnswer DEF LiveAnswers
<1>3. CASE s = "tags"
  <2>1. o \in TagBoards /\ c \in NfcTagCalls
      BY <1>3 DEF AdminCommunities, AdminCalls
  <2>2. a = NfcTagServe(o, NfcTagRequest(c))
      BY <1>3 DEF LiveServe, AdminRequest, ConfigScenes
  <2> QED
      BY <1>3, <2>1, <2>2, TagAnswer DEF LiveAnswers
<1>4. CASE s = "short"
  <2>1. o \in ShortBooks /\ c \in ShortCodeCalls
      BY <1>4 DEF AdminCommunities, AdminCalls
  <2>2. a = ShortCodeServe(o, ShortCodeRequest(c))
      BY <1>4 DEF LiveServe, AdminRequest, ConfigScenes
  <2> QED
      BY <1>4, <2>1, <2>2, ShortAnswer DEF LiveAnswers
<1>5. CASE s = "schedule"
  <2>1. o \in Schedules /\ c \in KeyScheduleCalls
      BY <1>5 DEF AdminCommunities, AdminCalls
  <2>2. a = KeyScheduleServe(o, KeyScheduleRequest(c))
      BY <1>5 DEF LiveServe, AdminRequest, ConfigScenes
  <2> QED
      BY <1>5, <2>1, <2>2, ScheduleAnswer DEF LiveAnswers
<1>6. CASE s = "hold"
  <2>1. o \in Holds /\ c \in HoldOpenCalls
      BY <1>6 DEF AdminCommunities, AdminCalls
  <2>2. a = HoldOpenServe(o, HoldOpenRequest(c))
      BY <1>6 DEF LiveServe, AdminRequest, ConfigScenes
  <2> QED
      BY <1>6, <2>1, <2>2, HoldAnswer DEF LiveAnswers
<1>7. CASE s = "roster"
  <2>1. o \in Rosters /\ c \in RosterCalls
      BY <1>7 DEF AdminCommunities, AdminCalls
  <2>2. a = RosterServe(o, RosterRequest(c))
      BY <1>7 DEF LiveServe, AdminRequest, ConfigScenes
  <2> QED
      BY <1>7, <2>1, <2>2, RosterAnswer DEF LiveAnswers
<1>8. CASE s = "homes"
  <2>1. o \in Units /\ c \in HomeCalls
      BY <1>8 DEF AdminCommunities, AdminCalls
  <2>2. a = HomesServe(o, HomesRequest(c))
      BY <1>8 DEF LiveServe, AdminRequest, ConfigScenes
  <2> QED
      BY <1>8, <2>1, <2>2, HomesAnswer DEF LiveAnswers
<1>9. CASE s = "links"
  <2>1. o \in LinkBooks /\ c \in GuestLinkCalls
      BY <1>9 DEF AdminCommunities, AdminCalls
  <2>2. a = GuestLinkServe(o, GuestLinkRequest(c))
      BY <1>9 DEF LiveServe, AdminRequest, ConfigScenes
  <2> QED
      BY <1>9, <2>1, <2>2, LinkAnswer DEF LiveAnswers
<1>10. CASE s = "alerts"
  <2>1. o \in Alerts /\ c \in NotificationCalls
      BY <1>10 DEF AdminCommunities, AdminCalls
  <2>2. a = NotificationServe(o, NotificationRequest(c))
      BY <1>10 DEF LiveServe, AdminRequest, ConfigScenes
  <2> QED
      BY <1>10, <2>1, <2>2, AlertsAnswer DEF LiveAnswers
<1>11. CASE s = "settings"
  <2>1. o \in Settings /\ c \in SettingsCalls
      BY <1>11 DEF AdminCommunities, AdminCalls
  <2>2. a = ConfigServe(o, ConfigRequest(c))
      BY <1>11 DEF LiveServe, AdminRequest, ConfigScenes
  <2> QED
      BY <1>11, <2>1, <2>2, SettingsAnswer DEF LiveAnswers
<1>12. CASE s = "keys"
  <2>1. o \in Keys /\ c \in KeyCalls
      BY <1>12 DEF AdminCommunities, AdminCalls
  <2>2. a = ConfigServe(o, ConfigRequest(c))
      BY <1>12 DEF LiveServe, AdminRequest, ConfigScenes
  <2> QED
      BY <1>12, <2>1, <2>2, KeyAnswer DEF LiveAnswers
<1>13. CASE s = "lines"
  <2>1. o \in SenseLines /\ c \in SenseLineCalls
      BY <1>13 DEF AdminCommunities, AdminCalls
  <2>2. a = ConfigServe(o, ConfigRequest(c))
      BY <1>13 DEF LiveServe, AdminRequest, ConfigScenes
  <2> QED
      BY <1>13, <2>1, <2>2, LineAnswer DEF LiveAnswers
<1>14. CASE s = "fence"
  <2>1. o \in Fences /\ c \in GeofenceCalls
      BY <1>14 DEF AdminCommunities, AdminCalls
  <2>2. a = ConfigServe(o, ConfigRequest(c))
      BY <1>14 DEF LiveServe, AdminRequest, ConfigScenes
  <2> QED
      BY <1>14, <2>1, <2>2, FenceAnswer DEF LiveAnswers
<1> QED
    BY <1>1, <1>2, <1>3, <1>4, <1>5, <1>6, <1>7, <1>8, <1>9, <1>10, <1>11, <1>12,
       <1>13, <1>14 DEF AdminScenes, ConfigScenes

\* A refusal changes nothing.
LEMMA RefusalsChangeNothing ==
    ASSUME NEW s, NEW c, NEW o, NEW a, LiveAnswers(s, c, o, a), a.status \notin 200..299
    PROVE  a.to = o
<1>1. CASE s = "entry"
    BY <1>1, EntryAnswer DEF LiveAnswers, EntryAnswers
<1>2. CASE s = "codes"
    BY <1>2 DEF LiveAnswers, CodeAnswers
<1>3. CASE s = "tags"
    BY <1>3 DEF LiveAnswers, TagAnswers
<1>4. CASE s = "short"
    BY <1>4, ShortRefused DEF LiveAnswers
<1>5. CASE s = "schedule"
    BY <1>5 DEF LiveAnswers, ScheduleAnswers
<1>6. CASE s = "hold"
    BY <1>6 DEF LiveAnswers, HoldAnswers, HoldRefused
<1>7. CASE s = "roster"
    BY <1>7 DEF LiveAnswers, RosterAnswers, RosterRefused
<1>8. CASE s = "homes"
    BY <1>8 DEF LiveAnswers, HomesAnswers, HomesRefused
<1>9. CASE s = "links"
    BY <1>9, LinkRefused DEF LiveAnswers
<1>10. CASE s = "alerts"
    BY <1>10 DEF LiveAnswers, AlertsAnswers, AlertsRefused
<1>11. CASE s = "settings"
    BY <1>11 DEF LiveAnswers, SettingsAnswers
<1>12. CASE s = "keys"
    BY <1>12 DEF LiveAnswers, KeyAnswers
<1>13. CASE s = "lines"
    BY <1>13 DEF LiveAnswers, LineAnswers
<1>14. CASE s = "fence"
    BY <1>14 DEF LiveAnswers, FenceAnswers
<1> QED
    BY <1>1, <1>2, <1>3, <1>4, <1>5, <1>6, <1>7, <1>8, <1>9, <1>10, <1>11, <1>12,
       <1>13, <1>14 DEF LiveAnswers

\* What a request changes is what its call names.
LEMMA RequestsKeepWithin ==
    ASSUME NEW s, NEW c, NEW o, NEW a, LiveAnswers(s, c, o, a), a.to # o
    PROVE  AdminWithin(s, c, o, a.to)
<1>1. CASE s = "entry"
  <2>1. GuestEntryWithin(c, o, a.to)
      BY <1>1, EntryAnswer, EntryKeepsWithin DEF LiveAnswers, EntryAnswers
  <2> QED
      BY <1>1, <2>1 DEF AdminWithin, ConfigScenes
<1>2. CASE s = "codes"
  <2>1. AccessCodeWithin(c, o, a.to)
      BY <1>2, CodesKeepWithin DEF LiveAnswers
  <2> QED
      BY <1>2, <2>1 DEF AdminWithin, ConfigScenes
<1>3. CASE s = "tags"
  <2>1. NfcTagWithin(c, o, a.to)
      BY <1>3, TagsKeepWithin DEF LiveAnswers
  <2> QED
      BY <1>3, <2>1 DEF AdminWithin, ConfigScenes
<1>4. CASE s = "short"
  <2>1. ShortCodeWithin(c, o, a.to)
      BY <1>4, ShortKeepsWithin DEF LiveAnswers
  <2> QED
      BY <1>4, <2>1 DEF AdminWithin, ConfigScenes
<1>5. CASE s = "schedule"
  <2>1. KeyScheduleWithin(c, o, a.to)
      BY <1>5, ScheduleKeepsWithin DEF LiveAnswers
  <2> QED
      BY <1>5, <2>1 DEF AdminWithin, ConfigScenes
<1>6. CASE s = "hold"
  <2>1. HoldOpenWithin(c, o, a.to)
      BY <1>6, HoldKeepsWithin DEF LiveAnswers
  <2> QED
      BY <1>6, <2>1 DEF AdminWithin, ConfigScenes
<1>7. CASE s = "roster"
  <2>1. RosterWithin(c, o, a.to)
      BY <1>7, RosterKeepsWithin DEF LiveAnswers
  <2> QED
      BY <1>7, <2>1 DEF AdminWithin, ConfigScenes
<1>8. CASE s = "homes"
  <2>1. HomesWithin(c, o, a.to)
      BY <1>8, HomesKeepWithin DEF LiveAnswers
  <2> QED
      BY <1>8, <2>1 DEF AdminWithin, ConfigScenes
<1>9. CASE s = "links"
  <2>1. GuestLinkWithin(c, o, a.to)
      BY <1>9, LinksKeepWithin DEF LiveAnswers
  <2> QED
      BY <1>9, <2>1 DEF AdminWithin, ConfigScenes
<1>10. CASE s = "alerts"
  <2>1. NotificationWithin(c, o, a.to)
      BY <1>10, AlertsKeepWithin DEF LiveAnswers
  <2> QED
      BY <1>10, <2>1 DEF AdminWithin, ConfigScenes
<1>11. CASE s = "settings"
  <2>1. ConfigWithin(c, o, a.to)
      BY <1>11, SettingsKeepWithin DEF LiveAnswers
  <2> QED
      BY <1>11, <2>1 DEF AdminWithin, ConfigScenes
<1>12. CASE s = "keys"
  <2>1. ConfigWithin(c, o, a.to)
      BY <1>12, KeyKeepsWithin DEF LiveAnswers
  <2> QED
      BY <1>12, <2>1 DEF AdminWithin, ConfigScenes
<1>13. CASE s = "lines"
  <2>1. ConfigWithin(c, o, a.to)
      BY <1>13, LineKeepsWithin DEF LiveAnswers
  <2> QED
      BY <1>13, <2>1 DEF AdminWithin, ConfigScenes
<1>14. CASE s = "fence"
  <2>1. ConfigWithin(c, o, a.to)
      BY <1>14, FenceKeepsWithin DEF LiveAnswers
  <2> QED
      BY <1>14, <2>1 DEF AdminWithin, ConfigScenes
<1> QED
    BY <1>1, <1>2, <1>3, <1>4, <1>5, <1>6, <1>7, <1>8, <1>9, <1>10, <1>11, <1>12,
       <1>13, <1>14 DEF LiveAnswers

\* A request that is carried out does what its caller had in mind, if what may
\* be sent again was made from what the request meets.
LEMMA RequestsKeepMeant ==
    ASSUME NEW s, NEW c, NEW o, NEW a, LiveAnswers(s, c, o, a), a.status \in 200..299,
           NEW before,
           AdminRepeatable(s, c) => before = o /\ AdminOffered(s, AdminView(s, o), c)
    PROVE  AdminMeant(s, c, before, a.to)
<1>1. CASE s = "entry"
  <2>1. GuestEntryRepeatable(c) => before = o /\ GuestEntryOffered(EntryView(o), c)
      BY <1>1 DEF AdminRepeatable, AdminOffered, AdminView
  <2>2. GuestEntryMeant(c, before, a.to)
      BY <1>1, <2>1, EntryAnswer, EntryKeepsMeant DEF LiveAnswers, EntryAnswers
  <2> QED
      BY <1>1, <2>2 DEF AdminMeant, ConfigScenes
<1>2. CASE s = "codes"
  <2>1. before = o
      BY <1>2 DEF AdminRepeatable, AccessCodeRepeatable
  <2>2. AccessCodeMeant(c, before, a.to)
      BY <1>2, <2>1, CodesKeepMeant DEF LiveAnswers
  <2> QED
      BY <1>2, <2>2 DEF AdminMeant, ConfigScenes
<1>3. CASE s = "tags"
  <2>1. before = o
      BY <1>3 DEF AdminRepeatable, LiveAnswers, NfcTagCalls, update_nfc_tag
  <2>2. NfcTagMeant(c, before, a.to)
      BY <1>3, <2>1, TagsKeepMeant DEF LiveAnswers
  <2> QED
      BY <1>3, <2>2 DEF AdminMeant, ConfigScenes
<1>4. CASE s = "short"
  <2>1. ShortCodeMeant(c, before, a.to)
      BY <1>4, ShortKeepsMeant DEF LiveAnswers
  <2> QED
      BY <1>4, <2>1 DEF AdminMeant, ConfigScenes
<1>5. CASE s = "schedule"
  <2>1. c.creates = 0
      BY <1>5 DEF LiveAnswers, KeyScheduleCalls, set_schedule
  <2>2. before = o /\ KeyScheduleOffered(KeyScheduleView(o), c)
      BY <1>5, <2>1 DEF AdminRepeatable, AdminOffered, AdminView
  <2>3. KeyScheduleMeant(c, before, a.to)
      BY <1>5, <2>2, ScheduleKeepsMeant DEF LiveAnswers
  <2> QED
      BY <1>5, <2>3 DEF AdminMeant, ConfigScenes
<1>6. CASE s = "hold"
  <2>1. HoldOpenMeant(c, before, a.to)
      BY <1>6, HoldKeepsMeant DEF LiveAnswers
  <2> QED
      BY <1>6, <2>1 DEF AdminMeant, ConfigScenes
<1>7. CASE s = "roster"
  <2>1. RosterMeant(c, before, a.to)
      BY <1>7, RosterKeepsMeant DEF LiveAnswers
  <2> QED
      BY <1>7, <2>1 DEF AdminMeant, ConfigScenes
<1>8. CASE s = "homes"
  <2>1. HomesMeant(c, before, a.to)
      BY <1>8, HomesKeepMeant DEF LiveAnswers
  <2> QED
      BY <1>8, <2>1 DEF AdminMeant, ConfigScenes
<1>9. CASE s = "links"
  <2>1. GuestLinkMeant(c, before, a.to)
      BY <1>9, LinksKeepMeant DEF LiveAnswers
  <2> QED
      BY <1>9, <2>1 DEF AdminMeant, ConfigScenes
<1>10. CASE s = "alerts"
  <2>1. NotificationMeant(c, before, a.to)
      BY <1>10, AlertsKeepMeant DEF LiveAnswers
  <2> QED
      BY <1>10, <2>1 DEF AdminMeant, ConfigScenes
<1>11. CASE s = "settings"
  <2>1. ConfigMeant(c, before, a.to)
      BY <1>11, SettingsKeepMeant DEF LiveAnswers
  <2> QED
      BY <1>11, <2>1 DEF AdminMeant, ConfigScenes
<1>12. CASE s = "keys"
  <2>1. ConfigMeant(c, before, a.to)
      BY <1>12, KeyKeepsMeant DEF LiveAnswers
  <2> QED
      BY <1>12, <2>1 DEF AdminMeant, ConfigScenes
<1>13. CASE s = "lines"
  <2>1. ConfigMeant(c, before, a.to)
      BY <1>13, LineKeepsMeant DEF LiveAnswers
  <2> QED
      BY <1>13, <2>1 DEF AdminMeant, ConfigScenes
<1>14. CASE s = "fence"
  <2>1. ConfigMeant(c, before, a.to)
      BY <1>14, FenceKeepsMeant DEF LiveAnswers
  <2> QED
      BY <1>14, <2>1 DEF AdminMeant, ConfigScenes
<1> QED
    BY <1>1, <1>2, <1>3, <1>4, <1>5, <1>6, <1>7, <1>8, <1>9, <1>10, <1>11, <1>12,
       <1>13, <1>14 DEF LiveAnswers

----------------------------------------------------------------------------
(* Rehearsals.                                                             *)

\* The call asks a live key to behave like a test key.
Dry(c) == "dry_run" \in DOMAIN c /\ IsTrue(c.dry_run)

\* Members are approved on a dry run, nothing else is.
LEMMA OnlyTheRosterIsDry ==
    ASSUME NEW s, NEW c, NEW o, NEW a, LiveAnswers(s, c, o, a), s # "roster"
    PROVE  ~Dry(c)
<1> SUFFICES "dry_run" \notin DOMAIN c
    BY DEF Dry
<1>1. CASE s = "entry"
  <2>1. c \in GuestEntryCalls
      BY <1>1 DEF LiveAnswers
  <2> QED
      BY <2>1 DEF GuestEntryCalls, set_enabled, set_latches, add_schedule,
         remove_schedule
<1>2. CASE s = "codes"
  <2>1. c \in AccessCodeCalls
      BY <1>2 DEF LiveAnswers
  <2> QED
      BY <2>1 DEF AccessCodeCalls, create_code, update_code, delete_code, set_mode
<1>3. CASE s = "tags"
  <2>1. c \in NfcTagCalls
      BY <1>3 DEF LiveAnswers
  <2> QED
      BY <2>1 DEF NfcTagCalls, update_nfc_tag
<1>4. CASE s = "short"
  <2>1. c \in ShortCodeCalls
      BY <1>4 DEF LiveAnswers
  <2> QED
      BY <2>1 DEF ShortCodeCalls, create_short_code, assign_short_code
<1>5. CASE s = "schedule"
  <2>1. c \in KeyScheduleCalls
      BY <1>5 DEF LiveAnswers
  <2> QED
      BY <2>1 DEF KeyScheduleCalls, set_schedule
<1>6. CASE s = "hold"
  <2>1. c \in HoldOpenCalls
      BY <1>6 DEF LiveAnswers
  <2> QED
      BY <2>1 DEF HoldOpenCalls, set_hold_open, add_event, remove_event,
         disabled_until,
           add_recurring, update_recurring, remove_recurring
<1>7. CASE s = "homes"
  <2>1. c \in HomeCalls
      BY <1>7 DEF LiveAnswers
  <2> QED
      BY <2>1 DEF HomeCalls, add_home, update_home, remove_home, set_move_out_date
<1>8. CASE s = "links"
  <2>1. c \in GuestLinkCalls
      BY <1>8 DEF LiveAnswers
  <2> QED
      BY <2>1 DEF GuestLinkCalls, create_guest_link, revoke_guest_link
<1>9. CASE s = "alerts"
  <2>1. c \in NotificationCalls
      BY <1>9 DEF LiveAnswers
  <2> QED
      BY <2>1 DEF NotificationCalls, set_enabled_for, add_quiet_hours,
         remove_quiet_hours
<1>10. CASE s = "settings"
  <2>1. c \in SettingsCalls
      BY <1>10 DEF LiveAnswers
  <2> QED
      BY <2>1 DEF SettingsCalls, update_settings
<1>11. CASE s = "keys"
  <2>1. c \in KeyCalls
      BY <1>11 DEF LiveAnswers
  <2> QED
      BY <2>1 DEF KeyCalls, update_key
<1>12. CASE s = "lines"
  <2>1. c \in SenseLineCalls
      BY <1>12 DEF LiveAnswers
  <2> QED
      BY <2>1 DEF SenseLineCalls, update_sense_line
<1>13. CASE s = "fence"
  <2>1. c \in GeofenceCalls
      BY <1>13 DEF LiveAnswers
  <2> QED
      BY <2>1 DEF GeofenceCalls, update_geofence
<1> QED
    BY <1>1, <1>2, <1>3, <1>4, <1>5, <1>6, <1>7, <1>8, <1>9, <1>10, <1>11, <1>12,
       <1>13 DEF LiveAnswers

\* What a test key's answer to c says, and what the result makes of it.
TestBody(s, c, o) == Simulated(s, o, AdminRequest(s, c))

LEMMA TestBodyIs ==
    ASSUME NEW s \in AdminScenes, NEW o \in AdminCommunities(s), NEW c \in AdminCalls(s),
           NEW a, a = LiveServe(s, o, AdminRequest(s, c))
    PROVE  /\ s = "roster" => TestBody(s, c, o) = RosterSimulated(c, a.body)
           /\ s = "codes" => TestBody(s, c, o) = AccessCodeSimulated(o, AccessCodeRequest(c))
           /\ s = "homes" => TestBody(s, c, o) = HomesSimulated(o, HomesRequest(c))
           /\ s = "alerts" =>
                TestBody(s, c, o) = NotificationSimulated(o, NotificationRequest(c))
           /\ s \in ConfigScenes => TestBody(s, c, o) = ConfigSimulated(o, ConfigRequest(c))
           /\ s \notin {"roster", "codes", "homes", "alerts"} \cup ConfigScenes =>
                TestBody(s, c, o) = [result |-> "simulated"]
<1>1. CASE s = "roster"
  <2>1. c \in RosterCalls
      BY <1>1 DEF AdminCalls
  <2>2. AdminRequest(s, c) = RosterRequest(c) /\ a = RosterServe(o, RosterRequest(c))
      BY <1>1 DEF AdminRequest, LiveServe, ConfigScenes
  <2>3. RosterRequest(c).path = c.op
      BY <2>1, RosterRequestIs
  <2>4. TestBody(s, c, o) = RosterSimulated(c, a.body)
    <3>1. PICK r : r = RosterRequest(c)
        OBVIOUS
    <3>2. Simulated(s, o, r) = RosterSimulated(c, a.body)
        BY <1>1, <2>2, <2>3, <3>1 DEF Simulated, RosterSimulated, ConfigScenes
    <3> QED
        BY <2>2, <3>1, <3>2 DEF TestBody
  <2> QED
      BY <1>1, <2>4 DEF ConfigScenes
<1>2. CASE s = "codes"
    BY <1>2 DEF TestBody, Simulated, AdminRequest, ConfigScenes
<1>3. CASE s = "homes"
    BY <1>3 DEF TestBody, Simulated, AdminRequest, ConfigScenes
<1>4. CASE s = "alerts"
    BY <1>4 DEF TestBody, Simulated, AdminRequest, ConfigScenes
<1>5. CASE s \in ConfigScenes
    BY <1>5 DEF TestBody, Simulated, AdminRequest, ConfigScenes
<1>6. CASE s \in {"entry", "tags", "short", "schedule", "hold", "links"}
    BY <1>6 DEF TestBody, Simulated, AdminRequest, ConfigScenes
<1> QED
    BY <1>1, <1>2, <1>3, <1>4, <1>5, <1>6 DEF AdminScenes

\* A live answer reads as a rehearsal if the call is dry, a test key's always
\* where a live key's would have changed something.
LEMMA RehearsalsAreTold ==
    ASSUME NEW s \in AdminScenes, NEW o \in AdminCommunities(s), NEW c \in AdminCalls(s),
           NEW a, a = LiveServe(s, o, AdminRequest(s, c)), a.status \in 200..299
    PROVE  /\ AdminResult(s, c, a.body).simulated <=> Dry(c)
           /\ Dry(c) => a.to = o
           /\ a.to # o => AdminResult(s, c, TestBody(s, c, o)).simulated
<1> LiveAnswers(s, c, o, a)
    BY RequestAnswered
<1>1. CASE s = "entry"
  <2>1. /\ AdminResult(s, c, a.body) = GuestViewEntry(a.body)
        /\ AdminResult(s, c, TestBody(s, c, o)) =
             GuestViewEntry([result |-> "simulated"])
      BY <1>1, TestBodyIs DEF AdminResult, ConfigScenes
  <2>2. /\ ~GuestViewEntry(a.body).simulated
        /\ GuestViewEntry([result |-> "simulated"]).simulated
      BY <1>1, EntryTold DEF LiveAnswers, EntryAnswers
  <2> QED
      BY <1>1, <2>1, <2>2, OnlyTheRosterIsDry
<1>2. CASE s = "codes"
  <2>1. /\ AdminResult(s, c, a.body) = AccessCodeResult(c, a.body)
        /\ AdminResult(s, c, TestBody(s, c, o)) =
             AccessCodeResult(c, AccessCodeSimulated(o, AccessCodeRequest(c)))
      BY <1>2, TestBodyIs DEF AdminResult, ConfigScenes
  <2>2. /\ ~AccessCodeResult(c, a.body).simulated
        /\ a.to # o =>
             AccessCodeResult(c, AccessCodeSimulated(o, AccessCodeRequest(c))).simulated
      BY <1>2, CodesTold DEF LiveAnswers
  <2> QED
      BY <1>2, <2>1, <2>2, OnlyTheRosterIsDry
<1>3. CASE s = "tags"
  <2>1. /\ AdminResult(s, c, a.body) = NfcTag(a.body)
        /\ AdminResult(s, c, TestBody(s, c, o)) =
             NfcTag([result |-> "simulated"])
      BY <1>3, TestBodyIs DEF AdminResult, ConfigScenes
  <2>2. /\ ~NfcTag(a.body).simulated
        /\ NfcTag([result |-> "simulated"]).simulated
      BY <1>3, TagsTold DEF LiveAnswers
  <2> QED
      BY <1>3, <2>1, <2>2, OnlyTheRosterIsDry
<1>4. CASE s = "short"
  <2>1. /\ AdminResult(s, c, a.body) = ShortCode(a.body)
        /\ AdminResult(s, c, TestBody(s, c, o)) =
             ShortCode([result |-> "simulated"])
      BY <1>4, TestBodyIs DEF AdminResult, ConfigScenes
  <2>2. /\ ~ShortCode(a.body).simulated
        /\ ShortCode([result |-> "simulated"]).simulated
      BY <1>4, ShortTold DEF LiveAnswers
  <2> QED
      BY <1>4, <2>1, <2>2, OnlyTheRosterIsDry
<1>5. CASE s = "schedule"
  <2>1. /\ AdminResult(s, c, a.body) = KeySchedule(a.body)
        /\ AdminResult(s, c, TestBody(s, c, o)) =
             KeySchedule([result |-> "simulated"])
      BY <1>5, TestBodyIs DEF AdminResult, ConfigScenes
  <2>2. /\ ~KeySchedule(a.body).simulated
        /\ KeySchedule([result |-> "simulated"]).simulated
      BY <1>5, ScheduleTold DEF LiveAnswers
  <2> QED
      BY <1>5, <2>1, <2>2, OnlyTheRosterIsDry
<1>6. CASE s = "hold"
  <2>1. /\ AdminResult(s, c, a.body) = HoldOpenResult(c, a.body)
        /\ AdminResult(s, c, TestBody(s, c, o)) =
             HoldOpenResult(c, [result |-> "simulated"])
      BY <1>6, TestBodyIs DEF AdminResult, ConfigScenes
  <2>2. /\ ~HoldOpenResult(c, a.body).simulated
        /\ HoldOpenResult(c, [result |-> "simulated"]).simulated
      BY <1>6, HoldTold DEF LiveAnswers
  <2> QED
      BY <1>6, <2>1, <2>2, OnlyTheRosterIsDry
<1>7. CASE s = "roster"
  <2>1. /\ AdminResult(s, c, a.body) = RosterResult(c, a.body)
        /\ AdminResult(s, c, TestBody(s, c, o)) =
             RosterResult(c, RosterSimulated(c, a.body))
      BY <1>7, TestBodyIs DEF AdminResult, ConfigScenes
  <2>2. /\ RosterResult(c, a.body).simulated => c.dry_run = TRUE /\ a.to = o
        /\ RosterResult(c, RosterSimulated(c, a.body)).simulated
      BY <1>7, RosterTold DEF LiveAnswers
  <2>3. c.dry_run = TRUE => RosterResult(c, a.body).simulated
      BY <1>7, RosterDryIsTold DEF LiveAnswers
  <2>4. "dry_run" \in DOMAIN c
      BY <1>7, RosterCallsAre DEF LiveAnswers, RosterCallIs
  <2> QED
      BY <2>1, <2>2, <2>3, <2>4 DEF Dry, IsTrue
<1>8. CASE s = "homes"
  <2>1. /\ AdminResult(s, c, a.body) = HomesResult(c, a.body)
        /\ AdminResult(s, c, TestBody(s, c, o)) =
             HomesResult(c, HomesSimulated(o, HomesRequest(c)))
      BY <1>8, TestBodyIs DEF AdminResult, ConfigScenes
  <2>2. /\ ~HomesResult(c, a.body).simulated
        /\ HomesResult(c, HomesSimulated(o, HomesRequest(c))).simulated
      BY <1>8, HomesTold DEF LiveAnswers
  <2> QED
      BY <1>8, <2>1, <2>2, OnlyTheRosterIsDry
<1>9. CASE s = "links"
  <2>1. /\ AdminResult(s, c, a.body) = GuestLink(a.body)
        /\ AdminResult(s, c, TestBody(s, c, o)) =
             GuestLink([result |-> "simulated"])
      BY <1>9, TestBodyIs DEF AdminResult, ConfigScenes
  <2>2. /\ ~GuestLink(a.body).simulated
        /\ GuestLink([result |-> "simulated"]).simulated
      BY <1>9, LinksTold DEF LiveAnswers
  <2> QED
      BY <1>9, <2>1, <2>2, OnlyTheRosterIsDry
<1>10. CASE s = "alerts"
  <2>1. /\ AdminResult(s, c, a.body) = NotificationSettings(a.body)
        /\ AdminResult(s, c, TestBody(s, c, o)) =
             NotificationSettings(NotificationSimulated(o, NotificationRequest(c)))
      BY <1>10, TestBodyIs DEF AdminResult, ConfigScenes
  <2>2. /\ ~NotificationSettings(a.body).simulated
        /\ NotificationSettings(NotificationSimulated(o, NotificationRequest(c))).simulated
      BY <1>10, AlertsTold DEF LiveAnswers
  <2> QED
      BY <1>10, <2>1, <2>2, OnlyTheRosterIsDry
<1>11. CASE s = "settings"
  <2>1. /\ AdminResult(s, c, a.body) = ConfigResult(c, a.body)
        /\ AdminResult(s, c, TestBody(s, c, o)) =
             ConfigResult(c, ConfigSimulated(o, ConfigRequest(c)))
      BY <1>11, TestBodyIs DEF AdminResult, ConfigScenes
  <2>2. /\ ~ConfigResult(c, a.body).simulated
        /\ ConfigResult(c, ConfigSimulated(o, ConfigRequest(c))).simulated
      BY <1>11, SettingsTold DEF LiveAnswers
  <2> QED
      BY <1>11, <2>1, <2>2, OnlyTheRosterIsDry
<1>12. CASE s = "keys"
  <2>1. /\ AdminResult(s, c, a.body) = ConfigResult(c, a.body)
        /\ AdminResult(s, c, TestBody(s, c, o)) =
             ConfigResult(c, ConfigSimulated(o, ConfigRequest(c)))
      BY <1>12, TestBodyIs DEF AdminResult, ConfigScenes
  <2>2. /\ ~ConfigResult(c, a.body).simulated
        /\ ConfigResult(c, ConfigSimulated(o, ConfigRequest(c))).simulated
      BY <1>12, KeyTold DEF LiveAnswers
  <2> QED
      BY <1>12, <2>1, <2>2, OnlyTheRosterIsDry
<1>13. CASE s = "lines"
  <2>1. /\ AdminResult(s, c, a.body) = ConfigResult(c, a.body)
        /\ AdminResult(s, c, TestBody(s, c, o)) =
             ConfigResult(c, ConfigSimulated(o, ConfigRequest(c)))
      BY <1>13, TestBodyIs DEF AdminResult, ConfigScenes
  <2>2. /\ ~ConfigResult(c, a.body).simulated
        /\ ConfigResult(c, ConfigSimulated(o, ConfigRequest(c))).simulated
      BY <1>13, LineTold DEF LiveAnswers
  <2> QED
      BY <1>13, <2>1, <2>2, OnlyTheRosterIsDry
<1>14. CASE s = "fence"
  <2>1. /\ AdminResult(s, c, a.body) = ConfigResult(c, a.body)
        /\ AdminResult(s, c, TestBody(s, c, o)) =
             ConfigResult(c, ConfigSimulated(o, ConfigRequest(c)))
      BY <1>14, TestBodyIs DEF AdminResult, ConfigScenes
  <2>2. /\ ~ConfigResult(c, a.body).simulated
        /\ ConfigResult(c, ConfigSimulated(o, ConfigRequest(c))).simulated
      BY <1>14, FenceTold DEF LiveAnswers
  <2> QED
      BY <1>14, <2>1, <2>2, OnlyTheRosterIsDry
<1> QED
    BY <1>1, <1>2, <1>3, <1>4, <1>5, <1>6, <1>7, <1>8, <1>9, <1>10, <1>11, <1>12,
       <1>13, <1>14 DEF LiveAnswers

\* What a test key previews is what a live key would have done.
LEMMA RehearsalsAreTrue ==
    ASSUME NEW s \in AdminScenes, NEW o \in AdminCommunities(s), NEW c \in AdminCalls(s),
           NEW a, a = LiveServe(s, o, AdminRequest(s, c)), a.status \in 200..299,
           NEW r, r.call = c, r.result.simulated,
           r.result = AdminResult(s, c, TestBody(s, c, o))
    PROVE  AdminPreviews(s, r, o, a.to)
<1> LiveAnswers(s, c, o, a)
    BY RequestAnswered
<1>1. CASE s = "codes"
  <2>1. r.result = AccessCodeResult(c, AccessCodeSimulated(o, AccessCodeRequest(c)))
      BY <1>1, TestBodyIs DEF AdminResult, ConfigScenes
  <2>2. AccessCodePreviews(r, o, a.to)
      BY <1>1, <2>1, CodesPreviewed DEF LiveAnswers
  <2> QED
      BY <1>1, <2>2 DEF AdminPreviews
<1>2. CASE s = "roster"
  <2>1. r.result = RosterResult(c, RosterSimulated(c, a.body))
      BY <1>2, TestBodyIs DEF AdminResult, ConfigScenes
  <2>2. RosterPreviews(r, o, a.to)
      BY <1>2, <2>1, RosterPreviewed DEF LiveAnswers
  <2> QED
      BY <1>2, <2>2 DEF AdminPreviews
<1>3. CASE s = "homes"
  <2>1. r.result = HomesResult(c, HomesSimulated(o, HomesRequest(c)))
      BY <1>3, TestBodyIs DEF AdminResult, ConfigScenes
  <2>2. HomesPreviews(r, o, a.to)
      BY <1>3, <2>1, HomesPreviewed DEF LiveAnswers
  <2> QED
      BY <1>3, <2>2 DEF AdminPreviews
<1> QED
    BY <1>1, <1>2, <1>3 DEF AdminPreviews

----------------------------------------------------------------------------
(* What a result says.                                                     *)

\* What the server keeps true of what it holds, by itself: nobody lives in a
\* home that is gone or hidden, and of two settings one is set at most.
Sound(s, o) ==
    /\ s = "homes" => Housed(o)
    /\ s = "settings" => Exclusive(o.settings)

LEMMA RequestsKeepSound ==
    ASSUME NEW s, NEW c, NEW o, NEW a, LiveAnswers(s, c, o, a), Sound(s, o)
    PROVE  Sound(s, a.to)
<1>1. s = "homes" => Housed(a.to)
    BY HomesKeepHoused DEF LiveAnswers, Sound
<1>2. s = "settings" => Exclusive(a.to.settings)
    BY SettingsKeepExclusive DEF LiveAnswers, Sound
<1> QED
    BY <1>1, <1>2 DEF Sound

LEMMA SoundAtFirst ==
    ASSUME NEW s \in AdminScenes, NEW o \in AdminStart(s)
    PROVE  Sound(s, o)
<1>1. s = "homes" => Housed(o)
    BY HousedAtFirst DEF AdminStart
<1>2. s = "settings" => Exclusive(o.settings)
    BY DEF AdminStart, SettingsStart, Exclusive
<1> QED
    BY <1>1, <1>2 DEF Sound

LEMMA AnswersAreTrue ==
    ASSUME NEW s, NEW c, NEW o, NEW a, LiveAnswers(s, c, o, a), Sound(s, a.to),
           NEW r, r.call = c, EndsWith(r, a, AdminResult(s, c, a.body)),
           r.trace.applied \in Nat, r.trace.applied > 0,
           NEW before \in AdminCommunities(s), r.trace.applied = 1 => before = o,
           NEW alone,
           r.trace.applied > 1 /\ alone /\ AdminRepeatable(s, c) =>
             \E first : LiveAnswers(s, c, before, first) /\ o = first.to
    PROVE  AdminHonest(s, r, before, a.to, alone)
<1>1. CASE s = "entry"
  <2>1. EndsWith(r, a, GuestViewEntry(a.body))
      BY <1>1 DEF AdminResult, EndsWith, ConfigScenes
  <2>2. GuestEntryHonest(r, before, a.to, alone)
      BY <1>1, <2>1, EntryKeepsHonest DEF LiveAnswers, EntryAnswers
  <2> QED
      BY <1>1, <2>2 DEF AdminHonest, ConfigScenes
<1>2. CASE s = "codes"
  <2>1. EndsWith(r, a, AccessCodeResult(c, a.body))
      BY <1>2 DEF AdminResult, EndsWith, ConfigScenes
  <2>3. before \in CodeBooks /\ AdminRepeatable(s, c)
      BY <1>2 DEF AdminCommunities, AdminRepeatable, AccessCodeRepeatable
  <2>4. r.trace.applied # 1 /\ alone =>
           \E first : CodeAnswers(c, before, first) /\ o = first.to
      BY <1>2, <2>3 DEF LiveAnswers
  <2>2. AccessCodeHonest(r, before, a.to, alone)
      BY <1>2, <2>1, <2>3, <2>4, CodesKeepHonest DEF LiveAnswers
  <2> QED
      BY <1>2, <2>2 DEF AdminHonest, ConfigScenes
<1>3. CASE s = "tags"
  <2>1. EndsWith(r, a, NfcTag(a.body))
      BY <1>3 DEF AdminResult, EndsWith, ConfigScenes
  <2>2. NfcTagHonest(r, before, a.to, alone)
      BY <1>3, <2>1, TagsKeepHonest DEF LiveAnswers
  <2> QED
      BY <1>3, <2>2 DEF AdminHonest, ConfigScenes
<1>4. CASE s = "short"
  <2>1. EndsWith(r, a, ShortCode(a.body))
      BY <1>4 DEF AdminResult, EndsWith, ConfigScenes
  <2>2. ShortCodeHonest(r, before, a.to, alone)
      BY <1>4, <2>1, ShortKeepsHonest DEF LiveAnswers
  <2> QED
      BY <1>4, <2>2 DEF AdminHonest, ConfigScenes
<1>5. CASE s = "schedule"
  <2>1. EndsWith(r, a, KeySchedule(a.body))
      BY <1>5 DEF AdminResult, EndsWith, ConfigScenes
  <2>2. KeyScheduleHonest(r, before, a.to, alone)
      BY <1>5, <2>1, ScheduleKeepsHonest DEF LiveAnswers
  <2> QED
      BY <1>5, <2>2 DEF AdminHonest, ConfigScenes
<1>6. CASE s = "hold"
  <2>1. EndsWith(r, a, HoldOpenResult(c, a.body))
      BY <1>6 DEF AdminResult, EndsWith, ConfigScenes
  <2>3. before \in Holds /\ o \in Holds /\ c \in HoldOpenCalls /\ HoldAnswers(c, o, a)
      BY <1>6 DEF AdminCommunities, LiveAnswers
  <2>4. ASSUME c.op = "remove_hold_open_event", r.trace.applied # 1, alone
        PROVE  \E first : HoldAnswers(c, before, first) /\ o = first.to
    <3>1. c.creates = 0
        BY <2>3, <2>4 DEF HoldOpenCalls, set_hold_open, add_event, remove_event,
           disabled_until, add_recurring, update_recurring, remove_recurring
    <3>2. AdminRepeatable(s, c)
        BY <1>6, <3>1 DEF AdminRepeatable
    <3> QED
        BY <1>6, <2>4, <3>2 DEF LiveAnswers
  <2>2. HoldOpenHonest(r, before, a.to, alone)
      BY <2>1, <2>3, <2>4, HoldKeepsHonest
  <2> QED
      BY <1>6, <2>2 DEF AdminHonest, ConfigScenes
<1>7. CASE s = "roster"
  <2>1. EndsWith(r, a, RosterResult(c, a.body))
      BY <1>7 DEF AdminResult, EndsWith, ConfigScenes
  <2>3. before \in Rosters /\ o \in Rosters /\ c \in RosterCalls /\ RosterAnswers(c, o, a)
      BY <1>7 DEF AdminCommunities, LiveAnswers
  <2>4. c.creates = 0
    <3>1. \A op, p, keys, flag : member_write(op, p, keys, flag).creates = 0
        BY DEF member_write
    <3>2. \A p, keys, dry : approve_member(p, keys, dry).creates = 0
        BY DEF approve_member
    <3>3. \A op, items, flag : bulk_write(op, items, flag).creates = 0
        BY DEF bulk_write
    <3> QED
        BY <2>3, <3>1, <3>2, <3>3 DEF RosterCalls
  <2>5. AdminRepeatable(s, c)
      BY <1>7, <2>4 DEF AdminRepeatable
  <2>6. r.trace.applied > 1 /\ alone =>
           \E first : RosterAnswers(c, before, first) /\ o = first.to
      BY <1>7, <2>5 DEF LiveAnswers
  <2>2. RosterHonest(r, before, a.to, alone)
      BY <2>1, <2>3, <2>6, RosterKeepsHonest
  <2> QED
      BY <1>7, <2>2 DEF AdminHonest, ConfigScenes
<1>8. CASE s = "homes"
  <2>1. EndsWith(r, a, HomesResult(c, a.body))
      BY <1>8 DEF AdminResult, EndsWith, ConfigScenes
  <2>2. before \in Units /\ Housed(a.to)
      BY <1>8 DEF AdminCommunities, Sound
  <2>3. ASSUME c.op = "remove_home", alone
        PROVE  before = o \/ \E first : HomesAnswers(c, before, first) /\ o = first.to
    <3>1. c.creates = 0
        BY <1>8, <2>3 DEF LiveAnswers, HomeCalls, add_home, update_home,
           remove_home, set_move_out_date
    <3>2. AdminRepeatable(s, c)
        BY <1>8, <3>1 DEF AdminRepeatable
    <3>3. r.trace.applied = 1 \/ r.trace.applied > 1
        OBVIOUS
    <3> QED
        BY <1>8, <2>3, <3>2, <3>3 DEF LiveAnswers
  <2>4. HomesHonest(r, before, a.to, alone)
      BY <1>8, <2>1, <2>2, <2>3, HomesKeepHonest DEF LiveAnswers
  <2> QED
      BY <1>8, <2>4 DEF AdminHonest, ConfigScenes
<1>9. CASE s = "links"
  <2>1. EndsWith(r, a, GuestLink(a.body))
      BY <1>9 DEF AdminResult, EndsWith, ConfigScenes
  <2>2. GuestLinkHonest(r, before, a.to, alone)
      BY <1>9, <2>1, LinksKeepHonest DEF LiveAnswers
  <2> QED
      BY <1>9, <2>2 DEF AdminHonest, ConfigScenes
<1>10. CASE s = "alerts"
  <2>1. EndsWith(r, a, NotificationSettings(a.body))
      BY <1>10 DEF AdminResult, EndsWith, ConfigScenes
  <2>2. NotificationHonest(r, before, a.to, alone)
      BY <1>10, <2>1, AlertsKeepHonest DEF LiveAnswers
  <2> QED
      BY <1>10, <2>2 DEF AdminHonest, ConfigScenes
<1>11. CASE s = "settings"
  <2>1. EndsWith(r, a, ConfigResult(c, a.body))
      BY <1>11 DEF AdminResult, EndsWith, ConfigScenes
  <2>2. ConfigHonest(r, before, a.to, alone)
      BY <1>11, <2>1, SettingsKeepHonest DEF LiveAnswers, Sound
  <2> QED
      BY <1>11, <2>2 DEF AdminHonest, ConfigScenes
<1>12. CASE s = "keys"
  <2>1. EndsWith(r, a, ConfigResult(c, a.body))
      BY <1>12 DEF AdminResult, EndsWith, ConfigScenes
  <2>2. ConfigHonest(r, before, a.to, alone)
      BY <1>12, <2>1, KeyKeepsHonest DEF LiveAnswers
  <2> QED
      BY <1>12, <2>2 DEF AdminHonest, ConfigScenes
<1>13. CASE s = "lines"
  <2>1. EndsWith(r, a, ConfigResult(c, a.body))
      BY <1>13 DEF AdminResult, EndsWith, ConfigScenes
  <2>2. ConfigHonest(r, before, a.to, alone)
      BY <1>13, <2>1, LineKeepsHonest DEF LiveAnswers
  <2> QED
      BY <1>13, <2>2 DEF AdminHonest, ConfigScenes
<1>14. CASE s = "fence"
  <2>1. EndsWith(r, a, ConfigResult(c, a.body))
      BY <1>14 DEF AdminResult, EndsWith, ConfigScenes
  <2>2. ConfigHonest(r, before, a.to, alone)
      BY <1>14, <2>1, FenceKeepsHonest DEF LiveAnswers
  <2> QED
      BY <1>14, <2>2 DEF AdminHonest, ConfigScenes
<1> QED
    BY <1>1, <1>2, <1>3, <1>4, <1>5, <1>6, <1>7, <1>8, <1>9, <1>10, <1>11, <1>12,
       <1>13, <1>14 DEF LiveAnswers

\* A call that ended without an answer of its own says no more than that.
LEMMA LossesAreHonest ==
    ASSUME NEW s \in AdminScenes, NEW o \in AdminCommunities(s), Sound(s, o),
           NEW r, r.raised \in {"APITimeoutError", "UpstreamError"}, r.call \in AdminCalls(s),
           NEW before, NEW alone
    PROVE  AdminHonest(s, r, before, o, alone)
<1>1. r.raised # None
    BY ExceptionsAssumption DEF Exceptions
<1>2. CASE s = "entry"
  <2>1. GuestEntryHonest(r, before, o, alone)
      BY <1>1, <1>2 DEF GuestEntryHonest, AdminCalls
  <2> QED
      BY <1>2, <2>1 DEF AdminHonest, ConfigScenes
<1>3. CASE s = "codes"
  <2>1. AccessCodeHonest(r, before, o, alone)
      BY <1>1, <1>3 DEF AccessCodeHonest, AdminCalls
  <2> QED
      BY <1>3, <2>1 DEF AdminHonest, ConfigScenes
<1>4. CASE s = "tags"
  <2>1. NfcTagHonest(r, before, o, alone)
      BY <1>1, <1>4 DEF NfcTagHonest, AdminCalls
  <2> QED
      BY <1>4, <2>1 DEF AdminHonest, ConfigScenes
<1>5. CASE s = "short"
  <2>1. ShortCodeHonest(r, before, o, alone)
      BY <1>1, <1>5 DEF ShortCodeHonest, AdminCalls
  <2> QED
      BY <1>5, <2>1 DEF AdminHonest, ConfigScenes
<1>6. CASE s = "schedule"
  <2>1. KeyScheduleHonest(r, before, o, alone)
      BY <1>1, <1>6 DEF KeyScheduleHonest, AdminCalls
  <2> QED
      BY <1>6, <2>1 DEF AdminHonest, ConfigScenes
<1>7. CASE s = "hold"
  <2>1. HoldOpenHonest(r, before, o, alone)
      BY <1>1, <1>7 DEF HoldOpenHonest, AdminCalls
  <2> QED
      BY <1>7, <2>1 DEF AdminHonest, ConfigScenes
<1>8. CASE s = "roster"
  <2>1. RosterHonest(r, before, o, alone)
      BY <1>1, <1>8 DEF RosterHonest, AdminCalls
  <2> QED
      BY <1>8, <2>1 DEF AdminHonest, ConfigScenes
<1>9. CASE s = "homes"
  <2>1. HomesHonest(r, before, o, alone)
      BY <1>1, <1>9 DEF HomesHonest, AdminCalls, Sound, Housed
  <2> QED
      BY <1>9, <2>1 DEF AdminHonest, ConfigScenes
<1>10. CASE s = "links"
  <2>1. GuestLinkHonest(r, before, o, alone)
      BY <1>1, <1>10 DEF GuestLinkHonest, AdminCalls
  <2> QED
      BY <1>10, <2>1 DEF AdminHonest, ConfigScenes
<1>11. CASE s = "alerts"
  <2>1. NotificationHonest(r, before, o, alone)
      BY <1>1, <1>11 DEF NotificationHonest, AdminCalls
  <2> QED
      BY <1>11, <2>1 DEF AdminHonest, ConfigScenes
<1>12. CASE s = "settings"
  <2>1. ConfigHonest(r, before, o, alone)
      BY <1>1, <1>12 DEF ConfigHonest, AdminCalls, Sound
  <2> QED
      BY <1>12, <2>1 DEF AdminHonest, ConfigScenes
<1>13. CASE s = "keys"
  <2>1. r.call.op # "update_settings"
      BY <1>13, KeyCallsAre DEF AdminCalls
  <2>2. ConfigHonest(r, before, o, alone)
      BY <1>1, <2>1 DEF ConfigHonest
  <2> QED
      BY <1>13, <2>2 DEF AdminHonest, ConfigScenes
<1>14. CASE s = "lines"
  <2>1. r.call.op # "update_settings"
      BY <1>14, LineCallsAre DEF AdminCalls
  <2>2. ConfigHonest(r, before, o, alone)
      BY <1>1, <2>1 DEF ConfigHonest
  <2> QED
      BY <1>14, <2>2 DEF AdminHonest, ConfigScenes
<1>15. CASE s = "fence"
  <2>1. r.call.op # "update_settings"
      BY <1>15, FenceCallsAre DEF AdminCalls
  <2>2. ConfigHonest(r, before, o, alone)
      BY <1>1, <2>1 DEF ConfigHonest
  <2> QED
      BY <1>15, <2>2 DEF AdminHonest, ConfigScenes
<1> QED
    BY <1>2, <1>3, <1>4, <1>5, <1>6, <1>7, <1>8, <1>9, <1>10, <1>11, <1>12, <1>13,
       <1>14, <1>15 DEF AdminScenes, ConfigScenes

----------------------------------------------------------------------------
(* Steps.                                                                  *)

\* The constants stand for the families.
LEMMA ServedIs ==
    ASSUME NEW s \in Scenes, NEW o \in Communities(s), NEW c \in Calls(s),
           NEW a, a = Serve(s, o, Request(s, c), "live")
    PROVE  /\ s \in AdminScenes /\ o \in AdminCommunities(s) /\ c \in AdminCalls(s)
           /\ a = LiveServe(s, o, AdminRequest(s, c))
           /\ LiveAnswers(s, c, o, a)
           /\ a.status \in 200..299 => Result(s, c, a.body) = AdminResult(s, c, a.body)
<1>1. /\ s \in AdminScenes /\ o \in AdminCommunities(s) /\ c \in AdminCalls(s)
      /\ a = AdminServe(s, o, AdminRequest(s, c), "live")
      /\ a.status \in 200..299 => Result(s, c, a.body) = AdminResult(s, c, a.body)
    BY AdminAssumption DEF KeyModes
<1>2. a = LiveServe(s, o, AdminRequest(s, c))
    BY <1>1 DEF AdminServe
<1> QED
    BY <1>1, <1>2, RequestAnswered

\* A test key answers like a live key, and leaves everything as it is.
LEMMA TestServedIs ==
    ASSUME NEW s \in Scenes, NEW o \in Communities(s), NEW c \in Calls(s),
           NEW a, a = Serve(s, o, Request(s, c), "test"),
           NEW live, live = Serve(s, o, Request(s, c), "live")
    PROVE  /\ a.to = o
           /\ a.status \in 200..299 => live.status \in 200..299
           /\ a.status \in 200..299 =>
                Result(s, c, a.body) = AdminResult(s, c, TestBody(s, c, o))
<1>1. a = AdminServe(s, o, AdminRequest(s, c), "test")
      /\ (a.status \in 200..299 => Result(s, c, a.body) = AdminResult(s, c, a.body))
    BY AdminAssumption DEF KeyModes
<1>2. live = LiveServe(s, o, AdminRequest(s, c))
    BY ServedIs
<1>3. PICK d : d = TestBody(s, c, o)
    OBVIOUS
<1>4. PICK x, y : x = a /\ y = live
    OBVIOUS
<1>5. x = IF y.status \notin 200..299 THEN Says(o, y.status, y.body)
          ELSE Says(o, y.status, d)
    BY <1>1, <1>2, <1>3, <1>4 DEF AdminServe, TestBody
<1>6. x.to = o /\ x.status = y.status /\ (x.status \in 200..299 => x.body = d)
    BY <1>5 DEF Says
<1> QED
    BY <1>1, <1>3, <1>4, <1>6

\* The community changes when a request of a call under way is applied.
LEMMA ChangingStep ==
    ASSUME TypeInv, [Next]_vars, community' # community
    PROVE  \E m \in Managers :
             /\ Advances(m) /\ pc[m] = "sent" /\ community' = Served(m).to
<1>1. PICK m \in Managers : Deliver(m)
    BY DEF Next, Refresh, Begin, vars
<1>2. /\ pc[m] = "sent" /\ (pc'[m] = "idle" \/ attempt'[m] # attempt[m])
      /\ \E applied \in BOOLEAN : community' = CommunityAfter(m, applied)
  <2>1. pc \in [Managers -> {"idle", "sent"}] /\ attempt \in [Managers -> Nat]
      BY BoundsAssumption DEF TypeInv, Typed
  <2>2. CASE \E applied \in BOOLEAN : Retry(m, applied)
      BY <2>1, <2>2 DEF Retry
  <2>3. CASE ~ \E applied \in BOOLEAN : Retry(m, applied)
    <3>1. \E applied, raised, result :
            /\ pc[m] = "sent" /\ applied \in BOOLEAN
            /\ Return(m, applied, raised, result)
      <4>1. CASE Answer(m)
          BY <4>1 DEF Answer
      <4>2. CASE \E applied \in BOOLEAN : GiveUp(m, applied) \/ Lose(m, applied)
          BY <4>2 DEF GiveUp, Lose
      <4> QED
          BY <1>1, <2>3, <4>1, <4>2 DEF Deliver
    <3> QED
        BY <2>1, <3>1 DEF Return
  <2> QED
      BY <2>2, <2>3
<1>3. community' = Served(m).to
    BY <1>2 DEF CommunityAfter
<1> QED
    BY <1>2, <1>3 DEF Advances

LEMMA NamedStep ==
    ASSUME TypeInv, [Next]_vars, community' # community
    PROVE  \E m \in Managers :
             Advances(m) /\ AdminWithin(scene, call[m], community, community')
<1>1. PICK m \in Managers : Advances(m) /\ pc[m] = "sent" /\ community' = Served(m).to
    BY ChangingStep
<1>2. /\ scene \in Scenes /\ community \in Communities(scene)
      /\ call[m] \in Calls(scene) /\ key[m] \in {"live", "test"}
    BY <1>1, CallUnderWay
<1>3. key[m] = "live"
    BY <1>1, <1>2, ServeAssumption DEF Served, Sent
<1>4. PICK a : a = Serve(scene, community, Request(scene, call[m]), "live")
    OBVIOUS
<1>5. LiveAnswers(scene, call[m], community, a) /\ community' = a.to
    BY <1>1, <1>2, <1>3, <1>4, ServedIs DEF Served, Sent
<1>6. AdminWithin(scene, call[m], community, a.to)
    BY <1>5, RequestsKeepWithin
<1> QED
    BY <1>1, <1>5, <1>6

\* The community changes under somebody's call only, and only in what that call
\* names, whatever was retried or is under way at the same time.
THEOREM OnlyTheNamed == Spec => OnlyWhatWasNamed
<1>1. TypeInv /\ [Next]_vars =>
        [community' # community =>
           \E m \in Managers :
              Advances(m) /\ AdminWithin(scene, call[m], community, community')]_vars
    BY NamedStep
<1> QED
    BY <1>1, TypeInvariant, PTL DEF Spec, OnlyWhatWasNamed

----------------------------------------------------------------------------
(* Confirmation.                                                           *)

Confirms(c) == "confirm" \in DOMAIN c /\ IsTrue(c.confirm)

\* The mode of the access codes: only a confirmed switch wipes a resident's.
LEMMA CodesConfirm ==
    ASSUME NEW b \in CodeBooks, NEW c \in AccessCodeCalls,
           AccessCodeHarms(b, AccessCodeServe(b, AccessCodeRequest(c)).to)
    PROVE  Confirms(c)
<1> DEFINE r == AccessCodeRequest(c)
           to == AccessCodeServe(b, r).to
<1>1. /\ Resident \in CodeIds /\ b.codes[Resident] \notin {Never, Gone}
      /\ Resident \notin Live(to.codes) /\ DOMAIN b.codes = CodeIds
    BY CodeAssumption DEF AccessCodeHarms, Live, CodeBooks
<1>2. to # b
    BY <1>1 DEF Live
<1>3. CASE c \in {create_code({g}) : g \in Gates}
    <2>1. c.op = "create_access_code" /\ r.path = "access-codes"
        BY <1>3 DEF create_code, AccessCodeRequest
    <2>2. Unused(b.codes) # {}
          /\ to = [b EXCEPT !.codes[NextUnused(b.codes)] =
                      [disabled |-> FALSE, latches |-> r.json.latch_ids]]
        BY <1>2, <2>1 DEF AccessCodeServe, Says, Refuses
    <2>3. NextUnused(b.codes) \in Unused(b.codes)
        <3>1. DOMAIN b.codes \subseteq Nat
            BY <1>1, CodeAssumption DEF CodeIds
        <3> QED
            BY <2>2, <3>1, NextIsUnused
    <2>4. NextUnused(b.codes) # Resident
        BY <1>1, <2>3 DEF Unused
    <2>5. to.codes[Resident] = b.codes[Resident] /\ Resident \in DOMAIN to.codes
        BY <1>1, <2>2, <2>4 DEF CodeBooks
    <2> QED
        BY <1>1, <2>5 DEF Live
<1>4. CASE c.op \in {"update_access_code", "delete_access_code"} /\ "id" \in DOMAIN c
    <2>1. r.id = c.id /\ r.path \in {"access-codes/id", "access-codes/delete"}
        BY <1>4 DEF AccessCodeRequest
    <2>2. c.id \in Managed(b)
        BY <1>2, <2>1 DEF AccessCodeServe, Says, Refuses
    <2>3. c.id # Resident
        BY <2>2 DEF Managed
    <2>4. to.codes[Resident] = b.codes[Resident] /\ Resident \in DOMAIN to.codes
        BY <1>1, <1>2, <2>1, <2>3 DEF AccessCodeServe, Says, Refuses, EditCode,
           CodeBooks
    <2> QED
        BY <1>1, <2>4 DEF Live
<1>5. CASE c.op = "set_access_code_mode" /\ "confirm" \in DOMAIN c
    <2>1. r.path = "access-codes/mode" /\ r.json.confirm = IsTrue(c.confirm)
        BY <1>5 DEF AccessCodeRequest, Confirmed
    <2>2. r.json.confirm
        BY <1>2, <2>1 DEF AccessCodeServe, Says
    <2> QED
        BY <1>5, <2>1, <2>2 DEF Confirms
<1> QED
    BY <1>3, <1>4, <1>5 DEF AccessCodeCalls, update_code, delete_code, set_mode

\* A tag: only a confirmed write takes the last working tag from a gate.
LEMMA TagsConfirm ==
    ASSUME NEW b \in TagBoards, NEW c \in NfcTagCalls,
           NfcTagHarms(b, NfcTagServe(b, NfcTagRequest(c)).to)
    PROVE  Confirms(c)
<1> DEFINE r == NfcTagRequest(c)
           to == EditTag(b, r.id, r.json)
<1>1. NfcTagServe(b, r).to = to /\ Get(r.json, "confirm", FALSE)
    BY DEF NfcTagHarms, NfcTagServe, Says, Refuses
<1>2. "confirm" \in DOMAIN r.json /\ r.json["confirm"]
    BY <1>1 DEF Get
<1>3. "confirm" \in DOMAIN c /\ "latch_id" \in DOMAIN c
    BY DEF NfcTagCalls, update_nfc_tag
<1>4. "confirm" \notin DOMAIN LatchField(c)
    BY DEF LatchField, NoFields
<1>5. c.confirm # None /\ r.json["confirm"] = IsTrue(c.confirm)
    BY <1>2, <1>4 DEF NfcTagRequest, Body
<1> QED
    BY <1>2, <1>3, <1>5 DEF Confirms

----------------------------------------------------------------------------
(* Any request of any method, and any step.                                *)

LEMMA RequestsConfirm ==
    ASSUME NEW s \in Scenes, NEW o \in Communities(s), NEW c \in Calls(s),
           NEW mode \in KeyModes,
           AdminHarms(s, o, Serve(s, o, Request(s, c), mode).to)
    PROVE  Confirms(c)
<1> DEFINE r == AdminRequest(s, c)
           to == Serve(s, o, Request(s, c), mode).to
<1>1. /\ o \in AdminCommunities(s) /\ c \in AdminCalls(s)
      /\ to = AdminServe(s, o, r, mode).to /\ AdminHarms(s, o, to)
    BY AdminAssumption
<1>2. s \in {"codes", "tags"} /\ ~AdminHarms(s, o, o)
    BY <1>1 DEF AdminHarms, AccessCodeHarms, NfcTagHarms
<1>3. mode = "live" /\ to = LiveServe(s, o, r).to
    <2>1. mode # "live" => AdminServe(s, o, r, mode).to = o
        BY DEF AdminServe, Says
    <2> QED
        BY <1>1, <1>2, <2>1 DEF AdminServe
<1>4. CASE s = "codes"
    <2>1. o \in CodeBooks /\ c \in AccessCodeCalls
        BY <1>1, <1>4 DEF AdminCommunities, AdminCalls
    <2>2. to = AccessCodeServe(o, AccessCodeRequest(c)).to
        <3>1. r = AccessCodeRequest(c)
            BY <1>4 DEF AdminRequest, ConfigScenes
        <3>2. LiveServe(s, o, r) = AccessCodeServe(o, r)
            BY <1>4 DEF LiveServe, ConfigScenes
        <3> HIDE DEF to, r
        <3> QED
            BY <1>3, <3>1, <3>2
    <2>3. AccessCodeHarms(o, to)
        BY <1>1, <1>4 DEF AdminHarms
    <2> HIDE DEF to
    <2> QED
        BY <2>1, <2>2, <2>3, CodesConfirm
<1>5. CASE s = "tags"
    <2>1. o \in TagBoards /\ c \in NfcTagCalls
        BY <1>1, <1>5 DEF AdminCommunities, AdminCalls
    <2>2. to = NfcTagServe(o, NfcTagRequest(c)).to
        <3>1. r = NfcTagRequest(c)
            BY <1>5 DEF AdminRequest, ConfigScenes
        <3>2. LiveServe(s, o, r) = NfcTagServe(o, r)
            BY <1>5 DEF LiveServe, ConfigScenes
        <3> HIDE DEF to, r
        <3> QED
            BY <1>3, <3>1, <3>2
    <2>3. NfcTagHarms(o, to)
        BY <1>1, <1>5 DEF AdminHarms
    <2> HIDE DEF to
    <2> QED
        BY <2>1, <2>2, <2>3, TagsConfirm
<1> QED
    BY <1>2, <1>4, <1>5

LEMMA NothingHarmsNothing ==
    ASSUME NEW s, NEW o PROVE ~AdminHarms(s, o, o)
BY DEF AdminHarms, AccessCodeHarms, NfcTagHarms

LEMMA HarmfulStep ==
    ASSUME TypeInv, [Next]_vars, AdminHarms(scene, community, community')
    PROVE  \E m \in Managers : Advances(m) /\ Confirms(call[m])
<1>1. community' # community
    BY NothingHarmsNothing
<1>2. PICK m \in Managers : Advances(m) /\ pc[m] = "sent" /\ community' = Served(m).to
    BY <1>1, ChangingStep
<1>3. /\ scene \in Scenes /\ community \in Communities(scene)
      /\ call[m] \in Calls(scene) /\ key[m] \in KeyModes
    BY <1>2, CallUnderWay DEF KeyModes
<1>4. Confirms(call[m])
    BY <1>2, <1>3, RequestsConfirm DEF Served, Sent
<1> QED
    BY <1>2, <1>4

\* Whatever is retried, lost or done by others at the same time, no switch of
\* the code mode wipes a resident's code and no Scan Only gate loses its last
\* working tag but under a call whose confirm is True itself (HarmNeedsTrue).
THEOREM Confirmation == Spec => HarmNeedsTrue
<1>1. TypeInv /\ [Next]_vars =>
        [AdminHarms(scene, community, community') =>
           \E m \in Managers :
              /\ Advances(m)
              /\ "confirm" \in DOMAIN call[m]
              /\ IsTrue(call[m].confirm)]_vars
    BY HarmfulStep DEF Confirms
<1> QED
    BY <1>1, TypeInvariant, PTL DEF Spec, HarmNeedsTrue
----------------------------------------------------------------------------
(* Calls that have ended.                                                  *)

LEMMA ExceptionsRaised ==
    ASSUME NEW status, NEW code PROVE exception_for(status, code) # None
<1>1. exception_for(status, code) \in Exceptions
    BY DEF exception_for, Exceptions
<1> QED
    BY <1>1, ExceptionsAssumption

LEMMA LastOfAll == exception_for(503, None) = "UpstreamError"
BY ExceptionsAssumption DEF exception_for

\* A call that succeeded was answered by a 2xx to its last request.
LEMMA Succeeds ==
    ASSUME EndInv, returned # NoReturn, Succeeded(returned)
    PROVE  \E mid \in Communities(scene) :
             LET a == Serve(scene, mid, Request(scene, returned.call), key[returned.by])
             IN  Answers(returned, mid, a) /\ a.status \in 200..299
<1>1. returned.raised = None /\ returned.raised \notin Lost
    BY ExceptionsAssumption, ExceptionsRaised DEF Succeeded, Lost, Exceptions
<1>2. PICK mid \in Communities(scene) :
             Answers(returned, mid,
               Serve(scene, mid, Request(scene, returned.call), key[returned.by]))
    BY <1>1 DEF EndInv
<1>3. PICK a : a = Serve(scene, mid, Request(scene, returned.call), key[returned.by])
    OBVIOUS
<1>4. a.status \in 200..299
    BY <1>1, <1>2, <1>3, ExceptionsRaised DEF Answers
<1> QED
    BY <1>2, <1>3, <1>4

\* What a result with a test key was made of.
LEMMA TestResult ==
    ASSUME TypeInv, EndInv, returned # NoReturn, Succeeded(returned),
           key[returned.by] = "test",
           NEW live, live = Serve(scene, community, Request(scene, returned.call), "live")
    PROVE  /\ scene \in AdminScenes /\ community \in AdminCommunities(scene)
           /\ returned.call \in AdminCalls(scene)
           /\ live = LiveServe(scene, community, AdminRequest(scene, returned.call))
           /\ live.status \in 200..299
           /\ returned.result =
                AdminResult(scene, returned.call, TestBody(scene, returned.call, community))
<1>1. scene \in Scenes /\ community \in Communities(scene) /\ returned.call \in Calls(scene)
    BY DEF TypeInv, Typed, EndInv
<1>2. PICK mid \in Communities(scene) :
             LET a == Serve(scene, mid, Request(scene, returned.call), "test")
             IN  Answers(returned, mid, a) /\ a.status \in 200..299
    BY Succeeds
<1>3. PICK a : a = Serve(scene, mid, Request(scene, returned.call), "test")
    OBVIOUS
<1>4. /\ Answers(returned, mid, a) /\ a.status \in 200..299
      /\ a.to = mid /\ community = mid
    BY <1>1, <1>2, <1>3, ServeAssumption DEF Answers
<1>5. /\ live.status \in 200..299
      /\ Result(scene, returned.call, a.body) =
           AdminResult(scene, returned.call, TestBody(scene, returned.call, community))
    BY <1>1, <1>3, <1>4, TestServedIs
<1>6. returned.result = Result(scene, returned.call, a.body)
    BY <1>4 DEF Answers
<1> QED
    BY <1>1, <1>5, <1>6, ServedIs

\* And with a live key.
LEMMA LiveResult ==
    ASSUME TypeInv, EndInv, returned # NoReturn, Succeeded(returned),
           key[returned.by] = "live"
    PROVE  \E mid, a :
             /\ mid \in Communities(scene)
             /\ a = Serve(scene, mid, Request(scene, returned.call), "live")
             /\ Answers(returned, mid, a) /\ a.status \in 200..299
             /\ returned.result = AdminResult(scene, returned.call, a.body)
<1>1. scene \in Scenes /\ returned.call \in Calls(scene)
    BY DEF TypeInv, Typed, EndInv
<1>2. PICK mid \in Communities(scene) :
             LET a == Serve(scene, mid, Request(scene, returned.call), "live")
             IN  Answers(returned, mid, a) /\ a.status \in 200..299
    BY Succeeds
<1>3. PICK a : a = Serve(scene, mid, Request(scene, returned.call), "live")
    OBVIOUS
<1>4. Answers(returned, mid, a) /\ a.status \in 200..299
    BY <1>2, <1>3
<1>5. returned.result = Result(scene, returned.call, a.body)
    BY <1>4 DEF Answers
<1>6. returned.result = AdminResult(scene, returned.call, a.body)
    BY <1>1, <1>3, <1>4, <1>5, ServedIs
<1> QED
    BY <1>3, <1>4, <1>6

\* A caller can tell from the result alone whether anything happened.
THEOREM RehearsalsTold == Spec => []SimulatedIsTold
<1>1. TypeInv /\ EndInv => SimulatedIsTold
  <2> SUFFICES ASSUME TypeInv, EndInv, returned # NoReturn, Succeeded(returned)
               PROVE  /\ returned.result.simulated => Rehearsed(returned)
                      /\ Rehearsed(returned) /\
                           Serve(scene, community, Request(scene, returned.call), "live").to
                             # community
                           => returned.result.simulated
      BY DEF SimulatedIsTold
  <2>1. /\ scene \in Scenes /\ community \in Communities(scene)
        /\ returned.call \in Calls(scene) /\ key[returned.by] \in {"live", "test"}
      BY DEF TypeInv, Typed, EndInv, KeyModes
  <2>2. CASE key[returned.by] = "test"
    <3>1. PICK live : live = Serve(scene, community, Request(scene, returned.call), "live")
        OBVIOUS
    <3>2. live.to # community => returned.result.simulated
        BY <2>2, <3>1, TestResult, RehearsalsAreTold
    <3> QED
        BY <2>2, <3>1, <3>2 DEF Rehearsed
  <2>3. CASE key[returned.by] = "live"
    <3>1. PICK mid, a :
            /\ mid \in Communities(scene)
            /\ a = Serve(scene, mid, Request(scene, returned.call), "live")
            /\ Answers(returned, mid, a) /\ a.status \in 200..299
            /\ returned.result = AdminResult(scene, returned.call, a.body)
        BY <2>3, LiveResult
    <3>2. /\ scene \in AdminScenes /\ mid \in AdminCommunities(scene)
          /\ returned.call \in AdminCalls(scene)
          /\ a = LiveServe(scene, mid, AdminRequest(scene, returned.call))
        BY <2>1, <3>1, ServedIs
    <3>3. returned.result.simulated <=> Dry(returned.call)
        BY <3>1, <3>2, RehearsalsAreTold
    <3> QED
        BY <2>3, <3>3 DEF Rehearsed, Dry
  <2> QED
      BY <2>1, <2>2, <2>3
<1> QED
    BY <1>1, TypeInvariant, EndInvariant, PTL

\* What a test key reports is what a live key would have done.
THEOREM PreviewsTold == Spec => []PreviewsAreTrue
<1>1. TypeInv /\ EndInv => PreviewsAreTrue
  <2> SUFFICES ASSUME TypeInv, EndInv, returned # NoReturn, Succeeded(returned),
                      returned.result.simulated, key[returned.by] = "test"
               PROVE  AdminPreviews(scene, returned, community,
                        Serve(scene, community, Request(scene, returned.call), "live").to)
      BY DEF PreviewsAreTrue
  <2>1. PICK live : live = Serve(scene, community, Request(scene, returned.call), "live")
      OBVIOUS
  <2>2. AdminPreviews(scene, returned, community, live.to)
      BY <2>1, TestResult, RehearsalsAreTrue
  <2> QED
      BY <2>1, <2>2
<1> QED
    BY <1>1, TypeInvariant, EndInvariant, PTL

LEMMA EditMeant ==
    ASSUME TypeInv, EndInv, ReturnInv, returned # NoReturn, Undisturbed(returned),
           Succeeded(returned), returned.trace.fresh, key[returned.by] = "live"
    PROVE  AdminMeant(scene, returned.call, returned.trace.before, community)
<1> DEFINE c == returned.call
           before == returned.trace.before
<1>1. /\ scene \in Scenes /\ c \in Calls(scene)
      /\ before \in Communities(scene)
      /\ returned.trace.applied \in Nat /\ returned.trace.applied > 0
      /\ returned.trace.alone /\ Offered(scene, View(scene, before), c)
    BY DEF TypeInv, Typed, EndInv, ReturnInv, Traces, Undisturbed, Applied
<1>2. PICK mid, a :
        /\ mid \in Communities(scene)
        /\ a = Serve(scene, mid, Request(scene, c), "live")
        /\ Answers(returned, mid, a) /\ a.status \in 200..299
    BY LiveResult
<1>3. /\ before \in AdminCommunities(scene) /\ (Repeatable(scene, c) <=> AdminRepeatable(scene, c))
      /\ AdminOffered(scene, AdminView(scene, before), c)
    BY <1>1, AdminAssumption
<1>4. LiveAnswers(scene, c, mid, a) /\ community = a.to
    BY <1>1, <1>2, ServedIs DEF Answers
<1>5. CASE returned.trace.applied = 1
  <2>1. mid = before
      BY <1>2, <1>5 DEF Answers
  <2> QED
      BY <1>2, <1>3, <1>4, <2>1, RequestsKeepMeant
<1>6. CASE ~Repeatable(scene, c)
    BY <1>2, <1>3, <1>4, <1>6, RequestsKeepMeant
<1>7. CASE returned.trace.applied > 1 /\ Repeatable(scene, c)
  <2>1. PICK first : first = Serve(scene, before, Request(scene, c), "live")
      OBVIOUS
  <2>2. LiveAnswers(scene, c, before, first)
      BY <1>1, <2>1, ServedIs
  <2>3. mid = first.to
      BY <1>1, <1>2, <1>7, <2>1 DEF Answers
  <2>4. first.status \in 200..299
    <3> SUFFICES ASSUME first.status \notin 200..299 PROVE FALSE
        OBVIOUS
    <3>1. mid = before
        BY <2>2, <2>3, RefusalsChangeNothing
    <3> QED
        BY <1>2, <2>1, <3>1
  <2>5. community = first.to
      BY <1>1, <1>2, <1>4, <1>7, <2>1, <2>3, RepeatAssumption
  <2> QED
      BY <1>3, <2>2, <2>4, <2>5, RequestsKeepMeant
<1> QED
    BY <1>1, <1>5, <1>6, <1>7

\* A call made from up-to-date knowledge, undisturbed, does what its caller had
\* in mind, however many times it had to be sent.
THEOREM EditsMeant == Spec => []EditsDoWhatIsMeant
<1>1. TypeInv /\ EndInv /\ ReturnInv => EditsDoWhatIsMeant
    BY EditMeant DEF EditsDoWhatIsMeant
<1> QED
    BY <1>1, TypeInvariant, EndInvariant, EffectInvariant, PTL

----------------------------------------------------------------------------
(* Results.                                                                *)

SoundInv == Sound(scene, community)

LEMMA SoundStep ==
    ASSUME TypeInv, SoundInv, [Next]_vars PROVE SoundInv'
<1>1. scene' = scene /\ scene \in Scenes
    BY DEF Next, Refresh, Begin, Deliver, Answer, Retry, GiveUp, Lose, Return, vars,
           TypeInv, Typed
<1>2. CASE community' = community
    BY <1>1, <1>2 DEF SoundInv
<1>3. CASE community' # community
  <2>1. PICK m \in Managers : pc[m] = "sent" /\ community' = Served(m).to
      BY <1>3, ChangingStep
  <2>2. /\ community \in Communities(scene) /\ call[m] \in Calls(scene)
        /\ key[m] \in {"live", "test"}
      BY <2>1, CallUnderWay
  <2>3. PICK a : a = Serve(scene, community, Request(scene, call[m]), "live")
      OBVIOUS
  <2>4. community' = a.to
      BY <1>1, <1>3, <2>1, <2>2, <2>3, ServeAssumption DEF Served, Sent
  <2>5. Sound(scene, a.to)
      BY <1>1, <2>2, <2>3, ServedIs, RequestsKeepSound DEF SoundInv
  <2> QED
      BY <1>1, <2>4, <2>5 DEF SoundInv
<1> QED
    BY <1>2, <1>3

\* Nobody ever lives in a home that is hidden or removed, and settings that
\* exclude each other are never both set.
LEMMA SoundInvariant == Spec => []SoundInv
<1>1. Init => SoundInv
    BY StartAssumption, AdminAssumption, SoundAtFirst DEF Init, SoundInv
<1>2. TypeInv /\ SoundInv /\ [Next]_vars => SoundInv'
    BY SoundStep
<1> QED
    BY <1>1, <1>2, TypeInvariant, PTL DEF Spec

LEMMA ResultTrue ==
    ASSUME TypeInv, EndInv, ReturnInv, SoundInv, returned # NoReturn, Applied(returned),
           key[returned.by] = "live"
    PROVE  AdminHonest(scene, returned, returned.trace.before, community,
                       Undisturbed(returned))
<1> DEFINE c == returned.call
           before == returned.trace.before
<1>1. /\ scene \in Scenes /\ community \in Communities(scene) /\ c \in Calls(scene)
      /\ before \in Communities(scene)
      /\ returned.trace.applied \in Nat /\ returned.trace.applied > 0
      /\ Undisturbed(returned) => returned.trace.alone
    BY DEF TypeInv, Typed, EndInv, ReturnInv, Traces, Undisturbed, Applied
<1>2. /\ scene \in AdminScenes /\ community \in AdminCommunities(scene)
      /\ c \in AdminCalls(scene) /\ before \in AdminCommunities(scene)
      /\ (Repeatable(scene, c) <=> AdminRepeatable(scene, c))
    BY <1>1, AdminAssumption
<1>3. PICK alone \in BOOLEAN : alone = Undisturbed(returned)
    BY DEF Undisturbed
<1>4. CASE returned.raised \in Lost
  <2>1. returned.raised \in {"APITimeoutError", "UpstreamError"}
      BY <1>4, LastOfAll DEF Lost
  <2>2. AdminHonest(scene, returned, before, community, alone)
      BY <1>2, <2>1, LossesAreHonest DEF SoundInv
  <2> QED
      BY <1>3, <2>2
<1>5. CASE returned.raised \notin Lost
  <2>1. PICK mid \in Communities(scene) :
               Answers(returned, mid, Serve(scene, mid, Request(scene, c), "live"))
      BY <1>5 DEF EndInv
  <2>2. PICK a : a = Serve(scene, mid, Request(scene, c), "live")
      OBVIOUS
  <2>3. Answers(returned, mid, a) /\ community = a.to
      BY <2>1, <2>2 DEF Answers
  <2>4. /\ LiveAnswers(scene, c, mid, a)
        /\ a.status \in 200..299 => Result(scene, c, a.body) = AdminResult(scene, c, a.body)
      BY <1>1, <2>2, ServedIs
  <2>5. EndsWith(returned, a, AdminResult(scene, c, a.body))
      BY <2>3, <2>4 DEF Answers, EndsWith
  <2>6. ASSUME returned.trace.applied > 1, alone, AdminRepeatable(scene, c)
        PROVE  \E first : LiveAnswers(scene, c, before, first) /\ mid = first.to
    <3>1. PICK first : first = Serve(scene, before, Request(scene, c), "live")
        OBVIOUS
    <3>2. LiveAnswers(scene, c, before, first)
        BY <1>1, <3>1, ServedIs
    <3>3. mid = first.to
        BY <1>1, <1>2, <1>3, <2>3, <2>6, <3>1 DEF Answers
    <3> QED
        BY <3>2, <3>3
  <2>7. returned.trace.applied = 1 => before = mid
      BY <2>3 DEF Answers
  <2>8. AdminHonest(scene, returned, before, a.to, alone)
      BY <1>1, <1>2, <2>3, <2>4, <2>5, <2>6, <2>7, AnswersAreTrue DEF SoundInv
  <2> QED
      BY <1>3, <2>3, <2>8
<1> QED
    BY <1>4, <1>5

\* The result a live call returns, and the exception it raises, is true of the
\* community it leaves; and if nobody came between the attempts it says what the
\* last of them did: after a first attempt that was applied unseen, a mode switch
\* says that nothing changed, a bulk add that everybody was a member, a removal
\* that there was nothing to remove, and never the reverse.
THEOREM ResultsTold == Spec => []ResultsAreTrue
<1>1. TypeInv /\ EndInv /\ ReturnInv /\ SoundInv => ResultsAreTrue
    BY ResultTrue DEF ResultsAreTrue
<1> QED
    BY <1>1, TypeInvariant, EndInvariant, EffectInvariant, SoundInvariant, PTL

----------------------------------------------------------------------------
(* The families meet what ManagerCalls assumes of its constants, for all   *)
(* values of theirs: the server stays within the modelled states, does not *)
(* tell a repetition of a repeatable call, and creates no more than the    *)
(* call declares.                                                          *)

\* A request leaves the community in a state of its family.
LEMMA AnswersTyped ==
    ASSUME NEW s, NEW c, NEW o, NEW a, LiveAnswers(s, c, o, a)
    PROVE  a.to \in AdminCommunities(s)
<1>1. CASE s = "entry"
  <2>1. /\ o \in GuestEntries /\ c \in GuestEntryCalls
        /\ a = GuestEntryServe(o, GuestEntryRequest(c))
      BY <1>1 DEF LiveAnswers, EntryAnswers
  <2>2. EntryEffect(c, o, a.to) \/ a.to = o
      BY <2>1, EntryAnswer
  <2> QED
      BY <1>1, <2>1, <2>2, EntryWindows DEF AdminCommunities
<1>2. CASE s = "codes"
    BY <1>2, CodesTyped DEF LiveAnswers, AdminCommunities
<1>3. CASE s = "tags"
    BY <1>3, TagsTyped DEF LiveAnswers, TagAnswers, AdminCommunities
<1>4. CASE s = "short"
  <2>1. a.to = o \/ a.status \in 200..299
      BY <1>4 DEF LiveAnswers, ShortAnswers
  <2> QED
      BY <1>4, <2>1, ShortLeft DEF LiveAnswers, AdminCommunities
<1>5. CASE s = "schedule"
    BY <1>5, ScheduleTyped DEF LiveAnswers, AdminCommunities
<1>6. CASE s = "hold"
    BY <1>6, HoldTyped DEF LiveAnswers, AdminCommunities
<1>7. CASE s = "roster"
    BY <1>7, RosterTyped DEF LiveAnswers, AdminCommunities
<1>8. CASE s = "homes"
    BY <1>8, HomesTyped DEF LiveAnswers, AdminCommunities
<1>9. CASE s = "links"
    BY <1>9, LinksTyped DEF LiveAnswers, AdminCommunities
<1>10. CASE s = "alerts"
    BY <1>10, AlertsTyped DEF LiveAnswers, AdminCommunities
<1>11. CASE s = "settings"
    BY <1>11, SettingsTyped DEF LiveAnswers, AdminCommunities
<1>12. CASE s = "keys"
    BY <1>12, KeyTyped DEF LiveAnswers, AdminCommunities
<1>13. CASE s = "lines"
    BY <1>13, LineTyped DEF LiveAnswers, AdminCommunities
<1>14. CASE s = "fence"
    BY <1>14, FenceTyped DEF LiveAnswers, AdminCommunities
<1> QED
    BY <1>1, <1>2, <1>3, <1>4, <1>5, <1>6, <1>7, <1>8, <1>9, <1>10, <1>11, <1>12,
       <1>13, <1>14 DEF LiveAnswers

\* ServeAssumption, of the families: whatever request of theirs it is sent, the
\* server stays within the modelled states; with a test key it changes nothing.
THEOREM FamiliesServe ==
    \A s \in AdminScenes : \A o \in AdminCommunities(s), c \in AdminCalls(s) :
        /\ AdminServe(s, o, AdminRequest(s, c), "live").to \in AdminCommunities(s)
        /\ AdminServe(s, o, AdminRequest(s, c), "test").to = o
<1> SUFFICES ASSUME NEW s \in AdminScenes, NEW o \in AdminCommunities(s),
                    NEW c \in AdminCalls(s)
             PROVE  /\ AdminServe(s, o, AdminRequest(s, c), "live").to
                         \in AdminCommunities(s)
                    /\ AdminServe(s, o, AdminRequest(s, c), "test").to = o
    OBVIOUS
<1>1. PICK a : a = LiveServe(s, o, AdminRequest(s, c))
    OBVIOUS
<1>2. a.to \in AdminCommunities(s)
    BY <1>1, RequestAnswered, AnswersTyped
<1>3. AdminServe(s, o, AdminRequest(s, c), "live") = a
    BY <1>1 DEF AdminServe
<1>4. AdminServe(s, o, AdminRequest(s, c), "test").to = o
    BY DEF AdminServe, Says
<1> QED
    BY <1>2, <1>3, <1>4

LEMMA EntryRepeated ==
    ASSUME NEW e \in GuestEntries, NEW c \in GuestEntryCalls, GuestEntryRepeatable(c),
           NEW f, EntryEffect(c, e, f), NEW g, EntryEffect(c, f, g)
    PROVE  g = f
<1>1. f \in GuestEntries
    BY EntryWindows
<1>2. CASE c.op = "set_guest_view_entry_enabled"
    BY <1>1, <1>2 DEF EntryEffect, GuestEntries
<1>3. CASE c.op = "set_guest_view_entry_latches"
  <2>1. c.latch_ids \in SUBSET Gates
      BY <1>3, EntryCallsAre
  <2>2. f = SetLatches(e, c.latch_ids) /\ g = SetLatches(f, c.latch_ids)
      BY <1>3 DEF EntryEffect
  <2>3. g \in GuestEntries
      BY <1>1, EntryWindows
  <2>4. f.eligible = c.latch_ids
      BY <2>1, <2>2 DEF SetLatches, GuestEntries
  <2>5. \A i \in EntryIds : i \in Live(f.windows) => f.windows[i].gate \in c.latch_ids
      BY <2>1, <2>2 DEF SetLatches, GuestEntries, Live
  <2>6. /\ g.eligible = f.eligible /\ g.allowed = f.allowed
        /\ \A i \in EntryIds : g.windows[i] = f.windows[i]
      BY <1>1, <2>2, <2>4, <2>5 DEF SetLatches, GuestEntries
  <2> QED
      BY <1>1, <2>3, <2>6 DEF GuestEntries
<1>4. CASE c.op = "remove_guest_view_entry_schedule"
  <2>1. c.schedule_id \in EntryIds
      BY <1>4, EntryCallsAre
  <2>2. f.windows[c.schedule_id] = Gone
      BY <1>4, <2>1 DEF EntryEffect, GuestEntries
  <2>3. c.schedule_id \in Live(f.windows)
      BY <1>4 DEF EntryEffect
  <2> QED
      BY <2>2, <2>3 DEF Live
<1> QED
    BY <1>2, <1>3, <1>4 DEF EntryEffect, GuestEntryRepeatable

LEMMA CodesRepeated ==
    ASSUME NEW b \in CodeBooks, NEW c \in AccessCodeCalls, c.op # "create_access_code",
           NEW a, CodeAnswers(c, b, a), a.to # b, NEW z, CodeAnswers(c, a.to, z)
    PROVE  z.to = a.to
<1>1. a.to \in CodeBooks
    BY CodesTyped
<1>2. CASE c.op = "update_access_code"
  <2>1. c.id \in CodeIds
      BY <1>2, CodeCallsAre
  <2>2. a.to = [b EXCEPT !.codes[c.id] = Updated(c, b.codes[c.id])]
      BY <1>2 DEF CodeAnswers
  <2>3. a.to.codes[c.id] = Updated(c, b.codes[c.id])
      BY <2>1, <2>2 DEF CodeBooks
  <2>4. Updated(c, a.to.codes[c.id]) = a.to.codes[c.id]
      BY <2>3 DEF Updated
  <2>5. \/ z.to = a.to
        \/ z.to = [a.to EXCEPT !.codes[c.id] = a.to.codes[c.id]]
      BY <1>2, <2>4 DEF CodeAnswers
  <2> QED
      BY <1>1, <2>1, <2>5 DEF CodeBooks
<1>3. CASE c.op = "delete_access_code"
  <2>1. c.id \in CodeIds
      BY <1>3, CodeCallsAre
  <2>2. a.to = [b EXCEPT !.codes[c.id] = Gone]
      BY <1>3 DEF CodeAnswers
  <2>3. c.id \notin Managed(a.to)
      BY <2>1, <2>2 DEF CodeBooks, Managed, Live
  <2> QED
      BY <1>3, <2>3 DEF CodeAnswers
<1>4. CASE c.op = "set_access_code_mode"
  <2>1. a.to = FlipMode(b, c.mode)
      BY <1>4 DEF CodeAnswers
  <2>2. a.to.mode = c.mode
      BY <2>1 DEF FlipMode, CodeBooks
  <2> QED
      BY <1>4, <2>2 DEF CodeAnswers
<1> QED
    BY <1>2, <1>3, <1>4 DEF CodeAnswers

\* A PIN that is live already is not created again.
LEMMA CodeCreatedOnce ==
    ASSUME NEW b \in CodeBooks, NEW c \in AccessCodeCalls, c.op = "create_access_code",
           NEW a, a = AccessCodeServe(b, AccessCodeRequest(c)), a.to # b,
           NEW z, z = AccessCodeServe(a.to, AccessCodeRequest(c))
    PROVE  z.to = a.to
<1>1. CodeAnswers(c, b, a) /\ a.to \in CodeBooks
    BY CodeAnswer, CodesTyped
<1>2. PICK r : r = AccessCodeRequest(c)
    OBVIOUS
<1>3. r.path = "access-codes"
    BY <1>2 DEF AccessCodeRequest
<1>4. PICK i \in Unused(b.codes) :
         a.to = [b EXCEPT !.codes[i] = [disabled |-> FALSE, latches |-> c.latch_ids]]
    BY <1>1 DEF CodeAnswers
<1>5. c.latch_ids \in GateLists
    BY CodeCallsAre
<1>6. i \in CodeIds /\ b.codes[i] = Never
    BY <1>4 DEF Unused, CodeBooks
<1>7. i # Resident
    BY <1>4, CodesAre
<1>8. a.to.codes[i] = [disabled |-> FALSE, latches |-> c.latch_ids] /\ i \in DOMAIN a.to.codes
    BY <1>4, <1>6 DEF CodeBooks
<1>9. a.to.codes[i] \notin {Never, Gone}
    BY <1>5, <1>8, CodeRowAssumption DEF GateLists
<1>10. i \in Managed(a.to)
    BY <1>7, <1>8, <1>9 DEF Managed, Live
<1>11. z = Refuses(a.to, 409, "duplicate_code")
    BY <1>2, <1>3, <1>10 DEF AccessCodeServe
<1> QED
    BY <1>11 DEF Refuses, Says

LEMMA TagsRepeated ==
    ASSUME NEW b \in TagBoards, NEW c \in NfcTagCalls, NEW a, TagAnswers(c, b, a),
           a.to # b, NEW z, TagAnswers(c, a.to, z)
    PROVE  z.to = a.to
<1>1. a.to = TagEdited(c, b)
    BY DEF TagAnswers
<1>2. /\ a.to \in TagBoards /\ c.tag \in Tags
      /\ a.to.tags[c.tag].latch =
           IF c.latch_id # Unset THEN c.latch_id ELSE b.tags[c.tag].latch
      /\ a.to.tags[c.tag].disabled =
           IF c.disabled # None THEN c.disabled ELSE b.tags[c.tag].disabled
    BY <1>1, TagsTyped, TagCallsAre
<1>3. /\ TagEdited(c, a.to) \in TagBoards
      /\ TagEdited(c, a.to).tags[c.tag].latch = a.to.tags[c.tag].latch
      /\ TagEdited(c, a.to).tags[c.tag].disabled = a.to.tags[c.tag].disabled
      /\ \A t \in Tags \ {c.tag} : TagEdited(c, a.to).tags[t] = a.to.tags[t]
    BY <1>2, TagsTyped
<1>4. \A t \in Tags : TagEdited(c, a.to).tags[t] = a.to.tags[t]
  <2>1. /\ TagEdited(c, a.to).tags[c.tag] \in TagStates
        /\ a.to.tags[c.tag] \in TagStates
      BY <1>2, <1>3 DEF TagBoards
  <2>2. \A x, y \in TagStates : x.latch = y.latch /\ x.disabled = y.disabled => x = y
      BY DEF TagStates
  <2> QED
      BY <1>2, <1>3, <2>1, <2>2
<1>5. TagEdited(c, a.to) = a.to
    BY <1>2, <1>3, <1>4 DEF TagBoards, TagEdited
<1> QED
    BY <1>5 DEF TagAnswers

LEMMA ShortRepeated ==
    ASSUME NEW b \in ShortBooks, NEW c \in ShortCodeCalls, ShortCodeRepeatable(c),
           NEW a, ShortAnswers(c, b, a), a.to # b, NEW z, ShortAnswers(c, a.to, z)
    PROVE  z.to = a.to
<1>1. a.status \in 200..299
    BY DEF ShortAnswers
<1>2. PICK n \in ShortNames :
         /\ PointsTo(c, b, n, a)
         /\ a.to \in ShortBooks /\ a.to.codes[n] = c.latch_id
         /\ c.latch_id \in Gates \cup {None}
         /\ c.op = "create_short_code" => c.code \in {n, None}
         /\ c.op = "assign_short_code" => n = c.code
    BY <1>1, ShortLeft
<1>3. a.to.codes[n] # Never
    BY <1>2, ShortCodeAssumption
<1>4. SUFFICES ASSUME z.to # a.to PROVE FALSE
    OBVIOUS
<1>5. z.status \in 200..299
    BY <1>4 DEF ShortAnswers
<1>6. PICK m \in ShortNames :
         /\ PointsTo(c, a.to, m, z)
         /\ c.op = "create_short_code" => a.to.codes[m] = Never /\ c.code \in {m, None}
         /\ c.op = "assign_short_code" => m = c.code
    BY <1>2, <1>5, ShortLeft
<1>7. m = n
    BY <1>1, <1>2, <1>6 DEF ShortCodeRepeatable, ShortAnswers
<1>8. c.op = "assign_short_code"
    BY <1>3, <1>6, <1>7 DEF ShortAnswers
<1>9. z.to = [a.to EXCEPT !.codes[n] = c.latch_id]
    BY <1>6, <1>7 DEF PointsTo
<1> QED
    BY <1>2, <1>4, <1>9 DEF ShortBooks

LEMMA HoldRepeated ==
    ASSUME NEW h \in Holds, NEW c \in HoldOpenCalls,
           c.op \notin {"add_hold_open_event", "add_hold_open_recurring"},
           NEW a, HoldAnswers(c, h, a), a.to # h, NEW z, HoldAnswers(c, a.to, z)
    PROVE  z.to = a.to
<1>1. a.to \in Holds
    BY HoldTyped
<1>2. CASE c.op = "set_hold_open"
  <2>1. a.to.manual = Bool(c.state)
      BY <1>2, ManualLeft DEF HoldAnswers, HoldRefused
  <2>2. z.to = [a.to EXCEPT !.manual = a.to.manual]
      BY <1>2, <2>1 DEF HoldAnswers, HoldRefused, ManualSet
  <2> QED
      BY <1>1, <2>2 DEF Holds
<1>3. CASE c.op = "set_hold_open_disabled_until"
  <2>1. a.to.until = c.until
      BY <1>3, UntilLeft DEF HoldAnswers, HoldRefused
  <2>2. z.to = [a.to EXCEPT !.until = a.to.until]
      BY <1>3, <2>1 DEF HoldAnswers, HoldRefused, UntilSet
  <2> QED
      BY <1>1, <2>2 DEF Holds
<1>4. CASE c.op = "remove_hold_open_event"
  <2>1. a.to.events[c.id] \in {Never, Gone}
      BY <1>4, EventRemovedLeft DEF HoldAnswers, HoldRefused
  <2>2. a.to.events[c.id] # TRUE
      BY <2>1, HoldRowAssumption
  <2>3. z.to = [a.to EXCEPT !.events[c.id] = a.to.events[c.id]]
      BY <1>4, <2>2 DEF HoldAnswers, HoldRefused, EventRemoved
  <2> QED
      BY <1>1, <2>3 DEF Holds
<1>5. CASE c.op = "update_hold_open_recurring"
  <2>1. /\ c.id \in Live(h.weekly) /\ c.id \in WeeklyIds /\ h.weekly[c.id] \in Weekly
        /\ WeeklySet(h, c.id, WeeklyEdited(c, h.weekly[c.id]), a)
      BY <1>5, HoldsAre DEF HoldAnswers, HoldRefused
  <2>2. a.to.weekly[c.id] = WeeklyEdited(c, h.weekly[c.id])
      BY <1>5, <2>1, WeeklyTyped, WeeklySetLeft
  <2>3. WeeklyEdited(c, a.to.weekly[c.id]) = a.to.weekly[c.id]
      BY <2>2 DEF WeeklyEdited
  <2>4. \/ z.to = a.to
        \/ z.to = [a.to EXCEPT !.weekly[c.id] = a.to.weekly[c.id]]
      BY <1>5, <2>3 DEF HoldAnswers, HoldRefused, WeeklySet
  <2> QED
      BY <1>1, <2>1, <2>4 DEF Holds
<1>6. CASE c.op = "remove_hold_open_recurring"
  <2>1. a.to.weekly[c.id] = Gone
      BY <1>6, WeeklyRemovedLeft DEF HoldAnswers, HoldRefused
  <2>2. c.id \notin Live(a.to.weekly)
      BY <2>1 DEF Live
  <2> QED
      BY <1>6, <2>2 DEF HoldAnswers, HoldRefused
<1> QED
    BY <1>2, <1>3, <1>4, <1>5, <1>6 DEF HoldAnswers, HoldRefused

LEMMA LinksRepeated ==
    ASSUME NEW b \in LinkBooks, NEW c \in GuestLinkCalls, c.op = "revoke_guest_link",
           NEW a, LinkAnswers(c, b, a), a.to # b, NEW z, LinkAnswers(c, a.to, z)
    PROVE  z.to = a.to
<1>1. a.status \in 200..299 /\ a.to \in LinkBooks
    BY LinksTyped DEF LinkAnswers
<1>2. PICK i \in LinkIds, x \in LinkRows :
         LinkShown(b, i, x, a) /\ i = c.id /\ x.revoked = TRUE
    BY <1>1, LinkChanged
<1>3. a.to.links[c.id] = x
    BY <1>2, LinkLeft
<1>4. SUFFICES ASSUME z.to # a.to PROVE FALSE
    OBVIOUS
<1>5. z.to = [a.to EXCEPT !.links[c.id] = [a.to.links[c.id] EXCEPT !.revoked = TRUE]]
    BY <1>4 DEF LinkAnswers, LinkRevoked, LinkShown
<1>6. [x EXCEPT !.revoked = TRUE] = x
    BY <1>2 DEF LinkRows
<1>7. z.to = [a.to EXCEPT !.links[c.id] = a.to.links[c.id]]
    BY <1>3, <1>5, <1>6
<1> QED
    BY <1>1, <1>2, <1>4, <1>7 DEF LinkBooks

LEMMA AlertsRepeated ==
    ASSUME NEW x \in Alerts, NEW c \in NotificationCalls, c.op # "add_quiet_hours",
           NEW a, AlertsAnswers(c, x, a), a.to # x, NEW z, AlertsAnswers(c, a.to, z)
    PROVE  z.to = a.to
<1>1. a.to \in Alerts
    BY AlertsTyped
<1>2. CASE c.op = "set_my_notifications_enabled"
  <2>1. a.to.enabled[c.owner] = Bool(c.enabled)
      BY <1>2, SwitchLeft DEF AlertsAnswers, AlertsRefused
  <2>2. \/ z.to = a.to
        \/ z.to = [a.to EXCEPT !.enabled[c.owner] = a.to.enabled[c.owner]]
      BY <1>2, <2>1 DEF AlertsAnswers, AlertsRefused, SwitchSet
  <2> QED
      BY <1>1, <2>2 DEF Alerts
<1>3. CASE c.op = "remove_quiet_hours"
  <2>1. /\ c.id \in Mine(x, c.owner) /\ QuietBecomes(x, c.id, Gone, a.to)
        /\ c.id \in QuietIds
      BY <1>3, AlertsAre DEF AlertsAnswers, AlertsRefused
  <2>2. a.to.quiet[c.id] = Gone
    <3>1. PICK i \in QuietIds : i = c.id
        BY <2>1
    <3>2. /\ a.to \in Alerts /\ a.to.quiet[i] = Gone
          /\ \A j \in QuietIds \ {i} : a.to.quiet[j] = x.quiet[j]
          /\ a.to.available = x.available /\ a.to.enabled = x.enabled
        BY <2>1, <3>1, QuietLeft
    <3> QED
        BY <3>1, <3>2
  <2>3. c.id \notin Mine(a.to, c.owner)
      BY <1>1, <2>2, AlertsAre DEF Live
  <2> QED
      BY <1>3, <2>3 DEF AlertsAnswers, AlertsRefused
<1> QED
    BY <1>2, <1>3 DEF AlertsAnswers, AlertsRefused

LEMMA HomesRepeated ==
    ASSUME NEW o \in Units, NEW c \in HomeCalls, c.op # "add_home",
           NEW a, HomesAnswers(c, o, a), a.to # o, NEW z, HomesAnswers(c, a.to, z)
    PROVE  z.to = a.to
<1>1. a.to \in Units
    BY HomesTyped
<1>2. CASE c.op = "update_home"
  <2>1. /\ c.id \in HomeIds /\ o.homes[c.id] \in HomeRows
        /\ HomeBecomes(o, c.id, HomeGiven(c, o.homes[c.id]), a.to)
      BY <1>2, UnitsAre DEF HomesAnswers, HomesRefused, HomeEdited
  <2>2. HomeGiven(c, o.homes[c.id]) \in HomeRows
      BY <1>2, <2>1, HomeGivenIs
  <2>3. a.to.homes[c.id] = HomeGiven(c, o.homes[c.id])
      BY <2>1, <2>2, HomeLeft
  <2>4. HomeGiven(c, a.to.homes[c.id]) = a.to.homes[c.id]
      BY <2>3 DEF HomeGiven, Chosen
  <2>5. z.to = a.to \/ HomeBecomes(a.to, c.id, a.to.homes[c.id], z.to)
      BY <1>2, <2>4 DEF HomesAnswers, HomesRefused, HomeEdited
  <2>6. z.to = a.to \/ z.to = [a.to EXCEPT !.homes[c.id] = a.to.homes[c.id]]
      BY <2>5 DEF HomeBecomes
  <2> QED
      BY <1>1, <2>1, <2>6 DEF Units
<1>3. CASE c.op = "remove_home"
  <2>1. c.id \in HomeIds /\ HomeEmptied(o, c.id, a.to)
      BY <1>3, UnitsAre DEF HomesAnswers, HomesRefused, HomeRemovedIn
  <2>2. c.id \notin Live(a.to.homes)
      BY <2>1, EmptiedGone
  <2> QED
      BY <1>3, <2>2 DEF HomesAnswers, HomesRefused, HomeRemovedIn
<1>4. CASE c.op = "set_move_out_date"
  <2>1. a.to.leaves[c.id] = c.date
      BY <1>4, LeavesLeft DEF HomesAnswers, HomesRefused
  <2>2. \/ z.to = a.to
        \/ z.to = [a.to EXCEPT !.leaves[c.id] = a.to.leaves[c.id]]
      BY <1>4, <2>1 DEF HomesAnswers, HomesRefused, LeavesAt
  <2> QED
      BY <1>1, <2>2 DEF Units
<1> QED
    BY <1>2, <1>3, <1>4 DEF HomesAnswers, HomesRefused

LEMMA PersonRepeated ==
    ASSUME NEW c, NEW x, NEW keys
    PROVE  PersonAfter(c, PersonAfter(c, x, keys), keys) = PersonAfter(c, x, keys)
<1>1. Without(Without(x, keys), keys) = Without(x, keys)
    BY DEF Without
<1>2. \A off : Switched(Switched(x, keys, off), keys, off) = Switched(x, keys, off)
    BY DEF Switched
<1>3. Grants(Grants(x, keys), keys) = Grants(x, keys)
    BY DEF Grants, Held
<1> QED
    BY <1>1, <1>2, <1>3 DEF PersonAfter

LEMMA RosterRepeated ==
    ASSUME NEW o \in Rosters, NEW c \in RosterCalls,
           NEW a, RosterAnswers(c, o, a), a.to # o, NEW z, RosterAnswers(c, a.to, z)
    PROVE  z.to = a.to
<1>1. a.to \in Rosters /\ z.to \in Rosters
    BY RosterTyped
<1>2. ItemsFit(c, o) /\ a.to = RosterLeft(c, o)
    BY DEF RosterAnswers, RosterRefused, RosterRehearsed, RosterWritten,
       RosterProcessed
<1>3. SUFFICES ASSUME z.to # a.to PROVE FALSE
    OBVIOUS
<1>4. ItemsFit(c, a.to) /\ z.to = RosterLeft(c, a.to)
    BY <1>3 DEF RosterAnswers, RosterRefused, RosterRehearsed, RosterWritten,
       RosterProcessed
<1>5. ASSUME NEW p \in People
      PROVE  z.to.people[p] = a.to.people[p]
  <2>1. CASE p \notin DOMAIN c.items
      BY <1>1, <1>4, <2>1, EachPerson
  <2>2. CASE p \in FailedOf(c, o)
    <3>1. a.to.people[p] = o.people[p]
        BY <1>2, <2>2, EachPerson
    <3>2. p \in FailedOf(c, a.to)
        BY <2>2, <3>1 DEF FailedOf, WhyNot
    <3> QED
        BY <1>1, <1>4, <3>2, EachPerson
  <2>3. CASE p \in DOMAIN c.items \ FailedOf(c, o)
    <3>1. a.to.people[p] = PersonAfter(c, o.people[p], c.items[p])
        BY <1>2, <2>3, EachPerson
    <3>2. PersonAfter(c, a.to.people[p], c.items[p]) = a.to.people[p]
        BY <3>1, PersonRepeated
    <3> QED
        BY <1>1, <1>4, <3>2, EachPerson
  <2> QED
      BY <2>1, <2>2, <2>3 DEF FailedOf
<1> QED
    BY <1>1, <1>3, <1>5 DEF Rosters

LEMMA SettingsRepeated ==
    ASSUME NEW o \in Settings, NEW c \in SettingsCalls,
           NEW a, SettingsAnswers(c, o, a), a.to # o, NEW z, SettingsAnswers(c, a.to, z)
    PROVE  z.to = a.to
<1>1. a.to \in Settings
    BY SettingsTyped
<1>2. SettingsEdited(c, o, a.to)
    BY DEF SettingsAnswers
<1>3. a.to.settings = EditSettings(o.settings, c.patch)
    BY <1>2 DEF SettingsEdited, Settings
<1>4. EditSettings(a.to.settings, c.patch) = a.to.settings
  <2> DEFINE s == EditSettings(o.settings, c.patch)
  <2>1. \A n \in SettingNames :
           EditSettings(s, c.patch)[n] = EditSettings(o.settings, c.patch)[n]
      BY DEF EditSettings
  <2> QED
      BY <1>3, <2>1 DEF EditSettings
<1>5. z.to = a.to \/ z.to = [a.to EXCEPT !.settings = a.to.settings]
    BY <1>4 DEF SettingsAnswers, SettingsEdited
<1> QED
    BY <1>1, <1>5 DEF Settings

LEMMA KeyRepeated ==
    ASSUME NEW k \in Keys, NEW c \in KeyCalls,
           NEW a, KeyAnswers(c, k, a), a.to # k, NEW z, KeyAnswers(c, a.to, z)
    PROVE  z.to = a.to
BY DEF KeyAnswers, KeyEdited, Chosen

LEMMA LineRepeated ==
    ASSUME NEW o \in SenseLines, NEW c \in SenseLineCalls,
           NEW a, LineAnswers(c, o, a), a.to # o, NEW z, LineAnswers(c, a.to, z)
    PROVE  z.to = a.to
<1>1. a.to \in SenseLines /\ c.box_id \in Boxes
    BY LineTyped DEF SenseLineCalls, update_sense_line
<1>2. a.to[c.box_id] = LineGiven(c, o[c.box_id])
    BY <1>1 DEF LineAnswers, LineEdited, SenseLines
<1>3. LineGiven(c, a.to[c.box_id]) = a.to[c.box_id]
    BY <1>2 DEF LineGiven, Chosen
<1>4. z.to = a.to \/ z.to = [a.to EXCEPT ![c.box_id] = a.to[c.box_id]]
    BY <1>3 DEF LineAnswers, LineEdited
<1> QED
    BY <1>1, <1>4 DEF SenseLines

LEMMA FenceRepeated ==
    ASSUME NEW x \in Fences, NEW c \in GeofenceCalls,
           NEW a, FenceAnswers(c, x, a), a.to # x, NEW z, FenceAnswers(c, a.to, z)
    PROVE  z.to = a.to
<1>1. a.to = FenceGiven(c, x)
    BY DEF FenceAnswers
<1>2. FenceGiven(c, a.to) = a.to
  <2>1. PICK g : g = FenceGiven(c, a.to)
      OBVIOUS
  <2>2. a.to \in Fences
      BY FenceTyped
  <2>3. g.enabled = a.to.enabled /\ g.radius = a.to.radius /\ g.located = a.to.located
      BY <1>1, <2>1, <2>2, FenceIs DEF Chosen
  <2>4. g.center = a.to.center
    <3>1. /\ g.center \in BOOLEAN /\ g.center = (a.to.center \/ c.latitude # None)
          /\ a.to.center \in BOOLEAN /\ a.to.center = (x.center \/ c.latitude # None)
        BY <1>1, <2>1, <2>2, FenceIs
    <3>2. g.center <=> a.to.center
        BY <3>1
    <3> QED
        BY <3>1, <3>2, SameTruth
  <2>5. g = [enabled |-> g.enabled, center |-> g.center, radius |-> g.radius,
             located |-> g.located]
      BY <2>1, <2>2, FenceIs
  <2>6. a.to = [enabled |-> a.to.enabled, center |-> a.to.center, radius |-> a.to.radius,
                located |-> a.to.located]
      BY <1>1, FenceIs
  <2> QED
      BY <2>1, <2>3, <2>4, <2>5, <2>6
<1> QED
    BY <1>2 DEF FenceAnswers

\* A repeatable call that did something does nothing more when it is repeated.
\* Whatever a repeatable request changed, it changes nothing more.
LEMMA AnswersRepeated ==
    ASSUME NEW s \in AdminScenes, NEW o \in AdminCommunities(s), NEW c \in AdminCalls(s),
           AdminRepeatable(s, c),
           NEW a, a = LiveServe(s, o, AdminRequest(s, c)), a.to # o,
           NEW z, z = LiveServe(s, a.to, AdminRequest(s, c))
    PROVE  z.to = a.to
<1>1. LiveAnswers(s, c, o, a) /\ a.to \in AdminCommunities(s)
    BY RequestAnswered, AnswersTyped
<1>2. LiveAnswers(s, c, a.to, z)
    BY <1>1, RequestAnswered
<1>3. CASE s = "entry"
  <2>1. /\ o \in GuestEntries /\ a.to \in GuestEntries /\ c \in GuestEntryCalls
        /\ GuestEntryRepeatable(c)
        /\ a = GuestEntryServe(o, GuestEntryRequest(c))
        /\ z = GuestEntryServe(a.to, GuestEntryRequest(c))
      BY <1>1, <1>2, <1>3 DEF LiveAnswers, EntryAnswers, AdminRepeatable
  <2>2. EntryEffect(c, o, a.to)
      BY <2>1, EntryAnswer
  <2>3. z.to = a.to \/ EntryEffect(c, a.to, z.to)
      BY <2>1, EntryAnswer
  <2> QED
      BY <2>1, <2>2, <2>3, EntryRepeated
<1>4. CASE s = "codes"
  <2>1. /\ o \in CodeBooks /\ c \in AccessCodeCalls
        /\ CodeAnswers(c, o, a) /\ CodeAnswers(c, a.to, z)
      BY <1>1, <1>2, <1>4 DEF LiveAnswers
  <2>2. CASE c.op = "create_access_code"
    <3>1. /\ a = AccessCodeServe(o, AccessCodeRequest(c))
          /\ z = AccessCodeServe(a.to, AccessCodeRequest(c))
        BY <1>4 DEF LiveServe, AdminRequest, ConfigScenes
    <3> QED
        BY <2>1, <2>2, <3>1, CodeCreatedOnce
  <2> QED
      BY <2>1, <2>2, CodesRepeated
<1>5. CASE s = "tags"
    BY <1>1, <1>2, <1>5, TagsRepeated DEF LiveAnswers
<1>6. CASE s = "short"
    BY <1>1, <1>2, <1>6, ShortRepeated DEF LiveAnswers, AdminRepeatable
<1>7. CASE s = "schedule"
    BY <1>1, <1>2, <1>7 DEF LiveAnswers, ScheduleAnswers
<1>8. CASE s = "hold"
  <2>1. c.op \notin {"add_hold_open_event", "add_hold_open_recurring"}
      BY <1>8 DEF AdminRepeatable, AdminCalls, HoldOpenCalls, add_event,
         add_recurring,
          set_hold_open, remove_event, disabled_until, update_recurring, remove_recurring
  <2> QED
      BY <1>1, <1>2, <1>8, <2>1, HoldRepeated DEF LiveAnswers
<1>9. CASE s = "roster"
    BY <1>1, <1>2, <1>9, RosterRepeated DEF LiveAnswers
<1>10. CASE s = "homes"
  <2>1. c.op # "add_home"
      BY <1>10 DEF AdminRepeatable, AdminCalls, HomeCalls, add_home, update_home,
          remove_home, set_move_out_date
  <2> QED
      BY <1>1, <1>2, <1>10, <2>1, HomesRepeated DEF LiveAnswers
<1>11. CASE s = "links"
    BY <1>1, <1>2, <1>11, LinksRepeated DEF LiveAnswers, AdminRepeatable,
       GuestLinkRepeatable
<1>12. CASE s = "alerts"
    BY <1>1, <1>2, <1>12, AlertsRepeated
       DEF LiveAnswers, AdminRepeatable, NotificationRepeatable
<1>13. CASE s = "settings"
    BY <1>1, <1>2, <1>13, SettingsRepeated DEF LiveAnswers
<1>14. CASE s = "keys"
    BY <1>1, <1>2, <1>14, KeyRepeated DEF LiveAnswers
<1>15. CASE s = "lines"
    BY <1>1, <1>2, <1>15, LineRepeated DEF LiveAnswers
<1>16. CASE s = "fence"
    BY <1>1, <1>2, <1>16, FenceRepeated DEF LiveAnswers
<1> QED
    BY <1>1, <1>3, <1>4, <1>5, <1>6, <1>7, <1>8, <1>9, <1>10, <1>11, <1>12, <1>13,
       <1>14,
       <1>15, <1>16 DEF LiveAnswers

\* RepeatAssumption, of the families: what is declared repeatable is.
THEOREM FamiliesRepeat ==
    \A s \in AdminScenes : \A o \in AdminCommunities(s), c \in AdminCalls(s) :
        AdminRepeatable(s, c) =>
            LET once == AdminServe(s, o, AdminRequest(s, c), "live").to
            IN  AdminServe(s, once, AdminRequest(s, c), "live").to = once
<1> SUFFICES ASSUME NEW s \in AdminScenes, NEW o \in AdminCommunities(s),
                    NEW c \in AdminCalls(s), AdminRepeatable(s, c),
                    NEW a, a = LiveServe(s, o, AdminRequest(s, c))
             PROVE  LiveServe(s, a.to, AdminRequest(s, c)).to = a.to
    BY DEF AdminServe
<1>1. CASE a.to = o
    BY <1>1
<1>2. CASE a.to # o
  <2>1. PICK z : z = LiveServe(s, a.to, AdminRequest(s, c))
      OBVIOUS
  <2>2. z.to = a.to
      BY <1>2, <2>1, AnswersRepeated
  <2> QED
      BY <2>1, <2>2
<1> QED
    BY <1>1, <1>2

----------------------------------------------------------------------------
(* How much one request creates.                                           *)

LEMMA CreatedCounts ==
    ASSUME NEW slots, IsFiniteSet(DOMAIN slots) PROVE Created(slots) \in Nat
<1>1. {i \in DOMAIN slots : slots[i] # Never} \in SUBSET DOMAIN slots
    OBVIOUS
<1> QED
    BY <1>1, FS_Subset, FS_CardinalityType DEF Created

\* Only the places of X are assigned: not more than those have been created.
LEMMA CreatedAtMost ==
    ASSUME NEW old, NEW new, IsFiniteSet(DOMAIN old), DOMAIN new = DOMAIN old,
           NEW X, IsFiniteSet(X),
           \A i \in DOMAIN old \ X : old[i] = Never => new[i] = Never
    PROVE  Created(new) <= Created(old) + Cardinality(X)
<1> DEFINE A == {i \in DOMAIN old : old[i] # Never}
           B == {i \in DOMAIN new : new[i] # Never}
<1>1. A \in SUBSET DOMAIN old /\ B \in SUBSET (A \cup X)
    OBVIOUS
<1>2. IsFiniteSet(A)
    BY <1>1, FS_Subset
<1>3. /\ IsFiniteSet(A \cup X)
      /\ Cardinality(A \cup X) = Cardinality(A) + Cardinality(X) - Cardinality(A \cap X)
    BY <1>2, FS_Union
<1>4. IsFiniteSet(A \cap X)
    BY <1>2, FS_Subset
<1>5. IsFiniteSet(B) /\ Cardinality(B) <= Cardinality(A \cup X)
    BY <1>1, <1>3, FS_Subset
<1>6. /\ Cardinality(A) \in Nat /\ Cardinality(X) \in Nat /\ Cardinality(B) \in Nat
      /\ Cardinality(A \cap X) \in Nat
    BY <1>2, <1>4, <1>5, FS_CardinalityType
<1>7. Created(old) = Cardinality(A) /\ Created(new) = Cardinality(B)
    BY DEF Created
<1> HIDE DEF A, B
<1> QED
    BY <1>3, <1>5, <1>6, <1>7

LEMMA NoneCreated ==
    ASSUME NEW old, NEW new, IsFiniteSet(DOMAIN old), DOMAIN new = DOMAIN old,
           \A i \in DOMAIN old : old[i] = Never => new[i] = Never
    PROVE  Created(new) <= Created(old)
<1>1. Created(new) <= Created(old) + Cardinality({})
    BY CreatedAtMost, FS_EmptySet
<1>2. Created(old) \in Nat /\ Created(new) \in Nat
    BY CreatedCounts
<1> QED
    BY <1>1, <1>2, FS_EmptySet

LEMMA OneCreated ==
    ASSUME NEW old, NEW new, IsFiniteSet(DOMAIN old), DOMAIN new = DOMAIN old, NEW k,
           \A i \in DOMAIN old \ {k} : old[i] = Never => new[i] = Never
    PROVE  Created(new) <= Created(old) + 1
<1>1. IsFiniteSet({k}) /\ Cardinality({k}) = 1
    BY FS_Singleton
<1>2. Created(new) <= Created(old) + Cardinality({k})
    BY <1>1, CreatedAtMost
<1> QED
    BY <1>1, <1>2

LEMMA Identifiers == \A n \in Nat : IsFiniteSet(1..n)
BY FS_Interval

\* Of each family in turn: a request assigns no more than its call declares.
LEMMA EntryCreates ==
    ASSUME NEW e \in GuestEntries, NEW c \in GuestEntryCalls, NEW f, EntryEffect(c, e, f)
    PROVE  Created(f.windows) <= Created(e.windows) + c.creates
<1>1. /\ f \in GuestEntries /\ DOMAIN e.windows = EntryIds /\ DOMAIN f.windows = EntryIds
      /\ IsFiniteSet(EntryIds)
    BY EntryWindows, EntryAssumption, Identifiers DEF GuestEntries, EntryIds
<1>2. CASE c.op # "add_guest_view_entry_schedule"
  <2>1. \A i \in EntryIds : e.windows[i] = Never => f.windows[i] = Never
    <3>1. CASE c.op = "set_guest_view_entry_enabled"
        BY <1>1, <3>1 DEF EntryEffect, GuestEntries
    <3>2. CASE c.op = "set_guest_view_entry_latches"
      <4>1. f = SetLatches(e, c.latch_ids)
          BY <3>2 DEF EntryEffect
      <4> QED
          BY <1>1, <4>1 DEF SetLatches, GuestEntries, Live
    <3>3. CASE c.op = "remove_guest_view_entry_schedule"
        BY <1>1, <3>3 DEF EntryEffect, GuestEntries, Live
    <3> QED
        BY <1>2, <3>1, <3>2, <3>3 DEF EntryEffect
  <2>2. Created(f.windows) <= Created(e.windows)
      BY <1>1, <2>1, NoneCreated
  <2>3. c.creates = 0 /\ Created(e.windows) \in Nat
      BY <1>1, <1>2, EntryCallsAre, CreatedCounts
  <2> QED
      BY <2>2, <2>3
<1>3. CASE c.op = "add_guest_view_entry_schedule"
  <2>1. PICK new \in [c.latch_ids -> Unused(e.windows)] :
          f = AddWindows(e, new, c.hours)
      BY <1>3 DEF EntryEffect
  <2>2. c.latch_ids \in SUBSET Gates /\ c.creates = Cardinality(c.latch_ids)
      BY <1>3 DEF GuestEntryCalls, set_enabled, set_latches, add_schedule,
         remove_schedule
  <2> DEFINE X == {new[g] : g \in c.latch_ids}
  <2>3. IsFiniteSet(c.latch_ids) /\ Cardinality(c.latch_ids) \in Nat
      BY <2>2, GatesAssumption, FS_Subset, FS_CardinalityType
  <2>4. new \in Surjection(c.latch_ids, X)
      BY <2>1 DEF Surjection
  <2>5. IsFiniteSet(X) /\ Cardinality(X) <= Cardinality(c.latch_ids)
      BY <2>3, <2>4, FS_Surjection
  <2>6. \A i \in EntryIds \ X : f.windows[i] = e.windows[i]
      BY <1>1, <2>1 DEF AddWindows, GuestEntries
  <2> HIDE DEF X
  <2>7. Created(f.windows) <= Created(e.windows) + Cardinality(X)
      BY <1>1, <2>5, <2>6, CreatedAtMost
  <2>8. Cardinality(X) \in Nat /\ Created(e.windows) \in Nat /\ Created(f.windows) \in Nat
      BY <1>1, <2>5, FS_CardinalityType, CreatedCounts
  <2> QED
      BY <2>2, <2>3, <2>5, <2>7, <2>8
<1> QED
    BY <1>2, <1>3

LEMMA CodesCreate ==
    ASSUME NEW b \in CodeBooks, NEW c \in AccessCodeCalls, NEW a, CodeAnswers(c, b, a)
    PROVE  Created(a.to.codes) <= Created(b.codes) + c.creates
<1>1. /\ a.to \in CodeBooks /\ DOMAIN b.codes = CodeIds /\ DOMAIN a.to.codes = CodeIds
      /\ IsFiniteSet(CodeIds)
    BY CodesTyped, CodeAssumption, Identifiers DEF CodeBooks, CodeIds
<1>2. Created(b.codes) \in Nat /\ Created(a.to.codes) \in Nat
    BY <1>1, CreatedCounts
<1>3. CASE c.op = "create_access_code"
  <2>1. c.creates = 1
      BY <1>3 DEF AccessCodeCalls, create_code, update_code, delete_code, set_mode
  <2>2. CASE a.to = b
      BY <1>2, <2>1, <2>2
  <2>3. CASE a.to # b
    <3>1. PICK i \in Unused(b.codes) :
            a.to = [b EXCEPT !.codes[i] = [disabled |-> FALSE, latches |-> c.latch_ids]]
        BY <1>3, <2>3 DEF CodeAnswers
    <3>2. \A j \in CodeIds \ {i} : a.to.codes[j] = b.codes[j]
        BY <1>1, <3>1 DEF CodeBooks
    <3> QED
        BY <1>1, <2>1, <3>2, OneCreated
  <2> QED
      BY <2>2, <2>3
<1>4. CASE c.op # "create_access_code"
  <2>1. c.creates = 0
      BY <1>4 DEF AccessCodeCalls, create_code, update_code, delete_code, set_mode
  <2>2. \A i \in CodeIds : b.codes[i] = Never => a.to.codes[i] = Never
    <3>1. CASE a.to = b
        BY <3>1
    <3>2. CASE c.op = "update_access_code" /\ c.id \in Managed(b)
               /\ a.to = [b EXCEPT !.codes[c.id] = Updated(c, b.codes[c.id])]
        BY <1>1, <3>2 DEF CodeBooks, Managed, Live
    <3>3. CASE c.id \in Managed(b) /\ a.to = [b EXCEPT !.codes[c.id] = Gone]
        BY <1>1, <3>3 DEF CodeBooks, Managed, Live
    <3>4. CASE a.to = FlipMode(b, c.mode)
      <4>1. a.to.codes = [i \in CodeIds |-> IF i \in Live(b.codes) THEN Gone ELSE b.codes[i]]
          BY <3>4 DEF CodeBooks, FlipMode
      <4> QED
          BY <1>1, <4>1 DEF Live
    <3> QED
        BY <1>4, <3>1, <3>2, <3>3, <3>4 DEF CodeAnswers
  <2>3. Created(a.to.codes) <= Created(b.codes)
      BY <1>1, <2>2, NoneCreated
  <2> QED
      BY <1>2, <2>1, <2>3
<1> QED
    BY <1>3, <1>4

LEMMA ShortCreates ==
    ASSUME NEW b \in ShortBooks, NEW c \in ShortCodeCalls, NEW a, ShortAnswers(c, b, a)
    PROVE  /\ Cardinality(Ours(b)) \in Nat
           /\ Cardinality(Ours(a.to)) <= Cardinality(Ours(b)) + c.creates
<1>1. IsFiniteSet(Ours(b)) /\ Cardinality(Ours(b)) \in Nat
    BY ShortNamesAssumption, FS_Subset, FS_CardinalityType DEF Ours
<1>2. c.creates \in {0, 1} /\ (c.op = "create_short_code" => c.creates = 1)
    BY DEF ShortCodeCalls, create_short_code, assign_short_code
<1>3. CASE a.to = b
    BY <1>1, <1>2, <1>3
<1>4. CASE a.to # b
  <2>1. a.status \in 200..299
      BY <1>4 DEF ShortAnswers
  <2>2. PICK n \in ShortNames :
          /\ PointsTo(c, b, n, a)
          /\ a.to \in ShortBooks /\ a.to.codes[n] = c.latch_id
          /\ \A x \in ShortNames \ {n} : a.to.codes[x] = b.codes[x]
          /\ c.latch_id \in Gates \cup {None}
          /\ b.codes[n] # Elsewhere
          /\ c.op = "create_short_code" => b.codes[n] = Never /\ c.code \in {n, None}
          /\ c.op = "assign_short_code" => n = c.code
      BY <2>1, ShortLeft
  <2>3. CASE c.op = "create_short_code"
    <3>1. Ours(a.to) \in SUBSET (Ours(b) \cup {n})
        BY <2>2 DEF Ours
    <3>2. /\ IsFiniteSet(Ours(b) \cup {n})
          /\ Cardinality(Ours(b) \cup {n}) <= Cardinality(Ours(b)) + 1
      <4>1. Cardinality(Ours(b) \cup {n}) =
              IF n \in Ours(b) THEN Cardinality(Ours(b)) ELSE Cardinality(Ours(b)) + 1
          BY <1>1, FS_AddElement
      <4> QED
          BY <1>1, <4>1, FS_AddElement
    <3>3. /\ Cardinality(Ours(a.to)) <= Cardinality(Ours(b) \cup {n})
          /\ Cardinality(Ours(a.to)) \in Nat /\ Cardinality(Ours(b) \cup {n}) \in Nat
        BY <3>1, <3>2, FS_Subset, FS_CardinalityType
    <3> QED
        BY <1>1, <1>2, <2>3, <3>2, <3>3
  <2>4. CASE c.op = "assign_short_code"
    <3>1. c.code \in Ours(b)
        BY <1>4, <2>4 DEF ShortAnswers
    <3>2. Ours(a.to) \in SUBSET Ours(b)
        BY <2>2, <2>4, <3>1 DEF Ours
    <3>3. Cardinality(Ours(a.to)) <= Cardinality(Ours(b)) /\ Cardinality(Ours(a.to)) \in Nat
        BY <1>1, <3>2, FS_Subset, FS_CardinalityType
    <3> QED
        BY <1>1, <1>2, <3>3
  <2> QED
      BY <2>3, <2>4, ShortCallsAre
<1> QED
    BY <1>3, <1>4

LEMMA HoldCreates ==
    ASSUME NEW h \in Holds, NEW c \in HoldOpenCalls, NEW a, HoldAnswers(c, h, a)
    PROVE  /\ Created(h.events) \in Nat /\ Created(h.weekly) \in Nat
           /\ Created(a.to.events) + Created(a.to.weekly)
                <= Created(h.events) + Created(h.weekly) + c.creates
<1>1. /\ a.to \in Holds /\ DOMAIN h.events = EventIds /\ DOMAIN a.to.events = EventIds
      /\ DOMAIN h.weekly = WeeklyIds /\ DOMAIN a.to.weekly = WeeklyIds
      /\ IsFiniteSet(EventIds) /\ IsFiniteSet(WeeklyIds)
    BY HoldTyped, HoldAssumption, Identifiers DEF Holds, EventIds, WeeklyIds
<1>2. /\ Created(h.events) \in Nat /\ Created(a.to.events) \in Nat
      /\ Created(h.weekly) \in Nat /\ Created(a.to.weekly) \in Nat
    BY <1>1, CreatedCounts
<1>3. /\ c.creates \in {0, 1}
      /\ c.op \in {"add_hold_open_event", "add_hold_open_recurring"} => c.creates = 1
    BY DEF HoldOpenCalls, add_event, add_recurring, set_hold_open, remove_event,
           disabled_until, update_recurring, remove_recurring
<1>4. CASE c.op = "add_hold_open_event" /\ a.to # h
  <2>1. PICK i \in Unused(h.events) : a.to = [h EXCEPT !.events[i] = TRUE]
      BY <1>4 DEF HoldAnswers, HoldRefused, AnyEventAdded, EventAdded
  <2>2. a.to.weekly = h.weekly /\ \A j \in EventIds \ {i} : a.to.events[j] = h.events[j]
      BY <1>1, <2>1 DEF Holds
  <2>3. Created(a.to.events) <= Created(h.events) + 1
      BY <1>1, <2>2, OneCreated
  <2> QED
      BY <1>2, <1>3, <1>4, <2>2, <2>3
<1>5. CASE c.op = "add_hold_open_recurring" /\ a.to # h
  <2>1. PICK i \in Unused(h.weekly) : a.to = [h EXCEPT !.weekly[i] = WeeklyGiven(c)]
      BY <1>5 DEF HoldAnswers, HoldRefused, AnyWeeklyAdded, WeeklySet
  <2>2. a.to.events = h.events /\ \A j \in WeeklyIds \ {i} : a.to.weekly[j] = h.weekly[j]
      BY <1>1, <2>1 DEF Holds
  <2>3. Created(a.to.weekly) <= Created(h.weekly) + 1
      BY <1>1, <2>2, OneCreated
  <2> QED
      BY <1>2, <1>3, <1>5, <2>2, <2>3
<1>6. CASE \/ c.op \notin {"add_hold_open_event", "add_hold_open_recurring"}
           \/ a.to = h
  <2>1. /\ \A i \in EventIds : h.events[i] = Never => a.to.events[i] = Never
        /\ \A i \in WeeklyIds : h.weekly[i] = Never => a.to.weekly[i] = Never
    <3>1. CASE a.to = h
        BY <3>1
    <3>2. CASE ManualSet(c, h, a) \/ UntilSet(c, h, a)
        BY <1>1, <3>2 DEF ManualSet, UntilSet, Holds
    <3>3. CASE EventRemoved(c, h, a)
      <4>1. a.to.weekly = h.weekly
            /\ \A i \in EventIds : a.to.events[i] = h.events[i] \/ h.events[i] = TRUE
          BY <1>1, <3>3 DEF EventRemoved, Holds
      <4> QED
          BY <4>1, HoldRowAssumption
    <3>4. CASE c.id \in Live(h.weekly) /\ WeeklySet(h, c.id, WeeklyEdited(c, h.weekly[c.id]), a)
        BY <1>1, <3>4 DEF WeeklySet, Holds, Live
    <3>5. CASE c.id \in Live(h.weekly) /\ WeeklyRemoved(c, h, a)
        BY <1>1, <3>5 DEF WeeklyRemoved, Holds, Live
    <3> QED
        BY <1>6, <3>1, <3>2, <3>3, <3>4, <3>5 DEF HoldAnswers, HoldRefused
  <2>2. /\ Created(a.to.events) <= Created(h.events)
        /\ Created(a.to.weekly) <= Created(h.weekly)
      BY <1>1, <2>1, NoneCreated
  <2> QED
      BY <1>2, <1>3, <2>2
<1> QED
    BY <1>2, <1>4, <1>5, <1>6

LEMMA HomesCreate ==
    ASSUME NEW o \in Units, NEW c \in HomeCalls, NEW a, HomesAnswers(c, o, a)
    PROVE  Created(a.to.homes) <= Created(o.homes) + c.creates
<1>1. /\ a.to \in Units /\ DOMAIN o.homes = HomeIds /\ DOMAIN a.to.homes = HomeIds
      /\ IsFiniteSet(HomeIds)
    BY HomesTyped, HomeAssumption, Identifiers DEF Units, HomeIds
<1>2. Created(o.homes) \in Nat /\ Created(a.to.homes) \in Nat
    BY <1>1, CreatedCounts
<1>3. c.creates \in {0, 1} /\ (c.op = "add_home" => c.creates = 1)
    BY DEF HomeCalls, add_home, update_home, remove_home, set_move_out_date
<1>4. CASE c.op = "add_home" /\ a.to # o
  <2>1. PICK i \in Unused(o.homes) : a.to = [o EXCEPT !.homes[i] = HomeNew(c)]
      BY <1>4 DEF HomesAnswers, HomesRefused, HomeAdded, HomeBecomes
  <2>2. \A j \in HomeIds \ {i} : a.to.homes[j] = o.homes[j]
      BY <1>1, <2>1 DEF Units
  <2>3. Created(a.to.homes) <= Created(o.homes) + 1
      BY <1>1, <2>2, OneCreated
  <2> QED
      BY <1>2, <1>3, <1>4, <2>3
<1>5. CASE c.op # "add_home" \/ a.to = o
  <2>1. \A i \in HomeIds : o.homes[i] = Never => a.to.homes[i] = Never
    <3>1. CASE a.to = o
        BY <3>1
    <3>2. CASE HomeEdited(c, o, a)
        BY <1>1, <3>2 DEF HomeEdited, HomeBecomes, Units, Live
    <3>3. CASE HomeRemovedIn(c, o, a)
        BY <1>1, <3>3 DEF HomeRemovedIn, HomeEmptied, Units, Live
    <3>4. CASE LeavesAt(c, o, a.to)
        BY <1>1, <3>4 DEF LeavesAt, Units
    <3> QED
        BY <1>5, <3>1, <3>2, <3>3, <3>4 DEF HomesAnswers, HomesRefused
  <2>2. Created(a.to.homes) <= Created(o.homes)
      BY <1>1, <2>1, NoneCreated
  <2> QED
      BY <1>2, <1>3, <2>2
<1> QED
    BY <1>4, <1>5

LEMMA LinksCreate ==
    ASSUME NEW b \in LinkBooks, NEW c \in GuestLinkCalls, NEW a, LinkAnswers(c, b, a)
    PROVE  Created(a.to.links) <= Created(b.links) + c.creates
<1>1. /\ a.to \in LinkBooks /\ DOMAIN b.links = LinkIds /\ DOMAIN a.to.links = LinkIds
      /\ IsFiniteSet(LinkIds)
    BY LinksTyped, LinkAssumption, Identifiers DEF LinkBooks, LinkIds
<1>2. Created(b.links) \in Nat /\ Created(a.to.links) \in Nat
    BY <1>1, CreatedCounts
<1>3. c.creates \in {0, 1} /\ (c.op = "create_guest_link" => c.creates = 1)
    BY DEF GuestLinkCalls, create_guest_link, revoke_guest_link
<1>4. CASE a.to = b
    BY <1>2, <1>3, <1>4
<1>5. CASE c.op = "create_guest_link" /\ a.to # b
  <2>1. PICK i \in Unused(b.links) : a.to = [b EXCEPT !.links[i] = NewLink(c)]
      BY <1>5 DEF LinkAnswers, LinkMade, LinkShown
  <2>2. \A j \in LinkIds \ {i} : a.to.links[j] = b.links[j]
      BY <1>1, <2>1 DEF LinkBooks
  <2>3. Created(a.to.links) <= Created(b.links) + 1
      BY <1>1, <2>2, OneCreated
  <2> QED
      BY <1>2, <1>3, <1>5, <2>3
<1>6. CASE c.op = "revoke_guest_link" /\ a.to # b
  <2>1. \A i \in LinkIds : b.links[i] = Never => a.to.links[i] = Never
      BY <1>1, <1>6 DEF LinkAnswers, LinkRevoked, LinkShown, LinkBooks, Live
  <2>2. Created(a.to.links) <= Created(b.links)
      BY <1>1, <2>1, NoneCreated
  <2> QED
      BY <1>2, <1>3, <2>2
<1> QED
    BY <1>4, <1>5, <1>6, LinkCallsAre

LEMMA AlertsCreate ==
    ASSUME NEW x \in Alerts, NEW c \in NotificationCalls, NEW a, AlertsAnswers(c, x, a)
    PROVE  Created(a.to.quiet) <= Created(x.quiet) + c.creates
<1>1. /\ a.to \in Alerts /\ DOMAIN x.quiet = QuietIds /\ DOMAIN a.to.quiet = QuietIds
      /\ IsFiniteSet(QuietIds)
    BY AlertsTyped, QuietAssumption, Identifiers DEF Alerts, QuietIds
<1>2. Created(x.quiet) \in Nat /\ Created(a.to.quiet) \in Nat
    BY <1>1, CreatedCounts
<1>3. c.creates \in {0, 1} /\ (c.op = "add_quiet_hours" => c.creates = 1)
    BY DEF NotificationCalls, set_enabled_for, add_quiet_hours, remove_quiet_hours
<1>4. CASE c.op = "add_quiet_hours" /\ a.to # x
  <2>1. PICK i \in Unused(x.quiet) : a.to = [x EXCEPT !.quiet[i] = QuietGiven(c)]
      BY <1>4 DEF AlertsAnswers, AlertsRefused, AnyQuietAdded, QuietBecomes
  <2>2. \A j \in QuietIds \ {i} : a.to.quiet[j] = x.quiet[j]
      BY <1>1, <2>1 DEF Alerts
  <2>3. Created(a.to.quiet) <= Created(x.quiet) + 1
      BY <1>1, <2>2, OneCreated
  <2> QED
      BY <1>2, <1>3, <1>4, <2>3
<1>5. CASE c.op # "add_quiet_hours" \/ a.to = x
  <2>1. \A i \in QuietIds : x.quiet[i] = Never => a.to.quiet[i] = Never
    <3>1. CASE a.to = x
        BY <3>1
    <3>2. CASE SwitchSet(c, x, a.to)
        BY <1>1, <3>2 DEF SwitchSet, Alerts
    <3>3. CASE c.id \in Mine(x, c.owner) /\ QuietBecomes(x, c.id, Gone, a.to)
      <4>1. c.id \in Live(x.quiet)
          BY <3>3, AlertsAre
      <4> QED
          BY <1>1, <3>3, <4>1 DEF QuietBecomes, Alerts, Live
    <3> QED
        BY <1>5, <3>1, <3>2, <3>3 DEF AlertsAnswers, AlertsRefused
  <2>2. Created(a.to.quiet) <= Created(x.quiet)
      BY <1>1, <2>1, NoneCreated
  <2> QED
      BY <1>2, <1>3, <2>2
<1> QED
    BY <1>4, <1>5

LEMMA RosterCreatesNothing ==
    /\ \A op, p, keys, flag : member_write(op, p, keys, flag).creates = 0
    /\ \A p, keys, dry : approve_member(p, keys, dry).creates = 0
    /\ \A op, items, flag : bulk_write(op, items, flag).creates = 0
BY DEF member_write, approve_member, bulk_write

LEMMA ThingsCounted ==
    ASSUME NEW s \in AdminScenes, NEW o \in AdminCommunities(s), NEW c \in AdminCalls(s)
    PROVE  AdminThings(s, o) \in Nat /\ c.creates \in Nat
<1>1. AdminThings(s, o) \in Nat
  <2>1. CASE s = "entry"
    <3>1. DOMAIN o.windows = EntryIds /\ IsFiniteSet(EntryIds)
        BY <2>1, EntryAssumption, Identifiers DEF AdminCommunities, GuestEntries,
           EntryIds
    <3> QED
        BY <2>1, <3>1, CreatedCounts DEF AdminThings
  <2>2. CASE s = "codes"
    <3>1. DOMAIN o.codes = CodeIds /\ IsFiniteSet(CodeIds)
        BY <2>2, CodeAssumption, Identifiers DEF AdminCommunities, CodeBooks, CodeIds
    <3> QED
        BY <2>2, <3>1, CreatedCounts DEF AdminThings
  <2>3. CASE s = "short"
    <3>1. Cardinality(Ours(o)) \in Nat
        BY ShortNamesAssumption, FS_Subset, FS_CardinalityType DEF Ours
    <3> QED
        BY <2>3, <3>1 DEF AdminThings
  <2>4. CASE s = "hold"
    <3>1. /\ DOMAIN o.events = EventIds /\ IsFiniteSet(EventIds)
          /\ DOMAIN o.weekly = WeeklyIds /\ IsFiniteSet(WeeklyIds)
        BY <2>4, HoldAssumption, Identifiers DEF AdminCommunities, Holds, EventIds,
           WeeklyIds
    <3>2. Created(o.events) \in Nat /\ Created(o.weekly) \in Nat
        BY <3>1, CreatedCounts
    <3> QED
        BY <2>4, <3>2 DEF AdminThings
  <2>5. CASE s = "homes"
    <3>1. DOMAIN o.homes = HomeIds /\ IsFiniteSet(HomeIds)
        BY <2>5, HomeAssumption, Identifiers DEF AdminCommunities, Units, HomeIds
    <3> QED
        BY <2>5, <3>1, CreatedCounts DEF AdminThings
  <2>6. CASE s = "links"
    <3>1. DOMAIN o.links = LinkIds /\ IsFiniteSet(LinkIds)
        BY <2>6, LinkAssumption, Identifiers DEF AdminCommunities, LinkBooks, LinkIds
    <3> QED
        BY <2>6, <3>1, CreatedCounts DEF AdminThings
  <2>7. CASE s = "alerts"
    <3>1. DOMAIN o.quiet = QuietIds /\ IsFiniteSet(QuietIds)
        BY <2>7, QuietAssumption, Identifiers DEF AdminCommunities, Alerts, QuietIds
    <3> QED
        BY <2>7, <3>1, CreatedCounts DEF AdminThings
  <2>8. CASE s \in {"tags", "schedule", "roster"} \cup ConfigScenes
      BY <2>8 DEF AdminThings, ConfigScenes
  <2> QED
      BY <2>1, <2>2, <2>3, <2>4, <2>5, <2>6, <2>7, <2>8 DEF AdminScenes
<1>2. c.creates \in Nat
  <2>1. CASE s = "entry"
    <3>1. c \in GuestEntryCalls
        BY <2>1 DEF AdminCalls
    <3>2. CASE c.op # "add_guest_view_entry_schedule"
        BY <3>1, <3>2, EntryCallsAre
    <3>3. CASE c.op = "add_guest_view_entry_schedule"
      <4>1. c.latch_ids \in SUBSET Gates /\ c.creates = Cardinality(c.latch_ids)
          BY <3>1, <3>3 DEF GuestEntryCalls, set_enabled, set_latches, add_schedule,
              remove_schedule
      <4> QED
          BY <4>1, GatesAssumption, FS_Subset, FS_CardinalityType
    <3> QED
        BY <3>2, <3>3
  <2>2. CASE s = "codes"
      BY <2>2 DEF AdminCalls, AccessCodeCalls, create_code, update_code,
         delete_code, set_mode
  <2>3. CASE s = "tags"
      BY <2>3 DEF AdminCalls, NfcTagCalls, update_nfc_tag
  <2>4. CASE s = "short"
      BY <2>4 DEF AdminCalls, ShortCodeCalls, create_short_code, assign_short_code
  <2>5. CASE s = "schedule"
      BY <2>5 DEF AdminCalls, KeyScheduleCalls, set_schedule
  <2>6. CASE s = "hold"
      BY <2>6 DEF AdminCalls, HoldOpenCalls, add_event, add_recurring, set_hold_open,
          remove_event, disabled_until, update_recurring, remove_recurring
  <2>7. CASE s = "roster"
    <3>1. c \in RosterCalls
        BY <2>7 DEF AdminCalls
    <3>2. c.creates = 0
        BY <3>1, RosterCreatesNothing DEF RosterCalls
    <3> QED
        BY <3>2
  <2>8. CASE s = "homes"
      BY <2>8 DEF AdminCalls, HomeCalls, add_home, update_home, remove_home,
          set_move_out_date
  <2>9. CASE s = "links"
      BY <2>9 DEF AdminCalls, GuestLinkCalls, create_guest_link, revoke_guest_link
  <2>10. CASE s = "alerts"
      BY <2>10 DEF AdminCalls, NotificationCalls, set_enabled_for, add_quiet_hours,
          remove_quiet_hours
  <2>11. CASE s \in ConfigScenes
      BY <2>11 DEF AdminCalls, ConfigScenes, SettingsCalls, KeyCalls, SenseLineCalls,
          GeofenceCalls, update_settings, update_key, update_sense_line, update_geofence
  <2> QED
      BY <2>1, <2>2, <2>3, <2>4, <2>5, <2>6, <2>7, <2>8, <2>9, <2>10, <2>11
         DEF AdminScenes
<1> QED
    BY <1>1, <1>2

LEMMA AnswersCreate ==
    ASSUME NEW s \in AdminScenes, NEW o \in AdminCommunities(s), NEW c \in AdminCalls(s),
           NEW a, LiveAnswers(s, c, o, a), s \notin ConfigScenes
    PROVE  AdminThings(s, a.to) <= AdminThings(s, o) + c.creates
<1>1. AdminThings(s, o) \in Nat /\ c.creates \in Nat
    BY ThingsCounted
<1>2. CASE s = "entry"
  <2>1. /\ o \in GuestEntries /\ c \in GuestEntryCalls
        /\ a = GuestEntryServe(o, GuestEntryRequest(c))
      BY <1>2 DEF LiveAnswers, EntryAnswers
  <2>2. a.to = o \/ EntryEffect(c, o, a.to)
      BY <2>1, EntryAnswer
  <2>3. AdminThings(s, o) = Created(o.windows)
        /\ AdminThings(s, a.to) = Created(a.to.windows)
      BY <1>2 DEF AdminThings
  <2>4. CASE a.to = o
      BY <1>1, <2>4
  <2> QED
      BY <2>1, <2>2, <2>3, <2>4, EntryCreates
<1>3. CASE s = "codes"
    BY <1>3, CodesCreate DEF LiveAnswers, AdminThings
<1>4. CASE s = "short"
    BY <1>4, ShortCreates DEF LiveAnswers, AdminThings
<1>5. CASE s = "hold"
    BY <1>5, HoldCreates DEF LiveAnswers, AdminThings
<1>6. CASE s = "homes"
    BY <1>6, HomesCreate DEF LiveAnswers, AdminThings
<1>7. CASE s = "links"
    BY <1>7, LinksCreate DEF LiveAnswers, AdminThings
<1>8. CASE s = "alerts"
    BY <1>8, AlertsCreate DEF LiveAnswers, AdminThings
<1>9. CASE s \in {"tags", "schedule", "roster"}
  <2>1. AdminThings(s, o) = 0 /\ AdminThings(s, a.to) = 0
      BY <1>9 DEF AdminThings
  <2> QED
      BY <1>1, <2>1
<1> QED
    BY <1>2, <1>3, <1>4, <1>5, <1>6, <1>7, <1>8, <1>9 DEF AdminScenes

\* ThingsAssumption, of the families: a request creates what its call declares
\* at most, one thing or one for each gate.
THEOREM FamiliesCount ==
    \A s \in AdminScenes : \A o \in AdminCommunities(s), c \in AdminCalls(s) :
        /\ AdminThings(s, o) \in Nat /\ c.creates \in Nat
        /\ AdminThings(s, AdminServe(s, o, AdminRequest(s, c), "live").to)
             <= AdminThings(s, o) + c.creates
<1> SUFFICES ASSUME NEW s \in AdminScenes, NEW o \in AdminCommunities(s),
                    NEW c \in AdminCalls(s),
                    NEW a, a = LiveServe(s, o, AdminRequest(s, c))
             PROVE  /\ AdminThings(s, o) \in Nat /\ c.creates \in Nat
                    /\ AdminThings(s, a.to) <= AdminThings(s, o) + c.creates
    BY DEF AdminServe
<1>1. AdminThings(s, o) \in Nat /\ c.creates \in Nat
    BY ThingsCounted
<1>2. CASE s \notin ConfigScenes
  <2>1. LiveAnswers(s, c, o, a)
      BY RequestAnswered
  <2>2. AdminThings(s, a.to) <= AdminThings(s, o) + c.creates
      BY <1>2, <2>1, AnswersCreate
  <2> QED
      BY <1>1, <2>2
<1>3. CASE s \in ConfigScenes
  <2>1. AdminThings(s, o) = 0 /\ AdminThings(s, a.to) = 0
      BY <1>3 DEF AdminThings, ConfigScenes
  <2> QED
      BY <1>1, <2>1
<1> QED
    BY <1>1, <1>2, <1>3
=============================================================================
