------------------------------ MODULE NfcTags ------------------------------
(***************************************************************************)
(* NFC tags: one PATCH assigns, detaches and disables.  A field that is    *)
(* not sent stays as it is, which is not the same as latch_id = null; a    *)
(* write that leaves a Scan Only gate without a working tag asks to be     *)
(* confirmed.                                                              *)
(***************************************************************************)
EXTENDS WireFormat

CONSTANTS Tags,
          ScanOnly  \* the gates that open to a tag alone

ASSUME ScanOnlyAssumption == ScanOnly \subseteq Gates
ASSUME LatchAssumption == None \notin Gates /\ Unset \notin Gates

TagStates == [latch : Gates \cup {None}, disabled : BOOLEAN]
TagBoards == [tags : [Tags -> TagStates]]

Working(b, g) == {t \in Tags : b.tags[t].latch = g /\ ~b.tags[t].disabled}
Tagless(b) == {g \in ScanOnly : Working(b, g) = {}}

NfcTagStart ==
    {b \in TagBoards :
        /\ Tagless(b) = {}
        /\ \A t \in Tags : b.tags[t].latch # None /\ ~b.tags[t].disabled}

----------------------------------------------------------------------------
(* The client.                                                             *)

\* NfcTag.from_dict
NfcTag(d) ==
    LET t == Unwrap(d, "tag")
    IN  [tag_id |-> Get(t, "tag_id", None), latch_id |-> Get(t, "latch_id", None),
         disabled |-> Bool(Get(t, "disabled", None)),
         simulated |-> Get(d, "result", None) = "simulated"]

update_nfc_tag(t, disabled, latch, confirm) ==
    [op |-> "update_nfc_tag", tag |-> t, disabled |-> disabled,
     latch_id |-> latch, confirm |-> confirm, creates |-> 0]

\* A call gives one of the two fields, or assigns a tag and enables it; it
\* says something of confirm if it may take a tag from a gate.
NfcTagCalls ==
    {c \in {update_nfc_tag(t, d, g, ok) : t \in Tags, d \in BOOLEAN \cup {None},
                                          g \in Gates \cup {None, Unset},
                                          ok \in {TRUE, Truthy, None}} :
        /\ \/ c.disabled = None \/ c.latch_id = Unset
           \/ c.disabled = FALSE /\ c.latch_id \in ScanOnly
        /\ c.confirm # None =>
             c.disabled = TRUE \/ c.latch_id \notin ScanOnly \cup {Unset}}

\* A manager knows the tags by name.
NfcTagOffered(v, c) == c.tag \in DOMAIN v

\* Mutant of LatchField: None, not a sentinel, is the default of latch_id.
LatchFieldByNone(c) ==
    [latch_id |-> IF c.latch_id = Unset THEN None ELSE c.latch_id]

\* "if latch_id is not UNSET": null is sent, an argument left out is not.
LatchField(c) ==
    IF c.latch_id = Unset THEN NoFields ELSE [latch_id |-> c.latch_id]

NfcTagRequest(c) ==
    [path |-> "nfc-tags/id", id |-> c.tag,
     json |-> Body(LatchField(c),
                   [disabled |-> IF c.disabled = None THEN None
                                 ELSE Bool(c.disabled),
                    confirm |-> IF c.confirm = None THEN None
                                ELSE IsTrue(c.confirm)])]

----------------------------------------------------------------------------
(* The server (external).                                                  *)

TagEnvelope(b, t) ==
    [result |-> "ok", tag |-> [tag_id |-> t, latch_id |-> b.tags[t].latch,
                               disabled |-> b.tags[t].disabled]]

NfcTagView(b) == [t \in Tags |-> NfcTag(TagEnvelope(b, t))]

EditTag(b, t, json) ==
    [b EXCEPT !.tags[t] = [latch |-> Get(json, "latch_id", @.latch),
                           disabled |-> Get(json, "disabled", @.disabled)]]

NfcTagServe(b, r) ==
    LET to == EditTag(b, r.id, r.json)
        fields == DOMAIN r.json \cap {"disabled", "latch_id"}
    IN  IF fields = {} THEN Refuses(b, 422, "empty_patch")
        ELSE IF Get(r.json, "disabled", FALSE) /\ Get(r.json, "latch_id", None) # None
        THEN Refuses(b, 422, "conflicting_fields")
        ELSE IF ~(Tagless(to) \subseteq Tagless(b)) /\ ~Get(r.json, "confirm", FALSE)
        THEN Refuses(b, 409, "requires_confirmation")
        ELSE Says(to, 200, TagEnvelope(to, r.id))

----------------------------------------------------------------------------
(* What the properties ask of this family.                                 *)

NfcTagWithin(c, b, f) ==
    /\ \A t \in Tags \ {c.tag} : f.tags[t] = b.tags[t]
    /\ c.disabled = None => f.tags[c.tag].disabled = b.tags[c.tag].disabled
    /\ c.latch_id = Unset => f.tags[c.tag].latch = b.tags[c.tag].latch

NfcTagMeant(c, b, f) ==
    /\ c.disabled # None => f.tags[c.tag].disabled = c.disabled
    /\ c.latch_id # Unset => f.tags[c.tag].latch = c.latch_id

\* A Scan Only gate loses its last working tag.
NfcTagHarms(b, f) == ~(Tagless(f) \subseteq Tagless(b))

NfcTagHonest(r, b, f, alone) ==
    /\ r.raised = None =>
         /\ r.result.tag_id = r.call.tag
         /\ r.result.latch_id = f.tags[r.call.tag].latch
         /\ r.result.disabled = f.tags[r.call.tag].disabled
    /\ r.raised # None /\ alone /\ r.trace.applied = 1 => f = b \/ r.raised \in
         {"UpstreamError", "RateLimitError", "APITimeoutError"}
=============================================================================
