----------------------------- MODULE AccessCodes -----------------------------
(***************************************************************************)
(* Directory access codes and the mode the community runs them in.  A key  *)
(* edits the codes it has minted; a switch of the mode deletes every code, *)
(* the residents' own included, and therefore asks to be confirmed.        *)
(***************************************************************************)
EXTENDS WireFormat

CONSTANTS MaxCodeId, \* bound: the code ids the server can assign
          Resident   \* the id of a code that a resident has made

CodeIds == 1..MaxCodeId

ASSUME CodeAssumption == MaxCodeId \in Nat /\ Resident \in CodeIds

Modes == {"per_member", "single_entry"}
GateLists == (SUBSET Gates) \ {{}}
CodeRow == [disabled : BOOLEAN, latches : GateLists]

CodeBooks ==
    {b \in [mode : Modes,
            codes : [CodeIds -> CodeRow \cup {Never, Gone}]] :
        b.codes[Resident] \in {Gone, [disabled |-> FALSE, latches |-> Gates]}}

AccessCodeStart ==
    {b \in CodeBooks : /\ Resident \in Live(b.codes) /\ b.mode = "per_member"
                       /\ Unused(b.codes) = CodeIds \ {Resident}}

\* A place for a code may be empty, and null is nothing an answer has here.
ASSUME CodeRowAssumption ==
    /\ \A off \in BOOLEAN, gates \in SUBSET Gates :
         [disabled |-> off, latches |-> gates] \notin {Never, Gone}
    /\ \A mode \in Modes, n \in 0..MaxCodeId :
         [new_mode |-> mode, codes_to_delete |-> n] # None

\* The codes of this API key all carry one PIN: it is live at most once.
Managed(b) == Live(b.codes) \ {Resident}

----------------------------------------------------------------------------
(* The client.                                                             *)

\* AccessCode.from_dict: of a row, or of the envelope an update answers with,
\* which carries only the fields that were changed.
AccessCode(d) ==
    LET code == Unwrap(d, "access_code")
    IN  [id |-> Get(code, "directory_access_code_id", None),
         api_managed |-> Bool(Get(code, "api_managed", None)),
         disabled |-> Bool(Get(code, "disabled", None)),
         latch_ids |-> GetOr(code, "latch_ids", {}),
         simulated |-> Get(d, "result", None) = "simulated"]

\* AccessCodes.from_dict and api_managed
AccessCodeList(d) ==
    LET rows == {AccessCode(row) : row \in GetOr(d, "access_codes", {})}
    IN  [access_codes |-> rows,
         api_managed |-> {code \in rows : code.api_managed},
         mode |-> Get(d, "access_code_mode", None)]

\* AccessCodeCreated.from_dict, AccessCodeDeleted.from_dict
AccessCodeCreated(d) ==
    LET code == Unwrap(d, "access_code")
    IN  [id |-> Get(code, "directory_access_code_id", None),
         latch_ids |-> GetOr(code, "latch_ids", {}),
         simulated |-> Get(d, "result", None) = "simulated"]
AccessCodeDeleted(d) ==
    [id |-> Get(d, "directory_access_code_id", None),
     simulated |-> Get(d, "result", None) = "simulated"]

\* AccessCodeModePreview.from_dict
AccessCodeModePreview(d) ==
    [new_mode |-> Get(d, "new_mode", None),
     codes_to_delete |-> Get(d, "codes_to_delete", None)]

\* AccessCodeModeChange.from_dict
AccessCodeModeChange(d) ==
    [mode |-> Get(d, "mode", None),
     changed |-> Bool(Get(d, "changed", None)),
     deleted_codes |-> Get(d, "deleted_codes", None),
     would_change |-> IF GetOr(d, "would_change", None) = None THEN None
                      ELSE AccessCodeModePreview(d.would_change),
     simulated |-> Get(d, "result", None) = "simulated"]

create_code(gates) ==
    [op |-> "create_access_code", latch_ids |-> gates, creates |-> 1]
update_code(id, disabled, gates) ==
    [op |-> "update_access_code", id |-> id, disabled |-> disabled,
     latch_ids |-> gates, creates |-> 0]
delete_code(id) == [op |-> "delete_access_code", id |-> id, creates |-> 0]
set_mode(mode, confirm) ==
    [op |-> "set_access_code_mode", mode |-> mode, confirm |-> confirm,
     creates |-> 0]

AccessCodeCalls ==
    {create_code({g}) : g \in Gates}
      \cup {update_code(i, d, gates) : i \in CodeIds, d \in BOOLEAN \cup {None},
                                       gates \in {{g} : g \in Gates} \cup {None}}
      \cup {delete_code(i) : i \in CodeIds}
      \cup {set_mode(mode, confirm) : mode \in Modes,
                                      confirm \in BOOLEAN \cup {Truthy}}

\* The codes a manager has seen, and those of .api_managed to edit; the
\* resident's may be tried too.
AccessCodeOffered(v, c) ==
    c.op \in {"update_access_code", "delete_access_code"} =>
        c.id \in {code.id : code \in v.access_codes}

\* Mutant of Confirmed: bool() in the place of "is True".
ConfirmedByBool(confirm) == Bool(confirm)

\* Only the literal True confirms.
Confirmed(confirm) == IsTrue(confirm)

AccessCodeRequest(c) ==
    CASE c.op = "create_access_code" ->
           [path |-> "access-codes", json |-> [latch_ids |-> c.latch_ids]]
      [] c.op = "update_access_code" ->
           [path |-> "access-codes/id", id |-> c.id,
            json |-> Body(NoFields,
                          [disabled |-> IF c.disabled = None THEN None
                                        ELSE Bool(c.disabled),
                           latch_ids |-> c.latch_ids])]
      [] c.op = "delete_access_code" ->
           [path |-> "access-codes/delete", id |-> c.id, json |-> NoFields]
      [] c.op = "set_access_code_mode" ->
           [path |-> "access-codes/mode",
            json |-> [mode |-> c.mode, confirm |-> Confirmed(c.confirm)]]

AccessCodeResult(c, d) ==
    CASE c.op = "create_access_code" -> AccessCodeCreated(d)
      [] c.op = "update_access_code" -> AccessCode(d)
      [] c.op = "delete_access_code" -> AccessCodeDeleted(d)
      [] c.op = "set_access_code_mode" -> AccessCodeModeChange(d)

----------------------------------------------------------------------------
(* The server (external).                                                  *)

CodeFields(b, i) ==
    [directory_access_code_id |-> i, api_managed |-> i # Resident,
     disabled |-> b.codes[i].disabled, latch_ids |-> b.codes[i].latches]

AccessCodeView(b) ==
    AccessCodeList([access_codes |-> {CodeFields(b, i) : i \in Live(b.codes)},
                    access_code_mode |-> b.mode])

FlipMode(b, mode) ==
    [b EXCEPT !.mode = mode,
              !.codes = [i \in CodeIds |-> IF i \in Live(@) THEN Gone ELSE @[i]]]

Preview(b, mode) ==
    [new_mode |-> mode, codes_to_delete |-> Cardinality(Live(b.codes))]

\* Of an existing row the server changes, and echoes, what the body names.
EditCode(b, i, json) ==
    [b EXCEPT !.codes[i] =
        [disabled |-> Get(json, "disabled", @.disabled),
         latches |-> Get(json, "latch_ids", @.latches)]]

EchoedCode(i, json) ==
    [f \in DOMAIN json \cup {"directory_access_code_id"} |->
        IF f = "directory_access_code_id" THEN i ELSE json[f]]

AccessCodeServe(b, r) ==
    CASE r.path = "access-codes" ->
           IF Managed(b) # {} THEN Refuses(b, 409, "duplicate_code")
           ELSE IF Unused(b.codes) = {} THEN Refuses(b, 422, "bound")
           ELSE LET i == NextUnused(b.codes)
                    to == [b EXCEPT !.codes[i] =
                              [disabled |-> FALSE, latches |-> r.json.latch_ids]]
                IN  Says(to, 200, [result |-> "ok",
                                   access_code |-> CodeFields(to, i)])
      [] r.path = "access-codes/id" ->
           IF r.id \notin Managed(b) THEN Refuses(b, 404, "not_found")
           ELSE IF DOMAIN r.json = {} THEN Refuses(b, 400, "empty_body")
           ELSE Says(EditCode(b, r.id, r.json), 200,
                     [result |-> "ok", access_code |-> EchoedCode(r.id, r.json)])
      [] r.path = "access-codes/delete" ->
           IF r.id \notin Managed(b) THEN Refuses(b, 404, "not_found")
           ELSE Says([b EXCEPT !.codes[r.id] = Gone], 200,
                     [result |-> "ok", directory_access_code_id |-> r.id])
      [] r.path = "access-codes/mode" ->
           IF r.json.mode = b.mode
           THEN Says(b, 200, [result |-> "ok", mode |-> b.mode, changed |-> FALSE])
           ELSE IF ~r.json.confirm
           THEN Says(b, 409, [code |-> "requires_confirmation",
                              preview |-> Preview(b, r.json.mode)])
           ELSE Says(FlipMode(b, r.json.mode), 200,
                     [result |-> "ok", mode |-> r.json.mode, changed |-> TRUE,
                      deleted_codes |-> Cardinality(Live(b.codes))])

\* A test key is asked to confirm like any other, then shown the preview.
AccessCodeSimulated(b, r) ==
    CASE r.path = "access-codes/mode" ->
           IF r.json.mode = b.mode THEN AccessCodeServe(b, r).body
           ELSE [result |-> "simulated", would_change |-> Preview(b, r.json.mode)]
      [] OTHER -> [result |-> "simulated"]

----------------------------------------------------------------------------
(* What the properties ask of this family.                                 *)

AccessCodeRepeatable(c) == TRUE

AccessCodeWithin(c, b, f) ==
    /\ c.op # "set_access_code_mode" =>
         /\ f.mode = b.mode
         /\ \A i \in CodeIds :
              IF c.op = "create_access_code"
              THEN i \notin Unused(b.codes) => f.codes[i] = b.codes[i]
              ELSE i # c.id => f.codes[i] = b.codes[i]
    /\ c.op = "update_access_code" /\ c.id \in Live(b.codes) =>
         /\ c.disabled = None => f.codes[c.id].disabled = b.codes[c.id].disabled
         /\ c.latch_ids = None => f.codes[c.id].latches = b.codes[c.id].latches
    /\ f.codes # b.codes /\ c.op = "set_access_code_mode" => f.mode # b.mode

AccessCodeMeant(c, b, f) ==
    /\ c.op = "update_access_code" =>
         /\ c.disabled # None => f.codes[c.id].disabled = c.disabled
         /\ c.latch_ids # None => f.codes[c.id].latches = c.latch_ids
    /\ c.op = "set_access_code_mode" =>
         /\ f.mode = c.mode
         /\ f.mode = b.mode => f.codes = b.codes

\* A switch that wipes a resident's code.
AccessCodeHarms(b, f) ==
    Resident \in Live(b.codes) /\ Resident \notin Live(f.codes)

\* The preview counts the codes that a live key would delete.
AccessCodePreviews(r, b, f) ==
    r.call.op = "set_access_code_mode" =>
        /\ r.result.would_change.codes_to_delete
             = Cardinality(Live(b.codes) \ Live(f.codes))
        /\ ~r.result.changed /\ r.result.mode = None

\* What an update returns is true only of the fields that were named.  A
\* switch that nobody came between tells what it did if it was applied once;
\* applied again, it says that nothing changed, whatever it did.  ConflictError
\* on a create means that the PIN is live: perhaps through an attempt of this
\* very call.
AccessCodeHonest(r, b, f, alone) ==
    LET c == r.call
    IN
    /\ r.raised = None /\ c.op = "create_access_code" =>
         /\ r.result.id \in Managed(f)
         /\ r.result.latch_ids = f.codes[r.result.id].latches
    /\ r.raised = None /\ c.op = "update_access_code" =>
         /\ r.result.id = c.id
         /\ c.disabled # None => r.result.disabled = f.codes[c.id].disabled
         /\ c.latch_ids # None => r.result.latch_ids = f.codes[c.id].latches
    /\ r.raised \in {None, "NotFoundError"} /\ c.op = "delete_access_code"
         => c.id \notin Managed(f)
    /\ r.raised = None /\ c.op = "set_access_code_mode" =>
         /\ r.result.mode = f.mode
         /\ alone => /\ r.result.changed <=> r.trace.applied = 1 /\ f.mode # b.mode
                     /\ r.result.changed =>
                          r.result.deleted_codes = Cardinality(Live(b.codes))
    /\ r.raised = "ConflictError" /\ c.op = "create_access_code"
         => Managed(f) # {}
    /\ r.raised = "ConflictError" /\ c.op = "set_access_code_mode"
         => f.mode # c.mode

\* "changed is False and nothing happened" (AccessCodeModeChange): the mode
\* asked for is the one the call found.
AccessCodeDenied(r, b) ==
    r.call.op = "set_access_code_mode" /\ ~r.result.changed =>
        r.call.mode = b.mode
=============================================================================
