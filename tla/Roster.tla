------------------------------- MODULE Roster -------------------------------
(***************************************************************************)
(* The members of the community and the keys they hold: one by one, or in  *)
(* batches that answer 207 with a verdict for each item.  A batch that     *)
(* names somebody outside the community is refused as a whole.             *)
(***************************************************************************)
EXTENDS WireFormat

CONSTANTS People,   \* by phone number or account_community_id
          KeyIds    \* the community's keys

ASSUME PeopleAssumption == IsFiniteSet(People)

Nothing == [k \in KeyIds |-> "none"]
Persons == [status : {"out", "pending"}, keys : {Nothing}]
             \cup [status : {"accepted"}, keys : [KeyIds -> {"none", "on", "off"}]]
Rosters == [people : [People -> Persons]]

\* A verdict; an object is not null, whatever it says.
Reasons == {"already_member", "already_accepted", "member_not_accepted",
            "key_not_held"}
ASSUME VerdictAssumption ==
    /\ None \notin Reasons
    /\ None \notin Nat
    /\ None \notin [total : Nat, succeeded : Nat, failed : Nat]
    /\ \A some \in SUBSET People :
         None \notin [some -> [ok : BOOLEAN, code : Reasons \cup {None}]]

\* There is a member who has keys, and somebody who is not a member yet.
RosterStart ==
    {o \in Rosters :
        /\ \E p \in People : o.people[p].status # "accepted"
        /\ \E p \in People : \A k \in KeyIds : o.people[p].keys[k] = "on"}

----------------------------------------------------------------------------
(* The client.                                                             *)

\* WriteResult.from_dict and .simulated
WriteResult(d) == [result |-> Get(d, "result", None),
                   simulated |-> Get(d, "result", None) = "simulated"]

\* BulkSummary.from_dict, BulkItemResult.from_dict
BulkSummary(d) == [total |-> GetOr(d, "total", 0),
                   succeeded |-> GetOr(d, "succeeded", 0),
                   failed |-> GetOr(d, "failed", 0)]
BulkItemResult(d) == [ok |-> Bool(Get(d, "ok", None)),
                      code |-> Get(d, "code", None)]

\* Mutant of BulkSimulated: what every other result does.
SimulatedByResult(d) == Get(d, "result", None) = "simulated"

\* A flag of its own: result is "batch_processed" for live and test keys.
BulkSimulated(d) == Bool(Get(d, "simulated", None))

\* BulkResult.from_dict: the results, by the item they belong to.
BulkResult(d) ==
    LET rows == GetOr(d, "results", NoFields)
    IN  [simulated |-> BulkSimulated(d),
         summary |-> BulkSummary(GetOr(d, "summary", NoFields)),
         results |-> [p \in DOMAIN rows |-> BulkItemResult(rows[p])]]

\* BulkResult.failures
failures(r) == {p \in DOMAIN r.results : ~r.results[p].ok}

member_write(op, p, keys, flag) ==
    [op |-> op, items |-> [q \in {p} |-> keys], flag |-> flag, creates |-> 0,
     dry_run |-> None]
approve_member(p, keys, dry_run) ==
    [op |-> "approve_member", items |-> [q \in {p} |-> keys], flag |-> None,
     creates |-> 0, dry_run |-> dry_run]
bulk_write(op, items, flag) ==
    [op |-> op, items |-> items, flag |-> flag, creates |-> 0, dry_run |-> None]

KeyLists == (SUBSET KeyIds) \ {{}}

\* A batch is about the same keys of all the people there are.
Batches == {[p \in People |-> keys] : keys \in KeyLists}

\* remove_member, disabled; dry_run
Flags == BOOLEAN \cup {Truthy}
DryRuns == {TRUE, None}

RosterCalls ==
    {member_write(op, p, keys, None) :
        op \in {"add_member", "grant_keys"}, p \in People, keys \in KeyLists}
      \cup {member_write("revoke_keys", p, keys, remove) :
              p \in People, keys \in KeyLists, remove \in Flags}
      \cup {member_write("set_keys_disabled", p, keys, off) :
              p \in People, keys \in KeyLists, off \in BOOLEAN}
      \cup {approve_member(p, keys, dry) :
              p \in People, keys \in KeyLists, dry \in DryRuns}
      \cup {bulk_write(op, items, None) : items \in Batches,
              op \in {"bulk_add_members", "bulk_grant_keys", "bulk_revoke_keys"}}
      \cup {bulk_write("bulk_set_keys_disabled", items, off) :
              items \in Batches, off \in Flags}

BulkOps == {"bulk_add_members", "bulk_grant_keys", "bulk_revoke_keys",
            "bulk_set_keys_disabled"}

\* remove_member and the disabled of one member are sent as they were given.
RosterRequest(c) ==
    LET items == [items |-> c.items]
    IN  [path |-> c.op,
         json |->
           CASE c.op = "revoke_keys" ->
                  Body([items |-> c.items, remove_member |-> c.flag], NoFields)
             [] c.op = "set_keys_disabled" ->
                  Body([items |-> c.items, disabled |-> c.flag], NoFields)
             [] c.op = "bulk_set_keys_disabled" ->
                  Body([items |-> c.items, disabled |-> Bool(c.flag)], NoFields)
             [] c.op = "approve_member" -> Body(items, [dry_run |-> c.dry_run])
             [] OTHER -> items]

RosterResult(c, d) == IF c.op \in BulkOps THEN BulkResult(d) ELSE WriteResult(d)

----------------------------------------------------------------------------
(* The server (external).                                                  *)

RosterView(o) == o.people

Held(x) == {k \in KeyIds : x.keys[k] # "none"}
Grants(x, keys) ==
    [status |-> "accepted",
     keys |-> [k \in KeyIds |-> IF k \in keys \ Held(x) THEN "on" ELSE x.keys[k]]]

\* Why an item is refused, and what becomes of the person if it is not.
Refusal(op, x, keys) ==
    CASE op \in {"add_member", "bulk_add_members"} /\ x.status = "accepted" ->
           "already_member"
      [] op = "approve_member" /\ x.status = "accepted" -> "already_accepted"
      [] op \in {"grant_keys", "bulk_grant_keys", "revoke_keys",
                 "bulk_revoke_keys", "set_keys_disabled",
                 "bulk_set_keys_disabled"} /\ x.status = "pending" ->
           "member_not_accepted"
      [] op \in {"set_keys_disabled", "bulk_set_keys_disabled"}
           /\ x.status = "accepted" /\ ~(keys \subseteq Held(x)) ->
           "key_not_held"
      [] OTHER -> None

Edited(op, x, keys, json) ==
    CASE op \in {"revoke_keys", "bulk_revoke_keys"} ->
           IF Get(json, "remove_member", FALSE)
           THEN [status |-> "out", keys |-> Nothing]
           ELSE [x EXCEPT !.keys = [k \in KeyIds |->
                    IF k \in keys THEN "none" ELSE @[k]]]
      [] op \in {"set_keys_disabled", "bulk_set_keys_disabled"} ->
           [x EXCEPT !.keys = [k \in KeyIds |->
               IF k \in keys THEN (IF json.disabled THEN "off" ELSE "on")
               ELSE @[k]]]
      [] OTHER -> Grants(x, keys)

\* Somebody who is not in the community can only be added, and the value of a
\* flag has to be a boolean.
Malformed(o, op, items, json) ==
    \/ /\ op \notin {"add_member", "bulk_add_members"}
       /\ \E p \in DOMAIN items : o.people[p].status = "out"
    \/ Get(json, "remove_member", FALSE) \notin BOOLEAN
    \/ Get(json, "disabled", FALSE) \notin BOOLEAN

RosterServe(o, r) ==
    LET items == r.json.items
        why == [p \in DOMAIN items |-> Refusal(r.path, o.people[p], items[p])]
        failed == {p \in DOMAIN items : why[p] # None}
        to == [o EXCEPT !.people = [p \in People |->
                 IF p \in DOMAIN items \ failed
                 THEN Edited(r.path, @[p], items[p], r.json) ELSE @[p]]]
    IN  IF Malformed(o, r.path, items, r.json) THEN Refuses(o, 422, "invalid_items")
        ELSE IF r.path \in BulkOps
        THEN Says(to, 207,
                  [result |-> "batch_processed", simulated |-> FALSE,
                   summary |-> [total |-> Cardinality(DOMAIN items),
                                succeeded |-> Cardinality(DOMAIN items \ failed),
                                failed |-> Cardinality(failed)],
                   results |-> [p \in DOMAIN items |->
                                  [ok |-> p \notin failed, code |-> why[p]]]])
        ELSE IF failed # {}
        THEN LET code == why[CHOOSE p \in failed : TRUE]
             IN  Refuses(o, IF code = "already_accepted" THEN 409 ELSE 422, code)
        ELSE IF Get(r.json, "dry_run", FALSE)
        THEN Says(o, 200, [result |-> "simulated"])
        ELSE Says(to, 200, [result |-> r.path])

----------------------------------------------------------------------------
(* What the properties ask of this family.                                 *)

RosterWithin(c, o, f) ==
    \A p \in People : f.people[p] # o.people[p] =>
        /\ p \in DOMAIN c.items
        /\ c.dry_run # TRUE
        /\ f.people[p].status # o.people[p].status =>
             \/ c.op \in {"add_member", "bulk_add_members", "approve_member"}
             \/ c.op = "revoke_keys" /\ c.flag = TRUE
        /\ f.people[p].status = "accepted" =>
             \A k \in KeyIds \ c.items[p] :
                 f.people[p].keys[k] = o.people[p].keys[k]

\* What an item that went well leaves behind.
DoneFor(c, p, f) ==
    LET x == f.people[p]  keys == c.items[p]
    IN  CASE c.op \in {"revoke_keys", "bulk_revoke_keys"} ->
               /\ Held(x) \cap keys = {}
               /\ c.flag = TRUE => x.status = "out"
          [] c.op \in {"set_keys_disabled", "bulk_set_keys_disabled"} ->
               \A k \in keys : x.keys[k] = IF Bool(c.flag) THEN "off" ELSE "on"
          [] OTHER -> x.status = "accepted" /\ keys \subseteq Held(x)

RosterMeant(c, o, f) ==
    c.op \notin BulkOps /\ c.dry_run # TRUE =>
        \A p \in DOMAIN c.items : DoneFor(c, p, f)

\* Each item of a batch that reports success has been done, whoever else came
\* between the attempts; "already_member" and ConflictError are true too, but
\* of the community: an attempt of this very call may have been the one that
\* added the member, and a bulk add that is applied again reports every item
\* as a failure.
RosterHonest(r, o, f, alone) ==
    LET c == r.call
    IN
    /\ r.raised = None /\ c.op \in BulkOps =>
         /\ DOMAIN r.result.results = DOMAIN c.items
         /\ \A p \in DOMAIN c.items \ failures(r.result) : DoneFor(c, p, f)
         /\ r.result.summary.failed = Cardinality(failures(r.result))
         /\ r.result.summary.succeeded + r.result.summary.failed
              = r.result.summary.total
         /\ c.op = "bulk_add_members" =>
              \A p \in DOMAIN c.items : f.people[p].status = "accepted"
         /\ c.op = "bulk_add_members" /\ alone =>
              failures(r.result) =
                {p \in DOMAIN c.items :
                   r.trace.applied > 1 \/ o.people[p].status = "accepted"}
    /\ r.raised = None /\ c.op \notin BulkOps /\ c.dry_run # TRUE =>
         \A p \in DOMAIN c.items : DoneFor(c, p, f)
    /\ r.raised = "ConflictError" =>
         \A p \in DOMAIN c.items : f.people[p].status = "accepted"

\* "An already-accepted member fails with already_member" (bulk_add_members):
\* whoever is reported so was a member before the call.
RosterDenied(r, o) ==
    r.call.op = "bulk_add_members" =>
        \A p \in DOMAIN r.call.items :
            r.result.results[p].code = "already_member" =>
                o.people[p].status = "accepted"

\* The verdicts of a test key are those a live key would get.
RosterPreviews(r, o, f) ==
    r.call.op \in BulkOps =>
        \A p \in DOMAIN r.call.items :
            r.result.results[p].ok <=> o.people[p] # f.people[p] \/
                /\ r.call.op # "bulk_add_members" /\ DoneFor(r.call, p, o)
                /\ o.people[p].status = "accepted"
=============================================================================
