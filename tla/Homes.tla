-------------------------------- MODULE Homes --------------------------------
(***************************************************************************)
(* The homes of the community, who lives in them and when they move out.   *)
(* An edit changes the fields it is given; to remove a home detaches its   *)
(* residents, and nothing attaches them again.                             *)
(***************************************************************************)
EXTENDS WireFormat

CONSTANTS MaxHomeId,  \* bound: the home ids the server can assign
          Addresses,
          Residents   \* by account_community_id

ASSUME HomeAssumption == MaxHomeId \in Nat
ASSUME AddressAssumption == None \notin Addresses

HomeIds == 1..MaxHomeId
MoveOut == "2026-12-31"
HomeRows == [address : Addresses, owner : BOOLEAN, hidden : BOOLEAN]
ASSUME HomeRowAssumption ==
    (\A row \in HomeRows : row \notin {Never, Gone}) /\ None \notin Nat
ASSUME ResidentAssumption == IsFiniteSet(Residents)

Units == [homes : [HomeIds -> HomeRows \cup {Never, Gone}],
          lives : [Residents -> HomeIds \cup {None}],
          leaves : [Residents -> {None, MoveOut}]]

\* Home 1, in which everybody lives or nobody.
HomesStart ==
    {o \in Units : /\ Live(o.homes) = {1} /\ Unused(o.homes) = HomeIds \ {1}
                   /\ ~o.homes[1].hidden /\ ~o.homes[1].owner
                   /\ \E i \in {1, None} : \A p \in Residents : o.lives[p] = i
                   /\ \A p \in Residents : o.leaves[p] = None}

In(o, i) == {p \in Residents : o.lives[p] = i}

----------------------------------------------------------------------------
(* The client.                                                             *)

\* Home.from_dict: a bare row, or the envelope of the writes.
Home(d) ==
    LET home == Unwrap(d, "home")
    IN  [home_id |-> Get(home, "home_id", Get(d, "home_id", None)),
         address |-> Get(home, "address", None),
         owner_occupied |-> Bool(Get(home, "owner_occupied", None)),
         hidden |-> Bool(Get(home, "hidden", None)),
         member_count |-> GetOr(home, "member_count", 0),
         simulated |-> Get(d, "result", None) = "simulated"]

\* Mutant of DetachedCount: what a test key would detach is not read.
DetachedLive(d) == GetOr(d, "detached_member_count", 0)

\* The number a removal has detached or, for a test key, would detach.
DetachedCount(d) ==
    GetOr(d, "detached_member_count", GetOr(d, "would_detach_member_count", 0))

\* HomeRemoved.from_dict
HomeRemoved(d) ==
    [home_id |-> Get(d, "home_id", None),
     deleted |-> Bool(Get(d, "deleted", None)),
     detached |-> DetachedCount(d),
     simulated |-> Get(d, "result", None) = "simulated"]

\* MoveOutDate.from_dict
MoveOutDate(d) ==
    [member |-> Get(d, "account_community_id", None),
     move_out_date |-> Get(d, "move_out_date", Get(d, "would_set", None)),
     simulated |-> Get(d, "result", None) = "simulated"]

add_home(address) == [op |-> "add_home", address |-> address, creates |-> 1]
update_home(i, address, owner, hidden) ==
    [op |-> "update_home", id |-> i, address |-> address,
     owner_occupied |-> owner, hidden |-> hidden, creates |-> 0]
remove_home(i) == [op |-> "remove_home", id |-> i, creates |-> 0]
set_move_out_date(p, date) ==
    [op |-> "set_move_out_date", id |-> p, date |-> date, creates |-> 0]

\* A home is hidden, or left as it is.
Hides == {TRUE, None}

HomeCalls ==
    {add_home(a) : a \in Addresses}
      \cup {update_home(i, a, None, hidden) :
              i \in HomeIds, a \in Addresses \cup {None},
              hidden \in Hides}
      \cup {update_home(i, None, owner, None) : i \in HomeIds, owner \in BOOLEAN}
      \cup {remove_home(i) : i \in HomeIds}
      \cup {set_move_out_date(p, d) : p \in Residents, d \in {None, MoveOut}}

HomesOffered(v, c) ==
    c.op \in {"update_home", "remove_home"} => c.id \in DOMAIN v.homes

\* A home is edited by what is given; a date is sent even when it is null.
HomesRequest(c) ==
    CASE c.op = "add_home" ->
           [path |-> "homes", json |-> [home_address |-> c.address]]
      [] c.op = "update_home" ->
           [path |-> "homes/id", id |-> c.id,
            json |-> Body(NoFields, [home_address |-> c.address,
                                     owner_occupied |-> c.owner_occupied,
                                     hidden |-> c.hidden])]
      [] c.op = "remove_home" ->
           [path |-> "homes/delete", id |-> c.id, json |-> NoFields]
      [] c.op = "set_move_out_date" ->
           [path |-> "members/move-out-date", id |-> c.id,
            json |-> [move_out_date |-> c.date]]

HomesResult(c, d) ==
    CASE c.op \in {"add_home", "update_home"} -> Home(d)
      [] c.op = "remove_home" -> HomeRemoved(d)
      [] c.op = "set_move_out_date" -> MoveOutDate(d)

----------------------------------------------------------------------------
(* The server (external).                                                  *)

HomeFields(o, i) ==
    [home_id |-> i, address |-> o.homes[i].address,
     owner_occupied |-> o.homes[i].owner, hidden |-> o.homes[i].hidden,
     member_count |-> Cardinality(In(o, i))]

HomesView(o) ==
    [homes |-> [i \in Live(o.homes) |-> Home(HomeFields(o, i))],
     leaves |-> o.leaves]

EditHome(x, json) ==
    [address |-> Get(json, "home_address", x.address),
     owner |-> Get(json, "owner_occupied", x.owner),
     hidden |-> Get(json, "hidden", x.hidden)]

HomesServe(o, r) ==
    LET Stands(to, i) ==
          Says(to, 200, [result |-> "ok", home |-> HomeFields(to, i)])
    IN
    CASE r.path = "homes" ->
           IF Unused(o.homes) = {} THEN Refuses(o, 422, "bound")
           ELSE LET i == NextUnused(o.homes)
                IN  Stands([o EXCEPT !.homes[i] =
                              [address |-> r.json.home_address,
                               owner |-> FALSE, hidden |-> FALSE]], i)
      [] r.path = "homes/id" ->
           IF r.id \notin Live(o.homes) THEN Refuses(o, 404, "not_found")
           ELSE IF DOMAIN r.json = {} THEN Refuses(o, 400, "no_fields")
           ELSE IF Get(r.json, "hidden", FALSE) /\ In(o, r.id) # {}
           THEN Refuses(o, 409, "home_occupied")
           ELSE Stands([o EXCEPT !.homes[r.id] = EditHome(@, r.json)], r.id)
      [] r.path = "homes/delete" ->
           IF r.id \notin Live(o.homes) THEN Refuses(o, 404, "not_found")
           ELSE Says([o EXCEPT !.homes[r.id] = Gone,
                               !.lives = [p \in Residents |->
                                  IF @[p] = r.id THEN None ELSE @[p]]],
                     200, [result |-> "ok", home_id |-> r.id, deleted |-> TRUE,
                           detached_member_count |-> Cardinality(In(o, r.id))])
      [] r.path = "members/move-out-date" ->
           IF "move_out_date" \notin DOMAIN r.json THEN Refuses(o, 422, "missing")
           ELSE Says([o EXCEPT !.leaves[r.id] = r.json.move_out_date], 200,
                     [result |-> "ok", account_community_id |-> r.id,
                      move_out_date |-> r.json.move_out_date])

\* The answer to a test key.
HomesSimulated(o, r) ==
    CASE r.path = "homes/delete" ->
           [result |-> "simulated", home_id |-> r.id,
            would_detach_member_count |-> Cardinality(In(o, r.id))]
      [] r.path = "members/move-out-date" ->
           [result |-> "simulated", account_community_id |-> r.id,
            would_set |-> r.json.move_out_date]
      [] OTHER -> [result |-> "simulated"]

----------------------------------------------------------------------------
(* What the properties ask of this family.                                 *)

HomesWithin(c, o, f) ==
    /\ \A i \in HomeIds : f.homes[i] # o.homes[i] =>
         \/ c.op = "add_home" /\ o.homes[i] = Never
         \/ c.op \in {"update_home", "remove_home"} /\ c.id = i
    /\ \A p \in Residents : f.lives[p] # o.lives[p] =>
         c.op = "remove_home" /\ o.lives[p] = c.id /\ f.lives[p] = None
    /\ \A p \in Residents : f.leaves[p] # o.leaves[p] =>
         c.op = "set_move_out_date" /\ c.id = p
    /\ c.op = "update_home" /\ c.id \in Live(o.homes) =>
         LET x == o.homes[c.id]  y == f.homes[c.id]
         IN  /\ c.address = None => y.address = x.address
             /\ c.owner_occupied = None => y.owner = x.owner
             /\ c.hidden = None => y.hidden = x.hidden

HomesMeant(c, o, f) ==
    /\ c.op = "set_move_out_date" => f.leaves[c.id] = c.date
    /\ c.op = "update_home" =>
         /\ c.address # None => f.homes[c.id].address = c.address
         /\ c.owner_occupied # None => f.homes[c.id].owner = c.owner_occupied
         /\ c.hidden # None => f.homes[c.id].hidden = c.hidden

\* Nobody lives in a home that is hidden or removed.
HomesHonest(r, o, f, alone) ==
    LET c == r.call
    IN
    /\ \A p \in Residents : f.lives[p] # None =>
         f.lives[p] \in Live(f.homes) /\ ~f.homes[f.lives[p]].hidden
    /\ r.raised = None =>
         /\ c.op \in {"add_home", "update_home"} =>
              /\ r.result.home_id \in Live(f.homes)
              /\ r.result.address = f.homes[r.result.home_id].address
              /\ r.result.hidden = f.homes[r.result.home_id].hidden
              /\ r.result.member_count = Cardinality(In(f, r.result.home_id))
         /\ c.op = "remove_home" =>
              /\ r.result.deleted
              /\ alone => r.result.detached = Cardinality(In(o, c.id))
         /\ c.op = "set_move_out_date" =>
              r.result.move_out_date = f.leaves[c.id]
    /\ c.op = "remove_home" /\ r.raised \in {None, "NotFoundError"} =>
         c.id \notin Live(f.homes) /\ In(f, c.id) = {}
    /\ r.raised = "ConflictError" => In(f, c.id) # {}

\* What a test key is told is what a live key would have done.
HomesPreviews(r, o, f) ==
    /\ r.call.op = "remove_home" =>
         /\ ~r.result.deleted
         /\ r.result.detached = Cardinality({p \in Residents :
                                               o.lives[p] # f.lives[p]})
    /\ r.call.op = "set_move_out_date" =>
         r.result.move_out_date = f.leaves[r.call.id]
=============================================================================
