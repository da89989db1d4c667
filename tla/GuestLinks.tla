----------------------------- MODULE GuestLinks -----------------------------
(***************************************************************************)
(* Guest links: a URL that opens gates with no account.  A link is made    *)
(* once per request, so a repeated create leaves a second working link     *)
(* that no answer names; a revoked link stays dead.                        *)
(***************************************************************************)
EXTENDS WireFormat

CONSTANTS MaxLinkId,  \* bound: the link ids the server can assign
          Uses        \* values of max_uses, all positive

ASSUME LinkAssumption == MaxLinkId \in Nat
ASSUME UsesAssumption == Uses \subseteq Nat \ {0} /\ None \notin Uses \cup 0..1

LinkIds == 1..MaxLinkId
Limits == Uses \cup {None}
LinkRows == [max : Limits, used : 0..1, revoked : BOOLEAN,
             gates : (SUBSET Gates) \ {{}}]
LinkBooks == [links : [LinkIds -> LinkRows \cup {Never}]]

\* A place for a link may be empty.
ASSUME LinkRowAssumption ==
    \A max \in Limits, used \in 0..1, revoked \in BOOLEAN, gates \in SUBSET Gates :
         [max |-> max, used |-> used, revoked |-> revoked, gates |-> gates]
            \notin {Never, Gone}

\* One link that can be used a number of times: fresh, in use or spent.
GuestLinkStart ==
    {b \in LinkBooks : /\ Live(b.links) = {1}
                       /\ b.links[1].gates = Gates /\ ~b.links[1].revoked
                       /\ b.links[1].max # None}

\* Limits are counted for limited_use links, an event link has a window.
Opens(x) == ~x.revoked /\ (x.max = None \/ x.used < x.max)

----------------------------------------------------------------------------
(* The client.                                                             *)

\* GuestLink.uses_remaining
uses_remaining(max, used) ==
    IF max = None THEN None ELSE IF used >= max THEN 0 ELSE max - used

\* GuestLink.from_dict, .latch_ids, .active: a row, or the writes' envelope.
GuestLink(d) ==
    LET link == Unwrap(d, "guest_link")
        max == Get(link, "max_uses", None)
    IN  [id |-> Get(link, "guest_link_id", None),
         link_type |-> Get(link, "link_type", None),
         active |-> Get(link, "state", None) = "active",
         latch_ids |-> GetOr(link, "latches", {}),
         remaining |-> uses_remaining(max, GetOr(link, "uses_consumed", 0)),
         revoked |-> Bool(Get(link, "revoked", None)),
         simulated |-> Get(d, "result", None) = "simulated"]

create_guest_link(type, gates, max, window) ==
    [op |-> "create_guest_link", link_type |-> type, latch_ids |-> gates,
     max_uses |-> max, window |-> window, creates |-> 1]
revoke_guest_link(i) == [op |-> "revoke_guest_link", id |-> i, creates |-> 0]

\* window: title, window_start and window_end are given.  Either type of link
\* may be asked for without the limits it needs.
GuestLinkCalls ==
    {create_guest_link("event", {g}, None, w) : g \in Gates, w \in {TRUE, None}}
      \cup {create_guest_link("limited_use", {g}, max, None) :
              g \in Gates, max \in Limits}
      \cup {revoke_guest_link(i) : i \in LinkIds}

GuestLinkOffered(v, c) == c.op = "revoke_guest_link" => c.id \in DOMAIN v

GuestLinkRequest(c) ==
    IF c.op = "create_guest_link"
    THEN [path |-> "guest-links",
          json |-> Body([link_type |-> c.link_type, latch_ids |-> c.latch_ids],
                        [max_uses |-> c.max_uses, window |-> c.window])]
    ELSE [path |-> "guest-links/delete", id |-> c.id, json |-> NoFields]

----------------------------------------------------------------------------
(* The server (external).                                                  *)

LinkFields(b, i) ==
    LET x == b.links[i]
    IN  [guest_link_id |-> i,
         link_type |-> IF x.max = None THEN "event" ELSE "limited_use",
         state |-> IF x.revoked THEN "revoked"
                   ELSE IF Opens(x) THEN "active" ELSE "spent",
         latches |-> x.gates, max_uses |-> x.max, uses_consumed |-> x.used,
         revoked |-> x.revoked]

GuestLinkView(b) == [i \in Live(b.links) |-> GuestLink(LinkFields(b, i))]

\* What each type of link has to say.
WellFormed(json) ==
    IF json.link_type = "event" THEN "window" \in DOMAIN json
    ELSE "max_uses" \in DOMAIN json

GuestLinkServe(b, r) ==
    LET Shows(to, i) ==
          Says(to, 200, [result |-> "ok", guest_link |-> LinkFields(to, i)])
    IN
    CASE r.path = "guest-links" ->
           IF ~WellFormed(r.json) \/ Unused(b.links) = {}
           THEN Refuses(b, 422, "invalid")
           ELSE LET i == NextUnused(b.links)
                    limit == IF r.json.link_type = "event" THEN None
                             ELSE r.json.max_uses
                IN  Shows([b EXCEPT !.links[i] =
                             [max |-> limit, used |-> 0, revoked |-> FALSE,
                              gates |-> r.json.latch_ids]], i)
      [] r.path = "guest-links/delete" ->
           IF r.id \notin Live(b.links) THEN Refuses(b, 404, "not_found")
           ELSE Shows([b EXCEPT !.links[r.id].revoked = TRUE], r.id)

----------------------------------------------------------------------------
(* What the properties ask of this family.                                 *)

GuestLinkRepeatable(c) == c.op = "revoke_guest_link"

\* No call brings a revoked link back to life.
GuestLinkWithin(c, b, f) ==
    \A i \in LinkIds : f.links[i] # b.links[i] =>
        IF b.links[i] = Never THEN c.op = "create_guest_link"
        ELSE /\ c.op = "revoke_guest_link" /\ c.id = i
             /\ f.links[i] = [b.links[i] EXCEPT !.revoked = TRUE]

GuestLinkMeant(c, b, f) ==
    c.op = "revoke_guest_link" => ~Opens(f.links[c.id])

GuestLinkHonest(r, b, f, alone) ==
    r.raised = None =>
        LET x == f.links[r.result.id]
        IN  /\ r.result.active <=> Opens(x)
            /\ r.result.latch_ids = x.gates
            /\ r.result.active /\ x.max # None => r.result.remaining > 0
            /\ r.call.op = "create_guest_link" =>
                 r.result.active /\ x.gates = r.call.latch_ids
            /\ r.call.op = "revoke_guest_link" => r.result.revoked
=============================================================================
