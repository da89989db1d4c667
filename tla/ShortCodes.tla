----------------------------- MODULE ShortCodes -----------------------------
(***************************************************************************)
(* GuestView short codes: unique across all communities, assigned to one   *)
(* gate at most, and never deleted.  A code is claimed by name or          *)
(* generated by the server.                                                *)
(***************************************************************************)
EXTENDS WireFormat

CONSTANTS
    Claims,    \* codes that are asked for by name
    Generated, \* bound: the codes that the server can generate
    Elsewhere  \* the state of a code that another community holds

ASSUME GeneratedAssumption == Claims \cap Generated = {}

ShortNames == Claims \cup Generated

\* Codes are short: there are finitely many.
ASSUME ShortNamesAssumption == IsFiniteSet(ShortNames)

\* Codes, gates and what a code may be instead are told apart.
ASSUME ShortCodeAssumption ==
    /\ None \notin ShortNames /\ Never # Elsewhere
    /\ {Never, Elsewhere} \cap (Gates \cup {None}) = {}
    /\ \A n \in ShortNames, g \in Gates \cup {None} :
         [short_code |-> n, latch_id |-> g] \notin ShortNames \cup {None}

ShortBooks == [
               codes : [ShortNames -> Gates \cup {None, Never, Elsewhere}]]

Ours(b) == {n \in ShortNames : b.codes[n] \notin {Never, Elsewhere}}

ShortCodeStart ==
    {b \in ShortBooks : \A n \in ShortNames :
        IF n \in Generated THEN b.codes[n] = Never
        ELSE b.codes[n] # None}

----------------------------------------------------------------------------
(* The client.                                                             *)

\* ShortCode.from_dict: a row, whose short_code is the code, or the envelope,
\* whose short_code is the row.
ShortCode(d) ==
    LET inner == Get(d, "short_code", None)
        sc == IF inner \in ShortNames \cup {None} THEN d ELSE inner
    IN  [short_code |-> Get(sc, "short_code", None),
         latch_id |-> Get(sc, "latch_id", None),
         simulated |-> Get(d, "result", None) = "simulated"]

create_short_code(code, latch) ==
    [op |-> "create_short_code", code |-> code, latch_id |-> latch, creates |-> 1]
assign_short_code(code, latch) ==
    [op |-> "assign_short_code", code |-> code, latch_id |-> latch, creates |-> 0]

ShortCodeCalls ==
    {create_short_code(n, g) : n \in Claims \cup {None}, g \in Gates \cup {None}}
      \cup {assign_short_code(n, g) : n \in ShortNames, g \in Gates}

ShortCodeOffered(v, c) == c.op = "assign_short_code" => c.code \in DOMAIN v

ShortCodeRequest(c) ==
    IF c.op = "create_short_code"
    THEN [path |-> "short-codes",
          json |-> Body(NoFields, [code |-> c.code, latch_id |-> c.latch_id])]
    ELSE [path |-> "short-codes/code", id |-> c.code,
          json |-> [latch_id |-> c.latch_id]]

----------------------------------------------------------------------------
(* The server (external).                                                  *)

ShortRow(b, n) == [short_code |-> n, latch_id |-> b.codes[n]]

ShortCodeView(b) == [n \in Ours(b) |-> ShortCode(ShortRow(b, n))]

ShortCodeServe(b, r) ==
    LET Points(n, latch) ==
          LET to == [b EXCEPT !.codes[n] = latch]
          IN  Says(to, 200, [result |-> "ok", short_code |-> ShortRow(to, n)])
        fresh == {n \in Generated : b.codes[n] = Never}
    IN
    CASE r.path = "short-codes/code" ->
           IF r.id \in Ours(b) THEN Points(r.id, r.json.latch_id)
           ELSE Refuses(b, 404, "short_code_not_found")
      [] r.path = "short-codes" /\ "code" \in DOMAIN r.json ->
           IF b.codes[r.json.code] = Never
           THEN Points(r.json.code, Get(r.json, "latch_id", None))
           ELSE Refuses(b, 409, "short_code_taken")
      [] r.path = "short-codes" /\ "code" \notin DOMAIN r.json ->
           IF fresh = {} THEN Refuses(b, 422, "bound")
           ELSE Points(CHOOSE n \in fresh : TRUE, Get(r.json, "latch_id", None))

----------------------------------------------------------------------------
(* What the properties ask of this family.                                 *)

ShortCodeRepeatable(c) == c.op = "assign_short_code" \/ c.code # None

\* No code is ever deleted, and no code of another community is touched.
ShortCodeWithin(c, b, f) ==
    \A n \in ShortNames :
        f.codes[n] # b.codes[n] =>
            /\ b.codes[n] # Elsewhere /\ f.codes[n] \notin {Never, Elsewhere}
            /\ IF c.op = "create_short_code"
               THEN b.codes[n] = Never /\ c.code \in {n, None}
               ELSE n = c.code

ShortCodeMeant(c, b, f) ==
    c.op = "assign_short_code" => f.codes[c.code] = c.latch_id

\* A code that could not be claimed is taken: by somebody else, or by an
\* earlier attempt of this very call.
ShortCodeHonest(r, b, f, alone) ==
    /\ r.raised = None =>
         /\ r.result.short_code \in Ours(f)
         /\ r.result.latch_id = f.codes[r.result.short_code]
         /\ r.call.latch_id = r.result.latch_id
    /\ r.raised = "ConflictError" => f.codes[r.call.code] # Never
    /\ r.raised = "NotFoundError" => r.call.code \notin Ours(f)
=============================================================================
