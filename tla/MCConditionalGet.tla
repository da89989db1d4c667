-------------------------- MODULE MCConditionalGet --------------------------
(***************************************************************************)
(* Instances of ConditionalGet for TLC: two bodies, one of which has two   *)
(* ETags, so that a 304 can restate one it was not asked about.            *)
(***************************************************************************)
EXTENDS ConditionalGet, TLC

CONSTANTS c1, c2, c3, k1, k2, e1, e1x, e2, b1, b2

MCETags == {e1, e1x, e2}
MCBodies == {b1, b2}
MCNames == (e1 :> b1) @@ (e1x :> b1) @@ (e2 :> b2)

\* One ETag per body, for the runs in which nothing is said of restated ETags.
MCPlainETags == {e1, e2}
MCPlainNames == (e1 :> b1) @@ (e2 :> b2)

MCSymmetry == Permutations(Calls) \cup Permutations(Keys)

\* Two calls read one of the keys and the third one the other key: either the
\* two are free to overlap (k1) or they are kept apart (k2).
ReadTwice == CHOOSE k \in Keys :
               \E t, u \in Calls : t # u /\ key[t] = k /\ key[u] = k

MCInit ==
    /\ Init
    /\ key \in {(c1 :> k1) @@ (c2 :> k1) @@ (c3 :> k2),
               (c1 :> k2) @@ (c2 :> k2) @@ (c3 :> k1)}
    /\ \A k \in Keys \ {ReadTwice} : content[k] = b1

\* c1 and c2 differ in nothing: c1 is the one that begins first.  The key that
\* is read once is there to evict the other and keeps its content.
MCNext ==
    /\ Next
    /\ pc[c1] = "idle" => pc'[c2] = "idle"
    /\ \A k \in Keys \ {ReadTwice} : content'[k] = content[k]

MCSpec == MCInit /\ [][MCNext]_vars /\ Fairness

=============================================================================
