-------------------------- MODULE MCRetriedWrites --------------------------
(***************************************************************************)
(* Instances of RetriedWrites for TLC: interchangeable calls, and a        *)
(* receiver that has been down.  What is "pending" or "delivered" becomes  *)
(* so in the behaviours: a batch enqueues it, and it is concluded.         *)
(***************************************************************************)
EXTENDS RetriedWrites, TLC

MCInit == Init /\ delivery = [e \in Events |-> "failed"]
MCSpec == MCInit /\ [][Next]_vars

MCSymmetry == Permutations(Calls)

=============================================================================
