-------------------------------- MODULE MCLocks --------------------------------
(***************************************************************************)
(* Four validators of equal stake, one of them faulty.  t1 and t2 consume  *)
(* the same reference; t3 consumes what t1 leaves.                         *)
(***************************************************************************)
EXTENDS ObjectLocks, FiniteSets, TLC

CONSTANTS v1, v2, v3, v4, t1, t2, t3, r0, r1, r2, r3

MCIn == t1 :> {r0} @@ t2 :> {r0} @@ t3 :> {r1}
MCOut == t1 :> {r1} @@ t2 :> {r2} @@ t3 :> {r3}
MCQuorum == {Q \in SUBSET Validator : 3 * Cardinality(Q) > 2 * Cardinality(Validator)}
Symmetry == Permutations(Honest)
=============================================================================
