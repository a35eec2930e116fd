------------------------------ MODULE MCValidator ------------------------------
(***************************************************************************)
(* One shared object s, created by t1, and owned objects o and p.  t2 and  *)
(* t3 change s; t2 needs what t1 leaves, and t4 what t2 leaves.  Consensus *)
(* orders t2 before t3, as the version of o that t4 names requires; t4     *)
(* itself needs no consensus and comes too early; t1 comes twice.          *)
(***************************************************************************)
EXTENDS Validator, TLC

CONSTANTS t1, t2, t3, t4, o, p, s

MCOwned == t1 :> {<<o, 1>>} @@ t2 :> {<<o, 2>>} @@ t3 :> {<<p, 1>>} @@ t4 :> {<<o, 3>>}
MCShared == t1 :> {} @@ t2 :> {s} @@ t3 :> {s} @@ t4 :> {}
MCCreated == t1 :> {s} @@ t2 :> {} @@ t3 :> {} @@ t4 :> {}
MCInitialVersion == s :> 2
MCGenesis == {<<o, 1>>, <<p, 1>>}
MCLogs == { <<<<t1>>, <<t4, t2, t1, t3>>>> }
=============================================================================
