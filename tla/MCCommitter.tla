------------------------------ MODULE MCCommitter ------------------------------
(***************************************************************************)
(* Four authorities of equal stake.  The faulty one leads round 1 and may  *)
(* make two blocks there; the leader of round 4 is honest.  Blocks differ  *)
(* in which leader block they vote for (round 2), which votes (round 3)    *)
(* and which certificates (round 4) they name; the others name all honest  *)
(* blocks of the round before.                                             *)
(***************************************************************************)
EXTENDS Committer, FiniteSets, TLC

CONSTANTS h1, h2, h3, f, d1, d2

MCQuorum == {Q \in SUBSET Authority : 3 * Cardinality(Q) > 2 * Cardinality(Authority)}
MCLeader == 1 :> f @@ 4 :> h1

Block(r, v, d) == [round |-> r, author |-> v, digest |-> d]
All(r) == [i \in 1..3 |-> Block(r, <<h1, h2, h3>>[i], IF r = 0 THEN GenesisDigest ELSE d1)]
Missing(r, v) == Append(SelectSeq(All(r), LAMBDA b : b.author # v), Block(r, f, d1))
One == Block(1, f, d1)
Two == Block(1, f, d2)

Votes(v) ==
    CASE v = h1 -> {<< >>, <<One, Two>>, <<Two, One>>}
      [] v = h2 -> {<< >>, <<One>>}
      [] v = h3 -> {<< >>, <<Two>>}
      [] v = f -> {<<One>>, <<Two>>}

MCOffered(b) ==
    LET r == b.round - 1
    IN  CASE b.digest = GenesisDigest \/ (b.digest = d2 /\ b # Two) -> {}
          [] b.round = 2 -> {All(1) \o votes : votes \in Votes(b.author)}
          [] b.round = 3 /\ b.author = f -> {Missing(2, h3)}
          [] b.round = 3 -> {All(2), Missing(2, h3), Missing(2, h2)}
          [] b.round = 4 /\ b.author = h1 -> {All(3), Missing(3, h1), Missing(3, h3)}
          [] b.round > 3 /\ b.author = f -> {}
          [] OTHER -> {All(r)}
=============================================================================
