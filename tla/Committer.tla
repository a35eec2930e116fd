------------------------------- MODULE Committer -------------------------------
(***************************************************************************)
(* The commit rule of consensus/core: which leader blocks of a DAG of      *)
(* blocks are committed, and which leader slots are skipped.  One leader   *)
(* per leader round, and the default wave: a leader at round r is voted    *)
(* for at r + 1 and certified at r + 2.                                    *)
(*                                                                         *)
(* dag holds the blocks that any honest validator has accepted.  Each      *)
(* validator decides on a part of it that is closed under ancestors; what  *)
(* it sees there to decide on is in dag, too.  try_commit walks the leader *)
(* rounds downwards and decides one after the other; decided holds all     *)
(* conclusions that any validator has reached.                             *)
(***************************************************************************)
EXTENDS Naturals, Sequences

CONSTANTS
    Authority, Faulty,
    Quorum,         \* sets of authorities with the stake of a quorum
    Digest,         \* tells the blocks of one slot apart
    GenesisDigest,
    Leader,         \* the leader of each leader round
    Skip,           \* the outcome of a slot that commits no block
    MaxRound,       \* bound on the rounds
    Offered(_)      \* bound on what the block of a reference may name

Honest == Authority \ Faulty
LeaderRounds == DOMAIN Leader
Ref == [round : Nat, author : Authority, digest : Digest]
wave_length == 3

ASSUME CommitteeAssumption ==
    \A Q, R \in Quorum : \E v \in Honest : v \in Q /\ v \in R

ASSUME ScheduleAssumption ==
    /\ LeaderRounds \subseteq Nat \ {0} /\ \A r \in LeaderRounds : Leader[r] \in Authority
    /\ GenesisDigest \in Digest /\ Skip \notin Ref /\ MaxRound \in Nat

VARIABLES
    dag,            \* accepted blocks: the ancestors of each reference
    history,        \* of each reference, all it is linked to
    decided         \* outcomes: [round, block], the block may be Skip

vars == <<dag, history, decided>>

AuthorsOf(blocks) == {b.author : b \in blocks}
Reached(authors) == \E Q \in Quorum : Q \subseteq authors

Genesis == [round : {0}, author : Authority, digest : {GenesisDigest}]

Init ==
    /\ dag = [g \in Genesis |-> << >>]
    /\ history = [g \in Genesis |-> {}]
    /\ decided = {}

-----------------------------------------------------------------------------
(* A block names accepted blocks of earlier rounds, among them those of a  *)
(* quorum in the round before.  An honest validator has one block a round. *)
accept_block(b, ancestors) ==
    LET named == {ancestors[i] : i \in DOMAIN ancestors}
    IN
    /\ b \notin DOMAIN dag
    /\ ancestors \in Seq(DOMAIN dag) /\ \A a \in named : a.round < b.round
    /\ Reached(AuthorsOf({a \in named : a.round + 1 = b.round}))
    /\ b.author \in Honest =>
            \A a \in DOMAIN dag : ~ (a.round = b.round /\ a.author = b.author)
    /\ dag' = [a \in DOMAIN dag \cup {b} |-> IF a = b THEN ancestors ELSE dag[a]]
    /\ history' = [a \in DOMAIN dag \cup {b} |->
            IF a = b
            THEN named \cup UNION {history[n] : n \in named}
            ELSE history[a]]
    /\ UNCHANGED decided

-----------------------------------------------------------------------------
Ancestors(b) == {dag[b][i] : i \in DOMAIN dag[b]}
IsLeader(a, r) == a.round = r /\ a.author = Leader[r]
LeaderBlocks(r) == {l \in DOMAIN dag : IsLeader(l, r)}

(* The first ancestor at the slot of the leader, if there is one.  Between *)
(* a leader and the blocks of the voting round there are only direct links.*)
find_supported_block(r, from) ==
    {dag[from][i] : i \in {i \in DOMAIN dag[from] :
        /\ IsLeader(dag[from][i], r)
        /\ \A j \in DOMAIN dag[from] : j < i => ~ IsLeader(dag[from][j], r)}}

is_vote(potential_vote, leader_block) ==
    leader_block \in find_supported_block(leader_block.round, potential_vote)

(* Fault: the votes of one authority are enough. *)
CertifiedByOne(c, leader_block) ==
    \E a \in Ancestors(c) : is_vote(a, leader_block)

is_certificate(c, leader_block) ==
    Reached(AuthorsOf({a \in Ancestors(c) : is_vote(a, leader_block)}))

enough_leader_blame(r) ==
    Reached(AuthorsOf({b \in DOMAIN dag :
        b.round = r + 1 /\ \A a \in Ancestors(b) : a.author # Leader[r]}))

Certifies(c, leader_block) ==
    c.round = leader_block.round + wave_length - 1 /\ is_certificate(c, leader_block)

HasCertificate(leader_block) == \E c \in DOMAIN dag : Certifies(c, leader_block)

(* Fault: one certificate is enough. *)
SupportByOne(leader_block) == HasCertificate(leader_block)

enough_leader_support(leader_block) ==
    Reached(AuthorsOf({c \in DOMAIN dag : Certifies(c, leader_block)}))

-----------------------------------------------------------------------------
Outcome(r, block) == [round |-> r, block |-> block]
Conclude(r, block) ==
    /\ decided' = decided \cup {Outcome(r, block)}
    /\ UNCHANGED <<dag, history>>

(* Whoever sees the blame skips; in a part of the DAG without it the       *)
(* support decides.                                                        *)
try_direct_decide(r) ==
    \/ enough_leader_blame(r) /\ Conclude(r, Skip)
    \/ \E l \in LeaderBlocks(r) : enough_leader_support(l) /\ Conclude(r, l)

(* The leader blocks with a certificate that the anchor is linked to. *)
Certified(anchor, r) ==
    {l \in LeaderBlocks(r) : \E c \in history[anchor] : Certifies(c, l)}

decide_leader_from_anchor(anchor, r) ==
    \/ Certified(anchor, r) = {} /\ Conclude(r, Skip)
    \/ \E l \in Certified(anchor, r) : Conclude(r, l)

(* The first leader after the wave that is committed, all between skipped. *)
Anchors(r) ==
    {a \in DOMAIN dag :
        /\ r + wave_length <= a.round /\ Outcome(a.round, a) \in decided
        /\ \A k \in LeaderRounds : r + wave_length <= k /\ k < a.round =>
                Outcome(k, Skip) \in decided}

try_indirect_decide(r) ==
    \E anchor \in Anchors(r) : decide_leader_from_anchor(anchor, r)

Next ==
    \/ \E b \in [round : 1..MaxRound, author : Authority, digest : Digest] :
            \E ancestors \in Offered(b) : accept_block(b, ancestors)
    \/ \E r \in LeaderRounds : try_direct_decide(r) \/ try_indirect_decide(r)

Spec == Init /\ [][Next]_vars

-----------------------------------------------------------------------------
(* All validators reach the same outcome for a leader, whatever part of    *)
(* the DAG they see when they decide, directly or from an anchor, also if  *)
(* the leader makes two blocks (try_commit).                               *)
Agreement == \A c, d \in decided : c.round = d.round => c = d

(* "There can be at most one certified leader, otherwise it means the BFT  *)
(* assumption is broken" (base_committer.rs:305): at most one block of a   *)
(* slot has a certificate anywhere in the DAG, and try_direct_decide and   *)
(* decide_leader_from_anchor do not panic.                                 *)
CertifiedOnce ==
    \A r \in LeaderRounds : \A l, m \in LeaderBlocks(r) :
        HasCertificate(l) /\ HasCertificate(m) => l = m
=============================================================================
