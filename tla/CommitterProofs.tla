---------------------------- MODULE CommitterProofs ----------------------------
(***************************************************************************)
(* Agreement of the commit rule, for any committee whose quorums meet in   *)
(* an honest authority, any leader schedule and any DAG.                   *)
(*                                                                         *)
(* Two certificates of one slot share an honest voter; a certificate and   *)
(* the blame of a quorum share one, too; and every block after the wave is *)
(* linked to a block of the round after the decision round, whose quorum   *)
(* of ancestors meets the certificates of a leader with enough support.    *)
(* Outcomes decided from anchors agree because the anchors do, which were  *)
(* decided before.                                                         *)
(***************************************************************************)
EXTENDS Committer, TLAPS

DagType ==
    /\ DOMAIN dag \subseteq Ref /\ DOMAIN history = DOMAIN dag
    /\ \A b \in DOMAIN dag : dag[b] \in Seq(Ref)

Linked ==
    \A b \in DOMAIN dag :
        /\ Ancestors(b) \subseteq history[b] /\ history[b] \subseteq DOMAIN dag
        /\ \A a \in Ancestors(b) : a.round < b.round
        /\ \A a \in history[b] : history[a] \subseteq history[b]

QuorumLinked ==
    \A b \in DOMAIN dag : b.round > 0 =>
        \E Q \in Quorum : \A v \in Q : \E a \in Ancestors(b) :
            a.author = v /\ a.round + 1 = b.round

OneEach ==
    \A a, b \in DOMAIN dag :
        a.author \in Honest /\ a.author = b.author /\ a.round = b.round => a = b

(* A block is linked to every round before its own. *)
Layers ==
    \A b \in DOMAIN dag, k \in Nat : 0 < k /\ k <= b.round =>
        \E a \in history[b] \cup {b} : a.round = k

DagInv == DagType /\ Linked /\ QuorumLinked /\ OneEach /\ Layers

(* Why an outcome was reached. *)
Direct(r, x) ==
    (x = Skip /\ enough_leader_blame(r)) \/ (x \in LeaderBlocks(r) /\ enough_leader_support(x))
FromAnchor(r, x) ==
    \E a \in Anchors(r) : (x = Skip /\ Certified(a, r) = {}) \/ x \in Certified(a, r)

Justified ==
    \A d \in decided :
        /\ d.round \in LeaderRounds /\ d = Outcome(d.round, d.block)
        /\ Direct(d.round, d.block) \/ FromAnchor(d.round, d.block)

CommitInv == DagInv /\ Justified /\ Agreement

-----------------------------------------------------------------------------
(* A block votes for one block of a slot, which it is linked to            *)
(* (find_supported_block).                                                 *)
LEMMA VoteOnce ==
    ASSUME DagInv, NEW p \in DOMAIN dag, NEW l, is_vote(p, l)
    PROVE  /\ l \in Ancestors(p) /\ IsLeader(l, l.round)
           /\ \A m : is_vote(p, m) /\ m.round = l.round => m = l
<1>1. PICK i \in DOMAIN dag[p] :
        /\ dag[p][i] = l /\ IsLeader(l, l.round)
        /\ \A j \in DOMAIN dag[p] : j < i => ~ IsLeader(dag[p][j], l.round)
  BY DEF is_vote, find_supported_block
<1>2. ASSUME NEW m, is_vote(p, m), m.round = l.round PROVE m = l
  <2>1. PICK k \in DOMAIN dag[p] :
        /\ dag[p][k] = m /\ IsLeader(m, l.round)
        /\ \A j \in DOMAIN dag[p] : j < k => ~ IsLeader(dag[p][j], l.round)
    BY <1>2 DEF is_vote, find_supported_block
  <2>2. i \in Nat /\ k \in Nat
    BY DEF DagInv, DagType
  <2>3. ~ (i < k) /\ ~ (k < i)
    BY <1>1, <2>1
  <2> QED BY <1>1, <2>1, <2>2, <2>3
<1> QED BY <1>1, <1>2 DEF Ancestors

(* A certificate has a quorum of votes in the voting round                 *)
(* (is_certificate).                                                       *)
LEMMA CertificateVotes ==
    ASSUME DagInv, NEW r \in LeaderRounds, NEW l \in LeaderBlocks(r),
           NEW c \in DOMAIN dag, Certifies(c, l)
    PROVE  \E Q \in Quorum : \A v \in Q : \E p \in DOMAIN dag :
                p.author = v /\ p.round = r + 1 /\ is_vote(p, l)
<1>1. l \in Ref /\ l.round = r /\ r \in Nat
  BY ScheduleAssumption DEF LeaderBlocks, IsLeader, DagInv, DagType, Ref
<1>2. PICK Q \in Quorum : Q \subseteq AuthorsOf({a \in Ancestors(c) : is_vote(a, l)})
  BY DEF Certifies, is_certificate, Reached
<1>3. ASSUME NEW v \in Q
      PROVE  \E p \in DOMAIN dag : p.author = v /\ p.round = r + 1 /\ is_vote(p, l)
  <2>1. PICK p \in Ancestors(c) : p.author = v /\ is_vote(p, l)
    BY <1>2, <1>3 DEF AuthorsOf
  <2>2. p \in DOMAIN dag /\ p.round < c.round
    BY <2>1 DEF DagInv, Linked
  <2>3. l.round < p.round
    BY <2>1, <2>2, VoteOnce DEF DagInv, Linked
  <2>4. p.round \in Nat /\ c.round = r + 2
    BY <1>1, <2>2 DEF Certifies, wave_length, DagInv, DagType, Ref
  <2>5. p.round = r + 1
    BY <1>1, <2>2, <2>3, <2>4
  <2> QED BY <2>1, <2>2, <2>5
<1> QED BY <1>2, <1>3

(* Two certified blocks of a slot are the same (the panics of              *)
(* try_direct_decide and decide_leader_from_anchor).                       *)
LEMMA OneCertified ==
    ASSUME DagInv, NEW r \in LeaderRounds, NEW l \in LeaderBlocks(r), NEW m \in LeaderBlocks(r),
           HasCertificate(l), HasCertificate(m)
    PROVE  l = m
<1>1. PICK Q \in Quorum : \A v \in Q : \E p \in DOMAIN dag :
            p.author = v /\ p.round = r + 1 /\ is_vote(p, l)
  BY CertificateVotes DEF HasCertificate
<1>2. PICK R \in Quorum : \A v \in R : \E p \in DOMAIN dag :
            p.author = v /\ p.round = r + 1 /\ is_vote(p, m)
  BY CertificateVotes DEF HasCertificate
<1>3. PICK v \in Honest : v \in Q /\ v \in R
  BY CommitteeAssumption
<1>4. PICK p \in DOMAIN dag : p.author = v /\ p.round = r + 1 /\ is_vote(p, l)
  BY <1>1, <1>3
<1>5. PICK q \in DOMAIN dag : q.author = v /\ q.round = r + 1 /\ is_vote(q, m)
  BY <1>2, <1>3
<1>6. p = q
  BY <1>3, <1>4, <1>5 DEF DagInv, OneEach
<1>7. l.round = m.round
  BY DEF LeaderBlocks, IsLeader
<1> QED BY <1>4, <1>5, <1>6, <1>7, VoteOnce

(* A quorum of blames leaves no certificate (enough_leader_blame). *)
LEMMA BlameExcludes ==
    ASSUME DagInv, NEW r \in LeaderRounds, enough_leader_blame(r), NEW l \in LeaderBlocks(r)
    PROVE  ~ HasCertificate(l)
<1> SUFFICES ASSUME HasCertificate(l) PROVE FALSE
  OBVIOUS
<1>1. PICK Q \in Quorum : \A v \in Q : \E p \in DOMAIN dag :
            p.author = v /\ p.round = r + 1 /\ is_vote(p, l)
  BY CertificateVotes DEF HasCertificate
<1>2. PICK R \in Quorum : \A v \in R : \E b \in DOMAIN dag :
            b.author = v /\ b.round = r + 1 /\ \A a \in Ancestors(b) : a.author # Leader[r]
  BY DEF enough_leader_blame, Reached, AuthorsOf
<1>3. PICK v \in Honest : v \in Q /\ v \in R
  BY CommitteeAssumption
<1>4. PICK p \in DOMAIN dag : p.author = v /\ p.round = r + 1 /\ is_vote(p, l)
  BY <1>1, <1>3
<1>5. PICK b \in DOMAIN dag : /\ b.author = v /\ b.round = r + 1
                              /\ \A a \in Ancestors(b) : a.author # Leader[r]
  BY <1>2, <1>3
<1>6. p = b
  BY <1>3, <1>4, <1>5 DEF DagInv, OneEach
<1>7. l \in Ancestors(p)
  BY <1>4, VoteOnce
<1> QED BY <1>5, <1>6, <1>7 DEF LeaderBlocks, IsLeader

(* Every block after the wave is linked to a certificate of a leader with  *)
(* enough support (enough_leader_support, ancestors_at_uncommitted_round). *)
LEMMA SupportIsSeen ==
    ASSUME DagInv, NEW r \in LeaderRounds, NEW l \in LeaderBlocks(r), enough_leader_support(l),
           NEW b \in DOMAIN dag, r + wave_length <= b.round
    PROVE  \E c \in history[b] : Certifies(c, l)
<1>1. l.round = r /\ r \in Nat /\ b.round \in Nat
  BY ScheduleAssumption DEF LeaderBlocks, IsLeader, DagInv, DagType, Ref
<1>2. PICK a \in history[b] \cup {b} : a.round = r + 3
  BY <1>1 DEF DagInv, Layers, wave_length
<1>3. a \in DOMAIN dag /\ Ancestors(a) \subseteq history[b]
  BY <1>2 DEF DagInv, Linked
<1>4. PICK Q \in Quorum : \A v \in Q : \E c \in Ancestors(a) : c.author = v /\ c.round + 1 = a.round
  BY <1>1, <1>2, <1>3 DEF DagInv, QuorumLinked
<1>5. PICK R \in Quorum : R \subseteq AuthorsOf({c \in DOMAIN dag : Certifies(c, l)})
  BY DEF enough_leader_support, Reached
<1>6. PICK v \in Honest : v \in Q /\ v \in R
  BY CommitteeAssumption
<1>7. PICK c \in Ancestors(a) : c.author = v /\ c.round + 1 = a.round
  BY <1>4, <1>6
<1>8. PICK d \in DOMAIN dag : d.author = v /\ Certifies(d, l)
  BY <1>5, <1>6 DEF AuthorsOf
<1>9. c \in DOMAIN dag /\ c.round \in Nat
  BY <1>3, <1>7 DEF DagInv, Linked, DagType, Ref
<1>10. c.round = d.round
  BY <1>1, <1>2, <1>7, <1>8, <1>9 DEF Certifies, wave_length
<1>11. c = d
  BY <1>6, <1>7, <1>8, <1>9, <1>10 DEF DagInv, OneEach
<1> QED BY <1>3, <1>7, <1>8, <1>11

-----------------------------------------------------------------------------
(* A quorum is not empty, so what a quorum supports is certified. *)
LEMMA SupportedIsCertified ==
    ASSUME NEW l, enough_leader_support(l)
    PROVE  HasCertificate(l)
<1>1. PICK Q \in Quorum : Q \subseteq AuthorsOf({c \in DOMAIN dag : Certifies(c, l)})
  BY DEF enough_leader_support, Reached
<1>2. PICK v \in Honest : v \in Q
  BY CommitteeAssumption
<1> QED BY <1>1, <1>2 DEF AuthorsOf, HasCertificate

(* Validators that have an anchor for a leader have the same               *)
(* (try_indirect_decide).                                                  *)
LEMMA OneAnchor ==
    ASSUME CommitInv, NEW r \in LeaderRounds, NEW a \in Anchors(r), NEW b \in Anchors(r)
    PROVE  a = b
<1>1. a \in Ref /\ b \in Ref /\ a.round \in Nat /\ b.round \in Nat
  BY DEF Anchors, CommitInv, DagInv, DagType, Ref
<1>2. /\ Outcome(a.round, a) \in decided /\ r + wave_length <= a.round
      /\ Outcome(b.round, b) \in decided /\ r + wave_length <= b.round
  BY DEF Anchors
<1>3. a.round \in LeaderRounds /\ b.round \in LeaderRounds
  BY <1>2 DEF CommitInv, Justified, Outcome
<1>4. \A x, y : Outcome(a.round, x) \in decided /\ Outcome(a.round, y) \in decided => x = y
  BY DEF CommitInv, Agreement, Outcome
<1>5. \A x, y : Outcome(b.round, x) \in decided /\ Outcome(b.round, y) \in decided => x = y
  BY DEF CommitInv, Agreement, Outcome
<1>6. CASE a.round < b.round
  <2>1. Outcome(a.round, Skip) \in decided
    BY <1>2, <1>3, <1>6 DEF Anchors
  <2> QED BY <1>1, <1>2, <1>4, <2>1, ScheduleAssumption
<1>7. CASE b.round < a.round
  <2>1. Outcome(b.round, Skip) \in decided
    BY <1>2, <1>3, <1>7 DEF Anchors
  <2> QED BY <1>1, <1>2, <1>5, <2>1, ScheduleAssumption
<1>8. CASE a.round = b.round
  BY <1>2, <1>4, <1>8
<1> QED BY <1>1, <1>6, <1>7, <1>8

(* What an anchor certifies is a leader block with a certificate. *)
LEMMA CertifiedBlocks ==
    ASSUME CommitInv, NEW r \in LeaderRounds, NEW a \in Anchors(r), NEW x \in Certified(a, r)
    PROVE  x \in LeaderBlocks(r) /\ HasCertificate(x)
BY DEF Certified, Anchors, HasCertificate, CommitInv, DagInv, Linked

(* However two validators decide a slot, they decide the same: directly,   *)
(* from an anchor, or one of each kind.                                    *)
LEMMA OneOutcome ==
    ASSUME CommitInv, NEW r \in LeaderRounds, NEW x, NEW y,
           Direct(r, x) \/ FromAnchor(r, x), Direct(r, y) \/ FromAnchor(r, y)
    PROVE  x = y
<1>0. DagInv
  BY DEF CommitInv
<1>1. ASSUME NEW u, NEW w, Direct(r, u), Direct(r, w) PROVE u = w
  BY <1>0, <1>1, BlameExcludes, SupportedIsCertified, OneCertified DEF Direct
<1>2. ASSUME NEW u, NEW w, Direct(r, u), FromAnchor(r, w) PROVE u = w
  <2>1. PICK a \in Anchors(r) : (w = Skip /\ Certified(a, r) = {}) \/ w \in Certified(a, r)
    BY <1>2 DEF FromAnchor
  <2>2. CASE u = Skip /\ enough_leader_blame(r)
    BY <1>0, <2>1, <2>2, CertifiedBlocks, BlameExcludes
  <2>3. CASE u \in LeaderBlocks(r) /\ enough_leader_support(u)
    <3>1. a \in DOMAIN dag /\ r + wave_length <= a.round
      BY DEF Anchors
    <3>2. u \in Certified(a, r)
      BY <1>0, <2>3, <3>1, SupportIsSeen DEF Certified
    <3>3. w \in LeaderBlocks(r) /\ HasCertificate(w)
      BY <2>1, <3>2, CertifiedBlocks
    <3> QED BY <1>0, <2>3, <3>3, SupportedIsCertified, OneCertified
  <2> QED BY <1>2, <2>2, <2>3 DEF Direct
<1>3. ASSUME NEW u, NEW w, FromAnchor(r, u), FromAnchor(r, w) PROVE u = w
  <2>1. PICK a \in Anchors(r) : (u = Skip /\ Certified(a, r) = {}) \/ u \in Certified(a, r)
    BY <1>3 DEF FromAnchor
  <2>2. PICK b \in Anchors(r) : (w = Skip /\ Certified(b, r) = {}) \/ w \in Certified(b, r)
    BY <1>3 DEF FromAnchor
  <2>3. a = b
    BY OneAnchor
  <2> QED BY <1>0, <2>1, <2>2, <2>3, CertifiedBlocks, OneCertified
<1> QED BY <1>1, <1>2, <1>3

-----------------------------------------------------------------------------
(* More outcomes on the same DAG leave the reasons of those before. *)
LEMMA ReasonsLast ==
    ASSUME dag' = dag, history' = history, decided \subseteq decided'
    PROVE  /\ DagInv => DagInv'
           /\ \A r, x : Direct(r, x) \/ FromAnchor(r, x) => Direct(r, x)' \/ FromAnchor(r, x)'
<1>1. DagInv => DagInv'
  BY DEF DagInv, DagType, Linked, QuorumLinked, OneEach, Layers, Ancestors
<1>2. \A r, x : Direct(r, x) => Direct(r, x)'
  BY DEF Direct, enough_leader_blame, LeaderBlocks, enough_leader_support, Certifies,
         is_certificate, is_vote, find_supported_block, Ancestors
<1>3. \A r, a : Certified(a, r)' = Certified(a, r)
  BY DEF Certified, LeaderBlocks, Certifies, is_certificate, is_vote, find_supported_block, Ancestors
<1>4. \A r : Anchors(r) \subseteq Anchors(r)'
  BY DEF Anchors
<1>5. \A r, x : FromAnchor(r, x) => FromAnchor(r, x)'
  BY <1>3, <1>4 DEF FromAnchor
<1> QED BY <1>1, <1>2, <1>5

(* A decision keeps the invariant: it agrees with those before, and takes  *)
(* nothing from what they rest on (try_direct_decide,                      *)
(* try_indirect_decide).                                                   *)
LEMMA DecideStep ==
    ASSUME CommitInv, NEW r \in LeaderRounds, NEW x, Direct(r, x) \/ FromAnchor(r, x),
           Conclude(r, x)
    PROVE  CommitInv'
<1>1. decided' = decided \cup {Outcome(r, x)} /\ dag' = dag /\ history' = history
  BY DEF Conclude
<1>2. DagInv'
  BY <1>1, ReasonsLast DEF CommitInv
<1>3. \A k, w : Direct(k, w) \/ FromAnchor(k, w) => Direct(k, w)' \/ FromAnchor(k, w)'
  BY <1>1, ReasonsLast
<1>4. ASSUME NEW d \in decided'
      PROVE  /\ d.round \in LeaderRounds /\ d = Outcome(d.round, d.block)
             /\ Direct(d.round, d.block) \/ FromAnchor(d.round, d.block)
  <2>1. CASE d \in decided
    BY <2>1 DEF CommitInv, Justified
  <2>2. CASE d = Outcome(r, x)
    <3>1. d.round = r /\ d.block = x
      BY <2>2 DEF Outcome
    <3> QED BY <2>2, <3>1
  <2> QED BY <1>1, <2>1, <2>2
<1>5. Justified'
  BY <1>3, <1>4 DEF Justified, Outcome
<1>6. Agreement'
  <2> SUFFICES ASSUME NEW c \in decided', NEW d \in decided', c.round = d.round PROVE c = d
    BY DEF Agreement
  <2>1. c.block = d.block
    BY <1>4, OneOutcome
  <2> QED BY <1>4, <2>1
<1> QED BY <1>2, <1>5, <1>6 DEF CommitInv

-----------------------------------------------------------------------------
(* accept_block adds a block and leaves the others, and what they are      *)
(* linked to and vote for, as they were.                                   *)
LEMMA AcceptFrame ==
    ASSUME DagInv, NEW b \in Ref, NEW ancestors, accept_block(b, ancestors)
    PROVE  /\ DOMAIN dag' = DOMAIN dag \cup {b} /\ DOMAIN history' = DOMAIN dag \cup {b}
           /\ b \notin DOMAIN dag /\ decided' = decided
           /\ \A a \in DOMAIN dag :
                /\ dag'[a] = dag[a] /\ history'[a] = history[a] /\ Ancestors(a)' = Ancestors(a)
                /\ \A l : is_vote(a, l)' <=> is_vote(a, l)
<1>1. /\ DOMAIN dag' = DOMAIN dag \cup {b} /\ DOMAIN history' = DOMAIN dag \cup {b}
      /\ b \notin DOMAIN dag /\ decided' = decided
      /\ \A a \in DOMAIN dag : dag'[a] = dag[a] /\ history'[a] = history[a]
  BY DEF accept_block
<1>2. \A a \in DOMAIN dag : Ancestors(a)' = Ancestors(a)
  BY <1>1 DEF Ancestors
<1>3. ASSUME NEW a \in DOMAIN dag, NEW l PROVE is_vote(a, l)' <=> is_vote(a, l)
  BY <1>1 DEF is_vote, find_supported_block
<1> QED BY <1>1, <1>2, <1>3

(* The new block is linked as a block must be (accept_block). *)
LEMMA AcceptKeepsDag ==
    ASSUME DagInv, NEW b \in Ref, b.round > 0, NEW ancestors, accept_block(b, ancestors)
    PROVE  DagInv'
<1> DEFINE named == {ancestors[i] : i \in DOMAIN ancestors}
<1>F. /\ DOMAIN dag' = DOMAIN dag \cup {b} /\ DOMAIN history' = DOMAIN dag \cup {b}
      /\ b \notin DOMAIN dag
      /\ \A a \in DOMAIN dag :
            dag'[a] = dag[a] /\ history'[a] = history[a] /\ Ancestors(a)' = Ancestors(a)
  BY AcceptFrame
<1>0. b.round \in Nat /\ \A a \in DOMAIN dag : a.round \in Nat
  BY DEF DagInv, DagType, Ref
<1>1. /\ dag'[b] = ancestors /\ ancestors \in Seq(DOMAIN dag) /\ Ancestors(b)' = named
      /\ \A a \in named : a.round < b.round
      /\ Reached(AuthorsOf({a \in named : a.round + 1 = b.round}))
      /\ history'[b] = named \cup UNION {history[n] : n \in named}
  BY DEF accept_block, Ancestors
<1>2. named \subseteq DOMAIN dag
  BY <1>1
<1> HIDE DEF named
<1>3. DagType'
  <2>1. dag'[b] \in Seq(Ref)
    BY <1>1 DEF DagInv, DagType
  <2> QED BY <2>1, <1>F DEF DagInv, DagType
<1>4. Linked'
  <2> SUFFICES ASSUME NEW x \in DOMAIN dag'
               PROVE  /\ Ancestors(x)' \subseteq history'[x] /\ history'[x] \subseteq DOMAIN dag'
                      /\ \A a \in Ancestors(x)' : a.round < x.round
                      /\ \A a \in history'[x] : history'[a] \subseteq history'[x]
    BY DEF Linked
  <2>1. CASE x \in DOMAIN dag
    BY <2>1, <1>F DEF DagInv, Linked
  <2>2. CASE x = b
    <3>1. history'[b] \subseteq DOMAIN dag
      BY <1>1, <1>2 DEF DagInv, Linked
    <3>2. ASSUME NEW a \in history'[b] PROVE history[a] \subseteq history'[b]
      BY <1>1, <1>2, <3>2 DEF DagInv, Linked
    <3>3. \A a \in history'[b] : history'[a] \subseteq history'[b]
      BY <1>F, <3>1, <3>2
    <3> QED BY <1>1, <1>F, <2>2, <3>1, <3>3
  <2> QED BY <2>1, <2>2, <1>F
<1>5. PICK Q \in Quorum : \A v \in Q : \E a \in named : a.author = v /\ a.round + 1 = b.round
  BY <1>1 DEF Reached, AuthorsOf
<1>6. QuorumLinked'
  <2> SUFFICES ASSUME NEW x \in DOMAIN dag', x.round > 0
               PROVE  \E R \in Quorum : \A v \in R : \E a \in Ancestors(x)' :
                        a.author = v /\ a.round + 1 = x.round
    BY DEF QuorumLinked
  <2>1. CASE x \in DOMAIN dag
    BY <2>1, <1>F DEF DagInv, QuorumLinked
  <2>2. CASE x = b
    BY <1>1, <1>5, <2>2
  <2> QED BY <2>1, <2>2, <1>F
<1>7. OneEach'
  BY <1>F DEF DagInv, OneEach, accept_block
<1>8. Layers'
  <2> SUFFICES ASSUME NEW x \in DOMAIN dag', NEW k \in Nat, 0 < k, k <= x.round
               PROVE  \E a \in history'[x] \cup {x} : a.round = k
    BY DEF Layers
  <2>1. CASE x \in DOMAIN dag
    BY <2>1, <1>F DEF DagInv, Layers
  <2>2. CASE x = b /\ k = b.round
    BY <2>2
  <2>3. CASE x = b /\ k < b.round
    <3>1. PICK v \in Honest : v \in Q
      BY CommitteeAssumption
    <3>2. PICK a \in named : a.round + 1 = b.round
      BY <1>5, <3>1
    <3>3. a \in DOMAIN dag /\ k <= a.round
      BY <1>0, <1>2, <2>3, <3>2
    <3>4. PICK c \in history[a] \cup {a} : c.round = k
      BY <3>3 DEF DagInv, Layers
    <3> QED BY <1>1, <2>3, <3>2, <3>4
  <2> QED BY <1>0, <2>1, <2>2, <2>3, <1>F
<1> QED BY <1>3, <1>4, <1>6, <1>7, <1>8 DEF DagInv

(* Outcomes do not depend on when they are decided: a block that comes     *)
(* later takes no blame, support or certificate away, and no certificate   *)
(* in the past of an anchor is for it (accept_block).                      *)
LEMMA AcceptStep ==
    ASSUME CommitInv, NEW b \in Ref, b.round > 0, NEW ancestors, accept_block(b, ancestors)
    PROVE  CommitInv'
<1>0. DagInv /\ DagInv'
  BY AcceptKeepsDag DEF CommitInv
<1>1. ASSUME NEW c \in DOMAIN dag, NEW l PROVE Certifies(c, l)' <=> Certifies(c, l)
  <2>1. Ancestors(c) \subseteq DOMAIN dag
    BY <1>0 DEF DagInv, Linked
  <2>2. {a \in Ancestors(c)' : is_vote(a, l)'} = {a \in Ancestors(c) : is_vote(a, l)}
    BY <1>0, <2>1, AcceptFrame, Zenon
  <2> QED BY <2>2 DEF Certifies, is_certificate
<1>2. ASSUME NEW c \in DOMAIN dag, NEW l, Certifies(c, l) PROVE l \in DOMAIN dag
  <2>1. PICK Q \in Quorum : Q \subseteq AuthorsOf({a \in Ancestors(c) : is_vote(a, l)})
    BY <1>2 DEF Certifies, is_certificate, Reached
  <2>2. PICK v \in Honest : v \in Q
    BY CommitteeAssumption
  <2>3. PICK p \in Ancestors(c) : is_vote(p, l)
    BY <2>1, <2>2 DEF AuthorsOf
  <2>4. p \in DOMAIN dag
    BY <1>0 DEF DagInv, Linked
  <2> QED BY <1>0, <2>3, <2>4, VoteOnce DEF DagInv, Linked
<1>3. \A r : LeaderBlocks(r) \subseteq LeaderBlocks(r)' /\ LeaderBlocks(r)' \cap DOMAIN dag = LeaderBlocks(r)
  BY <1>0, AcceptFrame, Zenon DEF LeaderBlocks
<1>4. ASSUME NEW r, NEW x, Direct(r, x) PROVE Direct(r, x)'
  <2>1. CASE x = Skip /\ enough_leader_blame(r)
    <3>1. {a \in DOMAIN dag : a.round = r + 1 /\ \A n \in Ancestors(a) : n.author # Leader[r]}
          \subseteq {a \in DOMAIN dag' : a.round = r + 1 /\ \A n \in Ancestors(a)' : n.author # Leader[r]}
      BY <1>0, AcceptFrame, Zenon
    <3> QED BY <2>1, <3>1 DEF Direct, enough_leader_blame, Reached, AuthorsOf
  <2>2. CASE x \in LeaderBlocks(r) /\ enough_leader_support(x)
    <3>1. {c \in DOMAIN dag : Certifies(c, x)} \subseteq {c \in DOMAIN dag' : Certifies(c, x)'}
      BY <1>0, <1>1, AcceptFrame, Zenon
    <3> QED BY <1>3, <2>2, <3>1 DEF Direct, enough_leader_support, Reached, AuthorsOf
  <2> QED BY <1>4, <2>1, <2>2 DEF Direct
<1>5. ASSUME NEW r, NEW a \in DOMAIN dag PROVE Certified(a, r)' = Certified(a, r)
  <2>1. history[a] \subseteq DOMAIN dag /\ history'[a] = history[a]
    BY <1>0, AcceptFrame, Zenon DEF DagInv, Linked
  <2> QED BY <1>1, <1>2, <1>3, <2>1 DEF Certified
<1>6. \A r : Anchors(r) \subseteq Anchors(r)' /\ Anchors(r) \subseteq DOMAIN dag
  BY <1>0, AcceptFrame, Zenon DEF Anchors
<1>7. \A r, x : FromAnchor(r, x) => FromAnchor(r, x)'
  BY <1>5, <1>6 DEF FromAnchor
<1>8. decided' = decided
  BY <1>0, AcceptFrame, Zenon
<1>9. Justified'
  BY <1>4, <1>7, <1>8 DEF CommitInv, Justified, Outcome
<1> QED BY <1>0, <1>8, <1>9 DEF CommitInv, Agreement

-----------------------------------------------------------------------------
(* The genesis blocks are linked to nothing, and nothing is decided. *)
LEMMA CommitInit == Init => CommitInv
<1> SUFFICES ASSUME Init PROVE CommitInv
  OBVIOUS
<1>1. /\ DOMAIN dag = Genesis /\ DOMAIN history = Genesis /\ decided = {}
      /\ \A g \in Genesis : dag[g] = << >> /\ history[g] = {}
  BY DEF Init
<1>2. \A g \in Genesis : g \in Ref /\ g.round = 0 /\ g.digest = GenesisDigest
  BY ScheduleAssumption DEF Genesis, Ref
<1>3. \A g \in Genesis : Ancestors(g) = {}
  BY <1>1 DEF Ancestors
<1>4. DagType
  <2>1. << >> \in Seq(Ref)
    OBVIOUS
  <2>2. \A g \in Genesis : dag[g] \in Seq(Ref)
    BY <1>1, <2>1, Zenon
  <2> QED BY <1>1, <1>2, <2>2 DEF DagType
<1>5. Linked
  BY <1>1, <1>3 DEF Linked
<1>6. QuorumLinked /\ Layers
  BY <1>1, <1>2 DEF QuorumLinked, Layers
<1>7. OneEach
  BY <1>1 DEF OneEach, Genesis
<1> QED BY <1>1, <1>4, <1>5, <1>6, <1>7 DEF CommitInv, DagInv, Justified, Agreement

(* The invariant holds throughout: blocks are linked, honest authorities   *)
(* do not equivocate, and every outcome has a reason that lasts.           *)
THEOREM CommitInvariant == Spec => []CommitInv
<1>1. ASSUME CommitInv, [Next]_vars PROVE CommitInv'
  <2>1. CASE \E b \in [round : 1..MaxRound, author : Authority, digest : Digest] :
                \E ancestors \in Offered(b) : accept_block(b, ancestors)
    <3>1. PICK b \in [round : 1..MaxRound, author : Authority, digest : Digest] :
                \E ancestors \in Offered(b) : accept_block(b, ancestors)
      BY <2>1
    <3>2. b \in Ref /\ b.round > 0
      BY ScheduleAssumption DEF Ref
    <3> QED BY <1>1, <3>1, <3>2, AcceptStep
  <2>2. CASE \E r \in LeaderRounds : try_direct_decide(r) \/ try_indirect_decide(r)
    <3>1. PICK r \in LeaderRounds : try_direct_decide(r) \/ try_indirect_decide(r)
      BY <2>2
    <3>2. \E x : (Direct(r, x) \/ FromAnchor(r, x)) /\ Conclude(r, x)
      BY <3>1 DEF try_direct_decide, try_indirect_decide, decide_leader_from_anchor, Direct, FromAnchor
    <3> QED BY <1>1, <3>2, DecideStep
  <2>3. CASE UNCHANGED vars
    <3>1. dag' = dag /\ history' = history /\ decided' = decided
      BY <2>3 DEF vars
    <3>2. DagInv' /\ Justified'
      BY <1>1, <3>1, ReasonsLast DEF CommitInv, Justified, Outcome
    <3> QED BY <1>1, <3>1, <3>2 DEF CommitInv, Agreement
  <2> QED BY <1>1, <2>1, <2>2, <2>3 DEF Next
<1> QED BY <1>1, CommitInit, PTL DEF Spec

(* All validators decide the same for a leader, for every committee, every *)
(* schedule and every DAG (try_commit).                                    *)
THEOREM ValidatorsAgree == Spec => []Agreement
<1>1. CommitInv => Agreement
  BY DEF CommitInv
<1> QED BY <1>1, CommitInvariant, PTL

(* At most one block of a slot is ever certified: try_direct_decide and    *)
(* decide_leader_from_anchor do not panic.                                 *)
THEOREM OneCertifiedLeader == Spec => []CertifiedOnce
<1>1. CommitInv => CertifiedOnce
  BY OneCertified DEF CommitInv, CertifiedOnce
<1> QED BY <1>1, CommitInvariant, PTL
=============================================================================
