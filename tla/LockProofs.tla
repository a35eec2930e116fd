------------------------------ MODULE LockProofs ------------------------------
(***************************************************************************)
(* Proofs about ObjectLocks, for any committee whose quorums meet in an    *)
(* honest validator, any transactions and any number of epochs.            *)
(*                                                                         *)
(* The inductive invariant has three parts.  What one validator holds: its *)
(* rows are exactly the references that its executed transactions leave    *)
(* unspent.  What a signature binds: until the epoch is over, the signer   *)
(* holds the lock, or has executed the one transaction that consumed the   *)
(* reference.  What closing an epoch fixes: a quorum had nothing pending,  *)
(* so that all it has signed or executed in that epoch rests on            *)
(* checkpoints.                                                            *)
(***************************************************************************)
EXTENDS ObjectLocks, TLAPS

Ins(txs) == UNION {In[t] : t \in txs}
Backed(refs, txs) == refs \subseteq Genesis \cup Outs(txs)

LocksType ==
    /\ epoch \in [Honest -> Nat] /\ closed \in Nat /\ halted \in [Honest -> BOOLEAN]
    /\ rows \in [Honest -> SUBSET Ref] /\ objects \in [Honest -> SUBSET Ref]
    /\ locked \in [Honest -> SUBSET (Ref \X Nat \X Tx)]
    /\ executed \in [Honest -> SUBSET Tx]
    /\ signatures \subseteq Honest \X Nat \X Tx
    /\ certificates \subseteq Nat \X Tx /\ final \subseteq certificates

(* Nobody is ahead of the open epoch, and no signature ahead of its signer. *)
Clock ==
    /\ \A v \in Honest : epoch[v] <= closed
    /\ \A v \in Honest, e \in Nat, t \in Tx :
            <<v, e, t>> \in signatures => e <= epoch[v]

CertSigned ==
    \A e \in Nat, t \in Tx : <<e, t>> \in certificates =>
        \E Q \in Quorum : \A v \in Q \ Faulty : <<v, e, t>> \in signatures

(* What a sequenced transaction depends on is sequenced. *)
FinalBacked ==
    \A e \in Nat, t \in Tx : <<e, t>> \in final =>
        e <= closed /\ Backed(In[t], FinalBefore(e + 1))

(* The rows, versions and executed transactions of one validator. *)
RowsExact ==
    \A v \in Honest : rows[v] = (Genesis \cup Outs(executed[v])) \ Ins(executed[v])

ObjectsKept == \A v \in Honest : Genesis \cup Outs(executed[v]) \subseteq objects[v]

ExecutedBacked == \A v \in Honest : \A t \in executed[v] : Backed(In[t], executed[v])

ExecutedApart ==
    \A v \in Honest : \A t, u \in executed[v] : t # u => In[t] \cap In[u] = {}

ExecutedCertified ==
    \A v \in Honest : \A t \in executed[v] :
        t \in FinalBefore(epoch[v]) \/ <<epoch[v], t>> \in certificates

FinalExecuted == \A v \in Honest : FinalBefore(epoch[v]) \subseteq executed[v]

(* Locks and signatures of the open epoch. *)
LocksOnRows == \A v \in Honest : \A l \in locked[v] : l[1] \in rows[v]

SignedBacked ==
    \A v \in Honest, t \in Tx :
        <<v, closed, t>> \in signatures => Backed(In[t], executed[v])

SignedHeld ==
    \A v \in Honest, t \in Tx : \A r \in In[t] :
        <<v, closed, t>> \in signatures =>
            \/ <<r, closed, t>> \in locked[v]
            \/ \E u \in executed[v] : r \in In[u] /\ u \notin FinalBefore(closed)

SignedOnce ==
    \A v \in Honest, t, u \in Tx :
        /\ <<v, closed, t>> \in signatures /\ <<v, closed, u>> \in signatures
        /\ Conflict(t, u)
        => t = u

(* A quorum closed each epoch with nothing pending. *)
ClosedBy(e, v) ==
    /\ \/ epoch[v] > e
       \/ epoch[v] = e /\ halted[v] /\ executed[v] \subseteq FinalBefore(e + 1)
    /\ \A t \in Tx : <<v, e, t>> \in signatures => Backed(In[t], FinalBefore(e + 1))

EpochsClosed ==
    \A e \in Nat : e < closed =>
        \E Q \in Quorum : \A v \in Honest : v \in Q => ClosedBy(e, v)

LocalInv ==
    /\ RowsExact /\ ObjectsKept /\ ExecutedBacked /\ ExecutedApart
    /\ ExecutedCertified /\ FinalExecuted /\ LocksOnRows
SignedInv == SignedBacked /\ SignedHeld /\ SignedOnce
LocksInv ==
    /\ LocksType /\ Clock /\ CertSigned /\ FinalBacked
    /\ LocalInv /\ SignedInv /\ EpochsClosed /\ SpendsOnce
-----------------------------------------------------------------------------
(* FinalBefore(e) holds the transactions sequenced in the epochs before e. *)
LEMMA FinalMember ==
    ASSUME LocksType, NEW e \in Nat, NEW t \in Tx
    PROVE  t \in FinalBefore(e) <=> \E d \in Nat : d < e /\ <<d, t>> \in final
<1>1. ASSUME t \in FinalBefore(e)
      PROVE  \E d \in Nat : d < e /\ <<d, t>> \in final
  <2>1. PICK c \in final : c[1] < e /\ c[2] = t
    BY <1>1, Zenon DEF FinalBefore
  <2>2. c \in Nat \X Tx
    BY <2>1, Zenon DEF LocksType
  <2>3. c = <<c[1], t>> /\ c[1] \in Nat
    BY <2>1, <2>2
  <2> QED BY <2>1, <2>3, Zenon
<1>2. ASSUME NEW d \in Nat, d < e, <<d, t>> \in final
      PROVE  t \in FinalBefore(e)
  <2>1. <<d, t>>[1] < e /\ <<d, t>>[2] = t
    BY <1>2, Zenon
  <2> QED BY <1>2, <2>1, Zenon DEF FinalBefore
<1> QED BY <1>1, <1>2, Zenon

(* A reference has one creator: whoever is not in txs creates nothing that *)
(* is backed by txs (the digest of a reference fixes its transaction).     *)
LEMMA OneCreator ==
    ASSUME NEW txs, txs \subseteq Tx, NEW t \in Tx, t \notin txs,
           NEW refs, Backed(refs, txs)
    PROVE  Out[t] \cap refs = {}
BY ReferenceAssumption DEF Backed, Outs

(* A certificate is of an epoch that has begun; one of a closed epoch      *)
(* consumes what is in the checkpoints up to that epoch: its quorum and    *)
(* the one that closed the epoch meet in an honest signer.                 *)
LEMMA CertBacked ==
    ASSUME LocksInv, NEW e \in Nat, NEW t \in Tx, <<e, t>> \in certificates
    PROVE  e <= closed /\ (e < closed => Backed(In[t], FinalBefore(e + 1)))
<1>1. PICK Q \in Quorum : \A v \in Q \ Faulty : <<v, e, t>> \in signatures
  BY Zenon DEF LocksInv, CertSigned
<1>2. e <= closed
  <2>1. PICK v \in Honest : v \in Q
    BY CommitteeAssumption, Zenon
  <2>2. <<v, e, t>> \in signatures
    BY <1>1, <2>1, Zenon DEF Honest
  <2> QED BY <2>2 DEF LocksInv, Clock, LocksType
<1>3. ASSUME e < closed PROVE Backed(In[t], FinalBefore(e + 1))
  <2>1. PICK R \in Quorum : \A v \in Honest : v \in R => ClosedBy(e, v)
    BY <1>3, Zenon DEF LocksInv, EpochsClosed
  <2>2. PICK v \in Honest : v \in Q /\ v \in R
    BY CommitteeAssumption, Zenon
  <2>3. <<v, e, t>> \in signatures
    BY <1>1, <2>2, Zenon DEF Honest
  <2> QED BY <2>1, <2>2, <2>3, Zenon DEF ClosedBy
<1> QED BY <1>2, <1>3, Zenon

-----------------------------------------------------------------------------
(* A signature request keeps the invariant (acquire_transaction_locks). *)
LEMMA HandleStep ==
    ASSUME LocksInv, NEW v \in Honest, NEW t \in Tx, handle_transaction(v, t)
    PROVE  LocksInv'
<1> USE DEF LocksInv, LocalInv, SignedInv
<1>1. /\ UNCHANGED <<epoch, rows, objects, executed, halted, certificates, final, closed>>
      /\ signatures \subseteq signatures'
      /\ In[t] \subseteq rows[v] /\ NoConflict(v, t)
      /\ locked' = [locked EXCEPT ![v] = {l \in @ : l[1] \notin In[t]} \cup
                                         {<<r, epoch[v], t>> : r \in In[t]}]
  BY Zenon DEF handle_transaction
<1>2. \A w, e, u : <<w, e, u>> \in signatures' =>
            <<w, e, u>> \in signatures \/ (w = v /\ e = epoch[v] /\ u = t)
  BY DEF handle_transaction
<1>3. LocksType'
  <2>1. signatures' \subseteq Honest \X Nat \X Tx
    BY DEF handle_transaction, LocksType
  <2>2. locked' \in [Honest -> SUBSET (Ref \X Nat \X Tx)]
    BY <1>1, ReferenceAssumption DEF LocksType
  <2> QED BY <1>1, <2>1, <2>2, Zenon DEF LocksType
<1>4. Clock'
  BY <1>1, <1>2 DEF Clock, LocksType
<1>5. CertSigned'
  BY <1>1, Zenon DEF CertSigned
<1>6. FinalBacked' /\ RowsExact' /\ ObjectsKept' /\ ExecutedBacked' /\ ExecutedApart'
  <2>1. FinalBacked'
    BY <1>1, Zenon DEF FinalBacked, FinalBefore, Backed
  <2>2. RowsExact' /\ ObjectsKept' /\ ExecutedBacked' /\ ExecutedApart'
    BY <1>1, Zenon DEF RowsExact, ObjectsKept, ExecutedBacked, ExecutedApart, Backed, Outs, Ins
  <2> QED BY <2>1, <2>2, Zenon
<1>7. ExecutedCertified' /\ FinalExecuted'
  BY <1>1, Zenon DEF ExecutedCertified, FinalExecuted, FinalBefore
<1>8. LocksOnRows'
  BY <1>1 DEF LocksOnRows, LocksType
<1>9. Backed(In[t], executed[v])
  BY <1>1, Zenon DEF RowsExact, Backed
<1>10. SignedBacked'
  BY <1>1, <1>2, <1>9, Zenon DEF SignedBacked, Backed
<1>11. SignedHeld'
  <2> SUFFICES ASSUME NEW w \in Honest, NEW u \in Tx, NEW r \in In[u],
                      <<w, closed, u>> \in signatures',
                      ~ \E x \in executed[w] : r \in In[x] /\ x \notin FinalBefore(closed)
               PROVE  <<r, closed, u>> \in locked'[w]
    BY <1>1, Zenon DEF SignedHeld, FinalBefore
  <2>1. CASE <<w, closed, u>> \in signatures
    <3>1. <<r, closed, u>> \in locked[w]
      BY <2>1, Zenon DEF SignedHeld
    <3>2. w = v => epoch[v] = closed
      BY <2>1 DEF Clock, LocksType
    <3>3. w = v /\ r \in In[t] => u = t
      BY <1>1, <3>1, <3>2 DEF NoConflict
    <3> QED BY <1>1, <3>1, <3>2, <3>3, Zenon DEF LocksType
  <2>2. CASE w = v /\ closed = epoch[v] /\ u = t
    BY <1>1, <2>2, Zenon DEF LocksType
  <2> QED BY <1>2, <2>1, <2>2
<1>12. SignedOnce'
  <2>1. ASSUME NEW u \in Tx, <<v, closed, u>> \in signatures, Conflict(t, u),
               epoch[v] = closed
        PROVE  t = u
    <3>1. PICK r \in In[t] : r \in In[u]
      BY <2>1, Zenon DEF Conflict
    <3>2. ~ \E x \in executed[v] : r \in In[x]
      BY <1>1, <3>1, Zenon DEF RowsExact, Ins
    <3>3. <<r, closed, u>> \in locked[v]
      BY <2>1, <3>1, <3>2, Zenon DEF SignedHeld
    <3> QED BY <1>1, <2>1, <3>1, <3>3, Zenon DEF NoConflict
  <2>2. \A x, y \in Tx : Conflict(x, y) => Conflict(y, x)
    BY Zenon DEF Conflict
  <2> QED BY <1>1, <1>2, <2>1, <2>2 DEF SignedOnce, Conflict
<1>13. EpochsClosed'
  <2>1. ASSUME NEW e \in Nat, NEW w \in Honest, ClosedBy(e, w)
        PROVE  ClosedBy(e, w)'
    <3>1. (epoch[w] > e \/ (epoch[w] = e /\ halted[w] /\ executed[w] \subseteq FinalBefore(e + 1)))'
      BY <1>1, <2>1, Zenon DEF ClosedBy, FinalBefore
    <3>2. ASSUME NEW u \in Tx, <<w, e, u>> \in signatures'
          PROVE  Backed(In[u], FinalBefore(e + 1))
      <4>1. CASE <<w, e, u>> \in signatures
        BY <2>1, <4>1, Zenon DEF ClosedBy
      <4>2. CASE w = v /\ e = epoch[v] /\ u = t
        <5>1. executed[v] \subseteq FinalBefore(e + 1)
          BY <2>1, <4>2 DEF ClosedBy, LocksType
        <5> QED BY <1>9, <4>2, <5>1, Zenon DEF Backed, Outs
      <4> QED BY <1>2, <3>2, <4>1, <4>2
    <3> QED BY <1>1, <3>1, <3>2, Zenon DEF ClosedBy, FinalBefore, Backed
  <2> QED BY <1>1, <2>1, Zenon DEF EpochsClosed
<1>14. SpendsOnce'
  BY <1>1, Zenon DEF SpendsOnce, Settled, Conflict
<1> QED BY <1>3, <1>4, <1>5, <1>6, <1>7, <1>8, <1>10, <1>11, <1>12, <1>13, <1>14, Zenon
-----------------------------------------------------------------------------
(* Steps that only touch what consensus and the clients hold.              *)

(* Putting a certificate together keeps the invariant: a conflicting one   *)
(* of this epoch shares an honest signer, one of an earlier epoch is       *)
(* executed by every signer.                                               *)
LEMMA CertifyStep ==
    ASSUME LocksInv, NEW e \in Nat, NEW t \in Tx, Certify(e, t)
    PROVE  LocksInv'
<1> USE DEF LocksInv, LocalInv, SignedInv
<1>1. /\ UNCHANGED <<epoch, rows, locked, objects, executed, halted, signatures, final, closed>>
      /\ certificates' = certificates \cup {<<e, t>>}
  BY Zenon DEF Certify, state
<1>2. PICK Q \in Quorum : \A v \in Q \ Faulty : <<v, e, t>> \in signatures
  BY Zenon DEF Certify
<1>3. LocksType' /\ Clock'
  BY <1>1 DEF LocksType, Clock
<1>4. CertSigned'
  BY <1>1, <1>2, Zenon DEF CertSigned
<1>5. FinalBacked' /\ RowsExact' /\ ObjectsKept' /\ ExecutedBacked' /\ ExecutedApart'
  <2>1. FinalBacked'
    BY <1>1, Zenon DEF FinalBacked, FinalBefore, Backed
  <2>2. RowsExact' /\ ObjectsKept' /\ ExecutedBacked' /\ ExecutedApart'
    BY <1>1, Zenon DEF RowsExact, ObjectsKept, ExecutedBacked, ExecutedApart, Backed, Outs, Ins
  <2> QED BY <2>1, <2>2, Zenon
<1>6. ExecutedCertified' /\ FinalExecuted' /\ LocksOnRows'
  BY <1>1, Zenon DEF ExecutedCertified, FinalExecuted, LocksOnRows, FinalBefore
<1>7. SignedBacked' /\ SignedHeld' /\ SignedOnce'
  BY <1>1 DEF SignedBacked, SignedHeld, SignedOnce, FinalBefore, Backed, Conflict
<1>8. EpochsClosed'
  BY <1>1 DEF EpochsClosed, ClosedBy, FinalBefore, Backed
<1>9. ASSUME e = closed, NEW d \in Settled, Conflict(t, d[2])
      PROVE  d = <<e, t>>
  <2>1. d \in certificates /\ d \in Nat \X Tx
    BY <1>9, Zenon DEF Settled, LocksType
  <2>2. PICK f \in Nat, u \in Tx : d = <<f, u>>
    BY <2>1
  <2>3. PICK R \in Quorum : \A v \in R \ Faulty : <<v, f, u>> \in signatures
    BY <2>1, <2>2, Zenon DEF CertSigned
  <2>4. PICK v \in Honest : v \in Q /\ v \in R
    BY CommitteeAssumption, Zenon
  <2>5. <<v, closed, t>> \in signatures /\ <<v, f, u>> \in signatures /\ Conflict(t, u)
    BY <1>2, <1>9, <2>2, <2>3, <2>4, Zenon DEF Honest
  <2>6. CASE f = closed
    BY <1>9, <2>2, <2>5, <2>6, Zenon DEF SignedOnce
  <2>7. CASE f # closed
    <3>1. <<f, u>> \in final /\ f < closed
      BY <2>2, <2>7 DEF Settled, FinalBacked, LocksType
    <3>2. u \in FinalBefore(closed)
      BY <3>1, FinalMember, Zenon DEF LocksType
    <3>3. epoch[v] = closed
      BY <2>5 DEF Clock, LocksType
    <3>4. u \in executed[v]
      BY <3>2, <3>3, Zenon DEF FinalExecuted
    <3>5. PICK r \in In[t] : r \in In[u]
      BY <2>5, Zenon DEF Conflict
    <3>6. r \notin rows[v]
      BY <3>4, <3>5, Zenon DEF RowsExact, Ins
    <3>7. <<r, closed, t>> \notin locked[v]
      BY <3>6, Zenon DEF LocksOnRows
    <3>8. PICK x \in executed[v] : r \in In[x] /\ x \notin FinalBefore(closed)
      BY <2>5, <3>5, <3>7, Zenon DEF SignedHeld
    <3> QED BY <3>2, <3>4, <3>5, <3>8, Zenon DEF ExecutedApart
  <2> QED BY <2>6, <2>7, Zenon
<1>10. SpendsOnce'
  <2>1. \A d \in Settled' : d \in Settled \/ (e = closed /\ d = <<e, t>>)
    BY <1>1 DEF Settled
  <2>2. \A x, y : Conflict(x, y) => Conflict(y, x)
    BY Zenon DEF Conflict
  <2> SUFFICES ASSUME NEW c \in Settled', NEW d \in Settled', Conflict(c[2], d[2])
               PROVE  c = d
    BY Zenon DEF SpendsOnce, Conflict
  <2>3. CASE c \in Settled /\ d \in Settled
    BY <2>3, Zenon DEF SpendsOnce
  <2>4. CASE e = closed /\ c = <<e, t>> /\ d \in Settled
    BY <1>9, <2>4, Zenon
  <2>5. CASE e = closed /\ d = <<e, t>> /\ c \in Settled
    BY <1>9, <2>2, <2>5, Zenon
  <2> QED BY <2>1, <2>3, <2>4, <2>5, Zenon
<1> QED BY <1>3, <1>4, <1>5, <1>6, <1>7, <1>8, <1>10, Zenon

(* Sequencing a certificate keeps the invariant. *)
LEMMA SequenceStep ==
    ASSUME LocksInv, NEW t \in Tx, Sequence(t)
    PROVE  LocksInv'
<1> USE DEF LocksInv, LocalInv, SignedInv
<1>1. /\ UNCHANGED <<epoch, rows, locked, objects, executed, halted, signatures, certificates, closed>>
      /\ <<closed, t>> \in certificates
      /\ Backed(In[t], FinalBefore(closed + 1))
      /\ final' = final \cup {<<closed, t>>}
  BY Zenon DEF Sequence, state, Backed
<1>2. LocksType' /\ Clock' /\ CertSigned'
  BY <1>1, Zenon DEF LocksType, Clock, CertSigned
<1>3. \A e \in Nat : FinalBefore(e) \subseteq FinalBefore(e)'
  BY <1>1, Zenon DEF FinalBefore
<1>4. \A e \in Nat : e <= closed => FinalBefore(e)' = FinalBefore(e)
  BY <1>1 DEF FinalBefore, LocksType
<1>5. FinalBacked'
  <2>1. ASSUME NEW e \in Nat, NEW u \in Tx, <<e, u>> \in final'
        PROVE  e <= closed /\ Backed(In[u], FinalBefore(e + 1))
    <3>1. CASE <<e, u>> \in final
      BY <3>1, Zenon DEF FinalBacked
    <3>2. CASE e = closed /\ u = t
      BY <1>1, <3>2 DEF LocksType
    <3> QED BY <1>1, <2>1, <3>1, <3>2, Zenon
  <2> QED BY <1>1, <1>3, <2>1 DEF FinalBacked, Backed, Outs
<1>6. RowsExact' /\ ObjectsKept' /\ ExecutedBacked' /\ ExecutedApart' /\ LocksOnRows'
  BY <1>1, Zenon DEF RowsExact, ObjectsKept, ExecutedBacked, ExecutedApart, LocksOnRows,
              Backed, Outs, Ins
<1>7. ExecutedCertified' /\ FinalExecuted'
  BY <1>1, <1>4, Zenon DEF ExecutedCertified, FinalExecuted, Clock, LocksType
<1>8. SignedBacked' /\ SignedOnce'
  BY <1>1, Zenon DEF SignedBacked, SignedOnce, Backed, Conflict
<1>9. SignedHeld'
  BY <1>1, <1>4 DEF SignedHeld, LocksType
<1>10. EpochsClosed'
  <2>1. ASSUME NEW e \in Nat, e < closed
        PROVE  FinalBefore(e + 1)' = FinalBefore(e + 1)
    BY <1>4, <2>1 DEF LocksType
  <2> QED BY <1>1, <2>1 DEF EpochsClosed, ClosedBy, Backed
<1>11. SpendsOnce'
  <2>1. Settled' = Settled
    BY <1>1 DEF Settled
  <2> QED BY <2>1, Zenon DEF SpendsOnce, Conflict
<1> QED BY <1>2, <1>5, <1>6, <1>7, <1>8, <1>9, <1>10, <1>11, Zenon

(* Closing the epoch keeps the invariant: the quorum that sent             *)
(* EndOfPublish has only executed what is sequenced.                       *)
LEMMA CloseStep ==
    ASSUME LocksInv, CloseEpoch
    PROVE  LocksInv'
<1> USE DEF LocksInv, LocalInv, SignedInv
<1>1. /\ UNCHANGED <<epoch, rows, locked, objects, executed, halted, signatures, certificates, final>>
      /\ closed' = closed + 1
  BY Zenon DEF CloseEpoch, state
<1>2. PICK Q \in Quorum : \A v \in Q \ Faulty : EndOfPublish(v)
  BY Zenon DEF CloseEpoch
<1>3. LocksType' /\ Clock' /\ CertSigned'
  BY <1>1 DEF LocksType, Clock, CertSigned
<1>4. FinalBacked'
  BY <1>1 DEF FinalBacked, FinalBefore, Backed, LocksType
<1>5. RowsExact' /\ ObjectsKept' /\ ExecutedBacked' /\ ExecutedApart' /\ LocksOnRows'
  BY <1>1, Zenon DEF RowsExact, ObjectsKept, ExecutedBacked, ExecutedApart, LocksOnRows,
              Backed, Outs, Ins
<1>6. ExecutedCertified' /\ FinalExecuted'
  BY <1>1, Zenon DEF ExecutedCertified, FinalExecuted, FinalBefore
<1>7. \A v \in Honest, t \in Tx : <<v, closed', t>> \notin signatures'
  BY <1>1 DEF Clock, LocksType
<1>8. SignedBacked' /\ SignedHeld' /\ SignedOnce'
  BY <1>7, Zenon DEF SignedBacked, SignedHeld, SignedOnce
<1>9. ASSUME NEW e \in Nat, NEW v \in Honest, ClosedBy(e, v)
      PROVE  ClosedBy(e, v)'
  BY <1>1, <1>9, Zenon DEF ClosedBy, FinalBefore, Backed
<1>10. ASSUME NEW v \in Honest, v \in Q
       PROVE  ClosedBy(closed, v)
  <2>1. halted[v] /\ epoch[v] = closed /\ executed[v] \subseteq FinalBefore(closed + 1)
    BY <1>2, <1>10, Zenon DEF Honest, EndOfPublish, Uncommitted
  <2>2. \A t \in Tx : <<v, closed, t>> \in signatures => Backed(In[t], FinalBefore(closed + 1))
    BY <2>1, Zenon DEF SignedBacked, Backed, Outs
  <2> QED BY <2>1, <2>2, Zenon DEF ClosedBy
<1>11. EpochsClosed'
  <2> SUFFICES ASSUME NEW e \in Nat, e < closed + 1
               PROVE  \E R \in Quorum : \A v \in Honest : v \in R => ClosedBy(e, v)
    BY <1>1, <1>9, Zenon DEF EpochsClosed
  <2>1. CASE e = closed
    BY <1>10, <2>1, Zenon
  <2>2. CASE e < closed
    BY <2>2, Zenon DEF EpochsClosed
  <2> QED BY <2>1, <2>2 DEF LocksType
<1>12. SpendsOnce'
  <2>1. ASSUME NEW c \in certificates PROVE c[1] # closed + 1
    <3>1. c = <<c[1], c[2]>> /\ c[1] \in Nat /\ c[2] \in Tx
      BY <2>1 DEF LocksType
    <3>2. c[1] <= closed
      BY <2>1, <3>1, CertBacked, Zenon
    <3> QED BY <3>1, <3>2 DEF LocksType
  <2>2. Settled' \subseteq Settled
    BY <1>1, <2>1, Zenon DEF Settled
  <2> QED BY <2>2, Zenon DEF SpendsOnce, Conflict
<1> QED BY <1>3, <1>4, <1>5, <1>6, <1>8, <1>11, <1>12, Zenon
-----------------------------------------------------------------------------
(* Steps of a validator on its own state.                                  *)

(* Executing a certificate keeps the invariant. *)
LEMMA WriteStep ==
    ASSUME LocksInv, NEW v \in Honest, NEW t \in Tx, write_transaction_outputs(v, t)
    PROVE  LocksInv'
<1> USE DEF LocksInv, LocalInv, SignedInv
<1>1. /\ UNCHANGED <<epoch, halted, signatures, certificates, final, closed>>
      /\ t \notin executed[v] /\ In[t] \subseteq rows[v]
      /\ rows' = [rows EXCEPT ![v] = (@ \ In[t]) \cup Out[t]]
      /\ locked' = [locked EXCEPT ![v] = {l \in @ : l[1] \notin In[t] \cup Out[t]}]
      /\ objects' = [objects EXCEPT ![v] = @ \cup Out[t]]
      /\ executed' = [executed EXCEPT ![v] = @ \cup {t}]
  BY Zenon DEF write_transaction_outputs
<1>2. <<epoch[v], t>> \in certificates /\ (halted[v] => <<epoch[v], t>> \in final)
  BY Zenon DEF write_transaction_outputs, LocksType
<1>3. LocksType'
  BY <1>1, ReferenceAssumption, Zenon DEF LocksType
<1>4. /\ executed'[v] = executed[v] \cup {t} /\ rows'[v] = (rows[v] \ In[t]) \cup Out[t]
      /\ objects'[v] = objects[v] \cup Out[t]
      /\ locked'[v] = {l \in locked[v] : l[1] \notin In[t] \cup Out[t]}
      /\ \A w \in Honest : w # v => /\ executed'[w] = executed[w] /\ rows'[w] = rows[w]
                                    /\ objects'[w] = objects[w] /\ locked'[w] = locked[w]
  BY <1>1, Zenon DEF LocksType
<1>5. Clock' /\ CertSigned' /\ FinalBacked' /\ SpendsOnce'
  BY <1>1, Zenon DEF Clock, CertSigned, FinalBacked, FinalBefore, Backed, SpendsOnce, Settled, Conflict
<1>6. /\ Outs(executed'[v]) = Outs(executed[v]) \cup Out[t]
      /\ Ins(executed'[v]) = Ins(executed[v]) \cup In[t]
  BY <1>4 DEF Outs, Ins
<1>7. Backed(In[t], executed[v])
  BY <1>1, Zenon DEF RowsExact, Backed
<1>8. Backed(Ins(executed[v]), executed[v])
  BY Zenon DEF ExecutedBacked, Backed, Ins
<1>9. Out[t] \cap In[t] = {} /\ Out[t] \cap Ins(executed[v]) = {} /\ Out[t] \cap rows[v] = {}
  <2>1. executed[v] \subseteq Tx
    BY Zenon DEF LocksType
  <2>2. Backed(rows[v], executed[v])
    BY Zenon DEF RowsExact, Backed
  <2> QED BY <1>1, <1>7, <1>8, <2>1, <2>2, OneCreator, Zenon
<1>10. RowsExact'
  <2>1. rows'[v] = (Genesis \cup Outs(executed'[v])) \ Ins(executed'[v])
    BY <1>4, <1>6, <1>9, Zenon DEF RowsExact
  <2> QED BY <1>4, <2>1, Zenon DEF RowsExact
<1>11. ObjectsKept'
  BY <1>4, <1>6, Zenon DEF ObjectsKept
<1>12. ExecutedBacked'
  <2>1. \A u \in executed'[v] : In[u] \subseteq Genesis \cup Outs(executed'[v])
    BY <1>4, <1>6, <1>7, Zenon DEF ExecutedBacked, Backed
  <2> QED BY <1>4, <2>1, Zenon DEF ExecutedBacked, Backed
<1>13. ExecutedApart'
  <2>1. \A u \in executed[v] : In[t] \cap In[u] = {}
    BY <1>1 DEF RowsExact, Ins
  <2> QED BY <1>4, <2>1 DEF ExecutedApart
<1>14. ExecutedCertified' /\ FinalExecuted'
  BY <1>1, <1>2, <1>4 DEF ExecutedCertified, FinalExecuted, FinalBefore
<1>15. LocksOnRows'
  BY <1>4, Zenon DEF LocksOnRows
<1>16. SignedBacked'
  BY <1>1, <1>4, <1>6, Zenon DEF SignedBacked, Backed
<1>17. SignedHeld'
  <2> SUFFICES ASSUME NEW u \in Tx, NEW r \in In[u], <<v, closed, u>> \in signatures
               PROVE  \/ <<r, closed, u>> \in locked'[v]
                      \/ \E x \in executed'[v] : r \in In[x] /\ x \notin FinalBefore(closed)
    BY <1>1, <1>4 DEF SignedHeld, FinalBefore
  <2>1. epoch[v] = closed
    BY DEF Clock, LocksType
  <2>2. t \notin FinalBefore(closed)
    BY <1>1, <2>1, Zenon DEF FinalExecuted
  <2>3. CASE r \in In[t]
    BY <1>4, <2>2, <2>3, Zenon
  <2>4. CASE r \notin In[t] /\ <<r, closed, u>> \in locked[v]
    <3>1. r \notin Out[t]
      BY <1>9, <2>4, Zenon DEF LocksOnRows
    <3> QED BY <1>4, <2>4, <3>1, Zenon
  <2>5. CASE \E x \in executed[v] : r \in In[x] /\ x \notin FinalBefore(closed)
    BY <1>4, <2>5, Zenon
  <2> QED BY <2>3, <2>4, <2>5, Zenon DEF SignedHeld
<1>18. SignedOnce'
  BY <1>1, Zenon DEF SignedOnce, Conflict
<1>19. EpochsClosed'
  <2>1. ASSUME NEW e \in Nat, NEW w \in Honest, ClosedBy(e, w)
        PROVE  ClosedBy(e, w)'
    <3>1. ASSUME w = v, epoch[v] = e, halted[v], executed[v] \subseteq FinalBefore(e + 1)
          PROVE  executed'[v] \subseteq FinalBefore(e + 1)
      <4>1. t \in FinalBefore(e + 1)
        BY <1>2, <3>1, FinalMember, SMTT(30)
      <4> QED BY <1>4, <3>1, <4>1, Zenon
    <3>2. CASE w = v
      BY <1>1, <2>1, <3>1, <3>2, Zenon DEF ClosedBy, FinalBefore, Backed
    <3>3. CASE w # v
      BY <1>1, <1>4, <2>1, <3>3, Zenon DEF ClosedBy, FinalBefore, Backed
    <3> QED BY <3>2, <3>3, Zenon
  <2> QED BY <1>1, <2>1, Zenon DEF EpochsClosed
<1> QED BY <1>3, <1>5, <1>10, <1>11, <1>12, <1>13, <1>14, <1>15, <1>16, <1>17, <1>18, <1>19, Zenon

(* What is pending when the epoch is over consumes what is in checkpoints, *)
(* so nothing that stays depends on it.                                    *)
LEMMA UncommittedIsLast ==
    ASSUME LocksInv, NEW v \in Honest, epoch[v] < closed, NEW u \in executed[v]
    PROVE  Backed(In[u], FinalBefore(epoch[v] + 1))
<1> USE DEF LocksInv, LocalInv
<1>1. u \in Tx /\ epoch[v] \in Nat /\ closed \in Nat
  BY Zenon DEF LocksType
<1>2. CASE u \in FinalBefore(epoch[v])
  <2>1. PICK d \in Nat : d < epoch[v] /\ <<d, u>> \in final
    BY <1>1, <1>2, FinalMember, Zenon
  <2>2. Backed(In[u], FinalBefore(d + 1))
    BY <1>1, <2>1, Zenon DEF FinalBacked
  <2>3. FinalBefore(d + 1) \subseteq FinalBefore(epoch[v] + 1)
    <3>1. ASSUME NEW x \in FinalBefore(d + 1) PROVE x \in FinalBefore(epoch[v] + 1)
      <4>1. x \in Tx
        BY Zenon DEF FinalBefore
      <4>2. PICK f \in Nat : f < d + 1 /\ <<f, x>> \in final
        <5>1. d + 1 \in Nat /\ LocksType
          BY <2>1
        <5> QED BY <3>1, <4>1, <5>1, FinalMember, Zenon
      <4>3. f < epoch[v] + 1 /\ epoch[v] + 1 \in Nat /\ LocksType
        BY <1>1, <2>1, <4>2
      <4> QED BY <4>1, <4>2, <4>3, FinalMember, Zenon
    <3> QED BY <3>1, Zenon
  <2> QED BY <2>2, <2>3, Zenon DEF Backed, Outs
<1>3. CASE <<epoch[v], u>> \in certificates
  BY <1>1, <1>3, CertBacked, Zenon
<1> QED BY <1>2, <1>3, Zenon DEF ExecutedCertified

(* Reverting an execution keeps the invariant. *)
LEMMA RevertStep ==
    ASSUME LocksInv, NEW v \in Honest, NEW t \in Tx, revert_state_update(v, t)
    PROVE  LocksInv'
<1> USE DEF LocksInv, LocalInv, SignedInv
<1>1. /\ UNCHANGED <<epoch, halted, signatures, certificates, final, closed>>
      /\ Reconfiguring(v) /\ t \in executed[v] /\ t \notin FinalBefore(epoch[v] + 1)
      /\ executed' = [executed EXCEPT ![v] = @ \ {t}]
      /\ objects' = [objects EXCEPT ![v] = @ \ Out[t]]
      /\ rows' = [rows EXCEPT ![v] = (@ \cup In[t]) \ Out[t]]
      /\ locked' = [locked EXCEPT ![v] = {l \in @ : l[1] \notin In[t] \cup Out[t]}]
  BY Zenon DEF revert_state_update, Uncommitted
<1>2. epoch[v] < closed /\ FinalBefore(epoch[v] + 1) \subseteq executed[v] \ {t}
  BY <1>1, Zenon DEF Reconfiguring
<1>3. LocksType'
  BY <1>1, ReferenceAssumption, Zenon DEF LocksType
<1>4. /\ executed'[v] = executed[v] \ {t} /\ rows'[v] = (rows[v] \cup In[t]) \ Out[t]
      /\ objects'[v] = objects[v] \ Out[t]
      /\ locked'[v] = {l \in locked[v] : l[1] \notin In[t] \cup Out[t]}
      /\ \A w \in Honest : w # v => /\ executed'[w] = executed[w] /\ rows'[w] = rows[w]
                                    /\ objects'[w] = objects[w] /\ locked'[w] = locked[w]
  BY <1>1, Zenon DEF LocksType
<1>5. Clock' /\ CertSigned' /\ FinalBacked' /\ SpendsOnce'
  BY <1>1, Zenon DEF Clock, CertSigned, FinalBacked, FinalBefore, Backed, SpendsOnce, Settled, Conflict
<1>6. /\ Outs(executed[v]) = Outs(executed'[v]) \cup Out[t]
      /\ Ins(executed[v]) = Ins(executed'[v]) \cup In[t]
  BY <1>1, <1>4 DEF Outs, Ins
<1>7. Out[t] \cap (Genesis \cup Outs(executed'[v])) = {}
  BY <1>4, ReferenceAssumption DEF Outs, LocksType
<1>8. \A u \in executed[v] : Backed(In[u], executed'[v])
  BY <1>2, <1>4, UncommittedIsLast DEF Backed, Outs
<1>9. In[t] \cap Ins(executed'[v]) = {}
  BY <1>1, <1>4, SMTT(30) DEF ExecutedApart, Ins
<1>10. RowsExact'
  <2>1. In[t] \subseteq Genesis \cup Outs(executed'[v])
    BY <1>1, <1>8, Zenon DEF Backed
  <2>2. rows[v] = (Genesis \cup Outs(executed[v])) \ Ins(executed[v])
    BY Zenon DEF RowsExact
  <2>3. rows'[v] = (Genesis \cup Outs(executed'[v])) \ Ins(executed'[v])
    BY <1>4, <1>6, <1>7, <1>9, <2>1, <2>2, Zenon
  <2> QED BY <1>4, <2>3, Zenon DEF RowsExact
<1>11. ObjectsKept'
  <2>1. Genesis \cup Outs(executed'[v]) \subseteq objects'[v]
    BY <1>4, <1>6, <1>7, Zenon DEF ObjectsKept
  <2> QED BY <1>4, <2>1, Zenon DEF ObjectsKept
<1>12. ExecutedBacked'
  BY <1>4, <1>8, Zenon DEF ExecutedBacked, Backed
<1>13. ExecutedApart' /\ ExecutedCertified'
  <2>1. \A w \in Honest : executed'[w] \subseteq executed[w]
    BY <1>4, Zenon
  <2>2. ExecutedApart'
    BY <2>1, Zenon DEF ExecutedApart
  <2>3. UNCHANGED <<epoch, final, certificates>>
    BY <1>1, Zenon
  <2>4. ExecutedCertified'
    BY <2>1, <2>3, Zenon DEF ExecutedCertified, FinalBefore
  <2> QED BY <2>2, <2>4, Zenon
<1>14. FinalExecuted'
  <2>1. t \notin FinalBefore(epoch[v])
    BY <1>1, FinalMember DEF LocksType
  <2> QED BY <1>1, <1>4, <2>1 DEF FinalExecuted, FinalBefore
<1>15. LocksOnRows'
  BY <1>4, Zenon DEF LocksOnRows
<1>16. \A u \in Tx : <<v, closed, u>> \notin signatures
  BY <1>2 DEF Clock, LocksType
<1>17. SignedBacked' /\ SignedHeld' /\ SignedOnce'
  <2>1. SignedBacked'
    BY <1>1, <1>4, <1>16, Zenon DEF SignedBacked, Backed
  <2>2. SignedHeld'
    <3>1. UNCHANGED <<FinalBefore(closed), closed, signatures>>
      BY <1>1, Zenon DEF FinalBefore
    <3>2. ASSUME NEW w \in Honest, NEW u \in Tx, <<w, closed, u>> \in signatures
          PROVE  locked'[w] = locked[w] /\ executed'[w] = executed[w]
      BY <1>4, <1>16, <3>2, Zenon
    <3> QED BY <3>1, <3>2, SMTT(30) DEF SignedHeld
  <2>3. SignedOnce'
    BY <1>1, Zenon DEF SignedOnce, Conflict
  <2> QED BY <2>1, <2>2, <2>3, Zenon
<1>18. EpochsClosed'
  <2>1. ASSUME NEW e \in Nat, NEW w \in Honest, ClosedBy(e, w)
        PROVE  ClosedBy(e, w)'
    <3>1. executed'[w] \subseteq executed[w]
      BY <1>4, Zenon
    <3>2. UNCHANGED <<FinalBefore(e + 1), epoch, halted, signatures>>
      BY <1>1, Zenon DEF FinalBefore
    <3> QED BY <2>1, <3>1, <3>2, Zenon DEF ClosedBy, Backed
  <2> QED BY <1>1, <2>1, Zenon DEF EpochsClosed
<1> QED BY <1>3, <1>5, <1>10, <1>11, <1>12, <1>13, <1>14, <1>15, <1>17, <1>18, Zenon

(* Halting and moving on to the next epoch keep the invariant. *)
LEMMA EpochStep ==
    ASSUME LocksInv, NEW v \in Honest, close_user_certs(v) \/ reconfigure(v)
    PROVE  LocksInv'
<1> USE DEF LocksInv, LocalInv, SignedInv
<1>1. /\ UNCHANGED <<rows, locked, objects, executed, signatures, certificates, final, closed>>
  BY Zenon DEF close_user_certs, reconfigure, state
<1>2. CertSigned' /\ FinalBacked' /\ SpendsOnce'
  BY <1>1, Zenon DEF CertSigned, FinalBacked, FinalBefore, Backed, SpendsOnce, Settled, Conflict
<1>3. RowsExact' /\ ObjectsKept' /\ ExecutedBacked' /\ ExecutedApart' /\ LocksOnRows'
  BY <1>1, Zenon DEF RowsExact, ObjectsKept, ExecutedBacked, ExecutedApart, LocksOnRows,
              Backed, Outs, Ins
<1>4. SignedBacked' /\ SignedHeld' /\ SignedOnce'
  BY <1>1 DEF SignedBacked, SignedHeld, SignedOnce, FinalBefore, Backed, Conflict
<1>5. CASE close_user_certs(v)
  <2>1. UNCHANGED epoch /\ halted' = [halted EXCEPT ![v] = TRUE]
    BY <1>5, Zenon DEF close_user_certs
  <2>2. LocksType' /\ Clock'
    BY <1>1, <2>1, Zenon DEF LocksType, Clock
  <2>3. ExecutedCertified' /\ FinalExecuted'
    BY <1>1, <2>1, Zenon DEF ExecutedCertified, FinalExecuted, FinalBefore
  <2>4. EpochsClosed'
    <3>1. \A w \in Honest : halted[w] => halted'[w]
      BY <2>1, Zenon DEF LocksType
    <3> QED BY <1>1, <2>1, <3>1 DEF EpochsClosed, ClosedBy, FinalBefore, Backed
  <2> QED BY <1>2, <1>3, <1>4, <2>2, <2>3, <2>4, Zenon
<1>6. CASE reconfigure(v)
  <2>1. /\ epoch' = [epoch EXCEPT ![v] = @ + 1] /\ halted' = [halted EXCEPT ![v] = FALSE]
        /\ Reconfiguring(v) /\ executed[v] \subseteq FinalBefore(epoch[v] + 1)
    BY <1>6, Zenon DEF reconfigure, Uncommitted
  <2>2. /\ epoch'[v] = epoch[v] + 1 /\ epoch[v] \in Nat /\ closed \in Nat
        /\ \A w \in Honest : w # v => epoch'[w] = epoch[w] /\ halted'[w] = halted[w]
    BY <2>1, Zenon DEF LocksType
  <2>3. LocksType' /\ Clock'
    <3>1. LocksType'
      BY <1>1, <2>1 DEF LocksType
    <3>2. Clock'
      BY <1>1, <2>1, <2>2 DEF Clock, Reconfiguring, LocksType
    <3> QED BY <3>1, <3>2, Zenon
  <2>4. ExecutedCertified' /\ FinalExecuted'
    BY <1>1, <2>1, <2>2 DEF ExecutedCertified, FinalExecuted, FinalBefore, Reconfiguring
  <2>5. EpochsClosed'
    <3>1. ASSUME NEW e \in Nat, NEW w \in Honest, ClosedBy(e, w)
          PROVE  ClosedBy(e, w)'
      BY <1>1, <2>2, <3>1 DEF ClosedBy, FinalBefore, Backed
    <3> QED BY <1>1, <3>1, Zenon DEF EpochsClosed
  <2> QED BY <1>2, <1>3, <1>4, <2>3, <2>4, <2>5, Zenon
<1> QED BY <1>5, <1>6, Zenon
-----------------------------------------------------------------------------
(* The state at the start satisfies the invariant. *)
LEMMA LocksInit ==
    ASSUME Init
    PROVE  LocksInv
<1> USE DEF Init
<1>1. LocksType /\ Clock /\ CertSigned /\ FinalBacked
  BY ReferenceAssumption DEF LocksType, Clock, CertSigned, FinalBacked
<1>2. FinalBefore(0) = {}
  BY Zenon DEF FinalBefore
<1>3. LocalInv
  BY <1>2, Zenon DEF LocalInv, RowsExact, ObjectsKept, ExecutedBacked, ExecutedApart,
              ExecutedCertified, FinalExecuted, LocksOnRows, Outs, Ins
<1>4. SignedInv /\ EpochsClosed /\ SpendsOnce
  BY DEF SignedInv, SignedBacked, SignedHeld, SignedOnce, EpochsClosed, SpendsOnce, Settled
<1> QED BY <1>1, <1>3, <1>4, Zenon DEF LocksInv

(* The invariant holds in every reachable state. *)
THEOREM LocksInvariant == Spec => []LocksInv
<1>1. Init => LocksInv
  BY LocksInit, Zenon
<1>2. LocksInv /\ [Next]_vars => LocksInv'
  <2> SUFFICES ASSUME LocksInv, [Next]_vars PROVE LocksInv'
    BY Zenon
  <2>1. CASE UNCHANGED vars
    <3>1. UNCHANGED <<epoch, rows, locked, objects, executed, halted, signatures,
                      certificates, final, closed>>
      BY <2>1, Zenon DEF vars, state
    <3>2. LocksType' /\ Clock' /\ CertSigned' /\ FinalBacked'
      BY <3>1, Zenon DEF LocksInv, LocksType, Clock, CertSigned, FinalBacked, FinalBefore, Backed
    <3>3. LocalInv'
      BY <3>1, Zenon DEF LocksInv, LocalInv, RowsExact, ObjectsKept, ExecutedBacked, ExecutedApart,
                  ExecutedCertified, FinalExecuted, LocksOnRows, FinalBefore, Backed, Outs, Ins
    <3>4. SignedInv'
      BY <3>1, SMTT(30) DEF LocksInv, SignedInv, SignedBacked, SignedHeld, SignedOnce, FinalBefore,
                  Backed, Conflict
    <3>5. EpochsClosed' /\ SpendsOnce'
      BY <3>1 DEF LocksInv, EpochsClosed, ClosedBy, FinalBefore, Backed, SpendsOnce, Settled,
                  Conflict
    <3> QED BY <3>2, <3>3, <3>4, <3>5, Zenon DEF LocksInv
  <2>2. ASSUME NEW v \in Honest, Step(v) PROVE LocksInv'
    BY <2>2, HandleStep, WriteStep, RevertStep, EpochStep, Zenon DEF Step
  <2>3. ASSUME NEW e \in 0..MaxEpoch, NEW t \in Tx, Certify(e, t) PROVE LocksInv'
    BY <2>3, CertifyStep, ReferenceAssumption
  <2>4. ASSUME NEW t \in Tx, Sequence(t) PROVE LocksInv'
    BY <2>4, SequenceStep, Zenon
  <2> QED BY <2>1, <2>2, <2>3, <2>4, CloseStep, Zenon DEF Next
<1> QED BY <1>1, <1>2, PTL DEF Spec

(* No reference is spent twice, in any committee: among the transactions   *)
(* in checkpoints and those certified in the open epoch, two that consume  *)
(* the same reference are the same (acquire_transaction_locks,             *)
(* write_transaction_outputs, revert_state_update).                        *)
THEOREM NeverSpentTwice == Spec => []SpendsOnce
<1>1. LocksInv => SpendsOnce
  BY Zenon DEF LocksInv
<1> QED BY <1>1, LocksInvariant, PTL

(* The rows of a validator are what its executed transactions leave        *)
(* unspent, whatever was executed and reverted before                      *)
(* (write_transaction_outputs, revert_uncommitted_epoch_transactions).     *)
THEOREM RowsFollowExecution == Spec => []RowsAreUnspent
<1>1. LocksInv => RowsAreUnspent
  BY Zenon DEF LocksInv, LocalInv, RowsExact, ExecutedCertified, RowsAreUnspent, Ins
<1> QED BY <1>1, LocksInvariant, PTL

(* What a quorum has executed in an epoch is in its checkpoints: the       *)
(* quorum meets the one that closed the epoch with nothing pending         *)
(* (close_epoch).                                                          *)
THEOREM QuorumExecutionStays == Spec => []QuorumExecutedIsFinal
<1>1. LocksInv => QuorumExecutedIsFinal
  <2> SUFFICES ASSUME LocksInv, NEW Q \in Quorum, NEW t \in Tx, NEW e \in 0..MaxEpoch, e < closed,
                      \A v \in Q \ Faulty : epoch[v] = e /\ t \in executed[v]
               PROVE  t \in FinalBefore(e + 1)
    BY Zenon DEF QuorumExecutedIsFinal
  <2>1. e \in Nat
    BY ReferenceAssumption
  <2>2. PICK R \in Quorum : \A v \in Honest : v \in R => ClosedBy(e, v)
    BY <2>1, Zenon DEF LocksInv, EpochsClosed
  <2>3. PICK v \in Honest : v \in Q /\ v \in R
    BY CommitteeAssumption, Zenon
  <2>4. epoch[v] = e /\ t \in executed[v]
    BY <2>3, Zenon DEF Honest
  <2> QED BY <2>1, <2>2, <2>3, <2>4 DEF ClosedBy
<1> QED BY <1>1, LocksInvariant, PTL

(* A revert finds the versions that the transaction consumed, in whatever  *)
(* order the pending certificates are walked (revert_state_update).        *)
THEOREM RevertNeverPanics == Spec => []RevertFindsInputs
<1>1. LocksInv => RevertFindsInputs
  <2> SUFFICES ASSUME LocksInv, NEW v \in Honest, Reconfiguring(v), NEW t \in Uncommitted(v)
               PROVE  In[t] \subseteq objects[v]
    BY Zenon DEF RevertFindsInputs
  <2>1. /\ epoch[v] < closed /\ t \in executed[v]
        /\ FinalBefore(epoch[v] + 1) \subseteq executed[v]
    BY Zenon DEF Reconfiguring, Uncommitted
  <2>2. Backed(In[t], executed[v])
    BY <2>1, UncommittedIsLast, Zenon DEF Backed, Outs
  <2> QED BY <2>2, Zenon DEF LocksInv, LocalInv, ObjectsKept, Backed
<1> QED BY <1>1, LocksInvariant, PTL
=============================================================================
