------------------------------ MODULE ObjectLocks ------------------------------
(***************************************************************************)
(* How a committee keeps an owned object from being spent twice: before a  *)
(* validator signs a transaction it locks the references of its owned      *)
(* inputs, a quorum of signatures is a certificate, executing it deletes   *)
(* the rows of the inputs.  Locks lapse with the epoch.  Certificates also *)
(* go through consensus into the checkpoints of the epoch; what a          *)
(* validator executed without it being there in the end is reverted.       *)
(*                                                                         *)
(* A request for a signature checks that it is accepted when it starts and *)
(* acquires the locks later, so reconfiguration can begin in between.      *)
(***************************************************************************)
EXTENDS Naturals

CONSTANTS
    Validator, Faulty,
    Quorum,         \* sets of validators with the stake of a quorum
    Tx, Ref,
    In, Out,        \* references a transaction consumes and creates
    Genesis,        \* references at the start
    MaxEpoch        \* bound on the epochs that are closed

Honest == Validator \ Faulty

(* More than two thirds of the stake in a quorum, less than one third      *)
(* faulty; a reference carries the digest of what it refers to, so each is *)
(* created by one transaction.                                             *)
ASSUME CommitteeAssumption ==
    \A Q, R \in Quorum : \E v \in Honest : v \in Q /\ v \in R

ASSUME ReferenceAssumption ==
    /\ In \in [Tx -> SUBSET Ref] /\ Out \in [Tx -> SUBSET Ref] /\ Genesis \subseteq Ref
    /\ \A t \in Tx : Out[t] \cap Genesis = {} /\ In[t] # {}
    /\ \A t, u \in Tx : t # u => Out[t] \cap Out[u] = {}
    /\ MaxEpoch \in Nat

VARIABLES
    epoch,          \* of each honest validator
    rows, locked,   \* owned_object_transaction_locks: its keys, and the
                    \* <<reference, epoch, transaction>> it holds
    objects,        \* object versions in the store
    executed,
    halted,         \* certificates of users are refused (RejectUserCerts)
    signatures,     \* answers: <<validator, epoch, transaction>>
    certificates,   \* <<epoch, transaction>>
    final,          \* of those, the ones that consensus has sequenced
    closed          \* epochs that have their last checkpoint

state == <<rows, locked, objects, executed>>
vars == <<epoch, state, halted, signatures, certificates, final, closed>>

Outs(txs) == UNION {Out[t] : t \in txs}
FinalBefore(e) == {t \in Tx : \E c \in final : c[1] < e /\ c[2] = t}

Init ==
    /\ epoch = [v \in Honest |-> 0]
    /\ rows = [v \in Honest |-> Genesis] /\ locked = [v \in Honest |-> {}]
    /\ objects = [v \in Honest |-> Genesis]
    /\ executed = [v \in Honest |-> {}] /\ halted = [v \in Honest |-> FALSE]
    /\ signatures = {} /\ certificates = {}
    /\ final = {} /\ closed = 0

-----------------------------------------------------------------------------
(* Fault: a lock of this epoch is overridden like one of an earlier epoch. *)
Override(v, t) == \A l \in locked[v] : l[1] \in In[t] => l[2] <= epoch[v]

(* No lock of a later epoch, and none of this epoch for another one. *)
NoConflict(v, t) ==
    \A l \in locked[v] : l[1] \in In[t] =>
        l[2] <= epoch[v] /\ (l[2] = epoch[v] => l[3] = t)

(* The locks are acquired under a mutex, maybe after the validator has     *)
(* halted.  It may crash between the locks and the signature, and the      *)
(* answer may be lost.  Requests do not outlive their epoch: the tables of *)
(* the epoch are released when it is over.                                 *)
handle_transaction(v, t) ==
    /\ t \notin executed[v]
    /\ In[t] \subseteq rows[v] /\ NoConflict(v, t)
    /\ locked' = [locked EXCEPT ![v] = {l \in @ : l[1] \notin In[t]} \cup
                                       {<<r, epoch[v], t>> : r \in In[t]}]
    /\ \/ signatures' = signatures \cup {<<v, epoch[v], t>>}
       \/ UNCHANGED signatures
    /\ UNCHANGED <<epoch, rows, objects, executed, halted, certificates, final, closed>>

(* Anybody may put a certificate together; faulty validators sign anything. *)
Certify(e, t) ==
    /\ \E Q \in Quorum : \A v \in Q \ Faulty : <<v, e, t>> \in signatures
    /\ certificates' = certificates \cup {<<e, t>>}
    /\ UNCHANGED <<epoch, state, halted, signatures, final, closed>>

-----------------------------------------------------------------------------
(* A batch writes the outputs, deletes the rows of the inputs, whoever     *)
(* holds them, and creates rows for the outputs.                           *)
write_transaction_outputs(v, t) ==
    /\ \/ ~ halted[v] /\ <<epoch[v], t>> \in certificates
       \/ <<epoch[v], t>> \in final
    /\ t \notin executed[v] /\ In[t] \subseteq rows[v]
    /\ rows' = [rows EXCEPT ![v] = (@ \ In[t]) \cup Out[t]]
    /\ locked' = [locked EXCEPT ![v] = {l \in @ : l[1] \notin In[t] \cup Out[t]}]
    /\ objects' = [objects EXCEPT ![v] = @ \cup Out[t]]
    /\ executed' = [executed EXCEPT ![v] = @ \cup {t}]
    /\ UNCHANGED <<epoch, halted, signatures, certificates, final, closed>>

(* Consensus sequences a certificate of the open epoch; a checkpoint holds *)
(* a transaction with everything it depends on.                            *)
Sequence(t) ==
    /\ <<closed, t>> \in certificates
    /\ In[t] \subseteq Genesis \cup Outs(FinalBefore(closed + 1))
    /\ final' = final \cup {<<closed, t>>}
    /\ UNCHANGED <<epoch, state, halted, signatures, certificates, closed>>

-----------------------------------------------------------------------------
close_user_certs(v) ==
    /\ ~ halted[v]
    /\ halted' = [halted EXCEPT ![v] = TRUE]
    /\ UNCHANGED <<epoch, state, signatures, certificates, final, closed>>

(* What v has executed and consensus has not sequenced: the executed part  *)
(* of pending_consensus_certificates.                                      *)
Uncommitted(v) == executed[v] \ FinalBefore(epoch[v] + 1)

(* Fault: EndOfPublish is sent while certificates are pending. *)
PublishEarly(v) == halted[v] /\ epoch[v] = closed

(* v sends EndOfPublish once the certificates it took from users are       *)
(* sequenced.                                                              *)
EndOfPublish(v) == halted[v] /\ epoch[v] = closed /\ Uncommitted(v) = {}

(* The epoch ends with EndOfPublish of a quorum. *)
CloseEpoch ==
    /\ closed < MaxEpoch
    /\ \E Q \in Quorum : \A v \in Q \ Faulty : EndOfPublish(v)
    /\ closed' = closed + 1
    /\ UNCHANGED <<epoch, state, halted, signatures, certificates, final>>

(* Reconfiguration starts when the checkpoints of the epoch are executed. *)
Reconfiguring(v) ==
    /\ halted[v] /\ epoch[v] < closed
    /\ FinalBefore(epoch[v] + 1) \subseteq executed[v]

(* The new versions and their rows go, the inputs get free rows. *)
revert_state_update(v, t) ==
    /\ Reconfiguring(v) /\ t \in Uncommitted(v)
    /\ executed' = [executed EXCEPT ![v] = @ \ {t}]
    /\ objects' = [objects EXCEPT ![v] = @ \ Out[t]]
    /\ rows' = [rows EXCEPT ![v] = (@ \cup In[t]) \ Out[t]]
    /\ locked' = [locked EXCEPT ![v] = {l \in @ : l[1] \notin In[t] \cup Out[t]}]
    /\ UNCHANGED <<epoch, halted, signatures, certificates, final, closed>>

(* Fault: nothing is reverted. *)
KeepUncommitted(v) ==
    /\ Reconfiguring(v)
    /\ epoch' = [epoch EXCEPT ![v] = @ + 1]
    /\ halted' = [halted EXCEPT ![v] = FALSE]
    /\ UNCHANGED <<state, signatures, certificates, final, closed>>

reconfigure(v) ==
    /\ Reconfiguring(v) /\ Uncommitted(v) = {}
    /\ epoch' = [epoch EXCEPT ![v] = @ + 1]
    /\ halted' = [halted EXCEPT ![v] = FALSE]
    /\ UNCHANGED <<state, signatures, certificates, final, closed>>

-----------------------------------------------------------------------------
Step(v) ==
    \/ \E t \in Tx : \/ handle_transaction(v, t)
                     \/ write_transaction_outputs(v, t) \/ revert_state_update(v, t)
    \/ close_user_certs(v) \/ reconfigure(v)

Next ==
    \/ \E v \in Honest : Step(v)
    \/ \E e \in 0..MaxEpoch, t \in Tx : Certify(e, t)
    \/ \E t \in Tx : Sequence(t)
    \/ CloseEpoch

Spec == Init /\ [][Next]_vars

-----------------------------------------------------------------------------
Conflict(t, u) == In[t] \cap In[u] # {}

Settled == final \cup {c \in certificates : c[1] = closed}

(* No reference is spent twice: among the transactions in the checkpoints  *)
(* of the closed epochs and those certified in the open one, two that      *)
(* consume the same reference are the same, although locks lapse with the  *)
(* epoch and executions are undone while requests are under way            *)
(* (acquire_transaction_locks, write_transaction_outputs,                  *)
(* revert_state_update).                                                   *)
SpendsOnce == \A c, d \in Settled : Conflict(c[2], d[2]) => c = d

(* Outside of a reconfiguration, what a validator has executed comes from  *)
(* the checkpoints of earlier epochs and the certificates of its own, and  *)
(* the references with a row are exactly those that this leaves unspent    *)
(* (write_transaction_outputs, revert_uncommitted_epoch_transactions).     *)
RowsAreUnspent ==
    \A v \in Honest : ~ halted[v] =>
        /\ \A t \in executed[v] :
                t \in FinalBefore(epoch[v]) \/ <<epoch[v], t>> \in certificates
        /\ rows[v] = (Genesis \cup Outs(executed[v])) \ UNION {In[t] : t \in executed[v]}

(* A transaction that a quorum has executed in an epoch stays: once the    *)
(* epoch is over it is in the checkpoints, and no validator reverts it     *)
(* (close_epoch, revert_uncommitted_epoch_transactions).                   *)
QuorumExecutedIsFinal ==
    \A Q \in Quorum, t \in Tx, e \in 0..MaxEpoch :
        e < closed /\ (\A v \in Q \ Faulty : epoch[v] = e /\ t \in executed[v])
            => t \in FinalBefore(e + 1)

(* The version that a transaction consumed is there when it is reverted,   *)
(* in whatever order the set of pending certificates is walked:            *)
(* revert_state_update panics otherwise.                                   *)
RevertFindsInputs ==
    \A v \in Honest : Reconfiguring(v) =>
        \A t \in Uncommitted(v) : In[t] \subseteq objects[v]
=============================================================================
