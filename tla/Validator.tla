------------------------------- MODULE Validator -------------------------------
(***************************************************************************)
(* A validator between consensus and execution: the consensus handler      *)
(* gives the shared inputs of every sequenced certificate their versions   *)
(* and schedules it, clients bring certificates that need no consensus,    *)
(* the checkpoint executor brings certificates that other validators have  *)
(* executed, and the process may crash at any moment.                      *)
(***************************************************************************)
EXTENDS TransactionManager, Sequences

CONSTANTS
    Logs,           \* outputs of consensus: sequences of commits
    InitialVersion, \* of each shared object, as recorded in the certificates
    MaxRequests,    \* bound on enqueues by clients and the checkpoint executor
    MaxCrashes

SharedObject == UNION {Shared[t] : t \in Tx}
NoVersions == [o \in {} |-> 0]

(* The versions of objects in a store, or from the certificate if no       *)
(* version was written yet.                                                *)
get_or_init_next_object_versions(keys, objects) ==
    [o \in objects |-> LET there == Versions(keys, o)
                       IN  IF there = {} THEN InitialVersion[o] ELSE Max(there)]

(* The next versions after certificate t. *)
record_shared_object_cert(next, t) ==
    [s \in DOMAIN next |->
        IF s \in Mutable[t] THEN lamport_increment(InputKeys(t, next)) ELSE next[s]]

Assign(t, versions, table) ==
    [u \in DOMAIN table \cup {t} |-> IF u = t THEN versions ELSE table[u]]

(* One certificate of a commit; acc holds the tables as they are changed. *)
process_consensus_transaction(acc, t) ==
    IF t \in acc.processed THEN acc
    ELSE [next |-> record_shared_object_cert(acc.next, t),
          assigned |-> Assign(t, [s \in Shared[t] |-> acc.next[s]], acc.assigned),
          processed |-> acc.processed \cup {t}]

(* The certificates of a commit in their order. *)
process_consensus_transactions(tables, txs) ==
    LET after[n \in 0 .. Len(txs)] ==
            IF n = 0 THEN tables
            ELSE process_consensus_transaction(after[n - 1], txs[n])
    IN  after[Len(txs)]

(* The tables after each commit of a log, on a validator that starts with  *)
(* Genesis in its store and takes no versions from effects.                *)
AgreedTables(l) ==
    LET after[n \in 0 .. Len(l)] ==
            IF n = 0
            THEN [next |-> get_or_init_next_object_versions(Genesis, SharedObject),
                  assigned |-> NoVersions, processed |-> {}]
            ELSE process_consensus_transactions(after[n - 1], l[n])
    IN  after

AgreedVersions(l) == AgreedTables(l)[Len(l)].assigned

SequencedIn(l) == UNION {Range(l[n]) : n \in DOMAIN l}

(* What may be executed in an epoch, and the version that it writes. *)
Executable(l) == {t \in Tx : Shared[t] = {} \/ t \in SequencedIn(l)}
Written(l, t) == lamport_increment(InputKeys(t, AgreedVersions(l)[t]))

(* Certificates and logs are those of one epoch: no object is both owned   *)
(* and shared; the versions of an owned object that certificates name are  *)
(* the one of Genesis or of its creation and those that certificates of    *)
(* earlier ones leave, as the locks on owned objects make them; a shared   *)
(* object is created once, with the initial version that certificates      *)
(* give for it.                                                            *)
ASSUME ValidatorAssumption ==
    /\ Logs \subseteq Seq(Seq(Tx))
    /\ InitialVersion \in [SharedObject -> Nat]
    /\ \A t \in Tx : Objects(Owned[t]) \cap SharedObject = {}
    /\ \A t \in Tx : \A k \in Owned[t], g \in Genesis :
            Object(g) = Object(k) => Version(g) <= Version(k)
    /\ \A l \in Logs : \A u \in Executable(l) :
        /\ \A s \in Created[u] \cap SharedObject :
                Versions(Genesis, s) = {} /\ Written(l, u) = InitialVersion[s]
        /\ \A t \in Executable(l) : \A k \in Owned[t] :
            /\ Object(k) \in Created[u] => Written(l, u) <= Version(k)
            /\ \A j \in Owned[u] : Object(j) = Object(k) /\ Version(j) < Version(k)
                    => Written(l, u) <= Version(k)

VARIABLES
    log,            \* what consensus outputs
    next_shared_object_versions, consensus_message_processed,
    last_committed_round,               \* on disk
    scheduled,      \* commits on their way to the TransactionManager
    requests, crashes

epoch_tables == <<next_shared_object_versions, consensus_message_processed,
                  last_committed_round>>
manager == <<disk, index, caches, enqueues, driver, disordered>>
vars == <<manager, log, epoch_tables, scheduled, requests, crashes>>

Init ==
    /\ store = Genesis /\ executed = {} /\ pending_execution = {}
    /\ assigned = NoVersions
    /\ missing_inputs = {} /\ input_objects = {}
    /\ pending_certificates = NoVersions /\ executing_certificates = {}
    /\ cache = NoVersions /\ unbounded_cache_enabled = 0
    /\ enqueues = {} /\ ready = {} /\ committed = {} /\ notified = {}
    /\ disordered = {}
    /\ log \in Logs
    /\ next_shared_object_versions = NoVersions
    /\ consensus_message_processed = {} /\ last_committed_round = 0
    /\ scheduled = <<>> /\ requests = 0 /\ crashes = 0

-----------------------------------------------------------------------------
(* The first use of an object in the epoch takes its version from the      *)
(* store, or from the certificate if no version was written yet.           *)
Initialised(objects) ==
    [o \in DOMAIN next_shared_object_versions \cup objects |->
        IF o \in DOMAIN next_shared_object_versions THEN next_shared_object_versions[o]
        ELSE get_or_init_next_object_versions(store, objects)[o]]

(* The versions that every validator assigns, and that the effects in the  *)
(* checkpoints therefore carry.                                            *)
Agreed == AgreedVersions(log)
Sequenced == SequencedIn(log)

-----------------------------------------------------------------------------
(* A commit: next versions are initialised in a transaction of their own,  *)
(* everything else is one batch, then the certificates are scheduled.      *)
Commit == log[last_committed_round + 1]
SharedOf(txs) == UNION {Shared[t] : t \in txs}

PrepareCommit ==
    /\ last_committed_round < Len(log)
    /\ ~ SharedOf(Range(Commit)) \subseteq DOMAIN next_shared_object_versions
    /\ next_shared_object_versions' = Initialised(SharedOf(Range(Commit)))
    /\ UNCHANGED <<manager, log, consensus_message_processed, last_committed_round,
                   scheduled, requests, crashes>>

handle_consensus_output ==
    LET new == Range(Commit) \ consensus_message_processed
        tables == process_consensus_transactions(
                    [next |-> next_shared_object_versions, assigned |-> assigned,
                     processed |-> consensus_message_processed], Commit)
    IN  /\ last_committed_round < Len(log)
        /\ SharedOf(Range(Commit)) \subseteq DOMAIN next_shared_object_versions
        /\ next_shared_object_versions' = tables.next
        /\ assigned' = tables.assigned
        /\ consensus_message_processed' = tables.processed
        /\ pending_execution' = pending_execution \cup new
        /\ last_committed_round' = last_committed_round + 1
        /\ scheduled' = Append(scheduled, new)
        /\ UNCHANGED <<store, executed, index, caches, enqueues, driver, disordered, log,
                       requests, crashes>>

Enqueuing(from) == \E e \in enqueues : e.from = from

schedule ==
    /\ scheduled # <<>> /\ ~ Enqueuing("scheduler")
    /\ Begin("scheduler", Head(scheduled))
    /\ scheduled' = Tail(scheduled)
    /\ UNCHANGED <<log, epoch_tables, requests, crashes>>

(* A certificate without shared inputs is enqueued as soon as it arrives. *)
execute_certificate(t) ==
    /\ requests < MaxRequests /\ ~ Enqueuing("client")
    /\ Shared[t] = {} /\ t \notin executed
    /\ Begin("client", {t})
    /\ requests' = requests + 1
    /\ UNCHANGED <<log, epoch_tables, scheduled, crashes>>

(* Fault: the versions in the effects are taken without a look at the next *)
(* versions.                                                               *)
AcquireOnly(t) ==
    /\ UNCHANGED next_shared_object_versions
    /\ assigned' = IF Shared[t] = {} THEN assigned ELSE Assign(t, Agreed[t], assigned)

acquire_shared_locks_from_effects(t) ==
    /\ next_shared_object_versions' = Initialised(Shared[t])
    /\ assigned' = IF Shared[t] = {} THEN assigned ELSE Assign(t, Agreed[t], assigned)

(* The checkpoint executor takes the locks for a certificate of a synced   *)
(* checkpoint; it enqueues it after that.                                  *)
AcquireSynced(t) ==
    /\ requests < MaxRequests
    /\ t \in Sequenced \ executed /\ Shared[t] # {} /\ t \notin DOMAIN assigned
    /\ acquire_shared_locks_from_effects(t)
    /\ requests' = requests + 1
    /\ UNCHANGED <<store, executed, pending_execution, index, caches, enqueues, driver,
                   disordered, log, consensus_message_processed, last_committed_round,
                   scheduled, crashes>>

EnqueueSynced(t) ==
    /\ requests < MaxRequests /\ ~ Enqueuing("sync")
    /\ t \in Sequenced \ executed
    /\ Shared[t] # {} => t \in DOMAIN assigned
    /\ Begin("sync", {t})
    /\ requests' = requests + 1
    /\ UNCHANGED <<log, epoch_tables, scheduled, crashes>>

CrashAndRestart ==
    /\ crashes < MaxCrashes
    /\ Restart
    /\ scheduled' = <<>>
    /\ crashes' = crashes + 1
    /\ UNCHANGED <<log, epoch_tables, requests>>

-----------------------------------------------------------------------------
others == <<log, epoch_tables, scheduled, requests, crashes>>

CheckStore == \E e \in enqueues : multi_input_objects_available(e) /\ UNCHANGED others
FinishEnqueue == \E e \in enqueues : Finish(e) /\ UNCHANGED others
ExecuteReady == \E t \in ready : Execute(t) /\ UNCHANGED others
Notify == \E t \in committed : notify_commit(t) /\ UNCHANGED others
Forget == \E t \in notified : remove_pending_execution(t) /\ UNCHANGED others

(* The tasks of the validator. *)
NodeStep ==
    \/ PrepareCommit \/ handle_consensus_output \/ schedule
    \/ CheckStore \/ FinishEnqueue \/ ExecuteReady \/ Notify \/ Forget

Next ==
    \/ NodeStep
    \/ \E t \in Tx : execute_certificate(t) \/ AcquireSynced(t) \/ EnqueueSynced(t)
    \/ CrashAndRestart

(* The node does not stop while one of its tasks can run; nobody is bound  *)
(* to send a certificate, to sync or to crash.                             *)
Fairness == WF_vars(NodeStep)

Spec == Init /\ [][Next]_vars /\ Fairness

-----------------------------------------------------------------------------
(* A transaction sent to the execution driver finds all its inputs in the  *)
(* store: the driver would otherwise fail ten times and panic              *)
(* (execution_driver.rs, EXECUTION_MAX_ATTEMPTS).                          *)
ReleasedHaveInputs == \A t \in ready : Keys(t) \subseteq store

(* The three indexes of waiting transactions agree, so that the assertions *)
(* of find_ready_transactions hold when an input becomes available, and    *)
(* what executes or waits is enqueued once.                                *)
IndexesAgree ==
    /\ missing_inputs = UNION {pending_certificates[t] \X {t} :
                                    t \in DOMAIN pending_certificates}
    /\ input_objects = {<<Object(p[1]), p[2]>> : p \in missing_inputs}
    /\ DOMAIN pending_certificates \cap executing_certificates = {}
    /\ executing_certificates = ready \cup committed
    /\ unbounded_cache_enabled = Cardinality(enqueues)

(* Nobody waits for an input that is there, unless its notification is     *)
(* still to come or versions of the object were notified out of order:     *)
(* the look into the cache that ends enqueue_impl sees every notification  *)
(* since the first one.                                                    *)
NoLostWakeup ==
    \A t \in DOMAIN pending_certificates : \A k \in pending_certificates[t] :
        \/ k \notin store
        \/ \E u \in committed : k \in Outputs(u)
        \/ Object(k) \in disordered

(* The comment of is_object_available: an answer from the cache is         *)
(* definitive, so what waits for an input waits for one that is not there  *)
(* or is about to be notified.                                             *)
CacheIsDefinitive ==
    \A t \in DOMAIN pending_certificates : \A k \in pending_certificates[t] :
        k \in store => \E u \in committed : k \in Outputs(u)

(* Whatever crashes, repetitions and synced checkpoints come in between,   *)
(* the shared inputs of a certificate get the versions that its place in   *)
(* the log gives them on every validator                                   *)
(* (record_shared_object_cert_from_consensus).                             *)
AssignedFollowsLog == assigned = Restrict(Agreed, DOMAIN assigned)

(* What was executed neither waits nor is released again, although a       *)
(* certificate comes from consensus, from clients, from checkpoints and    *)
(* from the table of pending ones, and executes while an enqueue of the    *)
(* same is between its locks (the second is_tx_already_executed of         *)
(* enqueue_impl).  It would wait for inputs that it has consumed itself.   *)
ReleasedOnce == executed \cap (DOMAIN pending_certificates \cup ready) = {}

(* No certificate of a commit gets lost: until it is executed it is in the *)
(* table that a restart reads, and in the channel of the scheduler, in an  *)
(* enqueue, or in one of the two places where the TransactionManager keeps *)
(* what is enqueued (transaction_manager.rs:242), whatever enqueues of the *)
(* same certificate, late clean-ups of the table and crashes come between. *)
NothingDropped ==
    \A t \in consensus_message_processed \ executed :
        /\ t \in pending_execution
        /\ \/ \E n \in DOMAIN scheduled : t \in scheduled[n]
           \/ \E e \in enqueues : t \in e.certs
           \/ t \in DOMAIN pending_certificates \cup executing_certificates

(* A node without work has executed every certificate of a commit whose    *)
(* inputs are there, unless versions were notified out of order: none is   *)
(* left between the indexes of the TransactionManager, whatever became     *)
(* available between the two locks of an enqueue and whatever crashed.     *)
IdleIsDone ==
    scheduled = <<>> /\ enqueues = {} /\ ready = {} /\ committed = {} =>
        \A t \in consensus_message_processed \ executed :
            Keys(t) \subseteq store => \E k \in Keys(t) : Object(k) \in disordered

(* Every sequenced certificate is executed in the end: none is lost        *)
(* between the batch of a commit, the scheduler, the TransactionManager    *)
(* and a crash, as long as no version is notified out of order.            *)
SequencedIsExecuted ==
    []<>(consensus_message_processed \subseteq executed \/ disordered # {})
=============================================================================
