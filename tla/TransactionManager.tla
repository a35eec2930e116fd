-------------------------- MODULE TransactionManager --------------------------
(***************************************************************************)
(* How a validator releases certified transactions for execution: the      *)
(* TransactionManager, which holds a transaction back until the versions   *)
(* of its inputs are there, and the execution driver.                      *)
(*                                                                         *)
(* An enqueue takes its lock twice and looks into the database in between, *)
(* while executions commit and notify on other threads.  A cache of the    *)
(* highest version known of an object saves lookups; it is bounded, but    *)
(* not while an enqueue is between its two locks.                          *)
(***************************************************************************)
EXTENDS Naturals, FiniteSets, Functions, FiniteSetsExt

CONSTANTS
    Tx,             \* certificates
    Owned,          \* of each, the <<object, version>> pairs it names
    Shared,         \* of each, the shared objects it uses
    Mutable,        \* of each, the shared objects it may change
    Created,        \* of each, the objects it creates
    Genesis,        \* the <<object, version>> pairs in the store at the start
    CacheSize       \* bound on the cache (max_size)

ASSUME ManagerAssumption ==
    /\ \A t \in Tx : Mutable[t] \subseteq Shared[t] /\ Owned[t] # {}
    /\ \A t \in Tx : IsFiniteSet(Owned[t]) /\ IsFiniteSet(Shared[t])
    /\ \A t \in Tx : \A k \in Owned[t] : k \in {k[1]} \X Nat
    /\ \A t \in Tx : \A j \in Owned[t], k \in Owned[t] : j[1] = k[1] => j = k
    /\ IsFiniteSet(Genesis) /\ \A k \in Genesis : k \in {k[1]} \X Nat
    /\ CacheSize \in Nat \ {0}

VARIABLES
    \* on disk
    store,          \* versions of objects that are there
    executed,       \* transactions with effects
    pending_execution,  \* certificates to enqueue after a restart
    assigned,       \* versions of the shared inputs, by transaction
    \* in memory
    missing_inputs, \* <<key, transaction>>: the transaction waits for the key
    input_objects,  \* <<object, transaction>>: it waits for the object
    pending_certificates,   \* keys that each pending transaction waits for
    executing_certificates,
    cache, unbounded_cache_enabled,
    enqueues,       \* enqueues in progress
    ready,          \* sent to the execution driver
    committed,      \* executed, TransactionManager not yet notified
    notified,       \* notified, still in pending_execution
    disordered      \* history: objects with a version notified after a later one

disk == <<store, executed, pending_execution, assigned>>
index == <<missing_inputs, input_objects, pending_certificates, executing_certificates>>
caches == <<cache, unbounded_cache_enabled>>
driver == <<ready, committed, notified>>

Object(k) == k[1]
Version(k) == k[2]
Objects(keys) == {Object(k) : k \in keys}

(* What a certificate reads when its shared inputs have these versions. *)
InputKeys(t, versions) == Owned[t] \cup {<<s, versions[s]>> : s \in Shared[t]}

(* get_input_object_keys: the shared versions were assigned before. *)
Keys(t) == InputKeys(t, assigned[t])

lamport_increment(keys) == 1 + Max({Version(k) : k \in keys})

Outputs(t) ==
    {<<o, lamport_increment(Keys(t))>> : o \in Objects(Owned[t]) \cup Mutable[t] \cup Created[t]}

-----------------------------------------------------------------------------
(* The cache.  The order of use is left open: any entry may be dropped but *)
(* those inserted last.  An entry that goes while others are inserted does *)
(* not count for the version inserted after.                               *)

Versions(keys, o) == {Version(k) : k \in {l \in keys : Object(l) = o}}
Cached(o) == IF o \in DOMAIN cache THEN {cache[o]} ELSE {}

(* Fault: an entry for the object is taken for any version of it. *)
CachedAnyVersion(k) == Object(k) \in DOMAIN cache

is_object_available(k) == \E v \in Cached(Object(k)) : v >= Version(k)

Insert(keys) ==
    LET known == DOMAIN cache \cup Objects(keys)
        highest == [o \in known |-> Max(Cached(o) \cup Versions(keys, o))]
    IN  IF unbounded_cache_enabled > 0 \/ Cardinality(known) <= CacheSize
        THEN cache' = highest
        ELSE \E kept \in kSubset(CacheSize, known), lowered \in SUBSET Objects(keys) :
                /\ kept \cap Objects(keys) # {}
                /\ cache' = [o \in kept |->
                        IF o \in lowered THEN Max(Versions(keys, o)) ELSE highest[o]]

-----------------------------------------------------------------------------
(* Fault: the cache stays bounded during an enqueue. *)
LeaveBounded == 0

enable_unbounded_cache == unbounded_cache_enabled + 1

(* enqueue_impl up to the first release of the lock. *)
Begin(from, txs) ==
    LET certs == txs \ executed
        keys == UNION {Keys(t) : t \in certs}
    IN  /\ pending_execution' = pending_execution \ (txs \cap executed)
        /\ enqueues' = enqueues \cup
                {[from |-> from, certs |-> certs, checked |-> FALSE,
                  available |-> {k \in keys : is_object_available(k)},
                  misses |-> {k \in keys : Object(k) \notin DOMAIN cache}]}
        /\ unbounded_cache_enabled' = enable_unbounded_cache
        /\ UNCHANGED <<store, executed, assigned, index, cache, driver, disordered>>

(* The database is asked about the keys that the cache knows nothing of. *)
multi_input_objects_available(e) ==
    /\ ~ e.checked
    /\ enqueues' = (enqueues \ {e}) \cup
            {[from |-> e.from, certs |-> e.certs, checked |-> TRUE,
              available |-> e.available \cup (e.misses \cap store), misses |-> {}]}
    /\ UNCHANGED <<disk, index, caches, driver, disordered>>

(* Fault: whether a certificate was executed is asked only before the lock. *)
KnownToLock == DOMAIN pending_certificates \cup executing_certificates

AlreadyEnqueued == DOMAIN pending_certificates \cup executing_certificates \cup executed

(* certs that are neither pending nor executing nor executed start to wait *)
(* or are ready.                                                           *)
Admit(certs, available) ==
    LET fresh == certs \ AlreadyEnqueued
        waiting == [t \in fresh |-> Keys(t) \ available]
        waiters == {t \in fresh : waiting[t] # {}}
        pairs == UNION {waiting[t] \X {t} : t \in fresh}
    IN  /\ missing_inputs' = missing_inputs \cup pairs
        /\ input_objects' = input_objects \cup {<<Object(p[1]), p[2]>> : p \in pairs}
        /\ pending_certificates' = [t \in DOMAIN pending_certificates \cup waiters |->
                IF t \in waiters THEN waiting[t] ELSE pending_certificates[t]]
        /\ executing_certificates' = executing_certificates \cup (fresh \ waiters)
        /\ ready' = ready \cup (fresh \ waiters)

(* Fault: what was notified since the store was asked is not looked up. *)
NoRecheck(e) == {}

RecheckCache(e) == {k \in UNION {Keys(t) : t \in e.certs} : is_object_available(k)}

(* The second part, under the lock, with another look into the cache. *)
Finish(e) ==
    /\ e.checked
    /\ unbounded_cache_enabled' = unbounded_cache_enabled - 1
    /\ enqueues' = enqueues \ {e}
    /\ Admit(e.certs, e.available \cup RecheckCache(e))
    /\ pending_execution' = pending_execution \
            ((e.certs \cap executed)
                \ (DOMAIN pending_certificates \cup executing_certificates))
    /\ UNCHANGED <<store, executed, assigned, cache, committed, notified, disordered>>

-----------------------------------------------------------------------------
(* The driver executes; the outputs are written in one batch. *)
Execute(t) ==
    /\ t \in ready
    /\ Keys(t) \subseteq store
    /\ ready' = ready \ {t}
    /\ store' = store \cup Outputs(t)
    /\ executed' = executed \cup {t}
    /\ committed' = committed \cup {t}
    /\ UNCHANGED <<pending_execution, assigned, index, caches, enqueues, notified,
                   disordered>>

(* Fault: the queue of a hot object is not shortened. *)
LeaveObjects(gone) == input_objects

RemoveObjects(gone) == input_objects \ {<<Object(p[1]), p[2]>> : p \in gone}

(* notify_commit with find_ready_transactions for every output. *)
notify_commit(t) ==
    LET keys == Outputs(t)
        gone == {p \in missing_inputs : p[1] \in keys}
        left == [u \in DOMAIN pending_certificates |->
                    pending_certificates[u] \ {p[1] : p \in {q \in gone : q[2] = u}}]
        released == {u \in DOMAIN left : left[u] = {}}
    IN  /\ t \in committed
        /\ Insert(keys)
        /\ missing_inputs' = missing_inputs \ gone
        /\ input_objects' = RemoveObjects(gone)
        /\ pending_certificates' = Restrict(left, DOMAIN left \ released)
        /\ executing_certificates' = (executing_certificates \cup released) \ {t}
        /\ ready' = ready \cup released
        /\ committed' = committed \ {t}
        /\ notified' = notified \cup {t}
        /\ disordered' = disordered \cup
                {o \in Objects(keys) : \E k \in store : /\ Object(k) = o
                    /\ Version(k) > lamport_increment(Keys(t))
                    /\ \A u \in committed : k \notin Outputs(u)}
        /\ UNCHANGED <<store, executed, pending_execution, assigned, enqueues,
                       unbounded_cache_enabled>>

remove_pending_execution(t) ==
    /\ t \in notified
    /\ notified' = notified \ {t}
    /\ pending_execution' = pending_execution \ {t}
    /\ UNCHANGED <<store, executed, assigned, index, caches, enqueues, ready, committed,
                   disordered>>

(* Fault: nothing is kept for a restart. *)
ForgetPending == {}

all_pending_execution == pending_execution

(* A crash, and TransactionManager::new with all_pending_execution before  *)
(* anything else runs.                                                     *)
Restart ==
    LET certs == all_pending_execution \ executed
        waiting == [t \in certs |-> Keys(t) \ store]
        waiters == {t \in certs : waiting[t] # {}}
        pairs == UNION {waiting[t] \X {t} : t \in certs}
    IN  /\ pending_execution' = certs
        /\ missing_inputs' = pairs
        /\ input_objects' = {<<Object(p[1]), p[2]>> : p \in pairs}
        /\ pending_certificates' = Restrict(waiting, waiters)
        /\ executing_certificates' = certs \ waiters
        /\ ready' = certs \ waiters
        /\ cache' = [o \in {} |-> 0] /\ unbounded_cache_enabled' = 0
        /\ enqueues' = {} /\ committed' = {} /\ notified' = {}
        /\ disordered' = {}
        /\ UNCHANGED <<store, executed, assigned>>
=============================================================================
