---------------------------- MODULE ManagerProofs ----------------------------
(***************************************************************************)
(* The TransactionManager releases a certificate exactly when its inputs   *)
(* are there, drops none and releases none twice, for all certificates,    *)
(* logs, bounds of the cache, requests and crashes.                        *)
(***************************************************************************)
EXTENDS ValidatorProofs

(* As many enqueues are between their locks as the cache knows of. *)
CountInv ==
    /\ IsFiniteSet(enqueues) /\ unbounded_cache_enabled = Cardinality(enqueues)
    /\ \A e \in enqueues, f \in enqueues : e.from = f.from => e = f

Waits(pending) == UNION {pending[t] \X {t} : t \in DOMAIN pending}
ObjectsOf(pairs) == {<<Object(p[1]), p[2]>> : p \in pairs}

(* The indexes, and why they go on to agree: no certificate waits for two  *)
(* versions of one object.                                                 *)
IndexInv ==
    /\ missing_inputs = Waits(pending_certificates)
    /\ input_objects = ObjectsOf(missing_inputs)
    /\ DOMAIN pending_certificates \cap executing_certificates = {}
    /\ executing_certificates = ready \cup committed
    /\ ready \cap committed = {}
    /\ \A t \in DOMAIN pending_certificates :
            \A j \in pending_certificates[t], k \in pending_certificates[t] :
                Object(j) = Object(k) => j = k

Announced(k) == \E u \in committed : k \in Outputs(u)

(* The cache holds versions that are there, and the highest ones but for   *)
(* those still to be announced.                                            *)
CacheInv ==
    \A o \in DOMAIN cache :
        /\ <<o, cache[o]>> \in store
        /\ o \notin disordered =>
            \A k \in store : Object(k) = o => Version(k) <= cache[o] \/ Announced(k)

(* What an enqueue between its two locks knows of each input: it is        *)
(* available, or the cache will tell, or the store is yet to be asked, or  *)
(* was asked and the input was not there or not yet announced.             *)
EnqueueInv ==
    \A e \in enqueues :
        /\ e.available \subseteq store /\ e.checked \in BOOLEAN
        /\ \A t \in e.certs : \A k \in Keys(t) :
            \/ k \in e.available
            \/ Object(k) \in DOMAIN cache
            \/ ~ e.checked /\ k \in e.misses
            \/ e.checked /\ (k \notin store \/ Announced(k))

(* What waits lacks only what it waits for. *)
WaitInv ==
    /\ ReleasedHaveInputs
    /\ \A t \in DOMAIN pending_certificates : Keys(t) \ pending_certificates[t] \subseteq store
    /\ NoLostWakeup

-----------------------------------------------------------------------------
(* The start of an enqueue is counted. *)
LEMMA CountBegin ==
    ASSUME CountInv, NEW from, NEW txs, Begin(from, txs), ~ Enqueuing(from)
    PROVE  CountInv'
<1>1. PICK e : e.from = from /\ enqueues' = enqueues \cup {e}
  <2> DEFINE keys == UNION {Keys(t) : t \in txs \ executed}
             new == [from |-> from, certs |-> txs \ executed, checked |-> FALSE,
                     available |-> {k \in keys : is_object_available(k)},
                     misses |-> {k \in keys : Object(k) \notin DOMAIN cache}]
  <2>1. enqueues' = enqueues \cup {new}
    BY Zenon DEF Begin
  <2>2. new.from = from
    BY Zenon
  <2> HIDE DEF new
  <2> QED BY <2>1, <2>2, Zenon
<1>2. e \notin enqueues /\ \A f \in enqueues : f.from # e.from
  BY <1>1, Zenon DEF Enqueuing
<1>3. unbounded_cache_enabled' = unbounded_cache_enabled + 1
  BY Zenon DEF Begin, enable_unbounded_cache
<1>4. IsFiniteSet(enqueues') /\ Cardinality(enqueues') = Cardinality(enqueues) + 1
  BY <1>1, <1>2, FS_AddElement, Zenon DEF CountInv
<1> QED BY <1>1, <1>2, <1>3, <1>4, Zenon DEF CountInv

(* CountInv is kept. *)
LEMMA CountNext ==
    ASSUME CountInv, [Next]_vars
    PROVE  CountInv'
<1> USE DEF others, manager, caches
<1>1. ASSUME UNCHANGED <<enqueues, unbounded_cache_enabled>> PROVE CountInv'
  BY <1>1, Zenon DEF CountInv
<1>2. CASE PrepareCommit
  BY <1>1, <1>2, Zenon DEF PrepareCommit
<1>3. CASE handle_consensus_output
  BY <1>1, <1>3, Zenon DEF handle_consensus_output
<1>4. CASE schedule
  BY <1>4, CountBegin, Zenon DEF schedule
<1>5. CASE \E t \in Tx : execute_certificate(t)
  BY <1>5, CountBegin, Zenon DEF execute_certificate
<1>6. CASE \E t \in Tx : EnqueueSynced(t)
  BY <1>6, CountBegin, Zenon DEF EnqueueSynced
<1>7. CASE \E t \in Tx : AcquireSynced(t)
  BY <1>1, <1>7, Zenon DEF AcquireSynced
<1>8. CASE CheckStore
  <2>1. PICK e \in enqueues : multi_input_objects_available(e)
    BY <1>8, Zenon DEF CheckStore
  <2>2. PICK f : f.from = e.from /\ enqueues' = (enqueues \ {e}) \cup {f}
    <3> DEFINE new == [from |-> e.from, certs |-> e.certs, checked |-> TRUE,
                       available |-> e.available \cup (e.misses \cap store),
                       misses |-> {}]
    <3>1. enqueues' = (enqueues \ {e}) \cup {new}
      BY <2>1, Zenon DEF multi_input_objects_available
    <3>2. new.from = e.from
      BY Zenon
    <3> HIDE DEF new
    <3> QED BY <3>1, <3>2, Zenon
  <2>3. unbounded_cache_enabled' = unbounded_cache_enabled
    BY <2>1, Zenon DEF multi_input_objects_available
  <2>4. \A g \in enqueues \ {e} : g.from # f.from
    BY <2>2, Zenon DEF CountInv
  <2>5. f \notin enqueues \ {e}
    BY <2>4, Zenon
  <2>6. /\ IsFiniteSet(enqueues \ {e})
        /\ Cardinality(enqueues \ {e}) = Cardinality(enqueues) - 1
        /\ Cardinality(enqueues) \in Nat
    BY FS_RemoveElement, FS_CardinalityType, Zenon DEF CountInv
  <2>7. PICK R : R = enqueues \ {e}
    BY Zenon
  <2>8. IsFiniteSet(R \cup {f}) /\ Cardinality(R \cup {f}) = Cardinality(R) + 1
    BY <2>5, <2>6, <2>7, FS_AddElement, Zenon
  <2>9. enqueues' = R \cup {f}
    BY <2>2, <2>7, Zenon
  <2>10. Cardinality(R) = Cardinality(enqueues) - 1
    BY <2>6, <2>7, Zenon
  <2>11. IsFiniteSet(enqueues') /\ Cardinality(enqueues') = Cardinality(R) + 1
    BY <2>8, <2>9, Zenon
  <2>12. Cardinality(enqueues') = Cardinality(enqueues)
    BY <2>6, <2>10, <2>11
  <2> QED BY <2>2, <2>3, <2>4, <2>11, <2>12, Zenon DEF CountInv
<1>9. CASE FinishEnqueue
  <2>1. PICK e \in enqueues : Finish(e)
    BY <1>9, Zenon DEF FinishEnqueue
  <2>2. /\ enqueues' = enqueues \ {e}
        /\ unbounded_cache_enabled' = unbounded_cache_enabled - 1
    BY <2>1, Zenon DEF Finish
  <2>3. IsFiniteSet(enqueues') /\ Cardinality(enqueues') = Cardinality(enqueues) - 1
    BY <2>2, FS_RemoveElement, Zenon DEF CountInv
  <2> QED BY <2>2, <2>3, Zenon DEF CountInv
<1>10. CASE ExecuteReady
  BY <1>1, <1>10, Zenon DEF ExecuteReady, Execute
<1>11. CASE Notify
  BY <1>1, <1>11, Zenon DEF Notify, notify_commit
<1>12. CASE Forget
  BY <1>1, <1>12, Zenon DEF Forget, remove_pending_execution
<1>13. CASE CrashAndRestart
  BY <1>13, FS_EmptySet, Zenon DEF CrashAndRestart, Restart, CountInv
<1>14. CASE UNCHANGED vars
  BY <1>1, <1>14, Zenon DEF vars
<1> QED BY <1>2, <1>3, <1>4, <1>5, <1>6, <1>7, <1>8, <1>9, <1>10, <1>11, <1>12, <1>13,
           <1>14, Zenon DEF Next, NodeStep

(* The second part of an enqueue enters all its certificates alike. *)
LEMMA IndexAdmit ==
    ASSUME AssignInv, IndexInv, NEW certs \in SUBSET KnownTx, NEW available,
           Admit(certs, available), committed' = committed
    PROVE  IndexInv'
<1> DEFINE fresh == certs \ (DOMAIN pending_certificates \cup executing_certificates
                                \cup executed)
           waiting == [t \in fresh |-> Keys(t) \ available]
           waiters == {t \in fresh : waiting[t] # {}}
           pairs == UNION {waiting[t] \X {t} : t \in fresh}
           P == DOMAIN pending_certificates
<1>1. /\ missing_inputs' = missing_inputs \cup pairs
      /\ input_objects' = input_objects \cup ObjectsOf(pairs)
      /\ pending_certificates' = [t \in P \cup waiters |->
                IF t \in waiters THEN waiting[t] ELSE pending_certificates[t]]
      /\ executing_certificates' = executing_certificates \cup (fresh \ waiters)
      /\ ready' = ready \cup (fresh \ waiters)
  BY Zenon DEF Admit, AlreadyEnqueued, ObjectsOf
<1>2. /\ fresh \subseteq certs /\ fresh \cap P = {} /\ fresh \cap executing_certificates = {}
      /\ waiters \subseteq fresh
  BY Zenon
<1>3. \A t \in fresh : waiting[t] = Keys(t) \ available
  BY Zenon
<1>4. \A t \in fresh \ waiters : waiting[t] = {}
  BY Zenon
<1>5. ASSUME NEW p PROVE p \in pairs <=> \E t \in fresh : p \in waiting[t] \X {t}
  <2> HIDE DEF fresh, waiting
  <2> QED BY Zenon
<1> HIDE DEF fresh, waiting, waiters, pairs
<1>6. /\ DOMAIN (pending_certificates') = P \cup waiters
      /\ \A t \in waiters : pending_certificates'[t] = waiting[t]
      /\ \A t \in P : pending_certificates'[t] = pending_certificates[t]
  BY <1>1, <1>2, Zenon
<1>7. missing_inputs' = Waits(pending_certificates)'
  <2>1. ASSUME NEW p \in missing_inputs' PROVE p \in Waits(pending_certificates)'
    <3>1. CASE p \in missing_inputs
      <4>1. PICK t \in P : p \in pending_certificates[t] \X {t}
        BY <3>1, Zenon DEF IndexInv, Waits
      <4> QED BY <1>6, <4>1, Zenon DEF Waits
    <3>2. CASE p \in pairs
      <4>1. PICK t \in fresh : p \in waiting[t] \X {t}
        BY <1>5, <3>2, Zenon
      <4>2. t \in waiters
        BY <1>4, <4>1, Zenon
      <4> QED BY <1>6, <4>1, <4>2, Zenon DEF Waits
    <3> QED BY <1>1, <3>1, <3>2, Zenon
  <2>2. ASSUME NEW p \in Waits(pending_certificates)' PROVE p \in missing_inputs'
    <3>1. PICK t \in P \cup waiters : p \in pending_certificates'[t] \X {t}
      BY <1>6, Zenon DEF Waits
    <3>2. CASE t \in waiters
      <4>1. p \in pairs
        BY <1>2, <1>5, <1>6, <3>1, <3>2, Zenon
      <4> QED BY <1>1, <4>1, Zenon
    <3>3. CASE t \in P
      <4>1. p \in missing_inputs
        BY <1>6, <3>1, <3>3, Zenon DEF IndexInv, Waits
      <4> QED BY <1>1, <4>1, Zenon
    <3> QED BY <3>2, <3>3, Zenon
  <2> QED BY <2>1, <2>2, Zenon
<1>8. input_objects' = ObjectsOf(missing_inputs)'
  <2>1. input_objects = ObjectsOf(missing_inputs)
    BY Zenon DEF IndexInv
  <2> QED BY <1>1, <2>1, Zenon DEF ObjectsOf
<1>9. /\ DOMAIN (pending_certificates') \cap executing_certificates' = {}
      /\ executing_certificates' = ready' \cup committed'
      /\ ready' \cap committed' = {}
  BY <1>1, <1>2, <1>6, Zenon DEF IndexInv
<1>10. ASSUME NEW t \in DOMAIN (pending_certificates'),
              NEW j \in pending_certificates'[t], NEW k \in pending_certificates'[t],
              Object(j) = Object(k)
       PROVE  j = k
  <2>1. CASE t \in waiters
    <3>1. t \in KnownTx /\ j \in Keys(t) /\ k \in Keys(t)
      BY <1>2, <1>3, <1>6, <2>1, Zenon
    <3> QED BY <1>10, <3>1, KeyFacts, Zenon
  <2>2. CASE t \in P
    BY <1>6, <1>10, <2>2, Zenon DEF IndexInv
  <2> QED BY <1>6, <2>1, <2>2, Zenon
<1> QED BY <1>7, <1>8, <1>9, <1>10, Zenon DEF IndexInv, Object

(* A notification takes its outputs out of all indexes. *)
LEMMA IndexNotify ==
    ASSUME IndexInv, NEW t \in committed, notify_commit(t)
    PROVE  IndexInv'
<1> DEFINE keys == Outputs(t)
           gone == {p \in missing_inputs : p[1] \in keys}
           P == DOMAIN pending_certificates
           left == [u \in P |->
                    pending_certificates[u] \ {p[1] : p \in {q \in gone : q[2] = u}}]
           released == {u \in P : left[u] = {}}
<1>1. /\ missing_inputs' = missing_inputs \ gone
      /\ input_objects' = input_objects \ ObjectsOf(gone)
      /\ pending_certificates' = Restrict(left, DOMAIN left \ {u \in DOMAIN left : left[u] = {}})
      /\ executing_certificates' =
            (executing_certificates \cup {u \in DOMAIN left : left[u] = {}}) \ {t}
      /\ ready' = ready \cup {u \in DOMAIN left : left[u] = {}}
      /\ committed' = committed \ {t}
  BY Zenon DEF notify_commit, RemoveObjects, ObjectsOf
<1>2. DOMAIN left = P
  BY Zenon
<1>3. \A p \in missing_inputs : p \in gone <=> p[1] \in keys
  BY Zenon
<1>4. \A p : p \in missing_inputs <=>
            \E u \in P : p \in pending_certificates[u] \X {u}
  BY Zenon DEF IndexInv, Waits
<1>5. ASSUME NEW u \in P PROVE left[u] = pending_certificates[u] \ keys
  <2>1. ASSUME NEW k \in left[u] PROVE k \in pending_certificates[u] \ keys
    <3>1. k \in pending_certificates[u]
      BY Zenon
    <3>2. <<k, u>> \in missing_inputs
      BY <1>4, <3>1, Zenon
    <3>3. ASSUME k \in keys PROVE FALSE
      <4>1. <<k, u>> \in gone /\ <<k, u>>[1] = k /\ <<k, u>>[2] = u
        BY <3>2, <3>3, Zenon
      <4>2. k \in {p[1] : p \in {q \in gone : q[2] = u}}
        <5> HIDE DEF gone
        <5> QED BY <4>1, Zenon
      <4> QED BY <4>2, Zenon
    <3> QED BY <3>1, <3>3, Zenon
  <2>2. ASSUME NEW k \in pending_certificates[u] \ keys PROVE k \in left[u]
    BY <2>2, Zenon
  <2> QED BY <2>1, <2>2, Zenon
<1>6. left = [u \in P |-> left[u]]
  BY Zenon
<1> HIDE DEF gone, left, keys
<1>7. /\ DOMAIN (pending_certificates') = P \ released
      /\ \A u \in P \ released : pending_certificates'[u] = pending_certificates[u] \ keys
  BY <1>1, <1>2, <1>5, Zenon DEF Restrict
<1>8. missing_inputs' = Waits(pending_certificates)'
  <2>1. ASSUME NEW p \in missing_inputs' PROVE p \in Waits(pending_certificates)'
    <3>1. p \in missing_inputs /\ p[1] \notin keys
      BY <1>1, <1>3, Zenon
    <3>2. PICK u \in P : p \in pending_certificates[u] \X {u}
      BY <1>4, <3>1, Zenon
    <3>3. p[1] \in left[u]
      BY <1>5, <3>1, <3>2, Zenon
    <3>4. u \in P \ released
      BY <3>3, Zenon
    <3> HIDE DEF released
    <3>5. p \in pending_certificates'[u] \X {u}
      BY <1>7, <3>1, <3>2, <3>4, Zenon
    <3> QED BY <1>7, <3>4, <3>5, Zenon DEF Waits
  <2>2. ASSUME NEW p \in Waits(pending_certificates)' PROVE p \in missing_inputs'
    <3> HIDE DEF released
    <3>1. PICK u \in P \ released : p \in pending_certificates'[u] \X {u}
      BY <1>7, Zenon DEF Waits
    <3>2. p \in pending_certificates[u] \X {u} /\ p[1] \notin keys
      BY <1>7, <3>1, Zenon
    <3>3. p \in missing_inputs
      BY <1>4, <3>2, Zenon
    <3> QED BY <1>1, <1>3, <3>2, <3>3, Zenon
  <2> QED BY <2>1, <2>2, Zenon
<1>9. input_objects' = ObjectsOf(missing_inputs)'
  <2>1. input_objects = ObjectsOf(missing_inputs)
    BY Zenon DEF IndexInv
  <2>2. ASSUME NEW p \in missing_inputs, NEW q \in missing_inputs,
               <<Object(p[1]), p[2]>> = <<Object(q[1]), q[2]>>
        PROVE  p = q
    <3>1. PICK u \in P : p \in pending_certificates[u] \X {u}
      BY <1>4, Zenon
    <3>2. PICK w \in P : q \in pending_certificates[w] \X {w}
      BY <1>4, Zenon
    <3>3. u = w /\ Object(p[1]) = Object(q[1])
      BY <2>2, <3>1, <3>2, Zenon
    <3>4. p[1] = q[1]
      BY <3>1, <3>2, <3>3, Zenon DEF IndexInv
    <3> QED BY <3>1, <3>2, <3>3, <3>4, SMTT(30)
  <2>3. gone \subseteq missing_inputs
    BY Zenon DEF gone
  <2> QED BY <1>1, <2>1, <2>2, <2>3, Zenon DEF ObjectsOf
<1>10. released = {u \in DOMAIN left : left[u] = {}}
  BY <1>2, Zenon
<1>11. P \cap executing_certificates = {} /\ executing_certificates = ready \cup committed
       /\ ready \cap committed = {} /\ t \in executing_certificates /\ released \subseteq P
  BY Zenon DEF IndexInv
<1> HIDE DEF released, P
<1>12. /\ DOMAIN (pending_certificates') \cap executing_certificates' = {}
       /\ executing_certificates' = ready' \cup committed'
       /\ ready' \cap committed' = {}
  <2>1. /\ executing_certificates' = (executing_certificates \cup released) \ {t}
        /\ ready' = ready \cup released /\ committed' = committed \ {t}
    BY <1>1, <1>10, Zenon
  <2> QED BY <1>7, <1>11, <2>1, Zenon
<1>13. ASSUME NEW u \in DOMAIN (pending_certificates'),
              NEW j \in pending_certificates'[u], NEW k \in pending_certificates'[u],
              Object(j) = Object(k)
       PROVE  j = k
  BY <1>7, <1>13, SMTT(30) DEF IndexInv, P
<1> QED BY <1>8, <1>9, <1>12, <1>13, Zenon DEF IndexInv, Object

(* A restart fills the indexes from the certificates on disk. *)
LEMMA IndexRestart ==
    ASSUME AssignInv, WorkInv, Restart
    PROVE  IndexInv'
<1> DEFINE certs == pending_execution \ executed
           waiting == [t \in certs |-> Keys(t) \ store]
           waiters == {t \in certs : waiting[t] # {}}
           pairs == UNION {waiting[t] \X {t} : t \in certs}
<1>1. /\ missing_inputs' = pairs /\ input_objects' = ObjectsOf(pairs)
      /\ pending_certificates' = Restrict(waiting, waiters)
      /\ executing_certificates' = certs \ waiters
      /\ ready' = certs \ waiters /\ committed' = {}
  BY Zenon DEF Restart, all_pending_execution, ObjectsOf
<1>2. waiters \subseteq certs /\ certs \subseteq KnownTx
  BY Zenon DEF WorkInv
<1>3. /\ \A t \in certs : waiting[t] = Keys(t) \ store
      /\ \A t \in certs \ waiters : waiting[t] = {}
  BY Zenon
<1>4. \A p : p \in pairs <=> \E t \in certs : p \in waiting[t] \X {t}
  <2> HIDE DEF certs, waiting
  <2> QED BY Zenon
<1> HIDE DEF certs, waiting, waiters, pairs
<1>5. /\ DOMAIN (pending_certificates') = waiters
      /\ \A t \in waiters : pending_certificates'[t] = waiting[t]
  BY <1>1, Zenon DEF Restrict
<1>6. missing_inputs' = Waits(pending_certificates)'
  <2>1. ASSUME NEW p \in pairs PROVE p \in Waits(pending_certificates)'
    <3>1. PICK t \in certs : p \in waiting[t] \X {t}
      BY <1>4, Zenon
    <3>2. t \in waiters
      BY <1>3, <3>1, Zenon
    <3> QED BY <1>5, <3>1, <3>2, Zenon DEF Waits
  <2>2. ASSUME NEW p \in Waits(pending_certificates)' PROVE p \in pairs
    <3>1. PICK t \in waiters : p \in pending_certificates'[t] \X {t}
      BY <1>5, Zenon DEF Waits
    <3> QED BY <1>2, <1>4, <1>5, <3>1, Zenon
  <2> QED BY <1>1, <2>1, <2>2, Zenon
<1>7. input_objects' = ObjectsOf(missing_inputs)'
  BY <1>1, Zenon DEF ObjectsOf
<1>8. /\ DOMAIN (pending_certificates') \cap executing_certificates' = {}
      /\ executing_certificates' = ready' \cup committed'
      /\ ready' \cap committed' = {}
  BY <1>1, <1>5, Zenon
<1>9. ASSUME NEW t \in DOMAIN (pending_certificates'),
             NEW j \in pending_certificates'[t], NEW k \in pending_certificates'[t],
             Object(j) = Object(k)
      PROVE  j = k
  <2>1. t \in KnownTx /\ j \in Keys(t) /\ k \in Keys(t)
    BY <1>2, <1>3, <1>5, Zenon
  <2> QED BY <1>9, <2>1, KeyFacts, Zenon
<1> QED BY <1>6, <1>7, <1>8, <1>9, Zenon DEF IndexInv, Object

(* IndexInv is kept. *)
LEMMA IndexNext ==
    ASSUME Base, IndexInv, [Next]_vars
    PROVE  IndexInv'
<1> USE DEF others, manager, index, driver
<1>1. ASSUME UNCHANGED <<index, ready, committed>> PROVE IndexInv'
  BY <1>1, Zenon DEF IndexInv, Waits, ObjectsOf, Object
<1>2. CASE PrepareCommit
  BY <1>1, <1>2, Zenon DEF PrepareCommit
<1>3. CASE handle_consensus_output
  BY <1>1, <1>3, Zenon DEF handle_consensus_output
<1>4. CASE schedule
  BY <1>1, <1>4, Zenon DEF schedule, Begin
<1>5. CASE \E t \in Tx : execute_certificate(t) \/ EnqueueSynced(t)
  BY <1>1, <1>5, Zenon DEF execute_certificate, EnqueueSynced, Begin
<1>6. CASE \E t \in Tx : AcquireSynced(t)
  BY <1>1, <1>6, Zenon DEF AcquireSynced
<1>7. CASE CheckStore
  BY <1>1, <1>7, Zenon DEF CheckStore, multi_input_objects_available
<1>8. CASE FinishEnqueue
  <2>1. PICK e \in enqueues : Finish(e)
    BY <1>8, Zenon DEF FinishEnqueue
  <2>2. PICK available : Admit(e.certs, available) /\ committed' = committed
    BY <2>1, Zenon DEF Finish
  <2>3. e.certs \in SUBSET KnownTx /\ AssignInv
    BY Zenon DEF Base, WorkInv
  <2> QED BY <2>2, <2>3, IndexAdmit, Zenon
<1>9. CASE ExecuteReady
  <2>1. PICK t \in ready : Execute(t)
    BY <1>9, Zenon DEF ExecuteReady
  <2>2. /\ UNCHANGED index /\ ready' = ready \ {t} /\ committed' = committed \cup {t}
    BY <2>1, Zenon DEF Execute
  <2> QED BY <2>2, Zenon DEF IndexInv, Waits, ObjectsOf, Object
<1>10. CASE Notify
  BY <1>10, IndexNotify, Zenon DEF Notify
<1>11. CASE Forget
  BY <1>1, <1>11, Zenon DEF Forget, remove_pending_execution
<1>12. CASE CrashAndRestart
  BY <1>12, IndexRestart, Zenon DEF CrashAndRestart, Base
<1>13. CASE UNCHANGED vars
  BY <1>1, <1>13, Zenon DEF vars
<1> QED BY <1>2, <1>3, <1>4, <1>5, <1>6, <1>7, <1>8, <1>9, <1>10, <1>11, <1>12, <1>13, Zenon
        DEF Next, NodeStep

(* The indexes of waiting certificates and the count of enqueues start as  *)
(* they should be and stay so.                                             *)
LEMMA IndexAlways == Spec => [](IndexInv /\ CountInv)
<1>1. Init => IndexInv /\ CountInv
  <2> SUFFICES ASSUME Init PROVE IndexInv /\ CountInv
    BY Zenon
  <2>1. DOMAIN NoVersions = {}
    BY Zenon DEF NoVersions
  <2>2. IndexInv
    BY <2>1, Zenon DEF Init, IndexInv, Waits, ObjectsOf
  <2>3. CountInv
    BY FS_EmptySet, Zenon DEF Init, CountInv
  <2> QED BY <2>2, <2>3, Zenon
<1>2. IndexInv /\ CountInv /\ Base /\ [Next]_vars => IndexInv' /\ CountInv'
  BY IndexNext, CountNext, Zenon
<1> QED BY <1>1, <1>2, BaseAlways, PTL DEF Spec

(* The three indexes of the TransactionManager agree at all times, so that *)
(* the assertions of find_ready_transactions hold, no certificate waits    *)
(* and executes at once, and the cache is unbounded for exactly as long as *)
(* an enqueue is between its two locks.                                    *)
THEOREM IndexesAlwaysAgree == Spec => []IndexesAgree
<1>1. IndexInv /\ CountInv => IndexesAgree
  BY Zenon DEF IndexInv, CountInv, IndexesAgree, Waits, ObjectsOf
<1> QED BY <1>1, IndexAlways, PTL

-----------------------------------------------------------------------------
(* What a certificate writes. *)
LEMMA OutputFacts ==
    ASSUME AssignInv, NEW u \in KnownTx, NEW k \in Outputs(u)
    PROVE  /\ k = <<Object(k), Version(k)>> /\ Version(k) = Written(log, u)
           /\ Version(k) \in Nat
           /\ Object(k) \in Objects(Owned[u]) \cup Mutable[u] \cup Created[u]
<1>1. lamport_increment(Keys(u)) = Written(log, u) /\ Written(log, u) \in Nat
  BY KeyFacts, Zenon
<1>2. PICK o \in Objects(Owned[u]) \cup Mutable[u] \cup Created[u] :
            k = <<o, lamport_increment(Keys(u))>>
  BY Zenon DEF Outputs
<1> QED BY <1>1, <1>2, Zenon DEF Object, Version

(* The store holds pairs of objects and versions. *)
LEMMA StoreKeys ==
    ASSUME AssignInv, StoreInv, NEW k \in store
    PROVE  k = <<Object(k), Version(k)>> /\ Version(k) \in Nat
<1>1. CASE k \in Genesis
  BY <1>1, ManagerAssumption, SMTT(30) DEF Object, Version
<1>2. CASE \E u \in executed : k \in Outputs(u)
  BY <1>2, OutputFacts, Zenon DEF StoreInv
<1> QED BY <1>1, <1>2, Zenon DEF StoreInv

(* A version above the one that a certificate reads was written from that  *)
(* one, or from another one in between.                                    *)
LEMMA WrittenFrom ==
    ASSUME AssignInv, StoreInv, NEW t \in KnownTx, NEW k \in Keys(t),
           NEW h \in store, Object(h) = Object(k), Version(k) < Version(h)
    PROVE  \/ k \in store
           \/ \E j \in store : /\ Object(j) = Object(k)
                               /\ Version(k) < Version(j) /\ Version(j) < Version(h)
<1>1. /\ t \in Tx /\ t \in Executable(log)
      /\ k = <<Object(k), Version(k)>> /\ Version(k) \in Nat
  BY KeyFacts, Zenon DEF KnownTx
<1>2. h = <<Object(h), Version(h)>> /\ Version(h) \in Nat
  BY StoreKeys, Zenon
<1>3. log \in Logs
  BY Zenon DEF AssignInv
<1> DEFINE o == Object(k)
           T == AgreedTables(log)[Len(log)]
<1>4. Chain(T) /\ T.processed = Sequenced
  <2>1. Len(log) \in 0 .. Len(log)
    <3>1. log \in Seq(Seq(Tx))
      BY <1>3, ValidatorAssumption, Zenon
    <3> QED BY <3>1, SMTT(30)
  <2> QED BY <1>3, <2>1, LogFacts, Zenon DEF Sequenced
<1>5. T.assigned = Agreed
  BY Zenon DEF Agreed, AgreedVersions
<1>6. ASSUME NEW u \in KnownTx PROVE Out(T, u) = Written(log, u)
  BY <1>5, Zenon DEF Out, Written, Agreed
<1> HIDE DEF T
<1>7. \/ k \in Owned[t] /\ o \notin SharedObject
      \/ o \in Shared[t] /\ o \in SharedObject /\ Version(k) = Agreed[t][o]
  <2>1. CASE k \in Owned[t]
    BY <1>1, <2>1, ValidatorAssumption, Zenon DEF Objects
  <2>2. CASE k \notin Owned[t]
    <3>1. PICK s \in Shared[t] : k = <<s, assigned[t][s]>>
      BY <2>2, Zenon DEF Keys, InputKeys
    <3>2. assigned[t][s] = Agreed[t][s]
      BY KeyFacts, Zenon
    <3>3. o = s /\ Version(k) = assigned[t][s]
      BY <3>1, Zenon DEF Object, Version
    <3> QED BY <1>1, <3>2, <3>3, Zenon DEF SharedObject
  <2> QED BY <2>1, <2>2, Zenon
<1>8. CASE k \in Owned[t] /\ o \notin SharedObject
  <2>1. h \notin Genesis
    <3>1. \A g \in Genesis : Object(g) = Object(k) => Version(g) <= Version(k)
      BY <1>1, <1>8, ValidatorAssumption, Zenon
    <3> QED BY <1>1, <1>2, <3>1, SMTT(30)
  <2>2. PICK u \in executed : h \in Outputs(u)
    BY <2>1, Zenon DEF StoreInv
  <2>3. u \in KnownTx /\ u \in Tx /\ Keys(u) \subseteq store
    BY Zenon DEF StoreInv, KnownTx
  <2>4. u \in Executable(log) /\ Written(log, u) \in Nat
    BY <2>3, KeyFacts, Zenon
  <2>5. Version(h) = Written(log, u) /\ o \in Objects(Owned[u]) \cup Mutable[u] \cup Created[u]
    BY <2>2, <2>3, OutputFacts, Zenon
  <2>6. o \notin Mutable[u]
    BY <1>8, <2>3, ManagerAssumption, Zenon DEF SharedObject
  <2>7. /\ o \in Created[u] => Written(log, u) <= Version(k)
        /\ \A j \in Owned[u] : Object(j) = Object(k) /\ Version(j) < Version(k)
                => Written(log, u) <= Version(k)
    BY <1>1, <1>3, <1>8, <2>4, ValidatorAssumption, Zenon
  <2>8. PICK j \in Owned[u] : Object(j) = o
    <3>1. o \notin Created[u]
      BY <1>1, <2>4, <2>5, <2>7, SMTT(30)
    <3>2. o \in Objects(Owned[u])
      BY <2>5, <2>6, <3>1, Zenon
    <3> QED BY <3>2, Zenon DEF Objects
  <2>9. /\ j \in Keys(u) /\ j \in store
        /\ j = <<Object(j), Version(j)>> /\ Version(j) \in Nat /\ Version(j) < Version(h)
    <3>1. j \in Keys(u)
      BY Zenon DEF Keys, InputKeys
    <3>2. j \in store
      BY <2>3, <3>1, Zenon
    <3>3. j = <<Object(j), Version(j)>> /\ Version(j) \in Nat /\ Version(j) < Written(log, u)
      BY <2>3, <3>1, KeyFacts, Zenon
    <3> QED BY <2>5, <3>1, <3>2, <3>3, Zenon
  <2>10. ~ Version(j) < Version(k)
    BY <1>1, <2>4, <2>5, <2>7, <2>8, SMTT(30)
  <2>11. CASE Version(j) = Version(k)
    BY <1>1, <2>8, <2>9, <2>11, Zenon
  <2>12. CASE Version(k) < Version(j)
    BY <2>8, <2>9, <2>12, Zenon
  <2> QED BY <1>1, <2>9, <2>10, <2>11, <2>12, SMTT(30)
<1>9. CASE o \in Shared[t] /\ o \in SharedObject /\ Version(k) = Agreed[t][o]
  <2>1. t \in Sequenced
    BY <1>9, KeyFacts, Zenon
  <2>2. Start(o) \in Nat /\ Start(o) <= Version(k)
    BY <1>4, <1>5, <1>9, <2>1, StartVersion, Zenon DEF Chain
  <2>3. h \notin Genesis
    <3>1. \A g \in Genesis : Object(g) = o => Version(g) <= Start(o)
      BY <1>9, StartVersion, Zenon
    <3> QED BY <1>1, <1>2, <2>2, <3>1, SMTT(30)
  <2>4. PICK u \in executed : h \in Outputs(u)
    BY <2>3, Zenon DEF StoreInv
  <2>5. u \in KnownTx /\ u \in Tx /\ Keys(u) \subseteq store
    BY Zenon DEF StoreInv, KnownTx
  <2>6. u \in Executable(log) /\ Written(log, u) \in Nat
    BY <2>5, KeyFacts, Zenon
  <2>7. Version(h) = Written(log, u) /\ o \in Objects(Owned[u]) \cup Mutable[u] \cup Created[u]
    BY <2>4, <2>5, OutputFacts, Zenon
  <2>8. o \notin Objects(Owned[u])
    BY <1>9, <2>5, ValidatorAssumption, Zenon
  <2>9. o \in Mutable[u]
    <3>1. SUFFICES ASSUME o \in Created[u] PROVE FALSE
      BY <2>7, <2>8, Zenon
    <3>2. Versions(Genesis, o) = {} /\ Written(log, u) = InitialVersion[o]
      BY <1>3, <1>9, <2>6, <3>1, ValidatorAssumption, Zenon
    <3>3. Start(o) = InitialVersion[o]
      BY <1>9, <3>2, StartVersion, Zenon
    <3> QED BY <1>1, <2>2, <2>6, <2>7, <3>2, <3>3, SMTT(30)
  <2>10. o \in Shared[u]
    BY <2>5, <2>9, ManagerAssumption, Zenon
  <2>11. u \in Sequenced /\ assigned[u][o] = Agreed[u][o]
    BY <2>5, <2>10, KeyFacts, Zenon
  <2> DEFINE j == <<o, Agreed[u][o]>>
  <2>12. j \in Keys(u)
    BY <2>10, <2>11, Zenon DEF Keys, InputKeys
  <2>13. Object(j) = o /\ Version(j) = Agreed[u][o]
    BY Zenon DEF Object, Version
  <2>14. j \in store /\ Agreed[u][o] \in Nat /\ Agreed[u][o] < Version(h)
    BY <2>5, <2>7, <2>12, <2>13, KeyFacts, Zenon
  <2>15. Agreed[t][o] <= Agreed[u][o] \/ Out(T, u) <= Agreed[t][o]
    BY <1>4, <1>5, <1>9, <2>1, <2>9, <2>11, Zenon DEF Chain
  <2>16. Version(k) <= Agreed[u][o]
    BY <1>1, <1>6, <1>9, <2>5, <2>6, <2>7, <2>14, <2>15, SMTT(30)
  <2>17. CASE Version(k) = Agreed[u][o]
    BY <1>1, <2>14, <2>17, Zenon
  <2>18. CASE Version(k) < Agreed[u][o]
    <3> HIDE DEF j
    <3> QED BY <2>13, <2>14, <2>18, Zenon
  <2> QED BY <1>1, <2>14, <2>16, <2>17, <2>18, SMTT(30)
<1> QED BY <1>7, <1>8, <1>9, Zenon

(* So an input is there as soon as its version or a later one is: what the *)
(* cache answers for the highest version holds for the lower one.          *)
LEMMA LaterIsEnough ==
    ASSUME AssignInv, StoreInv, NEW t \in KnownTx, NEW k \in Keys(t),
           NEW w \in Nat, <<Object(k), w>> \in store, w >= Version(k)
    PROVE  k \in store
<1> DEFINE later(x) == <<Object(k), x>> \in store /\ x > Version(k)
           S == {x \in Nat : later(x)}
<1>1. k = <<Object(k), Version(k)>> /\ Version(k) \in Nat
  BY KeyFacts, Zenon
<1>2. CASE w = Version(k)
  BY <1>1, <1>2, Zenon
<1>3. CASE w > Version(k)
  <2>1. S # {} /\ S \in SUBSET Nat
    BY <1>3, Zenon
  <2>2. PICK x \in S : \A m \in S : x <= m
    <3> HIDE DEF S
    <3> QED BY <2>1, LeastNatural, Zenon
  <2> DEFINE h == <<Object(k), x>>
  <2>3. h \in store /\ Object(h) = Object(k) /\ Version(h) = x /\ x \in Nat /\ Version(k) < x
    BY <1>1, <2>2, Zenon DEF Object, Version
  <2> HIDE DEF h
  <2>4. SUFFICES ASSUME NEW j \in store, Object(j) = Object(k),
                        Version(k) < Version(j), Version(j) < x
                 PROVE  FALSE
    BY <2>3, WrittenFrom, Zenon
  <2>5. j = <<Object(k), Version(j)>> /\ Version(j) \in Nat
    BY <2>4, StoreKeys, Zenon
  <2>6. Version(j) \in S
    BY <1>1, <2>4, <2>5, Zenon
  <2> HIDE DEF S
  <2> QED BY <2>2, <2>3, <2>4, <2>5, <2>6, SMTT(30)
<1> QED BY <1>1, <1>2, <1>3, SMTT(30)

-----------------------------------------------------------------------------
(* A positive answer of the cache is right. *)
LEMMA CacheIsRight ==
    ASSUME AssignInv, StoreInv, CacheInv, NEW t \in KnownTx, NEW k \in Keys(t),
           is_object_available(k)
    PROVE  k \in store
<1> DEFINE o == Object(k)
           h == <<o, cache[o]>>
<1>1. o \in DOMAIN cache /\ cache[o] >= Version(k)
  BY Zenon DEF is_object_available, Cached
<1>2. h \in store
  BY <1>1, Zenon DEF CacheInv
<1>3. Version(h) \in Nat
  BY <1>2, StoreKeys, Zenon
<1>4. cache[o] \in Nat
  BY <1>3, Zenon DEF Version
<1> QED BY <1>1, <1>2, <1>4, LaterIsEnough, Zenon

(* What the three invariants of the cache, the enqueues and the waiting    *)
(* certificates read, beside the versions.                                 *)
Reads == <<store, pending_certificates, cache, enqueues, ready, committed, disordered>>

(* Steps that leave it alone keep them. *)
LEMMA WaitFrame ==
    ASSUME Base, CacheInv, EnqueueInv, WaitInv, [Next]_vars, UNCHANGED Reads
    PROVE  CacheInv' /\ EnqueueInv' /\ WaitInv'
<1> USE DEF Reads
<1>1. /\ KnownTx \subseteq KnownTx'
      /\ \A t \in KnownTx : Keys(t)' = Keys(t) /\ Outputs(t)' = Outputs(t)
  BY AssignNext, Frame, KeysStay, Zenon DEF Base
<1>2. committed \subseteq KnownTx
  BY Zenon DEF Base, WorkInv, StoreInv
<1>3. ASSUME NEW k PROVE Announced(k)' <=> Announced(k)
  BY <1>1, <1>2, Zenon DEF Announced
<1>4. CacheInv'
  BY <1>3, Zenon DEF CacheInv, Object, Version
<1>5. EnqueueInv'
  <2>1. \A e \in enqueues : \A t \in e.certs : Keys(t)' = Keys(t)
    BY <1>1, Zenon DEF Base, WorkInv
  <2> QED BY <1>3, <2>1, Zenon DEF EnqueueInv, Object
<1>6. WaitInv'
  <2>1. /\ \A t \in DOMAIN pending_certificates : Keys(t)' = Keys(t)
        /\ \A t \in ready : Keys(t)' = Keys(t)
        /\ \A t \in committed : Outputs(t)' = Outputs(t)
    BY <1>1, <1>2, Zenon DEF Base, WorkInv
  <2> QED BY <2>1, Zenon DEF WaitInv, ReleasedHaveInputs, NoLostWakeup, Object
<1> QED BY <1>4, <1>5, <1>6, Zenon

(* Steps that leave all but the enqueues alone. *)
LEMMA EnqueueFrame ==
    ASSUME Base, CacheInv, WaitInv,
           UNCHANGED <<store, assigned, pending_certificates, cache, ready, committed,
                       disordered>>
    PROVE  /\ CacheInv' /\ WaitInv'
           /\ \A t : Keys(t)' = Keys(t)
           /\ \A k : Announced(k)' <=> Announced(k)
<1>1. \A t : Keys(t)' = Keys(t)
  BY Zenon DEF Keys, InputKeys
<1>2. \A t : Outputs(t)' = Outputs(t)
  BY <1>1, Zenon DEF Outputs
<1>3. \A k : Announced(k)' <=> Announced(k)
  BY <1>2, Zenon DEF Announced
<1>4. CacheInv'
  BY <1>3, Zenon DEF CacheInv, Object, Version
<1>5. WaitInv'
  BY <1>1, <1>2, Zenon DEF WaitInv, ReleasedHaveInputs, NoLostWakeup, Object
<1> QED BY <1>1, <1>3, <1>4, <1>5, Zenon

(* The first part of an enqueue. *)
LEMMA WaitBegin ==
    ASSUME Base, CacheInv, EnqueueInv, WaitInv,
           NEW from, NEW txs \in SUBSET KnownTx, Begin(from, txs)
    PROVE  CacheInv' /\ EnqueueInv' /\ WaitInv'
<1> DEFINE certs == txs \ executed
           keys == UNION {Keys(t) : t \in certs}
           found == {k \in keys : is_object_available(k)}
           unknown == {k \in keys : Object(k) \notin DOMAIN cache}
           new == [from |-> from, certs |-> certs, checked |-> FALSE,
                   available |-> found, misses |-> unknown]
<1>1. enqueues' = enqueues \cup {new}
  BY Zenon DEF Begin
<1>2. UNCHANGED <<store, assigned, pending_certificates, cache, ready, committed, disordered>>
  BY Zenon DEF Begin, index, driver
<1>3. /\ CacheInv' /\ WaitInv' /\ \A t : Keys(t)' = Keys(t)
      /\ \A k : Announced(k)' <=> Announced(k)
  BY <1>2, EnqueueFrame, Zenon
<1>4. new.certs = certs /\ new.checked = FALSE /\ new.available = found /\ new.misses = unknown
  BY Zenon
<1>5. ASSUME NEW k \in found PROVE k \in store
  <2>1. PICK t \in certs : k \in Keys(t)
    BY Zenon
  <2> QED BY <1>5, <2>1, CacheIsRight, Zenon DEF Base
<1>6. \A t \in certs : \A k \in Keys(t) : Object(k) \in DOMAIN cache \/ k \in unknown
  BY Zenon
<1> HIDE DEF new, certs, found, unknown, keys
<1>7. EnqueueInv'
  <2>1. ASSUME NEW e \in enqueues
        PROVE  /\ e.available \subseteq store' /\ e.checked \in BOOLEAN
               /\ \A t \in e.certs : \A k \in Keys(t)' :
                    \/ k \in e.available
                    \/ Object(k) \in DOMAIN cache'
                    \/ ~ e.checked /\ k \in e.misses
                    \/ e.checked /\ (k \notin store' \/ Announced(k)')
    BY <1>2, <1>3, Zenon DEF EnqueueInv
  <2>2. /\ new.available \subseteq store' /\ new.checked \in BOOLEAN
        /\ \A t \in new.certs : \A k \in Keys(t)' :
             \/ k \in new.available
             \/ Object(k) \in DOMAIN cache'
             \/ ~ new.checked /\ k \in new.misses
             \/ new.checked /\ (k \notin store' \/ Announced(k)')
    <3>1. new.available \subseteq store' /\ new.checked \in BOOLEAN
      <4>1. new.checked \in BOOLEAN
        BY <1>4, Zenon
      <4>2. new.available \subseteq store
        BY <1>4, <1>5, Zenon
      <4> QED BY <1>2, <4>1, <4>2, Zenon
    <3>2. ASSUME NEW t \in new.certs, NEW k \in Keys(t)'
          PROVE  Object(k) \in DOMAIN cache' \/ k \in new.misses
      <4>1. t \in certs /\ k \in Keys(t)
        BY <1>3, <1>4, Zenon
      <4> QED BY <1>2, <1>4, <1>6, <4>1, Zenon
    <3> QED BY <1>4, <3>1, <3>2, Zenon
  <2> QED BY <1>1, <2>1, <2>2, Zenon DEF EnqueueInv, Object
<1> QED BY <1>3, <1>7, Zenon

(* The look into the store. *)
LEMMA WaitCheck ==
    ASSUME Base, CacheInv, EnqueueInv, WaitInv,
           NEW e \in enqueues, multi_input_objects_available(e)
    PROVE  CacheInv' /\ EnqueueInv' /\ WaitInv'
<1> DEFINE found == e.available \cup (e.misses \cap store)
           new == [from |-> e.from, certs |-> e.certs, checked |-> TRUE,
                   available |-> found, misses |-> {}]
<1>1. enqueues' = (enqueues \ {e}) \cup {new} /\ ~ e.checked
  BY Zenon DEF multi_input_objects_available
<1>2. UNCHANGED <<store, assigned, pending_certificates, cache, ready, committed, disordered>>
  BY Zenon DEF multi_input_objects_available, disk, index, caches, driver
<1>3. /\ CacheInv' /\ WaitInv' /\ \A t : Keys(t)' = Keys(t)
      /\ \A k : Announced(k)' <=> Announced(k)
  BY <1>2, EnqueueFrame, Zenon
<1>4. new.certs = e.certs /\ new.checked = TRUE /\ new.available = found
  BY Zenon
<1>5. /\ found \subseteq store
      /\ \A t \in e.certs : \A k \in Keys(t) :
            k \in found \/ Object(k) \in DOMAIN cache \/ k \notin store
  BY <1>1, Zenon DEF EnqueueInv
<1> HIDE DEF new, found
<1>6. EnqueueInv'
  <2>1. ASSUME NEW f \in enqueues
        PROVE  /\ f.available \subseteq store' /\ f.checked \in BOOLEAN
               /\ \A t \in f.certs : \A k \in Keys(t)' :
                    \/ k \in f.available
                    \/ Object(k) \in DOMAIN cache'
                    \/ ~ f.checked /\ k \in f.misses
                    \/ f.checked /\ (k \notin store' \/ Announced(k)')
    BY <1>2, <1>3, Zenon DEF EnqueueInv
  <2>2. /\ new.available \subseteq store' /\ new.checked \in BOOLEAN
        /\ \A t \in new.certs : \A k \in Keys(t)' :
             \/ k \in new.available
             \/ Object(k) \in DOMAIN cache'
             \/ ~ new.checked /\ k \in new.misses
             \/ new.checked /\ (k \notin store' \/ Announced(k)')
    <3>1. new.available \subseteq store' /\ new.checked \in BOOLEAN
      <4>1. new.checked \in BOOLEAN
        BY <1>4, Zenon
      <4>2. new.available \subseteq store
        BY <1>4, <1>5, Zenon
      <4> QED BY <1>2, <4>1, <4>2, Zenon
    <3>2. ASSUME NEW t \in new.certs, NEW k \in Keys(t)'
          PROVE  k \in new.available \/ Object(k) \in DOMAIN cache' \/ k \notin store'
      <4>1. t \in e.certs /\ k \in Keys(t)
        BY <1>3, <1>4, Zenon
      <4> QED BY <1>2, <1>4, <1>5, <4>1, Zenon
    <3> QED BY <1>4, <3>1, <3>2, Zenon
  <2> QED BY <1>1, <2>1, <2>2, Zenon DEF EnqueueInv, Object
<1> QED BY <1>3, <1>6, Zenon

(* The second part of an enqueue: what starts to wait waits for inputs     *)
(* that are not there or will be announced.                                *)
LEMMA WaitFinish ==
    ASSUME Base, CacheInv, EnqueueInv, WaitInv, NEW e \in enqueues, Finish(e)
    PROVE  CacheInv' /\ EnqueueInv' /\ WaitInv'
<1> DEFINE known == UNION {Keys(t) : t \in e.certs}
           found == e.available \cup {k \in known : is_object_available(k)}
           fresh == e.certs \ (DOMAIN pending_certificates \cup executing_certificates
                                \cup executed)
           waiting == [t \in fresh |-> Keys(t) \ found]
           waiters == {t \in fresh : waiting[t] # {}}
<1>1. /\ e.checked /\ enqueues' = enqueues \ {e}
      /\ UNCHANGED <<store, assigned, cache, committed, disordered>>
  BY Zenon DEF Finish
<1>2. /\ pending_certificates' = [t \in DOMAIN pending_certificates \cup waiters |->
                IF t \in waiters THEN waiting[t] ELSE pending_certificates[t]]
      /\ ready' = ready \cup (fresh \ waiters)
  BY Zenon DEF Finish, Admit, AlreadyEnqueued, RecheckCache
<1>3. \A t : Keys(t)' = Keys(t)
  BY <1>1, Zenon DEF Keys, InputKeys
<1>4. \A t : Outputs(t)' = Outputs(t)
  BY <1>3, Zenon DEF Outputs
<1>5. \A k : Announced(k)' <=> Announced(k)
  BY <1>1, <1>4, Zenon DEF Announced
<1>6. CacheInv'
  BY <1>1, <1>5, Zenon DEF CacheInv, Object, Version
<1>7. EnqueueInv'
  BY <1>1, <1>3, <1>5, Zenon DEF EnqueueInv, Object
<1>8. e.certs \subseteq KnownTx /\ fresh \subseteq e.certs
  BY Zenon DEF Base, WorkInv
<1>9. ASSUME NEW k \in found PROVE k \in store
  <2>1. CASE k \in e.available
    BY <2>1, Zenon DEF EnqueueInv
  <2>2. CASE k \in known /\ is_object_available(k)
    <3>1. PICK t \in e.certs : k \in Keys(t)
      BY <2>2, Zenon
    <3> QED BY <1>8, <2>2, <3>1, CacheIsRight, Zenon DEF Base
  <2> QED BY <2>1, <2>2, Zenon
<1>10. ASSUME NEW t \in e.certs, NEW k \in Keys(t), k \notin found
       PROVE  k \notin store \/ Announced(k) \/ Object(k) \in disordered
  <2>1. k \notin e.available /\ ~ is_object_available(k)
    BY <1>10, Zenon
  <2>2. CASE k \notin store \/ Announced(k)
    BY <2>2, Zenon
  <2>3. CASE Object(k) \in DOMAIN cache
    <3>1. ~ cache[Object(k)] >= Version(k)
      BY <2>1, <2>3, Zenon DEF is_object_available, Cached
    <3>2. <<Object(k), cache[Object(k)]>> \in store
      BY <2>3, Zenon DEF CacheInv
    <3>3. cache[Object(k)] \in Nat
      <4> DEFINE h == <<Object(k), cache[Object(k)]>>
      <4>1. Version(h) \in Nat
        BY <3>2, StoreKeys, Zenon DEF Base
      <4> QED BY <4>1, Zenon DEF Version
    <3>4. Version(k) \in Nat
      BY <1>8, KeyFacts, Zenon DEF Base
    <3>5. ~ Version(k) <= cache[Object(k)]
      BY <3>1, <3>3, <3>4, Zenon
    <3>6. Object(k) \notin disordered =>
                \A j \in store : Object(j) = Object(k) =>
                    Version(j) <= cache[Object(k)] \/ Announced(j)
      BY <2>3, Zenon DEF CacheInv
    <3> QED BY <3>5, <3>6, Zenon
  <2> QED BY <1>1, <2>1, <2>2, <2>3, Zenon DEF EnqueueInv
<1>11. /\ \A t \in fresh : waiting[t] = Keys(t) \ found
       /\ waiters \subseteq fresh
       /\ \A t \in fresh \ waiters : waiting[t] = {}
  BY Zenon
<1> HIDE DEF found, fresh, waiting, waiters, known
<1>12. /\ DOMAIN (pending_certificates') = DOMAIN pending_certificates \cup waiters
       /\ \A t \in waiters : pending_certificates'[t] = waiting[t]
       /\ \A t \in DOMAIN pending_certificates \ waiters :
                pending_certificates'[t] = pending_certificates[t]
  BY <1>2, Zenon
<1>13. ASSUME NEW t \in ready' PROVE Keys(t) \subseteq store
  <2>1. CASE t \in ready
    BY <2>1, Zenon DEF WaitInv, ReleasedHaveInputs
  <2>2. CASE t \in fresh \ waiters
    BY <1>9, <1>11, <2>2, Zenon
  <2> QED BY <1>2, <2>1, <2>2, Zenon
<1>14. ASSUME NEW t \in DOMAIN (pending_certificates')
       PROVE  /\ Keys(t) \ pending_certificates'[t] \subseteq store
              /\ \A k \in pending_certificates'[t] :
                    k \notin store \/ Announced(k) \/ Object(k) \in disordered
  <2>1. CASE t \in waiters
    <3>1. pending_certificates'[t] = Keys(t) \ found /\ t \in e.certs
      BY <1>8, <1>11, <1>12, <2>1, Zenon
    <3> QED BY <1>9, <1>10, <3>1, Zenon
  <2>2. CASE t \in DOMAIN pending_certificates \ waiters
    BY <1>12, <2>2, Zenon DEF WaitInv, NoLostWakeup, Announced
  <2> QED BY <1>12, <2>1, <2>2, Zenon
<1>15. WaitInv'
  <2>1. ReleasedHaveInputs'
    BY <1>1, <1>3, <1>13, Zenon DEF ReleasedHaveInputs
  <2>2. NoLostWakeup'
    BY <1>1, <1>4, <1>14, Zenon DEF NoLostWakeup, Announced, Object
  <2> QED BY <1>1, <1>3, <1>14, <2>1, <2>2, Zenon DEF WaitInv
<1> QED BY <1>6, <1>7, <1>15, Zenon

(* An execution: what it writes is yet to be announced. *)
LEMMA WaitExecute ==
    ASSUME Base, CacheInv, EnqueueInv, WaitInv, NEW t \in ready, Execute(t)
    PROVE  CacheInv' /\ EnqueueInv' /\ WaitInv'
<1>1. /\ store' = store \cup Outputs(t) /\ committed' = committed \cup {t}
      /\ ready' = ready \ {t}
      /\ UNCHANGED <<assigned, pending_certificates, cache, enqueues, disordered>>
  BY Zenon DEF Execute, index, caches
<1>2. \A u : Keys(u)' = Keys(u)
  BY <1>1, Zenon DEF Keys, InputKeys
<1>3. \A u : Outputs(u)' = Outputs(u)
  BY <1>2, Zenon DEF Outputs
<1>4. ASSUME NEW k PROVE Announced(k)' <=> Announced(k) \/ k \in Outputs(t)
  BY <1>1, <1>3, Zenon DEF Announced
<1>5. CacheInv'
  BY <1>1, <1>4, Zenon DEF CacheInv, Object, Version
<1>6. EnqueueInv'
  BY <1>1, <1>2, <1>4, Zenon DEF EnqueueInv, Object
<1>7. ASSUME NEW u \in DOMAIN pending_certificates, NEW k \in pending_certificates[u]
      PROVE  k \notin store' \/ Announced(k)' \/ Object(k) \in disordered
  BY <1>1, <1>4, Zenon DEF WaitInv, NoLostWakeup, Announced
<1>8. NoLostWakeup'
  BY <1>1, <1>7, Zenon DEF NoLostWakeup, Announced, Object
<1>9. WaitInv'
  BY <1>1, <1>2, <1>8, Zenon DEF WaitInv, ReleasedHaveInputs
<1> QED BY <1>5, <1>6, <1>9, Zenon

(* A restart: everything starts to wait for what is not in the store. *)
LEMMA WaitRestart ==
    ASSUME Restart
    PROVE  CacheInv' /\ EnqueueInv' /\ WaitInv'
<1> DEFINE certs == pending_execution \ executed
           waiting == [t \in certs |-> Keys(t) \ store]
           waiters == {t \in certs : waiting[t] # {}}
<1>1. /\ pending_certificates' = Restrict(waiting, waiters)
      /\ ready' = certs \ waiters /\ enqueues' = {} /\ cache' = [o \in {} |-> 0]
      /\ UNCHANGED <<store, assigned>>
  BY Zenon DEF Restart, all_pending_execution
<1>2. \A t : Keys(t)' = Keys(t)
  BY <1>1, Zenon DEF Keys, InputKeys
<1>3. /\ \A t \in certs : waiting[t] = Keys(t) \ store
      /\ waiters \subseteq certs /\ \A t \in certs \ waiters : waiting[t] = {}
  BY Zenon
<1> HIDE DEF certs, waiting, waiters
<1>4. /\ DOMAIN (pending_certificates') = waiters
      /\ \A t \in waiters : pending_certificates'[t] = waiting[t]
  BY <1>1, Zenon DEF Restrict
<1>5. CacheInv' /\ EnqueueInv'
  BY <1>1, Zenon DEF CacheInv, EnqueueInv
<1>6. ReleasedHaveInputs'
  BY <1>1, <1>2, <1>3, Zenon DEF ReleasedHaveInputs
<1>7. NoLostWakeup'
  BY <1>1, <1>3, <1>4, Zenon DEF NoLostWakeup
<1>8. \A t \in DOMAIN (pending_certificates') : Keys(t)' \ pending_certificates'[t] \subseteq store'
  BY <1>1, <1>2, <1>3, <1>4, Zenon
<1> QED BY <1>5, <1>6, <1>7, <1>8, Zenon DEF WaitInv

(* The cache after version v of objs was announced: values are old ones or *)
(* the announced one, at least the announced one for these objects, and no *)
(* entry is dropped while an enqueue is between its locks.                 *)
Inserted(objs, v) ==
    /\ DOMAIN (cache') \subseteq DOMAIN cache \cup objs
    /\ \A o \in DOMAIN (cache') \ objs : cache'[o] = cache[o]
    /\ \A o \in DOMAIN (cache') \cap objs :
         /\ cache'[o] = v \/ (o \in DOMAIN cache /\ cache'[o] = cache[o])
         /\ cache'[o] >= v
    /\ unbounded_cache_enabled > 0 => DOMAIN (cache') = DOMAIN cache \cup objs

(* An announcement changes the cache in this way. *)
LEMMA InsertFacts ==
    ASSUME Base, CacheInv, NEW t \in KnownTx, Insert(Outputs(t))
    PROVE  Inserted(Objects(Outputs(t)), Written(log, t))
<1> DEFINE L == Written(log, t)
           K == Outputs(t)
           objs == Objects(K)
           known == DOMAIN cache \cup objs
           highest == [o \in known |-> Max(Cached(o) \cup Versions(K, o))]
<1>1. L \in Nat
  BY KeyFacts, Zenon DEF Base
<1>2. \A k \in K : Version(k) = L
  BY OutputFacts, Zenon DEF Base
<1>3. ASSUME NEW o \in DOMAIN cache PROVE cache[o] \in Nat
  <2> DEFINE h == <<o, cache[o]>>
  <2>1. h \in store
    BY Zenon DEF CacheInv
  <2>2. Version(h) \in Nat
    BY <2>1, StoreKeys, Zenon DEF Base
  <2> QED BY <2>2, Zenon DEF Version
<1>4. ASSUME NEW o \in objs PROVE Versions(K, o) = {L}
  <2>1. PICK k \in K : Object(k) = o
    BY Zenon DEF Objects
  <2> QED BY <1>2, <2>1, Zenon DEF Versions
<1>5. ASSUME NEW o, o \notin objs PROVE Versions(K, o) = {}
  BY <1>5, Zenon DEF Versions, Objects
<1> HIDE DEF L, K, objs
<1>6. Max({L}) = L
  BY <1>1, MaxIs, SMTT(30)
<1>7. ASSUME NEW o \in known
      PROVE  /\ o \notin objs => highest[o] = cache[o]
             /\ o \in objs => /\ highest[o] = L \/ (o \in DOMAIN cache /\ highest[o] = cache[o])
                              /\ highest[o] >= L
  <2>1. highest[o] = Max(Cached(o) \cup Versions(K, o))
    BY Zenon
  <2> HIDE DEF highest
  <2>2. CASE o \notin objs
    <3>1. Cached(o) \cup Versions(K, o) = {cache[o]} /\ cache[o] \in Nat
      BY <1>3, <1>5, <2>2, Zenon DEF Cached
    <3>2. Max({cache[o]}) = cache[o]
      BY <3>1, MaxIs, SMTT(30)
    <3> QED BY <2>1, <2>2, <3>1, <3>2, Zenon
  <2>3. CASE o \in objs /\ o \notin DOMAIN cache
    <3>1. Cached(o) \cup Versions(K, o) = {L}
      BY <1>4, <2>3, Zenon DEF Cached
    <3> QED BY <1>1, <1>6, <2>1, <2>3, <3>1, SMTT(30)
  <2>4. CASE o \in objs /\ o \in DOMAIN cache
    <3> DEFINE S == {cache[o], L}
    <3>1. Cached(o) \cup Versions(K, o) = S /\ cache[o] \in Nat
      BY <1>3, <1>4, <2>4, Zenon DEF Cached
    <3>2. CASE cache[o] >= L
      <4>1. Max(S) = cache[o]
        <5> DEFINE c == cache[o]
        <5>1. S \in SUBSET Nat /\ c \in S /\ \A y \in S : y <= c
          BY <1>1, <3>1, <3>2
        <5> HIDE DEF S, c
        <5>2. Max(S) = c
          BY <5>1, MaxIs, Zenon
        <5> QED BY <5>2, Zenon DEF c
      <4> QED BY <2>1, <2>4, <3>1, <3>2, <4>1, Zenon
    <3>3. CASE ~ cache[o] >= L
      <4>1. Max(S) = L
        <5>1. S \in SUBSET Nat /\ L \in S /\ \A y \in S : y <= L
          BY <1>1, <3>1, <3>3
        <5> HIDE DEF S
        <5> QED BY <5>1, MaxIs, Zenon
      <4> QED BY <1>1, <2>1, <2>4, <3>1, <4>1, SMTT(30)
    <3> QED BY <3>2, <3>3, Zenon
  <2> QED BY <2>2, <2>3, <2>4, Zenon
<1>8. objs = Objects(Outputs(t)) /\ L = Written(log, t)
  BY Zenon DEF objs, L, K
<1>9. ASSUME cache' = highest PROVE Inserted(objs, L)
  <2>1. DOMAIN (cache') = known /\ \A o \in known : cache'[o] = highest[o]
    BY <1>9, Zenon
  <2> HIDE DEF highest
  <2> QED BY <1>7, <2>1, Zenon DEF Inserted
<1>10. ASSUME NEW kept \in SUBSET known, NEW lowered \in SUBSET objs,
              ~ unbounded_cache_enabled > 0,
              cache' = [o \in kept |->
                            IF o \in lowered THEN Max(Versions(K, o)) ELSE highest[o]]
       PROVE  Inserted(objs, L)
  <2>1. /\ DOMAIN (cache') = kept
        /\ \A o \in kept : cache'[o] = IF o \in lowered THEN Max(Versions(K, o)) ELSE highest[o]
    BY <1>10, Zenon
  <2> HIDE DEF highest
  <2>2. \A o \in lowered : Max(Versions(K, o)) = L
    BY <1>4, <1>6, Zenon
  <2> QED BY <1>1, <1>7, <1>10, <2>1, <2>2, SMTT(30) DEF Inserted
<1>11. Inserted(objs, L)
  <2>1. CASE unbounded_cache_enabled > 0 \/ Cardinality(known) <= CacheSize
    <3>1. cache' = highest
      BY <2>1, Zenon DEF Insert, K, objs
    <3> QED BY <1>9, <3>1, Zenon
  <2>2. CASE ~ (unbounded_cache_enabled > 0 \/ Cardinality(known) <= CacheSize)
    <3>1. \E kept \in kSubset(CacheSize, known), lowered \in SUBSET objs :
                cache' = [o \in kept |->
                            IF o \in lowered THEN Max(Versions(K, o)) ELSE highest[o]]
      BY <2>2, Zenon DEF Insert, K, objs
    <3>2. kSubset(CacheSize, known) \subseteq SUBSET known
      BY Zenon DEF kSubset
    <3> HIDE DEF known, highest
    <3>3. PICK kept \in kSubset(CacheSize, known), lowered \in SUBSET objs :
                cache' = [o \in kept |->
                            IF o \in lowered THEN Max(Versions(K, o)) ELSE highest[o]]
      BY <3>1, Zenon
    <3>4. kept \in SUBSET known
      BY <3>2, <3>3, Zenon
    <3>5. ~ unbounded_cache_enabled > 0
      BY <2>2, Zenon
    <3> QED BY <1>10, <3>3, <3>4, <3>5, Zenon
  <2> QED BY <2>1, <2>2, Zenon
<1> QED BY <1>8, <1>11, Zenon

(* An announcement wakes everyone who waits for it, and leaves it in the   *)
(* cache for the enqueues in progress.                                     *)
LEMMA WaitNotify ==
    ASSUME Base, CountInv, IndexInv, CacheInv, EnqueueInv, WaitInv,
           NEW t \in committed, notify_commit(t)
    PROVE  CacheInv' /\ EnqueueInv' /\ WaitInv'
<1> DEFINE K == Outputs(t)
           L == Written(log, t)
           objs == Objects(K)
           gone == {p \in missing_inputs : p[1] \in K}
           left == [u \in DOMAIN pending_certificates |->
                      pending_certificates[u] \ {p[1] : p \in {q \in gone : q[2] = u}}]
           released == {u \in DOMAIN left : left[u] = {}}
<1>1. /\ Insert(K) /\ committed' = committed \ {t} /\ ready' = ready \cup released
      /\ pending_certificates' = Restrict(left, DOMAIN left \ released)
      /\ UNCHANGED <<store, assigned, enqueues>>
  BY Zenon DEF notify_commit
<1>2. disordered' = disordered \cup
            {o \in objs : \E k \in store : /\ Object(k) = o
                /\ Version(k) > lamport_increment(Keys(t))
                /\ \A u \in committed : k \notin Outputs(u)}
  BY Zenon DEF notify_commit
<1>3. t \in KnownTx /\ K \subseteq store
  BY Zenon DEF Base, WorkInv, StoreInv
<1>4. L \in Nat /\ lamport_increment(Keys(t)) = L
  BY <1>3, KeyFacts, Zenon DEF Base
<1>5. \A k \in K : k = <<Object(k), L>> /\ Version(k) = L /\ Object(k) \in objs
  BY <1>3, OutputFacts, Zenon DEF Base, Objects
<1>6. \A u : Keys(u)' = Keys(u)
  BY <1>1, Zenon DEF Keys, InputKeys
<1>7. \A u : Outputs(u)' = Outputs(u)
  BY <1>6, Zenon DEF Outputs
<1>8. \A k : Announced(k) /\ k \notin K => Announced(k)'
  BY <1>1, <1>7, Zenon DEF Announced
<1>9. Inserted(objs, L)
  BY <1>1, <1>3, InsertFacts, Zenon
<1>11. ASSUME NEW o \in objs PROVE <<o, L>> \in store
  <2>1. PICK k \in K : Object(k) = o
    BY Zenon DEF Objects
  <2> QED BY <1>3, <1>5, <2>1, Zenon
<1>12. ASSUME NEW u \in DOMAIN pending_certificates PROVE left[u] = pending_certificates[u] \ K
  <2>1. \A k \in pending_certificates[u] : <<k, u>> \in missing_inputs
    BY SMTT(30) DEF IndexInv, Waits
  <2>2. ASSUME NEW k \in pending_certificates[u]
        PROVE  k \in K <=> k \in {p[1] : p \in {q \in gone : q[2] = u}}
    <3>1. ASSUME k \in K PROVE k \in {p[1] : p \in {q \in gone : q[2] = u}}
      <4> DEFINE p == <<k, u>>
      <4>1. p \in missing_inputs /\ p[1] = k /\ p[2] = u
        BY <2>1, Zenon
      <4>2. p \in {q \in gone : q[2] = u}
        BY <3>1, <4>1, Zenon
      <4> HIDE DEF p, gone
      <4> QED BY <4>1, <4>2, Zenon
    <3>2. \A p \in gone : p[1] \in K
      BY Zenon
    <3> HIDE DEF gone
    <3> QED BY <3>1, <3>2, Zenon
  <2>3. left[u] = pending_certificates[u] \ {p[1] : p \in {q \in gone : q[2] = u}}
    BY Zenon
  <2> HIDE DEF left, gone
  <2> QED BY <2>2, <2>3, Zenon
<1>13. DOMAIN left = DOMAIN pending_certificates /\ released \subseteq DOMAIN left
       /\ \A u \in released : left[u] = {}
  BY Zenon
<1> HIDE DEF K, L, objs, gone, left, released
<1>14. CacheInv'
  <2>1. ASSUME NEW o \in DOMAIN (cache')
        PROVE  /\ <<o, cache'[o]>> \in store
               /\ o \notin disordered' =>
                    \A k \in store : Object(k) = o =>
                        Version(k) <= cache'[o] \/ Announced(k)'
    <3>1. CASE o \notin objs
      <4>1. o \in DOMAIN cache /\ cache'[o] = cache[o]
        BY <1>9, <3>1, Zenon DEF Inserted
      <4>2. \A k \in store : Object(k) = o => k \notin K
        BY <1>5, <3>1, Zenon
      <4> QED BY <1>2, <1>8, <4>1, <4>2, Zenon DEF CacheInv
    <3>2. CASE o \in objs
      <4>1. /\ cache'[o] = L \/ (o \in DOMAIN cache /\ cache'[o] = cache[o])
            /\ cache'[o] >= L
        BY <1>9, <3>2, Zenon DEF Inserted
      <4>2. <<o, cache'[o]>> \in store
        BY <1>11, <3>2, <4>1, Zenon DEF CacheInv
      <4>3. cache'[o] \in Nat
        <5> DEFINE h == <<o, cache'[o]>>
        <5>1. Version(h) \in Nat
          BY <4>2, StoreKeys, Zenon DEF Base
        <5> QED BY <5>1, Zenon DEF Version
      <4>4. ASSUME NEW k \in store, Object(k) = o, o \notin disordered'
            PROVE  Version(k) <= cache'[o] \/ Announced(k)'
        <5>1. Version(k) \in Nat
          BY StoreKeys, Zenon DEF Base
        <5>2. ~ Version(k) > L \/ Announced(k)
          BY <1>2, <1>4, <3>2, <4>4, Zenon DEF Announced
        <5>3. CASE ~ Version(k) > L
          BY <1>4, <4>1, <4>3, <5>1, <5>3, SMTT(30)
        <5>4. CASE k \in K
          BY <1>4, <1>5, <4>1, <4>3, <5>4, Zenon
        <5> QED BY <1>8, <5>2, <5>3, <5>4, Zenon
      <4> QED BY <4>2, <4>4, Zenon
    <3> QED BY <3>1, <3>2, Zenon
  <2>2. store' = store
    BY <1>1, Zenon
  <2> QED BY <2>1, <2>2, Zenon DEF CacheInv, Object, Version
<1>15. EnqueueInv'
  <2>1. ASSUME NEW e \in enqueues
        PROVE  /\ e.available \subseteq store /\ e.checked \in BOOLEAN
               /\ \A u \in e.certs : \A k \in Keys(u) :
                    \/ k \in e.available
                    \/ Object(k) \in DOMAIN (cache')
                    \/ ~ e.checked /\ k \in e.misses
                    \/ e.checked /\ (k \notin store \/ Announced(k)')
    <3>1. unbounded_cache_enabled > 0
      <4>1. IsFiniteSet(enqueues) /\ unbounded_cache_enabled = Cardinality(enqueues)
        BY Zenon DEF CountInv
      <4>2. Cardinality(enqueues) \in Nat /\ Cardinality(enqueues) # 0
        BY <4>1, FS_CardinalityType, FS_EmptySet, Zenon
      <4> QED BY <4>1, <4>2
    <3>2. DOMAIN (cache') = DOMAIN cache \cup objs
      BY <1>9, <3>1, Zenon DEF Inserted
    <3> QED BY <1>5, <1>8, <3>2, Zenon DEF EnqueueInv
  <2> QED BY <1>1, <1>6, <2>1, Zenon DEF EnqueueInv, Object
<1>16. /\ DOMAIN (pending_certificates') \subseteq DOMAIN pending_certificates
       /\ \A u \in DOMAIN (pending_certificates') :
            pending_certificates'[u] = pending_certificates[u] \ K
  BY <1>1, <1>12, <1>13, Zenon DEF Restrict
<1>17. ReleasedHaveInputs'
  <2>1. ASSUME NEW u \in ready' PROVE Keys(u) \subseteq store
    <3>1. CASE u \in ready
      BY <3>1, Zenon DEF WaitInv, ReleasedHaveInputs
    <3>2. CASE u \in released
      <4>1. u \in DOMAIN pending_certificates /\ pending_certificates[u] \subseteq K
        BY <1>12, <1>13, <3>2, Zenon
      <4>2. Keys(u) \ pending_certificates[u] \subseteq store
        BY <4>1, Zenon DEF WaitInv
      <4> QED BY <1>3, <4>1, <4>2, Zenon
    <3> QED BY <1>1, <3>1, <3>2, Zenon
  <2> QED BY <1>1, <1>6, <2>1, Zenon DEF ReleasedHaveInputs
<1>18. \A u \in DOMAIN (pending_certificates') : Keys(u)' \ pending_certificates'[u] \subseteq store'
  <2>1. \A u \in DOMAIN pending_certificates : Keys(u) \ pending_certificates[u] \subseteq store
    BY Zenon DEF WaitInv
  <2>2. ASSUME NEW u \in DOMAIN (pending_certificates')
        PROVE  Keys(u) \ pending_certificates'[u] \subseteq store
    BY <1>3, <1>16, <2>1, Zenon
  <2> QED BY <1>1, <1>6, <2>2, Zenon
<1>19. NoLostWakeup'
  <2>1. ASSUME NEW u \in DOMAIN (pending_certificates'), NEW k \in pending_certificates'[u]
        PROVE  k \notin store \/ Announced(k)' \/ Object(k) \in disordered'
    <3>1. k \notin store \/ Announced(k) \/ Object(k) \in disordered
      BY <1>16, Zenon DEF WaitInv, NoLostWakeup, Announced
    <3>2. k \notin K
      BY <1>16, Zenon
    <3>3. disordered \subseteq disordered'
      BY <1>2, Zenon
    <3> QED BY <1>8, <3>1, <3>2, <3>3, Zenon
  <2>2. store' = store
    BY <1>1, Zenon
  <2> QED BY <2>1, <2>2, Zenon DEF NoLostWakeup, Announced, Object
<1> QED BY <1>14, <1>15, <1>17, <1>18, <1>19, Zenon DEF WaitInv

(* The cache, the enqueues and the waiting certificates: the three         *)
(* invariants rest on each other and are kept together.                    *)
LEMMA WaitNext ==
    ASSUME Base, CountInv, IndexInv, CacheInv, EnqueueInv, WaitInv, [Next]_vars
    PROVE  CacheInv' /\ EnqueueInv' /\ WaitInv'
<1>1. CASE PrepareCommit
  <2>1. UNCHANGED Reads
    BY <1>1, Zenon DEF PrepareCommit, manager, disk, index, driver, caches, Reads
  <2> QED BY <2>1, WaitFrame, Zenon
<1>2. CASE handle_consensus_output
  <2>1. UNCHANGED Reads
    BY <1>2, Zenon DEF handle_consensus_output, index, driver, caches, Reads
  <2> QED BY <2>1, WaitFrame, Zenon
<1>3. CASE \E t \in Tx : AcquireSynced(t)
  <2>1. UNCHANGED Reads
    BY <1>3, Zenon DEF AcquireSynced, index, driver, caches, Reads
  <2> QED BY <2>1, WaitFrame, Zenon
<1>4. CASE Forget
  <2>1. UNCHANGED Reads
    BY <1>4, Zenon DEF Forget, remove_pending_execution, index, caches, Reads
  <2> QED BY <2>1, WaitFrame, Zenon
<1>5. CASE UNCHANGED vars
  <2>1. UNCHANGED Reads
    BY <1>5, Zenon DEF vars, manager, disk, index, driver, caches, Reads
  <2> QED BY <2>1, WaitFrame, Zenon
<1>6. CASE schedule
  <2>1. Head(scheduled) \in SUBSET KnownTx
    <3>1. scheduled \in Seq(SUBSET KnownTx) /\ scheduled # <<>>
      BY <1>6, Zenon DEF schedule, Base, WorkInv
    <3> HIDE DEF KnownTx
    <3> QED BY <3>1
  <2> QED BY <1>6, <2>1, WaitBegin, Zenon DEF schedule
<1>7. ASSUME NEW t \in Tx, execute_certificate(t) \/ EnqueueSynced(t)
      PROVE  CacheInv' /\ EnqueueInv' /\ WaitInv'
  <2>1. {t} \in SUBSET KnownTx
    BY <1>7, Zenon DEF execute_certificate, EnqueueSynced, KnownTx
  <2>2. PICK from : Begin(from, {t})
    BY <1>7, Zenon DEF execute_certificate, EnqueueSynced
  <2> QED BY <2>1, <2>2, WaitBegin, Zenon
<1>8. CASE CheckStore
  BY <1>8, WaitCheck, Zenon DEF CheckStore
<1>9. CASE FinishEnqueue
  BY <1>9, WaitFinish, Zenon DEF FinishEnqueue
<1>10. CASE ExecuteReady
  BY <1>10, WaitExecute, Zenon DEF ExecuteReady
<1>11. CASE Notify
  BY <1>11, WaitNotify, Zenon DEF Notify
<1>12. CASE CrashAndRestart
  BY <1>12, WaitRestart, Zenon DEF CrashAndRestart
<1> QED BY <1>1, <1>2, <1>3, <1>4, <1>5, <1>6, <1>7, <1>8, <1>9, <1>10, <1>11, <1>12, Zenon
        DEF Next, NodeStep

(* The three invariants hold throughout. *)
LEMMA WaitAlways == Spec => []WaitInv
<1>1. Init => CacheInv /\ EnqueueInv /\ WaitInv
  <2> SUFFICES ASSUME Init PROVE CacheInv /\ EnqueueInv /\ WaitInv
    BY Zenon
  <2>1. DOMAIN NoVersions = {}
    BY Zenon DEF NoVersions
  <2> QED BY <2>1, Zenon DEF Init, CacheInv, EnqueueInv, WaitInv, ReleasedHaveInputs, NoLostWakeup
<1>2. /\ CacheInv /\ EnqueueInv /\ WaitInv /\ Base /\ IndexInv /\ CountInv /\ [Next]_vars
      => CacheInv' /\ EnqueueInv' /\ WaitInv'
  BY WaitNext, Zenon
<1> QED BY <1>1, <1>2, BaseAlways, IndexAlways, PTL DEF Spec

(* Whatever enqueues, commits and notifications interleave, and whatever   *)
(* the cache drops, a certificate handed to the execution driver finds all *)
(* its inputs in the store: the transaction manager releases nothing too   *)
(* early.                                                                  *)
THEOREM ReleasedAlwaysHaveInputs == Spec => []ReleasedHaveInputs
<1>1. WaitInv => ReleasedHaveInputs
  BY Zenon DEF WaitInv
<1> QED BY <1>1, WaitAlways, PTL

(* Nor does it hold back for ever what could run: a certificate waits only *)
(* for inputs that are not written, that are about to be announced, or of  *)
(* objects with versions announced out of order.                           *)
THEOREM NoWakeupIsLost == Spec => []NoLostWakeup
<1>1. WaitInv => NoLostWakeup
  BY Zenon DEF WaitInv
<1> QED BY <1>1, WaitAlways, PTL
-----------------------------------------------------------------------------
(* What was executed is not released again: what waits or is released is   *)
(* not executed, and an enqueue looks again under its second lock.         *)
LEMMA OnceNext ==
    ASSUME IndexInv, ReleasedOnce, [Next]_vars
    PROVE  ReleasedOnce'
<1> USE DEF others, manager, disk, index, driver
<1> DEFINE P == DOMAIN pending_certificates
<1>1. ASSUME UNCHANGED <<executed, pending_certificates, ready>> PROVE ReleasedOnce'
  BY <1>1, Zenon DEF ReleasedOnce
<1>2. CASE PrepareCommit
  BY <1>1, <1>2, Zenon DEF PrepareCommit
<1>3. CASE handle_consensus_output
  BY <1>1, <1>3, Zenon DEF handle_consensus_output
<1>4. CASE schedule
  BY <1>1, <1>4, Zenon DEF schedule, Begin
<1>5. CASE \E t \in Tx : execute_certificate(t) \/ EnqueueSynced(t)
  BY <1>1, <1>5, Zenon DEF execute_certificate, EnqueueSynced, Begin
<1>6. CASE \E t \in Tx : AcquireSynced(t)
  BY <1>1, <1>6, Zenon DEF AcquireSynced
<1>7. CASE CheckStore
  BY <1>1, <1>7, Zenon DEF CheckStore, multi_input_objects_available
<1>8. CASE FinishEnqueue
  <2>1. PICK e \in enqueues : Finish(e)
    BY <1>8, Zenon DEF FinishEnqueue
  <2>2. /\ executed' = executed
        /\ \A t \in DOMAIN (pending_certificates') \cup ready' :
                t \in P \cup ready \/ t \notin executed
    BY <2>1, Zenon DEF Finish, Admit, AlreadyEnqueued
  <2> QED BY <2>2, Zenon DEF ReleasedOnce
<1>9. CASE ExecuteReady
  <2>1. PICK t \in ready : Execute(t)
    BY <1>9, Zenon DEF ExecuteReady
  <2>2. /\ executed' = executed \cup {t} /\ ready' = ready \ {t}
        /\ pending_certificates' = pending_certificates
    BY <2>1, Zenon DEF Execute
  <2>3. t \notin P
    BY Zenon DEF IndexInv
  <2> QED BY <2>2, <2>3, Zenon DEF ReleasedOnce
<1>10. CASE Notify
  <2>1. PICK t \in committed : notify_commit(t)
    BY <1>10, Zenon DEF Notify
  <2>2. /\ executed' = executed /\ DOMAIN (pending_certificates') \subseteq P
        /\ ready' \subseteq ready \cup P
    BY <2>1, Zenon DEF notify_commit, Restrict
  <2> QED BY <2>2, Zenon DEF ReleasedOnce
<1>11. CASE Forget
  BY <1>1, <1>11, Zenon DEF Forget, remove_pending_execution
<1>12. CASE CrashAndRestart
  <2>1. /\ executed' = executed
        /\ \A t \in DOMAIN (pending_certificates') \cup ready' : t \notin executed
    BY <1>12, Zenon DEF CrashAndRestart, Restart, Restrict
  <2> QED BY <2>1, Zenon DEF ReleasedOnce
<1>13. CASE UNCHANGED vars
  BY <1>1, <1>13, Zenon DEF vars
<1> QED BY <1>2, <1>3, <1>4, <1>5, <1>6, <1>7, <1>8, <1>9, <1>10, <1>11, <1>12, <1>13, Zenon
        DEF Next, NodeStep

(* Whichever source brings a certificate, and however its execution falls  *)
(* between the locks of another enqueue of it, what was executed neither   *)
(* waits nor is handed to the execution driver again.                      *)
THEOREM ExecutedStayDone == Spec => []ReleasedOnce
<1>1. Init => ReleasedOnce
  BY Zenon DEF Init, ReleasedOnce
<1>2. ReleasedOnce /\ IndexInv /\ [Next]_vars => ReleasedOnce'
  BY OnceNext, Zenon
<1> QED BY <1>1, <1>2, IndexAlways, PTL DEF Spec

-----------------------------------------------------------------------------
(* No certificate of a commit is lost.  The last to leave the table of     *)
(* pending executions are those that were notified, and these are done.    *)
OnItsWay(t) ==
    \/ \E n \in DOMAIN scheduled : t \in scheduled[n]
    \/ \E e \in enqueues : t \in e.certs
    \/ t \in DOMAIN pending_certificates \cup executing_certificates

TrackInv ==
    /\ notified \subseteq executed
    /\ \A t \in consensus_message_processed \ executed :
            t \in pending_execution /\ OnItsWay(t)

(* A step that takes no certificate off its way before it is executed. *)
LEMMA TrackStep ==
    ASSUME TrackInv, consensus_message_processed' = consensus_message_processed,
           executed \subseteq executed', notified' \subseteq executed',
           pending_execution \ executed' \subseteq pending_execution',
           \A t : OnItsWay(t) => t \in executed' \/ OnItsWay(t)'
    PROVE  TrackInv'
BY Zenon DEF TrackInv

(* The first part of an enqueue keeps what it takes. *)
LEMMA TrackBegin ==
    ASSUME TrackInv, NEW from, NEW txs, Begin(from, txs),
           consensus_message_processed' = consensus_message_processed,
           \A n \in DOMAIN scheduled : \A t \in scheduled[n] :
                t \in txs \/ \E m \in DOMAIN (scheduled') : t \in scheduled'[m]
    PROVE  TrackInv'
<1>1. /\ executed' = executed /\ notified' = notified
      /\ pending_execution \ executed' \subseteq pending_execution'
      /\ UNCHANGED <<pending_certificates, executing_certificates>>
  BY Zenon DEF Begin, index, driver
<1>2. enqueues \subseteq enqueues' /\ \E e \in enqueues' : e.certs = txs \ executed
  <2>1. PICK available, misses :
            enqueues' = enqueues \cup
                {[from |-> from, certs |-> txs \ executed, checked |-> FALSE,
                  available |-> available, misses |-> misses]}
    BY Zenon DEF Begin
  <2>2. PICK e : e = [from |-> from, certs |-> txs \ executed, checked |-> FALSE,
                      available |-> available, misses |-> misses]
    BY Zenon
  <2>3. e.certs = txs \ executed
    BY <2>2, Zenon
  <2> QED BY <2>1, <2>2, <2>3, Zenon
<1>3. ASSUME NEW t, OnItsWay(t) PROVE t \in executed' \/ OnItsWay(t)'
  <2>1. CASE \E n \in DOMAIN scheduled : t \in scheduled[n]
    <3>1. CASE t \in txs
      BY <1>1, <1>2, <3>1, Zenon DEF OnItsWay
    <3>2. CASE \E m \in DOMAIN (scheduled') : t \in scheduled'[m]
      BY <3>2, Zenon DEF OnItsWay
    <3> QED BY <2>1, <3>1, <3>2, Zenon
  <2>2. CASE \E e \in enqueues : t \in e.certs
    BY <1>2, <2>2, Zenon DEF OnItsWay
  <2>3. CASE t \in DOMAIN pending_certificates \cup executing_certificates
    BY <1>1, <2>3, Zenon DEF OnItsWay
  <2> QED BY <1>3, <2>1, <2>2, <2>3, Zenon DEF OnItsWay
<1>4. notified \subseteq executed
  BY Zenon DEF TrackInv
<1> QED BY <1>1, <1>3, <1>4, TrackStep, Zenon

(* TrackInv is kept. *)
LEMMA TrackNext ==
    ASSUME Base, IndexInv, TrackInv, [Next]_vars
    PROVE  TrackInv'
<1> USE DEF others, manager, epoch_tables, disk, index, driver
<1> DEFINE Places == <<scheduled, enqueues, pending_certificates, executing_certificates>>
<1>1. notified \subseteq executed
  BY Zenon DEF TrackInv
<1>2. ASSUME UNCHANGED <<consensus_message_processed, executed, notified, pending_execution>>,
             UNCHANGED Places
      PROVE  TrackInv'
  BY <1>2, Zenon DEF TrackInv, OnItsWay
<1>3. CASE PrepareCommit
  BY <1>2, <1>3, Zenon DEF PrepareCommit
<1>4. CASE handle_consensus_output
  <2>1. PICK new : new = Range(Commit) \ consensus_message_processed
    BY Zenon
  <2>2. /\ consensus_message_processed' = consensus_message_processed \cup new
        /\ pending_execution' = pending_execution \cup new
        /\ scheduled' = Append(scheduled, new)
        /\ UNCHANGED <<executed, notified, enqueues, pending_certificates,
                       executing_certificates>>
    <3>1. consensus_message_processed' = consensus_message_processed \cup Range(Commit)
      BY <1>4, CommitAssigns, Zenon DEF Base
    <3>2. /\ pending_execution' = pending_execution \cup new
          /\ scheduled' = Append(scheduled, new)
          /\ UNCHANGED <<executed, notified, enqueues, pending_certificates,
                         executing_certificates>>
      BY <1>4, <2>1, Zenon DEF handle_consensus_output
    <3> QED BY <2>1, <3>1, <3>2, Zenon
  <2>3. /\ \A n \in DOMAIN scheduled : n \in DOMAIN (scheduled') /\ scheduled'[n] = scheduled[n]
        /\ \E n \in DOMAIN (scheduled') : scheduled'[n] = new
    <3>1. scheduled \in Seq(SUBSET KnownTx)
      BY Zenon DEF Base, WorkInv
    <3>2. Len(scheduled) + 1 \in DOMAIN (scheduled') /\ scheduled'[Len(scheduled) + 1] = new
      BY <2>2, <3>1, SMTT(30)
    <3>3. \A n \in DOMAIN scheduled : n \in DOMAIN (scheduled') /\ scheduled'[n] = scheduled[n]
      BY <2>2, <3>1, SMTT(30)
    <3> QED BY <3>2, <3>3, Zenon
  <2>4. ASSUME NEW t \in consensus_message_processed' \ executed'
        PROVE  t \in pending_execution' /\ OnItsWay(t)'
    <3>1. CASE t \in new
      BY <2>2, <2>3, <3>1, Zenon DEF OnItsWay
    <3>2. CASE t \in consensus_message_processed
      <4>1. t \in pending_execution /\ OnItsWay(t)
        BY <2>2, <2>4, <3>2, Zenon DEF TrackInv
      <4> QED BY <2>2, <2>3, <4>1, Zenon DEF OnItsWay
    <3> QED BY <2>2, <2>4, <3>1, <3>2, Zenon
  <2> QED BY <1>1, <2>2, <2>4, Zenon DEF TrackInv
<1>5. CASE schedule
  <2>1. /\ scheduled # <<>> /\ scheduled \in Seq(SUBSET KnownTx)
        /\ Begin("scheduler", Head(scheduled)) /\ scheduled' = Tail(scheduled)
        /\ consensus_message_processed' = consensus_message_processed
    BY <1>5, Zenon DEF schedule, Base, WorkInv
  <2>2. ASSUME NEW n \in DOMAIN scheduled, NEW t \in scheduled[n]
        PROVE  t \in Head(scheduled) \/ \E m \in DOMAIN (scheduled') : t \in scheduled'[m]
    <3>1. CASE n = 1
      BY <2>1, <2>2, <3>1, SMTT(30)
    <3>2. CASE n # 1
      <4>1. n - 1 \in DOMAIN (scheduled') /\ scheduled'[n - 1] = scheduled[n]
        BY <2>1, <2>2, <3>2, SMTT(30)
      <4> QED BY <2>2, <4>1, Zenon
    <3> QED BY <3>1, <3>2, Zenon
  <2> QED BY <2>1, <2>2, TrackBegin, Zenon
<1>6. CASE \E t \in Tx : execute_certificate(t) \/ EnqueueSynced(t)
  <2>1. PICK t \in Tx, from \in {"client", "sync"} :
            /\ Begin(from, {t}) /\ scheduled' = scheduled
            /\ consensus_message_processed' = consensus_message_processed
    BY <1>6, Zenon DEF execute_certificate, EnqueueSynced
  <2> QED BY <2>1, TrackBegin, Zenon
<1>7. CASE \E t \in Tx : AcquireSynced(t)
  BY <1>2, <1>7, Zenon DEF AcquireSynced
<1>8. CASE CheckStore
  <2>1. PICK e \in enqueues : multi_input_objects_available(e) /\ UNCHANGED others
    BY <1>8, Zenon DEF CheckStore
  <2>2. \A f \in enqueues : \E g \in enqueues' : g.certs = f.certs
    <3>1. PICK g : g = [from |-> e.from, certs |-> e.certs, checked |-> TRUE,
                        available |-> e.available \cup (e.misses \cap store), misses |-> {}]
      BY Zenon
    <3>2. enqueues' = (enqueues \ {e}) \cup {g}
      BY <2>1, <3>1, Zenon DEF multi_input_objects_available
    <3>3. g.certs = e.certs
      BY <3>1, Zenon
    <3> QED BY <3>2, <3>3, Zenon
  <2>3. UNCHANGED <<consensus_message_processed, executed, notified, pending_execution,
                    scheduled, pending_certificates, executing_certificates>>
    BY <2>1, Zenon DEF multi_input_objects_available
  <2>4. \A t : OnItsWay(t) => OnItsWay(t)'
    BY <2>2, <2>3, Zenon DEF OnItsWay
  <2> QED BY <1>1, <2>3, <2>4, TrackStep, Zenon
<1>9. CASE FinishEnqueue
  <2>1. PICK e \in enqueues : Finish(e) /\ UNCHANGED others
    BY <1>9, Zenon DEF FinishEnqueue
  <2>2. /\ UNCHANGED <<consensus_message_processed, executed, notified, scheduled>>
        /\ enqueues' = enqueues \ {e}
        /\ pending_execution \ executed' \subseteq pending_execution'
    BY <2>1, Zenon DEF Finish
  <2>3. DOMAIN pending_certificates \cup executing_certificates
            \cup (e.certs \ executed)
          \subseteq DOMAIN (pending_certificates') \cup executing_certificates'
    BY <2>1, Zenon DEF Finish, Admit, AlreadyEnqueued
  <2>4. \A t : OnItsWay(t) => t \in executed' \/ OnItsWay(t)'
    BY <2>2, <2>3, Zenon DEF OnItsWay
  <2> QED BY <1>1, <2>2, <2>4, TrackStep, Zenon
<1>10. CASE ExecuteReady
  <2>1. PICK t \in ready : Execute(t) /\ UNCHANGED others
    BY <1>10, Zenon DEF ExecuteReady
  <2>2. /\ UNCHANGED <<consensus_message_processed, notified, pending_execution>>
        /\ executed' = executed \cup {t} /\ UNCHANGED Places
    BY <2>1, Zenon DEF Execute
  <2>3. \A u : OnItsWay(u) => OnItsWay(u)'
    BY <2>2, Zenon DEF OnItsWay
  <2> QED BY <1>1, <2>2, <2>3, TrackStep, Zenon
<1>11. CASE Notify
  <2>1. PICK t \in committed : notify_commit(t) /\ UNCHANGED others
    BY <1>11, Zenon DEF Notify
  <2>2. /\ UNCHANGED <<consensus_message_processed, executed, pending_execution, scheduled,
                       enqueues>>
        /\ notified' = notified \cup {t}
    BY <2>1, Zenon DEF notify_commit
  <2>3. t \in executed
    BY Zenon DEF Base, WorkInv
  <2>4. DOMAIN pending_certificates \cup (executing_certificates \ {t})
          \subseteq DOMAIN (pending_certificates') \cup executing_certificates' \cup {t}
    BY <2>1, Zenon DEF notify_commit, Restrict
  <2>5. \A u : OnItsWay(u) => u \in executed' \/ OnItsWay(u)'
    BY <2>2, <2>3, <2>4, Zenon DEF OnItsWay
  <2> QED BY <1>1, <2>2, <2>3, <2>5, TrackStep, Zenon
<1>12. CASE Forget
  <2>1. PICK t \in notified : remove_pending_execution(t) /\ UNCHANGED others
    BY <1>12, Zenon DEF Forget
  <2>2. /\ UNCHANGED <<consensus_message_processed, executed>> /\ UNCHANGED Places
        /\ notified' = notified \ {t} /\ pending_execution' = pending_execution \ {t}
    BY <2>1, Zenon DEF remove_pending_execution
  <2>3. \A u : OnItsWay(u) => OnItsWay(u)'
    BY <2>2, Zenon DEF OnItsWay
  <2> QED BY <1>1, <2>2, <2>3, TrackStep, Zenon
<1>13. CASE CrashAndRestart
  <2>1. /\ UNCHANGED <<consensus_message_processed, executed>>
        /\ pending_execution' = pending_execution \ executed /\ notified' = {}
    BY <1>13, Zenon DEF CrashAndRestart, Restart, all_pending_execution
  <2>2. pending_execution \ executed
          \subseteq DOMAIN (pending_certificates') \cup executing_certificates'
    BY <1>13, Zenon DEF CrashAndRestart, Restart, all_pending_execution, Restrict
  <2>3. ASSUME NEW t \in pending_execution \ executed PROVE OnItsWay(t)'
    BY <2>2, Zenon DEF OnItsWay
  <2> QED BY <2>1, <2>3, Zenon DEF TrackInv
<1>14. CASE UNCHANGED vars
  BY <1>2, <1>14, Zenon DEF vars
<1> QED BY <1>3, <1>4, <1>5, <1>6, <1>7, <1>8, <1>9, <1>10, <1>11, <1>12, <1>13, <1>14, Zenon
        DEF Next, NodeStep

(* No certificate of a commit is dropped: until it is executed it is in    *)
(* the table that a restart reads, and in the scheduler's channel, in an   *)
(* enqueue or with the TransactionManager, however enqueues, executions,   *)
(* the late removals from the table and crashes interleave.                *)
THEOREM NothingIsDropped == Spec => []NothingDropped
<1>1. Init => TrackInv
  BY Zenon DEF Init, TrackInv
<1>2. TrackInv /\ Base /\ IndexInv /\ [Next]_vars => TrackInv'
  BY TrackNext, Zenon
<1>3. TrackInv => NothingDropped
  BY Zenon DEF TrackInv, OnItsWay, NothingDropped
<1> QED BY <1>1, <1>2, <1>3, BaseAlways, IndexAlways, PTL DEF Spec

-----------------------------------------------------------------------------
(* What waits waits for something, and for inputs of its own. *)
WaiterInv ==
    \A t \in DOMAIN pending_certificates :
        pending_certificates[t] # {} /\ pending_certificates[t] \subseteq Keys(t)

(* WaiterInv is kept. *)
LEMMA WaiterNext ==
    ASSUME Base, WaiterInv, [Next]_vars
    PROVE  WaiterInv'
<1> USE DEF others, manager, index, driver
<1> DEFINE P == DOMAIN pending_certificates
<1>1. /\ P \subseteq KnownTx /\ pending_execution \subseteq KnownTx
      /\ \A e \in enqueues : e.certs \subseteq KnownTx
  BY Zenon DEF Base, WorkInv
<1>2. \A t \in KnownTx : Keys(t)' = Keys(t)
  BY AssignNext, Frame, KeysStay, Zenon DEF Base
<1>3. ASSUME pending_certificates' = pending_certificates PROVE WaiterInv'
  BY <1>1, <1>2, <1>3, Zenon DEF WaiterInv
<1>4. CASE PrepareCommit
  BY <1>3, <1>4, Zenon DEF PrepareCommit
<1>5. CASE handle_consensus_output
  BY <1>3, <1>5, Zenon DEF handle_consensus_output
<1>6. CASE schedule
  BY <1>3, <1>6, Zenon DEF schedule, Begin
<1>7. CASE \E t \in Tx : execute_certificate(t) \/ EnqueueSynced(t)
  BY <1>3, <1>7, Zenon DEF execute_certificate, EnqueueSynced, Begin
<1>8. CASE \E t \in Tx : AcquireSynced(t)
  BY <1>3, <1>8, Zenon DEF AcquireSynced
<1>9. CASE CheckStore
  BY <1>3, <1>9, Zenon DEF CheckStore, multi_input_objects_available
<1>10. CASE FinishEnqueue
  <2>1. PICK e \in enqueues : Finish(e)
    BY <1>10, Zenon DEF FinishEnqueue
  <2>2. PICK available : Admit(e.certs, available)
    BY <2>1, Zenon DEF Finish
  <2> DEFINE fresh == e.certs \ AlreadyEnqueued
             waiting == [t \in fresh |-> Keys(t) \ available]
             waiters == {t \in fresh : waiting[t] # {}}
  <2>3. pending_certificates' = [t \in P \cup waiters |->
                IF t \in waiters THEN waiting[t] ELSE pending_certificates[t]]
    BY <2>2, Zenon DEF Admit
  <2>4. \A t \in waiters : t \in KnownTx /\ waiting[t] # {} /\ waiting[t] \subseteq Keys(t)
    <3>1. \A t \in waiters : t \in e.certs /\ waiting[t] # {}
      BY Zenon
    <3>2. \A t \in fresh : waiting[t] = Keys(t) \ available
      BY Zenon
    <3> QED BY <1>1, <3>1, <3>2, Zenon
  <2> HIDE DEF waiting, waiters
  <2> QED BY <1>1, <1>2, <2>3, <2>4, Zenon DEF WaiterInv
<1>11. CASE ExecuteReady
  BY <1>3, <1>11, Zenon DEF ExecuteReady, Execute
<1>12. CASE Notify
  <2>1. PICK t \in committed : notify_commit(t)
    BY <1>12, Zenon DEF Notify
  <2> DEFINE gone == {p \in missing_inputs : p[1] \in Outputs(t)}
             left == [u \in P |->
                        pending_certificates[u] \ {p[1] : p \in {q \in gone : q[2] = u}}]
             released == {u \in DOMAIN left : left[u] = {}}
  <2>2. pending_certificates' = Restrict(left, DOMAIN left \ released)
    BY <2>1, Zenon DEF notify_commit
  <2>3. DOMAIN left = P /\ \A u \in P : left[u] \subseteq pending_certificates[u]
    BY Zenon
  <2>4. \A u \in P : u \notin released => left[u] # {}
    BY <2>3, Zenon
  <2> HIDE DEF left, released
  <2>5. \A u \in DOMAIN (pending_certificates') :
            u \in P /\ u \notin released /\ pending_certificates'[u] = left[u]
    BY <2>2, <2>3, Zenon DEF Restrict
  <2> QED BY <1>1, <1>2, <2>3, <2>4, <2>5, Zenon DEF WaiterInv
<1>13. CASE Forget
  BY <1>3, <1>13, Zenon DEF Forget, remove_pending_execution
<1>14. CASE CrashAndRestart
  <2> DEFINE certs == pending_execution \ executed
             waiting == [t \in certs |-> Keys(t) \ store]
             waiters == {t \in certs : waiting[t] # {}}
  <2>1. pending_certificates' = Restrict(waiting, waiters)
    BY <1>14, Zenon DEF CrashAndRestart, Restart, all_pending_execution
  <2>2. \A t \in waiters : t \in KnownTx /\ waiting[t] # {} /\ waiting[t] \subseteq Keys(t)
    <3>1. \A t \in waiters : t \in certs /\ waiting[t] # {}
      BY Zenon
    <3>2. \A t \in certs : waiting[t] = Keys(t) \ store
      BY Zenon
    <3> QED BY <1>1, <3>1, <3>2, Zenon
  <2> HIDE DEF waiting, waiters
  <2>3. \A t \in DOMAIN (pending_certificates') :
            t \in waiters /\ pending_certificates'[t] = waiting[t]
    BY <2>1, Zenon DEF Restrict
  <2> QED BY <1>2, <2>2, <2>3, Zenon DEF WaiterInv
<1>15. CASE UNCHANGED vars
  BY <1>3, <1>15, Zenon DEF vars
<1> QED BY <1>4, <1>5, <1>6, <1>7, <1>8, <1>9, <1>10, <1>11, <1>12, <1>13, <1>14, <1>15, Zenon
        DEF Next, NodeStep

(* A node with nothing scheduled, enqueued, released or to be notified has *)
(* executed every certificate of its commits whose inputs are there: such  *)
(* a certificate would still wait, and for an input that is there.         *)
THEOREM IdleHasDoneItsWork == Spec => []IdleIsDone
<1>1. Init => WaiterInv
  <2>1. DOMAIN NoVersions = {}
    BY Zenon DEF NoVersions
  <2> QED BY <2>1, Zenon DEF Init, WaiterInv
<1>2. WaiterInv /\ Base /\ [Next]_vars => WaiterInv'
  BY WaiterNext, Zenon
<1>3. NothingDropped /\ NoLostWakeup /\ IndexInv /\ WaiterInv => IdleIsDone
  <2> SUFFICES ASSUME NothingDropped, NoLostWakeup, IndexInv, WaiterInv,
                      scheduled = <<>>, enqueues = {}, ready = {}, committed = {},
                      NEW t \in consensus_message_processed \ executed,
                      Keys(t) \subseteq store
               PROVE  \E k \in Keys(t) : Object(k) \in disordered
    BY Zenon DEF IdleIsDone
  <2>1. executing_certificates = {}
    BY Zenon DEF IndexInv
  <2>2. DOMAIN scheduled = {}
    OBVIOUS
  <2>3. t \in DOMAIN pending_certificates
    BY <2>1, <2>2, Zenon DEF NothingDropped
  <2>4. PICK k \in pending_certificates[t] : k \in Keys(t)
    BY <2>3, Zenon DEF WaiterInv
  <2> QED BY <2>3, <2>4, Zenon DEF NoLostWakeup
<1> QED BY <1>1, <1>2, <1>3, BaseAlways, IndexAlways, NothingIsDropped, NoWakeupIsLost, PTL
        DEF Spec
=============================================================================
