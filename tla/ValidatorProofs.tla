--------------------------- MODULE ValidatorProofs ---------------------------
(***************************************************************************)
(* A validator assigns the versions of the log, for all certificates,      *)
(* logs, bounds of the cache, requests and crashes.                        *)
(*                                                                         *)
(* What a loop over a commit or a log computes is shown by induction on    *)
(* the number of its rounds, as a statement about a set of naturals.       *)
(***************************************************************************)
EXTENDS Validator, FiniteSetTheorems, TLAPS

(* Of finitely many things one has the greatest weight. *)
LEMMA GreatestWeight ==
    ASSUME NEW S, IsFiniteSet(S), S # {}, NEW v \in [S -> Nat]
    PROVE  \E x \in S : \A y \in S : v[y] <= v[x]
<1> DEFINE Top(T) == \E x \in T : \A y \in T : v[y] <= v[x]
           wrong == {T \in SUBSET S : T # {} /\ ~ Top(T)}
<1> SUFFICES ASSUME wrong # {} PROVE FALSE
  BY Zenon
<1>1. IsWellFoundedOn(StrictSubsetOrdering(S), SUBSET S)
  BY FS_StrictSubsetOrderingWellFounded, FS_FiniteSubsetsOfFinite, Zenon
<1>2. PICK T \in wrong : \A U \in wrong : <<U, T>> \notin StrictSubsetOrdering(S)
  BY <1>1, WFMin, Zenon
<1>3. PICK x \in T : TRUE
  BY Zenon
<1>4. <<T \ {x}, T>> \in StrictSubsetOrdering(S)
  BY <1>3, Zenon DEF StrictSubsetOrdering
<1>5. T \ {x} = {} \/ Top(T \ {x})
  BY <1>2, <1>4, Zenon
<1>6. CASE T \ {x} = {}
  <2>1. \A y \in T : v[y] <= v[x]
    BY <1>3, <1>6
  <2> QED BY <1>3, <2>1, Zenon
<1>7. CASE Top(T \ {x})
  <2>1. PICK z \in T \ {x} : \A y \in T \ {x} : v[y] <= v[z]
    BY <1>7, Zenon
  <2>2. v[x] \in Nat /\ v[z] \in Nat /\ \A y \in T : v[y] \in Nat
    BY <1>3, Zenon
  <2>3. CASE v[x] <= v[z]
    <3>1. \A y \in T : v[y] <= v[z]
      BY <2>1, <2>3, Zenon
    <3> QED BY <3>1, Zenon
  <2>4. CASE v[z] <= v[x]
    <3>1. \A y \in T : v[y] <= v[x]
      BY <2>1, <2>2, <2>4
    <3> QED BY <1>3, <3>1, Zenon
  <2> QED BY <2>2, <2>3, <2>4
<1> QED BY <1>5, <1>6, <1>7, Zenon

(* A nonempty set of naturals has a least element. *)
LEMMA LeastNatural ==
    ASSUME NEW S \in SUBSET Nat, S # {}
    PROVE  \E n \in S : \A m \in S : n <= m
<1>1. PICK n \in S : TRUE
  BY Zenon
<1> DEFINE T == {m \in S : m <= n}
           v == [m \in T |-> n - m]
<1>2. n \in Nat /\ T \in SUBSET (0 .. n) /\ T # {}
  <2>1. n \in Nat
    BY <1>1, Zenon
  <2>2. \A m \in S : m \in Nat
    BY Zenon
  <2>3. \A m \in T : m \in 0 .. n
    BY <2>1, <2>2
  <2>4. n \in T
    BY <2>1
  <2> QED BY <2>1, <2>3, <2>4, Zenon
<1>3. IsFiniteSet(T)
  <2>1. IsFiniteSet(0 .. n)
    BY <1>2, FS_Interval
  <2> HIDE DEF T
  <2> QED BY <1>2, <2>1, FS_Subset, Zenon
<1>4. v \in [T -> Nat]
  BY <1>2
<1> HIDE DEF v, T
<1>5. PICK x \in T : \A y \in T : v[y] <= v[x]
  BY <1>2, <1>3, <1>4, GreatestWeight, Zenon
<1> USE DEF v, T
<1>6. ASSUME NEW m \in S PROVE x <= m
  BY <1>2, <1>5
<1> QED BY <1>6, Zenon

(* Induction up to n, for the set of numbers that have a property. *)
LEMMA Induction ==
    ASSUME NEW n \in Nat, NEW P, 0 \in P,
           \A i \in 0 .. n : i < n /\ i \in P => i + 1 \in P
    PROVE  \A i \in 0 .. n : i \in P
<1> DEFINE wrong == {i \in 0 .. n : i \notin P}
<1> SUFFICES ASSUME wrong # {} PROVE FALSE
  BY Zenon
<1>0. wrong \in SUBSET Nat
  OBVIOUS
<1> HIDE DEF wrong
<1>1. PICK i \in wrong : \A j \in wrong : i <= j
  BY <1>0, LeastNatural, Zenon
<1> USE DEF wrong
<1>2. i \in 1 .. n /\ i \notin P
  OBVIOUS
<1>3. i - 1 \in 0 .. n /\ i - 1 < n /\ (i - 1) + 1 = i /\ ~ (i <= i - 1)
  BY <1>2
<1>4. i - 1 \in P
  BY <1>1, <1>3, Zenon
<1> QED BY <1>2, <1>3, <1>4, Zenon

Bodies(n, S) == [1 .. n -> [S -> S]]

IsRun(n, S, base, step, f) ==
    /\ f \in [0 .. n -> S] /\ f[0] = base
    /\ \A i \in 1 .. n : f[i] = step[i][f[i - 1]]

(* A loop whose body stays in a set has a run. *)
LEMMA RunExists ==
    ASSUME NEW n \in Nat, NEW S, NEW base \in S, NEW step \in Bodies(n, S)
    PROVE  \E f : IsRun(n, S, base, step, f)
<1> USE DEF Bodies
<1> DEFINE Run(m, f) == f[0] = base /\ \A i \in 1 .. m : f[i] = step[i][f[i - 1]]
           P == {m \in 0 .. n : \E f \in [0 .. m -> S] : Run(m, f)}
<1>1. 0 \in P
  <2>1. [i \in 0 .. 0 |-> base] \in [0 .. 0 -> S]
    BY Zenon
  <2>2. Run(0, [i \in 0 .. 0 |-> base])
    OBVIOUS
  <2> HIDE DEF Run
  <2> QED BY <2>1, <2>2
<1>2. ASSUME NEW m \in 0 .. n, m < n, m \in P PROVE m + 1 \in P
  <2>1. PICK f \in [0 .. m -> S] : Run(m, f)
    BY <1>2, Zenon
  <2> DEFINE g == [i \in 0 .. m + 1 |-> IF i <= m THEN f[i] ELSE step[m + 1][f[m]]]
  <2>2. step[m + 1][f[m]] \in S
    BY <1>2
  <2>3. g \in [0 .. m + 1 -> S]
    BY <2>2
  <2>4. Run(m + 1, g)
    <3>1. g[0] = base
      BY <2>1
    <3>2. ASSUME NEW i \in 1 .. m + 1 PROVE g[i] = step[i][g[i - 1]]
      <4>1. CASE i <= m
        <5>1. i \in 1 .. m /\ i - 1 \in 0 .. m + 1 /\ i - 1 <= m /\ i \in 0 .. m + 1
          BY <4>1
        <5>2. g[i] = f[i] /\ g[i - 1] = f[i - 1]
          BY <4>1, <5>1, Zenon
        <5> QED BY <2>1, <5>1, <5>2, Zenon
      <4>2. CASE ~ (i <= m)
        <5>1. i = m + 1 /\ i - 1 = m /\ i \in 0 .. m + 1 /\ m \in 0 .. m + 1 /\ m <= m
          BY <4>2
        <5>2. g[i] = step[m + 1][f[m]] /\ g[m] = f[m]
          BY <4>2, <5>1, Zenon
        <5> QED BY <5>1, <5>2, Zenon
      <4> QED BY <4>1, <4>2, Zenon
    <3> QED BY <3>1, <3>2, Zenon
  <2>5. m + 1 \in 0 .. n
    BY <1>2
  <2> HIDE DEF g, Run
  <2> QED BY <2>3, <2>4, <2>5, Zenon
<1>3. \A i \in 0 .. n : i < n /\ i \in P => i + 1 \in P
  BY <1>2, Zenon
<1> HIDE DEF P
<1>4. \A i \in 0 .. n : i \in P
  BY <1>1, <1>3, Induction, Zenon
<1>5. PICK f \in [0 .. n -> S] : Run(n, f)
  BY <1>4 DEF P
<1>6. IsRun(n, S, base, step, f)
  BY <1>5, Zenon DEF IsRun
<1> QED BY <1>6, Zenon

(* The greatest element of a set is its Max. *)
LEMMA MaxIs ==
    ASSUME NEW S \in SUBSET Nat, NEW x \in S, \A y \in S : y <= x
    PROVE  Max(S) = x
<1>1. \E z \in S : \A y \in S : z >= y
  BY Zenon
<1>2. Max(S) \in S /\ \A y \in S : Max(S) >= y
  BY <1>1, Zenon DEF Max
<1>3. PICK m \in Nat : m = Max(S)
  BY <1>2, Zenon
<1> QED BY <1>2, <1>3

-----------------------------------------------------------------------------
(* lamport_increment is above everything a certificate reads. *)
LEMMA Lamport ==
    ASSUME NEW t \in Tx, NEW versions, \A s \in Shared[t] : versions[s] \in Nat
    PROVE  /\ lamport_increment(InputKeys(t, versions)) \in Nat
           /\ \A k \in InputKeys(t, versions) :
                /\ Version(k) \in Nat
                /\ Version(k) < lamport_increment(InputKeys(t, versions))
<1> DEFINE K == InputKeys(t, versions)
           W == {Version(k) : k \in K}
<1>1. \A k \in K : Version(k) \in Nat
  BY ManagerAssumption DEF InputKeys, Version
<1>2. \E w \in W : \A y \in W : y <= w
  <2>1. PICK a \in Owned[t] : \A y \in Owned[t] : y[2] <= a[2]
    <3> DEFINE v == [k \in Owned[t] |-> k[2]]
    <3>1. v \in [Owned[t] -> Nat] /\ IsFiniteSet(Owned[t]) /\ Owned[t] # {}
      BY ManagerAssumption, Zenon
    <3> HIDE DEF v
    <3>2. \E x \in Owned[t] : \A y \in Owned[t] : v[y] <= v[x]
      BY <3>1, GreatestWeight, Zenon
    <3> QED BY <3>2, Zenon DEF v
  <2>2. CASE Shared[t] = {}
    <3>1. \A k \in K : k[2] <= a[2]
      BY <2>1, <2>2, Zenon DEF InputKeys
    <3>2. a \in K
      BY Zenon DEF InputKeys
    <3> QED BY <3>1, <3>2, Zenon DEF Version
  <2>3. CASE Shared[t] # {}
    <3>1. PICK b \in Shared[t] : \A y \in Shared[t] : versions[y] <= versions[b]
      <4> DEFINE v == [s \in Shared[t] |-> versions[s]]
      <4>1. v \in [Shared[t] -> Nat] /\ IsFiniteSet(Shared[t])
        BY ManagerAssumption, Zenon
      <4> HIDE DEF v
      <4>2. \E x \in Shared[t] : \A y \in Shared[t] : v[y] <= v[x]
        BY <2>3, <4>1, GreatestWeight, Zenon
      <4> QED BY <4>2, Zenon DEF v
    <3>2. a \in K /\ <<b, versions[b]>> \in K
      BY Zenon DEF InputKeys
    <3>3. a[2] \in Nat /\ versions[b] \in Nat
      BY ManagerAssumption, Zenon
    <3>4. \A k \in K : k[2] <= a[2] \/ k[2] <= versions[b]
      BY <2>1, <3>1 DEF InputKeys
    <3>5. a[2] \in W /\ versions[b] \in W
      BY <3>2 DEF Version
    <3>6. CASE a[2] <= versions[b]
      <4>1. \A k \in K : k[2] <= versions[b]
        BY <1>1, <3>3, <3>4, <3>6 DEF Version
      <4> QED BY <3>5, <4>1, Zenon DEF Version
    <3>7. CASE versions[b] <= a[2]
      <4>1. \A k \in K : k[2] <= a[2]
        BY <1>1, <3>3, <3>4, <3>7 DEF Version
      <4> QED BY <3>5, <4>1, Zenon DEF Version
    <3> QED BY <3>3, <3>6, <3>7
  <2> QED BY <2>2, <2>3, Zenon
<1>3. W \in SUBSET Nat
  BY <1>1, Zenon
<1>4. lamport_increment(K) = 1 + Max(W)
  BY Zenon DEF lamport_increment
<1> HIDE DEF W
<1>5. PICK w \in W : \A y \in W : y <= w
  BY <1>2, Zenon
<1>6. Max(W) = w
  BY <1>3, <1>5, MaxIs, Zenon
<1>7. \A k \in K : Version(k) <= w
  BY <1>5, Zenon DEF W
<1> HIDE DEF K
<1>8. lamport_increment(K) \in Nat /\ \A k \in K : Version(k) < lamport_increment(K)
  BY <1>1, <1>3, <1>4, <1>6, <1>7
<1> QED BY <1>1, <1>8, Zenon DEF K

-----------------------------------------------------------------------------
VersionTables ==
    UNION {[A -> UNION {[B -> Nat] : B \in SUBSET SharedObject}] : A \in SUBSET Tx}

Tables(D) == [next : [D -> Nat], assigned : VersionTables, processed : SUBSET Tx]

(* What one certificate changes in the tables. *)
IsStep(acc, t, new) ==
    /\ new.processed = acc.processed \cup {t}
    /\ t \in acc.processed => new = acc
    /\ t \notin acc.processed =>
        /\ new.next = record_shared_object_cert(acc.next, t)
        /\ DOMAIN new.assigned = DOMAIN acc.assigned \cup {t}
        /\ new.assigned[t] = [s \in Shared[t] |-> acc.next[s]]
        /\ \A u \in DOMAIN acc.assigned \ {t} : new.assigned[u] = acc.assigned[u]

(* One certificate leaves tables, and changes only what belongs to it. *)
LEMMA StepTables ==
    ASSUME NEW D, NEW acc \in Tables(D), NEW t \in Tx, Shared[t] \subseteq D
    PROVE  /\ process_consensus_transaction(acc, t) \in Tables(D)
           /\ IsStep(acc, t, process_consensus_transaction(acc, t))
<1> DEFINE new == process_consensus_transaction(acc, t)
           versions == [s \in Shared[t] |-> acc.next[s]]
           after == record_shared_object_cert(acc.next, t)
           with == Assign(t, versions, acc.assigned)
<1>1. acc.next \in [D -> Nat] /\ acc.assigned \in VersionTables /\ acc.processed \in SUBSET Tx
  BY Zenon DEF Tables
<1>2. CASE t \in acc.processed
  <2>1. new = acc
    BY <1>2, Zenon DEF process_consensus_transaction
  <2> QED BY <1>1, <1>2, <2>1, Zenon DEF IsStep
<1>3. CASE t \notin acc.processed
  <2>1. new = [next |-> after, assigned |-> with, processed |-> acc.processed \cup {t}]
    BY <1>3, Zenon DEF process_consensus_transaction
  <2>2. after \in [D -> Nat]
    <3>1. lamport_increment(InputKeys(t, acc.next)) \in Nat
      BY <1>1, Lamport, Zenon
    <3> QED BY <1>1, <3>1, Zenon DEF record_shared_object_cert
  <2>3. versions \in UNION {[B -> Nat] : B \in SUBSET SharedObject}
    <3>1. versions \in [Shared[t] -> Nat]
      BY <1>1, Zenon
    <3>2. Shared[t] \in SUBSET SharedObject
      BY Zenon DEF SharedObject
    <3> QED BY <3>1, <3>2, Zenon
  <2>4. PICK A \in SUBSET Tx :
            acc.assigned \in [A -> UNION {[B -> Nat] : B \in SUBSET SharedObject}]
    BY <1>1, Zenon DEF VersionTables
  <2> HIDE DEF versions
  <2>5. /\ with \in [A \cup {t} -> UNION {[B -> Nat] : B \in SUBSET SharedObject}]
        /\ DOMAIN with = DOMAIN acc.assigned \cup {t} /\ with[t] = versions
        /\ \A u \in DOMAIN acc.assigned \ {t} : with[u] = acc.assigned[u]
    BY <2>3, <2>4, Zenon DEF Assign
  <2>6. with \in VersionTables
    <3>1. A \cup {t} \in SUBSET Tx
      BY Zenon
    <3> HIDE DEF with
    <3> QED BY <2>5, <3>1, Zenon DEF VersionTables
  <2> HIDE DEF with, after
  <2>7. new \in Tables(D)
    BY <1>1, <2>1, <2>2, <2>6 DEF Tables
  <2>8. /\ new.next = after /\ new.assigned = with
        /\ new.processed = acc.processed \cup {t}
    BY <2>1
  <2> HIDE DEF new
  <2>9. /\ DOMAIN new.assigned = DOMAIN acc.assigned \cup {t}
        /\ new.assigned[t] = versions
        /\ \A u \in DOMAIN acc.assigned \ {t} : new.assigned[u] = acc.assigned[u]
    BY <2>5, <2>8, Zenon
  <2>10. IsStep(acc, t, new)
    BY <1>3, <2>8, <2>9, Zenon DEF IsStep, after, versions
  <2> QED BY <2>7, <2>10, Zenon DEF new
<1> QED BY <1>2, <1>3, Zenon

IsLoop(D, tables, txs, run) ==
    /\ run \in [0 .. Len(txs) -> Tables(D)]
    /\ run[0] = tables
    /\ \A i \in 1 .. Len(txs) : run[i] = process_consensus_transaction(run[i - 1], txs[i])
    /\ process_consensus_transactions(tables, txs) = run[Len(txs)]

(* The loop of process_consensus_transactions, round by round. *)
LEMMA LoopRuns ==
    ASSUME NEW D, NEW tables \in Tables(D), NEW txs \in Seq(Tx),
           \A t \in Range(txs) : Shared[t] \subseteq D
    PROVE  \E run : IsLoop(D, tables, txs, run)
<1> DEFINE n == Len(txs)
           S == Tables(D)
           Body(f) == [i \in 0 .. n |-> IF i = 0 THEN tables
                                        ELSE process_consensus_transaction(f[i - 1], txs[i])]
           step == [i \in 1 .. n |-> [x \in S |-> process_consensus_transaction(x, txs[i])]]
           run == CHOOSE f : f = Body(f)
<1>1. process_consensus_transactions(tables, txs) = run[n]
  BY Zenon DEF process_consensus_transactions
<1>2. n \in Nat
  OBVIOUS
<1>3. ASSUME NEW i \in 1 .. n, NEW x \in S
      PROVE  process_consensus_transaction(x, txs[i]) \in S
  <2>1. txs[i] \in Tx /\ txs[i] \in Range(txs)
    BY DEF Range
  <2> QED BY <2>1, StepTables, Zenon
<1>4. step \in Bodies(n, S)
  BY <1>3, Zenon DEF Bodies
<1>5. PICK g : IsRun(n, S, tables, step, g)
  <2> HIDE DEF n, S, step
  <2>1. tables \in S
    BY Zenon DEF S
  <2> QED BY <1>2, <1>4, <2>1, RunExists, Zenon
<1>6. g = Body(g)
  <2> USE DEF IsRun
  <2>1. ASSUME NEW i \in 1 .. n
        PROVE  step[i][g[i - 1]] = process_consensus_transaction(g[i - 1], txs[i])
    <3>1. g[i - 1] \in S
      BY <1>2, <1>5
    <3> QED BY <3>1, Zenon
  <2>2. ASSUME NEW i \in 0 .. n PROVE g[i] = Body(g)[i]
    <3>1. CASE i = 0
      BY <1>5, <3>1, Zenon
    <3>2. CASE i # 0
      <4>1. i \in 1 .. n
        BY <1>2, <3>2
      <4>2. g[i] = process_consensus_transaction(g[i - 1], txs[i])
        BY <1>5, <2>1, <4>1, Zenon
      <4> QED BY <3>2, <4>2, Zenon
    <3> QED BY <3>1, <3>2, Zenon
  <2> QED BY <1>5, <2>2, Zenon
<1>7. run = Body(run)
  BY <1>6, Zenon
<1> HIDE DEF run
<1>8. run[0] = tables
  BY <1>2, <1>7
<1>9. ASSUME NEW i \in 1 .. n
      PROVE  run[i] = process_consensus_transaction(run[i - 1], txs[i])
  BY <1>2, <1>7
<1>10. DOMAIN run = 0 .. n
  BY <1>7, Zenon
<1> DEFINE P == {i \in 0 .. n : run[i] \in S}
<1>11. \A i \in 0 .. n : i \in P
  <2>1. 0 \in P
    BY <1>2, <1>8
  <2>2. \A i \in 0 .. n : i < n /\ i \in P => i + 1 \in P
    <3> SUFFICES ASSUME NEW i \in 0 .. n, i < n, i \in P PROVE i + 1 \in P
      BY Zenon
    <3>1. i + 1 \in 1 .. n /\ i + 1 \in 0 .. n /\ (i + 1) - 1 = i
      BY <1>2
    <3>2. run[i + 1] = process_consensus_transaction(run[i], txs[i + 1])
      BY <1>9, <3>1, Zenon
    <3>3. run[i + 1] \in S
      BY <1>3, <3>1, <3>2, Zenon
    <3> QED BY <3>1, <3>3, Zenon
  <2> HIDE DEF P
  <2> QED BY <1>2, <2>1, <2>2, Induction, Zenon
<1>12. run \in [0 .. n -> S]
  <2>1. run = [i \in 0 .. n |-> run[i]]
    BY <1>7, Zenon
  <2>2. \A i \in 0 .. n : run[i] \in S
    BY <1>11, Zenon
  <2> QED BY <2>1, <2>2, Zenon
<1>13. IsLoop(D, tables, txs, run)
  BY <1>1, <1>8, <1>9, <1>12, Zenon DEF IsLoop
<1> QED BY <1>13, Zenon

(* A commit keeps what was processed before and adds its certificates. *)
LEMMA LoopGrows ==
    ASSUME NEW D, NEW tables \in Tables(D), NEW txs \in Seq(Tx),
           \A t \in Range(txs) : Shared[t] \subseteq D,
           tables.processed \subseteq DOMAIN tables.assigned
    PROVE  LET new == process_consensus_transactions(tables, txs)
           IN  /\ new \in Tables(D)
               /\ new.processed = tables.processed \cup Range(txs)
               /\ new.processed \subseteq DOMAIN new.assigned
               /\ \A t \in tables.processed : new.assigned[t] = tables.assigned[t]
<1>1. PICK run : IsLoop(D, tables, txs, run)
  BY LoopRuns, Zenon
<1> USE DEF IsLoop
<1> DEFINE n == Len(txs)
           first(i) == {txs[j] : j \in 1 .. i}
           P == {i \in 0 .. n :
                    /\ run[i].processed = tables.processed \cup first(i)
                    /\ run[i].processed \subseteq DOMAIN run[i].assigned
                    /\ \A t \in tables.processed : run[i].assigned[t] = tables.assigned[t]}
<1>2. n \in Nat
  OBVIOUS
<1>3. 0 \in P
  <2>1. first(0) = {}
    OBVIOUS
  <2> QED BY <1>1, <1>2, <2>1
<1>4. ASSUME NEW i \in 0 .. n, i < n, i \in P PROVE i + 1 \in P
  <2>1. i + 1 \in 1 .. n /\ i + 1 \in 0 .. n /\ (i + 1) - 1 = i
    BY <1>2, <1>4
  <2> DEFINE t == txs[i + 1]
  <2>2. t \in Tx /\ t \in Range(txs)
    BY <2>1 DEF Range
  <2>3. run[i + 1] = process_consensus_transaction(run[i], t)
    BY <1>1, <2>1, Zenon
  <2>4. run[i] \in Tables(D)
    BY <1>1, Zenon
  <2>5. first(i + 1) = first(i) \cup {t}
    <3>1. 1 .. i + 1 = (1 .. i) \cup {i + 1}
      BY <1>2, <1>4
    <3> QED BY <3>1, Zenon
  <2>6. Shared[t] \subseteq D
    BY <2>2, Zenon
  <2> HIDE DEF t, first
  <2>7. IsStep(run[i], t, run[i + 1])
    BY <2>2, <2>3, <2>4, <2>6, StepTables, Zenon
  <2> USE DEF IsStep
  <2>8. /\ run[i].processed = tables.processed \cup first(i)
        /\ run[i].processed \subseteq DOMAIN run[i].assigned
        /\ \A u \in tables.processed : run[i].assigned[u] = tables.assigned[u]
    BY <1>4, Zenon
  <2>9. run[i + 1].processed = tables.processed \cup first(i + 1)
    BY <2>5, <2>7, <2>8, Zenon
  <2>10. run[i + 1].processed \subseteq DOMAIN run[i + 1].assigned
    BY <2>7, <2>8, Zenon
  <2>11. \A u \in tables.processed : run[i + 1].assigned[u] = tables.assigned[u]
    BY <2>7, <2>8, Zenon
  <2> QED BY <2>1, <2>9, <2>10, <2>11, Zenon
<1>5. n \in 0 .. n
  BY <1>2
<1>6. n \in P
  <2>1. \A i \in 0 .. n : i < n /\ i \in P => i + 1 \in P
    BY <1>4, Zenon
  <2> HIDE DEF P, n
  <2>2. \A i \in 0 .. n : i \in P
    BY <1>2, <1>3, <2>1, Induction, Zenon
  <2> QED BY <1>5, <2>2, Zenon
<1>7. first(n) = Range(txs)
  BY DEF Range
<1> QED BY <1>1, <1>5, <1>6, <1>7

(* The loop gives the same versions whatever else the tables hold. *)
LEMMA LoopsAgree ==
    ASSUME NEW D, D \subseteq SharedObject, NEW x \in Tables(D),
           NEW y \in Tables(SharedObject),
           x.processed = y.processed, \A o \in D : x.next[o] = y.next[o],
           NEW txs \in Seq(Tx), \A t \in Range(txs) : Shared[t] \subseteq D
    PROVE  LET mine == process_consensus_transactions(x, txs)
               theirs == process_consensus_transactions(y, txs)
           IN  /\ mine \in Tables(D)
               /\ mine.processed = theirs.processed
               /\ \A o \in D : mine.next[o] = theirs.next[o]
               /\ DOMAIN mine.assigned =
                        DOMAIN x.assigned \cup (mine.processed \ x.processed)
               /\ \A t \in DOMAIN mine.assigned :
                    mine.assigned[t] = IF t \in mine.processed \ x.processed
                                       THEN theirs.assigned[t] ELSE x.assigned[t]
<1>0. \A t \in Range(txs) : Shared[t] \subseteq SharedObject
  BY Zenon
<1>1. PICK a : IsLoop(D, x, txs, a)
  BY LoopRuns, Zenon
<1>2. PICK b : IsLoop(SharedObject, y, txs, b)
  BY <1>0, LoopRuns, Zenon
<1> USE DEF IsLoop
<1> DEFINE n == Len(txs)
           Same(p, q) ==
                /\ p.processed = q.processed
                /\ \A o \in D : p.next[o] = q.next[o]
                /\ x.processed \subseteq p.processed
                /\ DOMAIN p.assigned = DOMAIN x.assigned \cup (p.processed \ x.processed)
                /\ p.processed \ x.processed \subseteq DOMAIN q.assigned
                /\ \A t \in DOMAIN p.assigned :
                        p.assigned[t] = IF t \in p.processed \ x.processed
                                        THEN q.assigned[t] ELSE x.assigned[t]
           P == {i \in 0 .. n : Same(a[i], b[i])}
<1>3. n \in Nat
  OBVIOUS
<1>4. 0 \in P
  <2>1. Same(x, y)
    BY Zenon
  <2> HIDE DEF Same
  <2> QED BY <1>1, <1>2, <1>3, <2>1
<1>5. ASSUME NEW i \in 0 .. n, i < n, i \in P PROVE i + 1 \in P
  <2>1. i + 1 \in 1 .. n /\ i + 1 \in 0 .. n /\ (i + 1) - 1 = i
    BY <1>3, <1>5
  <2>2. PICK t \in Tx : t = txs[i + 1] /\ t \in Range(txs)
    BY <2>1 DEF Range
  <2>3. PICK p \in Tables(D) : p = a[i]
    BY <1>1, Zenon
  <2>4. PICK q \in Tables(SharedObject) : q = b[i]
    BY <1>2, Zenon
  <2>5. a[i + 1] = process_consensus_transaction(p, t)
    BY <1>1, <2>1, <2>2, <2>3, Zenon
  <2>6. b[i + 1] = process_consensus_transaction(q, t)
    BY <1>2, <2>1, <2>2, <2>4, Zenon
  <2>7. Same(p, q)
    <3> HIDE DEF Same
    <3> QED BY <1>5, <2>3, <2>4, Zenon
  <2>8. Shared[t] \subseteq D /\ Shared[t] \subseteq SharedObject
    BY <1>0, <2>2, Zenon
  <2> DEFINE p1 == process_consensus_transaction(p, t)
             q1 == process_consensus_transaction(q, t)
  <2>9. Same(p1, q1)
    <3>1. CASE t \in p.processed
      <4>1. p1 = p /\ q1 = q
        BY <2>7, <3>1, Zenon DEF process_consensus_transaction
      <4> HIDE DEF p1, q1, Same
      <4> QED BY <2>7, <4>1, Zenon
    <3>2. CASE t \notin p.processed
      <4>1. IsStep(p, t, p1)
        BY <2>8, StepTables, Zenon
      <4>2. IsStep(q, t, q1)
        BY <2>8, StepTables, Zenon
      <4> HIDE DEF p1, q1
      <4> USE DEF IsStep
      <4>3. p.next \in [D -> Nat] /\ q.next \in [SharedObject -> Nat]
        BY Zenon DEF Tables
      <4>4. InputKeys(t, p.next) = InputKeys(t, q.next)
        BY <2>7, <2>8 DEF InputKeys
      <4>5. ASSUME NEW o \in D PROVE p1.next[o] = q1.next[o]
        <5>1. /\ p1.next = record_shared_object_cert(p.next, t)
              /\ q1.next = record_shared_object_cert(q.next, t)
          BY <2>7, <3>2, <4>1, <4>2, Zenon
        <5>2. PICK v : v = lamport_increment(InputKeys(t, p.next))
          BY Zenon
        <5>3. p1.next[o] = IF o \in Mutable[t] THEN v ELSE p.next[o]
          BY <4>3, <5>1, <5>2, Zenon DEF record_shared_object_cert
        <5>4. q1.next[o] = IF o \in Mutable[t] THEN v ELSE q.next[o]
          BY <4>3, <4>4, <5>1, <5>2, Zenon DEF record_shared_object_cert
        <5> QED BY <2>7, <5>3, <5>4, Zenon
      <4>6. p1.assigned[t] = q1.assigned[t]
        BY <2>7, <2>8, <3>2, <4>1, <4>2
      <4>7. t \in p1.processed \ x.processed
        BY <2>7, <3>2, <4>1, Zenon
      <4>8. p1.processed = q1.processed /\ x.processed \subseteq p1.processed
        BY <2>7, <4>1, <4>2, Zenon
      <4>9. DOMAIN p1.assigned = DOMAIN x.assigned \cup (p1.processed \ x.processed)
        BY <2>7, <3>2, <4>1, <4>7, Zenon
      <4>10. p1.processed \ x.processed \subseteq DOMAIN q1.assigned
        BY <2>7, <3>2, <4>1, <4>2, Zenon
      <4>11. ASSUME NEW u \in DOMAIN p1.assigned
             PROVE  p1.assigned[u] = IF u \in p1.processed \ x.processed
                                     THEN q1.assigned[u] ELSE x.assigned[u]
        <5>1. CASE u = t
          BY <4>6, <4>7, <5>1, Zenon
        <5>2. CASE u # t
          <6>1. u \in DOMAIN p.assigned /\ p1.assigned[u] = p.assigned[u]
            BY <3>2, <4>1, <5>2
          <6>2. u \in p1.processed \ x.processed <=> u \in p.processed \ x.processed
            BY <4>1, <5>2, Zenon
          <6>3. u \in p.processed \ x.processed => q1.assigned[u] = q.assigned[u]
            BY <2>7, <3>2, <4>2, <5>2, Zenon
          <6> QED BY <2>7, <6>1, <6>2, <6>3, Zenon
        <5> QED BY <5>1, <5>2, Zenon
      <4> QED BY <4>5, <4>8, <4>9, <4>10, <4>11, Zenon
    <3> QED BY <3>1, <3>2, Zenon
  <2> HIDE DEF Same, p1, q1
  <2>10. Same(a[i + 1], b[i + 1])
    BY <2>5, <2>6, <2>9, Zenon DEF p1, q1
  <2> QED BY <2>1, <2>10, Zenon
<1>6. n \in 0 .. n
  BY <1>3
<1>7. n \in P
  <2>1. \A i \in 0 .. n : i < n /\ i \in P => i + 1 \in P
    BY <1>5, Zenon
  <2> HIDE DEF P, n
  <2>2. \A i \in 0 .. n : i \in P
    BY <1>3, <1>4, <2>1, Induction, Zenon
  <2> QED BY <1>6, <2>2, Zenon
<1>8. Same(a[n], b[n]) /\ a[n] \in Tables(D)
  <2> HIDE DEF Same
  <2> QED BY <1>1, <1>6, <1>7, Zenon
<1> QED BY <1>1, <1>2, <1>8, Zenon

-----------------------------------------------------------------------------
Start(s) == get_or_init_next_object_versions(Genesis, SharedObject)[s]

(* The version of a shared object at the start is the last one of Genesis. *)
LEMMA StartVersion ==
    ASSUME NEW s \in SharedObject
    PROVE  /\ Start(s) \in Nat
           /\ \A g \in Genesis : Object(g) = s => Version(g) <= Start(s)
           /\ Start(s) = IF Versions(Genesis, s) = {} THEN InitialVersion[s]
                         ELSE Max(Versions(Genesis, s))
<1> DEFINE V == Versions(Genesis, s)
           mine == {g \in Genesis : Object(g) = s}
<1>1. Start(s) = IF V = {} THEN InitialVersion[s] ELSE Max(V)
  BY Zenon DEF Start, get_or_init_next_object_versions
<1>2. InitialVersion[s] \in Nat
  BY ValidatorAssumption, Zenon
<1>3. \A g \in mine : Version(g) \in Nat /\ Version(g) \in V
  BY ManagerAssumption, Zenon DEF Version, Versions
<1>4. V \in SUBSET Nat
  BY <1>3, Zenon DEF Versions
<1>5. CASE mine = {}
  <2>1. V = {}
    BY <1>5, Zenon DEF Versions
  <2> QED BY <1>1, <1>2, <1>5, <2>1, Zenon
<1>6. CASE mine # {}
  <2> DEFINE v == [g \in mine |-> Version(g)]
  <2>1. mine \in SUBSET Genesis /\ IsFiniteSet(Genesis)
    BY ManagerAssumption, Zenon
  <2>2. v \in [mine -> Nat]
    BY <1>3, Zenon
  <2> HIDE DEF mine, v
  <2>3. IsFiniteSet(mine)
    BY <2>1, FS_Subset, Zenon
  <2>4. PICK x \in mine : \A y \in mine : v[y] <= v[x]
    BY <1>6, <2>2, <2>3, GreatestWeight, Zenon
  <2>5. \A y \in mine : Version(y) <= Version(x)
    BY <2>4, Zenon DEF v
  <2>6. \A w \in V : w <= Version(x)
    BY <2>5, Zenon DEF Versions, mine
  <2>7. Version(x) \in V /\ Version(x) \in Nat
    BY <1>3, Zenon
  <2> HIDE DEF V
  <2>8. Max(V) = Version(x)
    BY <1>4, <2>6, <2>7, MaxIs, Zenon
  <2>9. Start(s) = Version(x) /\ V # {}
    BY <1>1, <2>7, <2>8, Zenon
  <2> QED BY <1>1, <2>5, <2>7, <2>9, Zenon DEF mine, V
<1> QED BY <1>5, <1>6, Zenon

(* The versions along the log: those of one object only grow, and no       *)
(* certificate is given one between what another reads and writes.         *)
Out(acc, u) == lamport_increment(InputKeys(u, acc.assigned[u]))

Chain(acc) ==
    /\ DOMAIN acc.assigned = acc.processed
    /\ \A t \in acc.processed : acc.assigned[t] \in [Shared[t] -> Nat]
    /\ \A s \in SharedObject :
        /\ Start(s) <= acc.next[s]
        /\ (\A u \in acc.processed : s \notin Mutable[u]) => acc.next[s] = Start(s)
    /\ \A t \in acc.processed : \A s \in Shared[t] :
            Start(s) <= acc.assigned[t][s] /\ acc.assigned[t][s] <= acc.next[s]
    /\ \A u \in acc.processed : \A s \in Mutable[u] : Out(acc, u) <= acc.next[s]
    /\ \A t \in acc.processed, u \in acc.processed : \A s \in Shared[t] \cap Mutable[u] :
            \/ acc.assigned[t][s] <= acc.assigned[u][s]
            \/ Out(acc, u) <= acc.assigned[t][s]

(* A certificate continues the chain. *)
LEMMA ChainStep ==
    ASSUME NEW acc \in Tables(SharedObject), Chain(acc), NEW t \in Tx
    PROVE  Chain(process_consensus_transaction(acc, t))
<1>1. CASE t \in acc.processed
  <2>1. process_consensus_transaction(acc, t) = acc
    BY <1>1, Zenon DEF process_consensus_transaction
  <2> QED BY <2>1, Zenon
<1>2. CASE t \notin acc.processed
  <2>1. Shared[t] \subseteq SharedObject
    BY Zenon DEF SharedObject
  <2>2. PICK new \in Tables(SharedObject) :
            new = process_consensus_transaction(acc, t) /\ IsStep(acc, t, new)
    BY <2>1, StepTables, Zenon
  <2>3. /\ acc.next \in [SharedObject -> Nat] /\ new.next \in [SharedObject -> Nat]
        /\ acc.processed \in SUBSET Tx
    BY Zenon DEF Tables
  <2>4. /\ new.processed = acc.processed \cup {t}
        /\ new.next = record_shared_object_cert(acc.next, t)
        /\ DOMAIN new.assigned = DOMAIN acc.assigned \cup {t}
        /\ new.assigned[t] = [s \in Shared[t] |-> acc.next[s]]
        /\ \A u \in DOMAIN acc.assigned \ {t} : new.assigned[u] = acc.assigned[u]
    BY <1>2, <2>2, Zenon DEF IsStep
  <2>5. DOMAIN acc.assigned = acc.processed
    BY Zenon DEF Chain
  <2>6. \A u \in acc.processed : new.assigned[u] = acc.assigned[u] /\ Out(new, u) = Out(acc, u)
    BY <1>2, <2>4, <2>5, Zenon DEF Out
  <2>7. Out(new, t) = lamport_increment(InputKeys(t, acc.next))
    <3>1. InputKeys(t, new.assigned[t]) = InputKeys(t, acc.next)
      BY <2>4 DEF InputKeys
    <3> QED BY <3>1, Zenon DEF Out
  <2>8. /\ Out(new, t) \in Nat
        /\ \A s \in Shared[t] : acc.next[s] \in Nat /\ acc.next[s] < Out(new, t)
    <3>1. /\ lamport_increment(InputKeys(t, acc.next)) \in Nat
          /\ \A k \in InputKeys(t, acc.next) :
                Version(k) < lamport_increment(InputKeys(t, acc.next))
      BY <2>1, <2>3, Lamport, Zenon
    <3>2. ASSUME NEW s \in Shared[t] PROVE acc.next[s] < Out(new, t)
      <4>1. <<s, acc.next[s]>> \in InputKeys(t, acc.next)
        BY Zenon DEF InputKeys
      <4>2. Version(<<s, acc.next[s]>>) = acc.next[s]
        BY Zenon DEF Version
      <4> QED BY <2>7, <3>1, <4>1, <4>2, Zenon
    <3> QED BY <2>1, <2>3, <2>7, <3>1, <3>2, Zenon
  <2>9. Mutable[t] \subseteq Shared[t]
    BY ManagerAssumption, Zenon
  <2>10. ASSUME NEW s \in SharedObject
         PROVE  new.next[s] = IF s \in Mutable[t] THEN Out(new, t) ELSE acc.next[s]
    BY <2>3, <2>4, <2>7, Zenon DEF record_shared_object_cert
  <2>11. \A s \in SharedObject : acc.next[s] <= new.next[s] /\ acc.next[s] \in Nat
                                 /\ new.next[s] \in Nat /\ Start(s) \in Nat
    BY <2>1, <2>3, <2>8, <2>9, <2>10, StartVersion
  <2>12. \A u \in acc.processed : /\ acc.assigned[u] \in [Shared[u] -> Nat]
                                  /\ Shared[u] \subseteq SharedObject
                                  /\ Mutable[u] \subseteq Shared[u]
    BY <2>3, ManagerAssumption, Zenon DEF Chain, SharedObject
  <2>13. \A s \in Shared[t] : new.assigned[t][s] = acc.next[s]
    BY <2>4, Zenon
  <2>14. \A u \in acc.processed : Out(acc, u) \in Nat
    BY <2>3, <2>12, Lamport, Zenon DEF Out
  <2>15. /\ DOMAIN new.assigned = new.processed
         /\ \A u \in new.processed : new.assigned[u] \in [Shared[u] -> Nat]
    BY <2>1, <2>3, <2>4, <2>5, <2>6, <2>12
  <2>16. ASSUME NEW s \in SharedObject
         PROVE  /\ Start(s) <= new.next[s]
                /\ (\A u \in new.processed : s \notin Mutable[u]) => new.next[s] = Start(s)
    BY <2>4, <2>10, <2>11 DEF Chain
  <2>17. ASSUME NEW u \in new.processed, NEW s \in Shared[u]
         PROVE  Start(s) <= new.assigned[u][s] /\ new.assigned[u][s] <= new.next[s]
    <3>1. CASE u = t
      BY <2>1, <2>11, <2>13, <3>1, Zenon DEF Chain
    <3>2. CASE u # t
      <4>1. u \in acc.processed /\ new.assigned[u][s] = acc.assigned[u][s] /\ s \in SharedObject
        BY <2>4, <2>6, <2>12, <3>2, Zenon
      <4>2. Start(s) <= acc.assigned[u][s] /\ acc.assigned[u][s] <= acc.next[s]
        BY <4>1, Zenon DEF Chain
      <4>3. acc.assigned[u][s] \in Nat
        BY <2>12, <4>1, Zenon
      <4> QED BY <2>11, <4>1, <4>2, <4>3
    <3> QED BY <3>1, <3>2, Zenon
  <2>18. ASSUME NEW u \in new.processed, NEW s \in Mutable[u]
         PROVE  Out(new, u) <= new.next[s]
    <3>1. CASE u = t
      BY <2>1, <2>8, <2>9, <2>10, <3>1
    <3>2. CASE u # t
      <4>1. u \in acc.processed /\ Out(new, u) = Out(acc, u) /\ s \in SharedObject
        BY <2>4, <2>6, <2>12, <3>2, Zenon
      <4>2. Out(acc, u) <= acc.next[s]
        BY <4>1, Zenon DEF Chain
      <4> QED BY <2>11, <2>14, <4>1, <4>2
    <3> QED BY <3>1, <3>2, Zenon
  <2>19. ASSUME NEW w \in new.processed, NEW u \in new.processed,
                NEW s \in Shared[w] \cap Mutable[u]
         PROVE  \/ new.assigned[w][s] <= new.assigned[u][s]
                \/ Out(new, u) <= new.assigned[w][s]
    <3>1. CASE w = t /\ u = t
      BY <2>1, <2>11, <2>13, <3>1
    <3>2. CASE w = t /\ u # t
      <4>1. u \in acc.processed /\ Out(new, u) = Out(acc, u)
        BY <2>4, <2>6, <3>2, Zenon
      <4>2. Out(acc, u) <= acc.next[s]
        BY <4>1, Zenon DEF Chain
      <4> QED BY <2>13, <3>2, <4>1, <4>2, Zenon
    <3>3. CASE w # t /\ u = t
      <4>1. w \in acc.processed /\ new.assigned[w] = acc.assigned[w]
        BY <2>4, <2>6, <3>3, Zenon
      <4>2. acc.assigned[w][s] <= acc.next[s]
        BY <4>1, Zenon DEF Chain
      <4>3. s \in Shared[t]
        BY <2>9, <3>3, Zenon
      <4> QED BY <2>13, <3>3, <4>1, <4>2, <4>3, Zenon
    <3>4. CASE w # t /\ u # t
      <4>1. w \in acc.processed /\ u \in acc.processed
        BY <2>4, <3>4, Zenon
      <4> QED BY <2>6, <4>1, Zenon DEF Chain
    <3> QED BY <3>1, <3>2, <3>3, <3>4, Zenon
  <2>20. Chain(new)
    BY <2>15, <2>16, <2>17, <2>18, <2>19, Zenon DEF Chain
  <2> QED BY <2>2, <2>20, Zenon
<1> QED BY <1>1, <1>2, Zenon

(* So does a commit. *)
LEMMA LoopChain ==
    ASSUME NEW tables \in Tables(SharedObject), Chain(tables), NEW txs \in Seq(Tx)
    PROVE  Chain(process_consensus_transactions(tables, txs))
<1>1. \A t \in Tx : Shared[t] \subseteq SharedObject
  BY Zenon DEF SharedObject
<1>2. \A t \in Range(txs) : Shared[t] \subseteq SharedObject
  BY <1>1 DEF Range
<1>3. PICK run : IsLoop(SharedObject, tables, txs, run)
  BY <1>2, LoopRuns, Zenon
<1> USE DEF IsLoop
<1> DEFINE n == Len(txs)
           P == {i \in 0 .. n : Chain(run[i])}
<1>4. n \in Nat /\ n \in 0 .. n
  OBVIOUS
<1>5. 0 \in P
  BY <1>3, <1>4
<1>6. \A i \in 0 .. n : i < n /\ i \in P => i + 1 \in P
  <2> SUFFICES ASSUME NEW i \in 0 .. n, i < n, i \in P PROVE i + 1 \in P
    BY Zenon
  <2>1. i + 1 \in 1 .. n /\ i + 1 \in 0 .. n /\ (i + 1) - 1 = i
    BY <1>4
  <2>2. txs[i + 1] \in Tx /\ run[i] \in Tables(SharedObject) /\ Chain(run[i])
    BY <1>3, <2>1
  <2>3. run[i + 1] = process_consensus_transaction(run[i], txs[i + 1])
    BY <1>3, <2>1, Zenon
  <2>4. Chain(run[i + 1])
    BY <2>2, <2>3, ChainStep, Zenon
  <2> QED BY <2>1, <2>4, Zenon
<1> HIDE DEF P, n
<1>7. \A i \in 0 .. n : i \in P
  BY <1>4, <1>5, <1>6, Induction, Zenon
<1> QED BY <1>3, <1>4, <1>7, Zenon DEF P, n

StartTables ==
    [next |-> get_or_init_next_object_versions(Genesis, SharedObject),
     assigned |-> NoVersions, processed |-> {}]

(* The tables of a log start the chain. *)
LEMMA StartChain == StartTables \in Tables(SharedObject) /\ Chain(StartTables)
<1> DEFINE next == get_or_init_next_object_versions(Genesis, SharedObject)
<1>1. \A s \in SharedObject : next[s] = Start(s) /\ Start(s) \in Nat
  BY StartVersion, Zenon DEF Start
<1>2. next \in [SharedObject -> Nat]
  <2>1. next = [o \in SharedObject |-> next[o]]
    BY Zenon DEF get_or_init_next_object_versions
  <2> HIDE DEF next
  <2> QED BY <1>1, <2>1, Zenon
<1>3. NoVersions \in VersionTables /\ DOMAIN NoVersions = {}
  <2>1. NoVersions \in [{} -> UNION {[B -> Nat] : B \in SUBSET SharedObject}]
    BY Zenon DEF NoVersions
  <2>2. {} \in SUBSET Tx
    BY Zenon
  <2>3. DOMAIN NoVersions = {}
    BY Zenon DEF NoVersions
  <2> DEFINE X == UNION {[B -> Nat] : B \in SUBSET SharedObject}
  <2>4. [{} -> X] \in {[A -> X] : A \in SUBSET Tx}
    BY <2>2, Zenon
  <2>5. VersionTables = UNION {[A -> X] : A \in SUBSET Tx}
    BY Zenon DEF VersionTables
  <2> HIDE DEF X
  <2>6. NoVersions \in VersionTables
    BY <2>1, <2>4, <2>5, Zenon DEF X
  <2> QED BY <2>3, <2>6, Zenon
<1> HIDE DEF next
<1>4. StartTables = [next |-> next, assigned |-> NoVersions, processed |-> {}]
  BY Zenon DEF StartTables, next
<1>5. /\ StartTables.next = next /\ StartTables.assigned = NoVersions
      /\ StartTables.processed = {}
  BY <1>4, Zenon
<1>6. StartTables \in Tables(SharedObject)
  BY <1>2, <1>3, <1>4, Zenon DEF Tables
<1>7. Chain(StartTables)
  BY <1>1, <1>3, <1>5 DEF Chain
<1> QED BY <1>6, <1>7, Zenon

IsLogRun(l, run) ==
    /\ run \in [0 .. Len(l) -> Tables(SharedObject)]
    /\ run[0] = StartTables
    /\ \A i \in 1 .. Len(l) : run[i] = process_consensus_transactions(run[i - 1], l[i])

(* The loop over the commits of a log. *)
LEMMA LogRuns ==
    ASSUME NEW l \in Logs
    PROVE  IsLogRun(l, AgreedTables(l))
<1> DEFINE n == Len(l)
           S == Tables(SharedObject)
           Body(f) == [i \in 0 .. n |-> IF i = 0 THEN StartTables
                                        ELSE process_consensus_transactions(f[i - 1], l[i])]
           step == [i \in 1 .. n |-> [x \in {y \in S : Chain(y)} |->
                                        process_consensus_transactions(x, l[i])]]
           C == {y \in S : Chain(y)}
           run == CHOOSE f : f = Body(f)
<1>1. AgreedTables(l) = run
  BY Zenon DEF AgreedTables, StartTables
<1>2. n \in Nat /\ \A i \in 1 .. n : l[i] \in Seq(Tx)
  <2>1. l \in Seq(Seq(Tx))
    BY ValidatorAssumption, Zenon
  <2> QED BY <2>1
<1>3. ASSUME NEW i \in 1 .. n, NEW x \in C
      PROVE  process_consensus_transactions(x, l[i]) \in C
  <2>1. \A t \in Tx : Shared[t] \subseteq SharedObject
    BY Zenon DEF SharedObject
  <2>2. l[i] \in Seq(Tx)
    BY <1>2, Zenon
  <2>3. \A t \in Range(l[i]) : Shared[t] \subseteq SharedObject
    BY <2>1, <2>2 DEF Range
  <2>4. x.processed \subseteq DOMAIN x.assigned
    BY Zenon DEF Chain
  <2>5. process_consensus_transactions(x, l[i]) \in S
    BY <2>2, <2>3, <2>4, LoopGrows, Zenon
  <2>6. Chain(process_consensus_transactions(x, l[i]))
    BY <2>2, LoopChain, Zenon
  <2> QED BY <2>5, <2>6, Zenon
<1>4. step \in Bodies(n, C)
  BY <1>3, Zenon DEF Bodies
<1>5. PICK g : IsRun(n, C, StartTables, step, g)
  <2>1. StartTables \in C
    BY StartChain, Zenon
  <2> HIDE DEF n, C, step
  <2> QED BY <1>2, <1>4, <2>1, RunExists, Zenon
<1>6. g = Body(g)
  <2> USE DEF IsRun
  <2>1. ASSUME NEW i \in 1 .. n
        PROVE  step[i][g[i - 1]] = process_consensus_transactions(g[i - 1], l[i])
    <3>1. g[i - 1] \in C
      <4> HIDE DEF C
      <4> QED BY <1>2, <1>5
    <3> QED BY <3>1, Zenon
  <2>2. ASSUME NEW i \in 0 .. n PROVE g[i] = Body(g)[i]
    <3>1. CASE i = 0
      BY <1>5, <3>1, Zenon
    <3>2. CASE i # 0
      <4>1. i \in 1 .. n
        BY <1>2, <3>2
      <4> HIDE DEF step
      <4>2. g[i] = process_consensus_transactions(g[i - 1], l[i])
        BY <1>5, <2>1, <4>1, Zenon
      <4> QED BY <3>2, <4>2, Zenon
    <3> QED BY <3>1, <3>2, Zenon
  <2> QED BY <1>5, <2>2, Zenon
<1>7. run = Body(run)
  BY <1>6, Zenon
<1> HIDE DEF run
<1>8. run[0] = StartTables
  BY <1>2, <1>7
<1>9. ASSUME NEW i \in 1 .. n
      PROVE  run[i] = process_consensus_transactions(run[i - 1], l[i])
  BY <1>2, <1>7
<1> DEFINE P == {i \in 0 .. n : run[i] \in C}
<1>10. \A i \in 0 .. n : i \in P
  <2>1. 0 \in P
    BY <1>2, <1>8, StartChain
  <2>2. \A i \in 0 .. n : i < n /\ i \in P => i + 1 \in P
    <3> SUFFICES ASSUME NEW i \in 0 .. n, i < n, i \in P PROVE i + 1 \in P
      BY Zenon
    <3>1. i + 1 \in 1 .. n /\ i + 1 \in 0 .. n /\ (i + 1) - 1 = i
      BY <1>2
    <3>2. run[i + 1] = process_consensus_transactions(run[i], l[i + 1])
      BY <1>9, <3>1, Zenon
    <3> HIDE DEF C
    <3>3. run[i + 1] \in C
      BY <1>3, <3>1, <3>2, Zenon
    <3> QED BY <3>1, <3>3, Zenon
  <2> HIDE DEF P
  <2> QED BY <1>2, <2>1, <2>2, Induction, Zenon
<1>11. run \in [0 .. n -> S]
  <2>1. run = [i \in 0 .. n |-> run[i]]
    BY <1>7, Zenon
  <2>2. \A i \in 0 .. n : run[i] \in S
    BY <1>10, Zenon
  <2> QED BY <2>1, <2>2, Zenon
<1> QED BY <1>1, <1>8, <1>9, <1>11, Zenon DEF IsLogRun

(* What was processed by some commit has its final versions, and in the    *)
(* end everything sequenced was processed.                                 *)
LEMMA LogFacts ==
    ASSUME NEW l \in Logs
    PROVE  /\ \A r \in 0 .. Len(l) :
                /\ AgreedTables(l)[r] \in Tables(SharedObject)
                /\ Chain(AgreedTables(l)[r])
                /\ AgreedTables(l)[r].processed \subseteq SequencedIn(l)
                /\ \A t \in AgreedTables(l)[r].processed :
                        AgreedTables(l)[r].assigned[t] = AgreedVersions(l)[t]
           /\ AgreedTables(l)[Len(l)].processed = SequencedIn(l)
<1> DEFINE n == Len(l)
           T == AgreedTables(l)
           upto(i) == UNION {Range(l[j]) : j \in 1 .. i}
           P == {i \in 0 .. n : Chain(T[i]) /\ T[i].processed = upto(i)}
<1>1. n \in Nat /\ DOMAIN l = 1 .. n /\ \A i \in 1 .. n : l[i] \in Seq(Tx)
  <2>1. l \in Seq(Seq(Tx))
    BY ValidatorAssumption, Zenon
  <2> QED BY <2>1
<1>2. IsLogRun(l, T)
  BY LogRuns, Zenon
<1> HIDE DEF T
<1>3. ASSUME NEW i \in 0 .. n, i < n
      PROVE  /\ i + 1 \in 1 .. n /\ i + 1 \in 0 .. n
             /\ T[i] \in Tables(SharedObject) /\ l[i + 1] \in Seq(Tx)
             /\ \A t \in Range(l[i + 1]) : Shared[t] \subseteq SharedObject
             /\ T[i + 1] = process_consensus_transactions(T[i], l[i + 1])
  <2>1. i + 1 \in 1 .. n /\ i + 1 \in 0 .. n /\ (i + 1) - 1 = i
    BY <1>1, <1>3
  <2>2. \A t \in Tx : Shared[t] \subseteq SharedObject
    BY Zenon DEF SharedObject
  <2>3. l[i + 1] \in Seq(Tx)
    BY <1>1, <2>1, Zenon
  <2>4. \A t \in Range(l[i + 1]) : Shared[t] \subseteq SharedObject
    BY <2>2, <2>3, SMTT(30) DEF Range
  <2> QED BY <1>2, <2>1, <2>3, <2>4, Zenon DEF IsLogRun
<1>4. ASSUME NEW i \in 0 .. n, i < n, Chain(T[i])
      PROVE  /\ Chain(T[i + 1])
             /\ T[i + 1].processed = T[i].processed \cup Range(l[i + 1])
             /\ \A t \in T[i].processed : T[i + 1].assigned[t] = T[i].assigned[t]
  <2>1. T[i].processed \subseteq DOMAIN T[i].assigned
    BY <1>4, Zenon DEF Chain
  <2> QED BY <1>3, <1>4, <2>1, LoopGrows, LoopChain, SMTT(30)
<1>5. \A i \in 0 .. n : i \in P
  <2>1. 0 \in P
    <3>1. T[0] = StartTables
      BY <1>2, Zenon DEF IsLogRun
    <3>2. upto(0) = {} /\ StartTables.processed = {}
      BY DEF StartTables
    <3> QED BY <1>1, <3>1, <3>2, StartChain
  <2>2. \A i \in 0 .. n : i < n /\ i \in P => i + 1 \in P
    <3> SUFFICES ASSUME NEW i \in 0 .. n, i < n, i \in P PROVE i + 1 \in P
      BY Zenon
    <3>1. 1 .. i + 1 = (1 .. i) \cup {i + 1}
      BY <1>1
    <3>2. upto(i + 1) = upto(i) \cup Range(l[i + 1])
      BY <3>1, Zenon
    <3> HIDE DEF upto
    <3>3. Chain(T[i]) /\ T[i].processed = upto(i)
      BY Zenon
    <3>4. Chain(T[i + 1]) /\ T[i + 1].processed = T[i].processed \cup Range(l[i + 1])
      BY <1>4, <3>3, Zenon
    <3>5. T[i + 1].processed = upto(i + 1)
      BY <3>2, <3>3, <3>4, Zenon
    <3>6. i + 1 \in 0 .. n
      BY <1>3, Zenon
    <3> QED BY <3>4, <3>5, <3>6, Zenon
  <2> HIDE DEF P, n
  <2> QED BY <1>1, <2>1, <2>2, Induction, Zenon
<1>6. SequencedIn(l) = upto(n)
  BY <1>1, Zenon DEF SequencedIn
<1>7. ASSUME NEW r \in 0 .. n
      PROVE  \A t \in T[r].processed : T[r].assigned[t] = T[n].assigned[t]
  <2> HIDE DEF n
  <2> DEFINE m == n - r
             Q == {i \in 0 .. m :
                    /\ T[r].processed \subseteq T[r + i].processed
                    /\ \A t \in T[r].processed : T[r].assigned[t] = T[r + i].assigned[t]}
  <2>1. m \in Nat /\ r + m = n /\ m \in 0 .. m /\ r + 0 = r
    BY <1>1
  <2>2. 0 \in Q
    BY <2>1
  <2>3. \A i \in 0 .. m : i < m /\ i \in Q => i + 1 \in Q
    <3> SUFFICES ASSUME NEW i \in 0 .. m, i < m, i \in Q PROVE i + 1 \in Q
      BY Zenon
    <3>1. /\ r + i \in 0 .. n /\ r + i < n /\ (r + i) + 1 = r + (i + 1)
          /\ i + 1 \in 0 .. m
      <4>1. n \in Int /\ r \in Int /\ i \in Int /\ 0 <= r /\ r <= n /\ 0 <= i /\ i < n - r
        BY <1>1, <2>1
      <4> HIDE DEF Q
      <4> QED BY <4>1
    <3>2. Chain(T[r + i])
      <4>1. r + i \in P
        BY <1>5, <3>1, Zenon
      <4> QED BY <4>1, Zenon
    <3>3. /\ T[r + (i + 1)].processed = T[r + i].processed \cup Range(l[(r + i) + 1])
          /\ \A t \in T[r + i].processed : T[r + (i + 1)].assigned[t] = T[r + i].assigned[t]
      BY <1>4, <3>1, <3>2
    <3>4. /\ T[r].processed \subseteq T[r + i].processed
          /\ \A t \in T[r].processed : T[r].assigned[t] = T[r + i].assigned[t]
      BY Zenon
    <3>5. /\ T[r].processed \subseteq T[r + (i + 1)].processed
          /\ \A t \in T[r].processed : T[r].assigned[t] = T[r + (i + 1)].assigned[t]
      BY <3>3, <3>4, Zenon
    <3> QED BY <3>1, <3>5, Zenon
  <2> HIDE DEF Q, m
  <2>4. m \in Q
    <3>1. \A i \in 0 .. m : i \in Q
      BY <2>1, <2>2, <2>3, Induction, Zenon
    <3> QED BY <2>1, <3>1, Zenon
  <2> USE DEF Q
  <2> QED BY <2>1, <2>4, Zenon
<1>8. AgreedVersions(l) = T[n].assigned
  BY Zenon DEF AgreedVersions, T
<1>9. ASSUME NEW r \in 0 .. n
      PROVE  /\ T[r] \in Tables(SharedObject) /\ Chain(T[r])
             /\ T[r].processed \subseteq SequencedIn(l)
  <2>1. T[r] \in Tables(SharedObject)
    BY <1>2, Zenon DEF IsLogRun
  <2>2. Chain(T[r]) /\ T[r].processed = upto(r)
    BY <1>5, Zenon
  <2>3. upto(r) \subseteq upto(n)
    <3>1. 1 .. r \subseteq 1 .. n
      BY <1>1
    <3> QED BY <3>1, Zenon
  <2> HIDE DEF upto
  <2> QED BY <1>6, <2>1, <2>2, <2>3, Zenon
<1>10. T[n].processed = SequencedIn(l)
  <2>1. n \in 0 .. n
    BY <1>1, SMTT(30)
  <2> HIDE DEF upto
  <2> QED BY <1>5, <1>6, <2>1, Zenon
<1> QED BY <1>7, <1>8, <1>9, <1>10, Zenon DEF T

-----------------------------------------------------------------------------
(* The tables of the epoch.  What a validator holds is what the log gives  *)
(* so far, also for the certificates of synced checkpoints that it is yet  *)
(* to process.                                                             *)
KnownTx == {t \in Tx : Shared[t] = {} \/ t \in DOMAIN assigned}
Here == AgreedTables(log)[last_committed_round]

AssignInv ==
    /\ log \in Logs /\ last_committed_round \in 0 .. Len(log)
    /\ consensus_message_processed = Here.processed
    /\ DOMAIN next_shared_object_versions \subseteq SharedObject
    /\ next_shared_object_versions \in [DOMAIN next_shared_object_versions -> Nat]
    /\ \A o \in DOMAIN next_shared_object_versions :
            next_shared_object_versions[o] = Here.next[o]
    /\ assigned \in VersionTables
    /\ DOMAIN assigned \subseteq Sequenced
    /\ consensus_message_processed \subseteq DOMAIN assigned
    /\ \A t \in DOMAIN assigned :
            /\ assigned[t] = Agreed[t]
            /\ Shared[t] \subseteq DOMAIN next_shared_object_versions

(* The store holds Genesis and what was written by transactions that found *)
(* their inputs.                                                           *)
StoreInv ==
    /\ Genesis \subseteq store /\ executed \subseteq KnownTx
    /\ \A k \in store : k \in Genesis \/ \E u \in executed : k \in Outputs(u)
    /\ \A t \in executed : Keys(t) \subseteq store /\ Outputs(t) \subseteq store

(* Everything on its way to execution has its versions. *)
WorkInv ==
    /\ pending_execution \subseteq KnownTx
    /\ scheduled \in Seq(SUBSET KnownTx)
    /\ \A e \in enqueues : e.certs \subseteq KnownTx
    /\ DOMAIN pending_certificates \subseteq KnownTx
    /\ ready \subseteq KnownTx
    /\ committed \subseteq executed

-----------------------------------------------------------------------------
(* A certificate with its versions reads what the log says. *)
LEMMA KeyFacts ==
    ASSUME AssignInv, NEW t \in KnownTx
    PROVE  /\ t \in Executable(log)
           /\ \A s \in Shared[t] : /\ t \in Sequenced /\ t \in DOMAIN assigned
                                   /\ assigned[t][s] = Agreed[t][s]
                                   /\ Agreed[t][s] \in Nat
           /\ lamport_increment(Keys(t)) = Written(log, t)
           /\ Written(log, t) \in Nat
           /\ \A k \in Keys(t) :
                /\ k = <<Object(k), Version(k)>>
                /\ Version(k) \in Nat /\ Version(k) < Written(log, t)
           /\ \A j \in Keys(t), k \in Keys(t) : Object(j) = Object(k) => j = k
<1>1. log \in Logs /\ t \in Tx
  BY Zenon DEF AssignInv, KnownTx
<1>2. ASSUME NEW s \in Shared[t]
      PROVE  /\ t \in Sequenced /\ t \in DOMAIN assigned
             /\ assigned[t][s] = Agreed[t][s] /\ Agreed[t][s] \in Nat
  <2>1. t \in DOMAIN assigned
    BY Zenon DEF KnownTx
  <2>2. t \in Sequenced /\ assigned[t] = Agreed[t]
    BY <2>1, Zenon DEF AssignInv
  <2>3. Len(log) \in 0 .. Len(log)
    <3>1. log \in Seq(Seq(Tx))
      BY <1>1, ValidatorAssumption, Zenon
    <3> QED BY <3>1
  <2>4. Chain(AgreedTables(log)[Len(log)]) /\ t \in AgreedTables(log)[Len(log)].processed
    BY <1>1, <2>2, <2>3, LogFacts, Zenon DEF Sequenced
  <2>5. Agreed[t] \in [Shared[t] -> Nat]
    BY <2>4, Zenon DEF Chain, Agreed, AgreedVersions
  <2> QED BY <2>1, <2>2, <2>5, Zenon
<1>3. t \in Executable(log)
  BY <1>1, <1>2, Zenon DEF Executable, Sequenced
<1>4. Keys(t) = InputKeys(t, Agreed[t])
  BY <1>2, Zenon DEF Keys, InputKeys
<1>5. lamport_increment(Keys(t)) = Written(log, t)
  BY <1>4, Zenon DEF Written, Agreed
<1>6. /\ lamport_increment(InputKeys(t, Agreed[t])) \in Nat
      /\ \A k \in InputKeys(t, Agreed[t]) :
            /\ Version(k) \in Nat
            /\ Version(k) < lamport_increment(InputKeys(t, Agreed[t]))
  BY <1>1, <1>2, Lamport, Zenon
<1>7. Shared[t] \subseteq SharedObject
  BY <1>1, Zenon DEF SharedObject
<1>8. \A k \in Keys(t) : \/ k \in Owned[t] /\ Object(k) \notin SharedObject
                        \/ \E s \in Shared[t] : k = <<s, Agreed[t][s]>>
  BY <1>1, <1>4, ValidatorAssumption, Zenon DEF InputKeys, Objects
<1>9. \A k \in Keys(t) : k = <<Object(k), Version(k)>>
  BY <1>1, <1>8, ManagerAssumption DEF Object, Version
<1>10. ASSUME NEW j \in Keys(t), NEW k \in Keys(t), Object(j) = Object(k)
       PROVE  j = k
  <2>1. CASE j \in Owned[t] /\ Object(j) \notin SharedObject
    <3>1. k \in Owned[t]
      BY <1>7, <1>8, <1>10, <2>1 DEF Object
    <3>2. \A a \in Owned[t], b \in Owned[t] : Object(a) = Object(b) => a = b
      BY <1>1, ManagerAssumption, Zenon DEF Object
    <3> QED BY <1>10, <2>1, <3>1, <3>2, Zenon
  <2>2. CASE \E s \in Shared[t] : j = <<s, Agreed[t][s]>>
    <3>1. PICK s \in Shared[t] : j = <<s, Agreed[t][s]>>
      BY <2>2, Zenon
    <3>2. Object(k) = s
      BY <1>10, <3>1, Zenon DEF Object
    <3>3. PICK r \in Shared[t] : k = <<r, Agreed[t][r]>>
      BY <1>7, <1>8, <3>2, Zenon
    <3>4. r = s
      BY <3>2, <3>3, Zenon DEF Object
    <3> QED BY <3>1, <3>3, <3>4, Zenon
  <2> QED BY <1>8, <2>1, <2>2, Zenon
<1> QED BY <1>2, <1>3, <1>4, <1>5, <1>6, <1>9, <1>10, Zenon

(* A shared object that nobody used yet still has its first version. *)
LEMMA Uninitialised ==
    ASSUME AssignInv, StoreInv, NEW objects, NEW o \in objects, o \in SharedObject,
           o \notin DOMAIN next_shared_object_versions
    PROVE  /\ get_or_init_next_object_versions(store, objects)[o] = Here.next[o]
           /\ Here.next[o] \in Nat
<1>1. log \in Logs /\ last_committed_round \in 0 .. Len(log)
  BY Zenon DEF AssignInv
<1>2. Chain(Here) /\ Here \in Tables(SharedObject)
  BY <1>1, LogFacts, Zenon DEF Here
<1>3. \A u \in DOMAIN assigned : o \notin Shared[u]
  BY Zenon DEF AssignInv
<1>4. Here.processed \subseteq DOMAIN assigned /\ Here.processed \subseteq Tx
  BY <1>2, Zenon DEF AssignInv, Tables
<1>5. \A u \in Here.processed : o \notin Mutable[u]
  BY <1>3, <1>4, ManagerAssumption, Zenon
<1>6. Here.next[o] = Start(o)
  BY <1>2, <1>5, Zenon DEF Chain
<1>7. /\ Start(o) \in Nat
      /\ Start(o) = IF Versions(Genesis, o) = {} THEN InitialVersion[o]
                    ELSE Max(Versions(Genesis, o))
  BY StartVersion, Zenon
<1>8. get_or_init_next_object_versions(store, objects)[o] =
            IF Versions(store, o) = {} THEN InitialVersion[o] ELSE Max(Versions(store, o))
  BY Zenon DEF get_or_init_next_object_versions
<1>9. ASSUME NEW k \in store, Object(k) = o, k \notin Genesis
      PROVE  Versions(Genesis, o) = {} /\ Version(k) = InitialVersion[o]
  <2>1. PICK u \in executed : k \in Outputs(u)
    BY <1>9, Zenon DEF StoreInv
  <2>2. u \in KnownTx /\ u \in Tx
    BY Zenon DEF StoreInv, KnownTx
  <2>3. /\ u \in Executable(log) /\ Written(log, u) = lamport_increment(Keys(u))
        /\ \A s \in Shared[u] : u \in DOMAIN assigned
    BY <2>2, KeyFacts, Zenon
  <2>4. /\ Version(k) = Written(log, u)
        /\ o \in Objects(Owned[u]) \cup Mutable[u] \cup Created[u]
    BY <1>9, <2>1, <2>3, SMTT(30) DEF Outputs, Object, Version
  <2>5. o \notin Objects(Owned[u])
    BY <2>2, ValidatorAssumption, Zenon
  <2>6. o \notin Mutable[u]
    BY <1>3, <2>2, <2>3, ManagerAssumption, Zenon
  <2>7. o \in Created[u] \cap SharedObject
    BY <2>4, <2>5, <2>6, Zenon
  <2> QED BY <1>1, <2>3, <2>4, <2>7, ValidatorAssumption, Zenon
<1>10. Genesis \subseteq store
  BY Zenon DEF StoreInv
<1>11. CASE \E k \in store : Object(k) = o /\ k \notin Genesis
  <2>1. Versions(Genesis, o) = {}
    BY <1>9, <1>11, Zenon
  <2>2. \A k \in store : Object(k) = o => Version(k) = InitialVersion[o]
    <3>1. \A k \in Genesis : Object(k) # o
      BY <2>1, Zenon DEF Versions
    <3> QED BY <1>9, <3>1, Zenon
  <2>3. Versions(store, o) = {InitialVersion[o]}
    BY <1>11, <2>2, Zenon DEF Versions
  <2>4. InitialVersion[o] \in Nat
    BY ValidatorAssumption, Zenon
  <2>5. Max({InitialVersion[o]}) = InitialVersion[o]
    BY <2>4, MaxIs
  <2>6. Versions(store, o) # {}
    BY <2>3, Zenon
  <2>7. Max(Versions(store, o)) = InitialVersion[o]
    BY <2>3, <2>5, Zenon
  <2> QED BY <1>6, <1>7, <1>8, <2>1, <2>6, <2>7, Zenon
<1>12. CASE \A k \in store : Object(k) = o => k \in Genesis
  <2>1. Versions(store, o) = Versions(Genesis, o)
    BY <1>10, <1>12, Zenon DEF Versions
  <2> QED BY <1>6, <1>7, <1>8, <2>1, Zenon
<1> QED BY <1>11, <1>12, Zenon

FollowsLog(objects, I) ==
    /\ I \in [DOMAIN next_shared_object_versions \cup objects -> Nat]
    /\ \A o \in DOMAIN next_shared_object_versions \cup objects : I[o] = Here.next[o]

(* Next versions are initialised as the log has them. *)
LEMMA InitialisedFacts ==
    ASSUME AssignInv, StoreInv, NEW objects \in SUBSET SharedObject
    PROVE  FollowsLog(objects, Initialised(objects))
<1> DEFINE D == DOMAIN next_shared_object_versions
           I == Initialised(objects)
<1>1. I = [o \in D \cup objects |->
                IF o \in D THEN next_shared_object_versions[o]
                ELSE get_or_init_next_object_versions(store, objects)[o]]
  BY Zenon DEF Initialised
<1>2. ASSUME NEW o \in D \cup objects
      PROVE  I[o] = Here.next[o] /\ I[o] \in Nat
  <2>1. CASE o \in D
    <3>1. I[o] = next_shared_object_versions[o]
      BY <1>1, <2>1, Zenon
    <3> QED BY <2>1, <3>1, Zenon DEF AssignInv
  <2>2. CASE o \notin D
    <3>1. o \in objects /\ o \in SharedObject
      BY <2>2, Zenon
    <3>2. I[o] = get_or_init_next_object_versions(store, objects)[o]
      BY <1>1, <2>2, Zenon
    <3> QED BY <2>2, <3>1, <3>2, Uninitialised, Zenon
  <2> QED BY <2>1, <2>2, Zenon
<1>3. I = [o \in D \cup objects |-> I[o]]
  BY <1>1, Zenon
<1> HIDE DEF I, D
<1>4. I \in [D \cup objects -> Nat]
  BY <1>2, <1>3, Zenon
<1> QED BY <1>2, <1>4, Zenon DEF FollowsLog, I, D

(* A commit goes on along the log. *)
LEMMA CommitAssigns ==
    ASSUME AssignInv, handle_consensus_output
    PROVE  AssignInv' /\ DOMAIN assigned \subseteq DOMAIN assigned'
           /\ consensus_message_processed' = consensus_message_processed \cup Range(Commit)
           /\ \A t \in Range(Commit) : t \in DOMAIN assigned' /\ t \in Tx
<1> DEFINE r == last_committed_round
           D == DOMAIN next_shared_object_versions
           x == [next |-> next_shared_object_versions, assigned |-> assigned,
                 processed |-> consensus_message_processed]
           mine == process_consensus_transactions(x, Commit)
           T == AgreedTables(log)
<1>1. /\ log \in Logs /\ r \in 0 .. Len(log) /\ r < Len(log)
      /\ log' = log /\ r' = r + 1
      /\ next_shared_object_versions' = mine.next
      /\ assigned' = mine.assigned
      /\ consensus_message_processed' = mine.processed
      /\ SharedOf(Range(Commit)) \subseteq D
  BY Zenon DEF AssignInv, handle_consensus_output
<1>2. Len(log) \in Nat /\ r + 1 \in 1 .. Len(log) /\ r + 1 \in 0 .. Len(log)
      /\ (r + 1) - 1 = r /\ Commit = log[r + 1] /\ Commit \in Seq(Tx)
  <2>1. log \in Seq(Seq(Tx))
    BY <1>1, ValidatorAssumption, Zenon
  <2>2. Len(log) \in Nat /\ r + 1 \in 1 .. Len(log) /\ r + 1 \in 0 .. Len(log)
        /\ (r + 1) - 1 = r
    BY <1>1, <2>1
  <2> QED BY <2>1, <2>2, SMTT(30) DEF Commit
<1>3. T[r + 1] = process_consensus_transactions(Here, Commit)
  <2>1. IsLogRun(log, T)
    BY <1>1, LogRuns, Zenon
  <2> HIDE DEF T
  <2>2. T[r + 1] = process_consensus_transactions(T[r], Commit)
    BY <1>2, <2>1, Zenon DEF IsLogRun
  <2>3. Here = T[r]
    BY Zenon DEF Here, T
  <2> QED BY <2>2, <2>3, Zenon
<1>4. Here' = T[r + 1]
  BY <1>1, Zenon DEF Here
<1>5. Here \in Tables(SharedObject) /\ Chain(Here)
  BY <1>1, LogFacts, Zenon DEF Here
<1>6. x \in Tables(D)
  <2>1. /\ next_shared_object_versions \in [D -> Nat]
        /\ assigned \in VersionTables
        /\ consensus_message_processed \in SUBSET Tx
    BY <1>5, Zenon DEF AssignInv, Tables
  <2> QED BY <2>1, Zenon DEF Tables
<1>7. \A t \in Range(Commit) : t \in Tx /\ Shared[t] \subseteq D
  BY <1>1, <1>2 DEF SharedOf, Range
<1>8. /\ x.next = next_shared_object_versions /\ x.assigned = assigned
      /\ x.processed = consensus_message_processed
  BY Zenon
<1> HIDE DEF x, T, mine
<1>9. /\ D \subseteq SharedObject /\ x.processed = Here.processed
      /\ \A o \in D : x.next[o] = Here.next[o]
      /\ x.processed \subseteq DOMAIN x.assigned
  BY <1>8, Zenon DEF AssignInv
<1> HIDE DEF D
<1>10. /\ mine \in Tables(D)
       /\ mine.processed = T[r + 1].processed
       /\ \A o \in D : mine.next[o] = T[r + 1].next[o]
       /\ DOMAIN mine.assigned = DOMAIN x.assigned \cup (mine.processed \ x.processed)
       /\ \A t \in DOMAIN mine.assigned :
            mine.assigned[t] = IF t \in mine.processed \ x.processed
                               THEN T[r + 1].assigned[t] ELSE x.assigned[t]
  BY <1>2, <1>3, <1>5, <1>6, <1>7, <1>9, LoopsAgree, SMTT(30) DEF mine
<1>11. mine.processed = x.processed \cup Range(Commit)
  BY <1>2, <1>6, <1>7, <1>9, LoopGrows, SMTT(30) DEF mine
<1>12. /\ T[r + 1].processed \subseteq SequencedIn(log)
       /\ \A t \in T[r + 1].processed : T[r + 1].assigned[t] = AgreedVersions(log)[t]
  BY <1>1, <1>2, LogFacts, Zenon DEF T
<1>13. /\ next_shared_object_versions' \in [D -> Nat]
       /\ assigned' \in VersionTables
  BY <1>1, <1>10, Zenon DEF Tables
<1>14. DOMAIN (next_shared_object_versions') = D
  BY <1>13, Zenon
<1>15. DOMAIN (assigned') = DOMAIN assigned \cup Range(Commit)
  BY <1>1, <1>8, <1>9, <1>10, <1>11, Zenon
<1>16. Sequenced' = SequencedIn(log) /\ Agreed' = AgreedVersions(log)
  BY <1>1, Zenon DEF Sequenced, Agreed
<1>17. ASSUME NEW t \in DOMAIN (assigned')
       PROVE  t \in SequencedIn(log) /\ assigned'[t] = AgreedVersions(log)[t]
              /\ Shared[t] \subseteq D
  <2>1. CASE t \in mine.processed \ x.processed
    <3>1. t \in Range(Commit) /\ t \in T[r + 1].processed
      BY <1>10, <1>11, <2>1, Zenon
    <3>2. assigned'[t] = T[r + 1].assigned[t]
      BY <1>1, <1>10, <2>1, Zenon
    <3> QED BY <1>7, <1>12, <3>1, <3>2, Zenon
  <2>2. CASE t \notin mine.processed \ x.processed
    <3>1. t \in DOMAIN assigned
      BY <1>1, <1>8, <1>10, <2>2, Zenon
    <3>2. assigned'[t] = assigned[t]
      BY <1>1, <1>8, <1>10, <2>2, Zenon
    <3> QED BY <3>1, <3>2, Zenon DEF AssignInv, Sequenced, Agreed, D
  <2> QED BY <2>1, <2>2, Zenon
<1>18. last_committed_round' \in 0 .. Len(log')
  BY <1>1, <1>2, Zenon
<1>19. consensus_message_processed' = Here'.processed
  BY <1>1, <1>4, <1>10, Zenon
<1>20. \A o \in D : next_shared_object_versions'[o] = Here'.next[o]
  BY <1>1, <1>4, <1>10, Zenon
<1>21. consensus_message_processed' \subseteq DOMAIN (assigned')
  BY <1>1, <1>8, <1>9, <1>11, <1>15, Zenon
<1>22. AssignInv'
  BY <1>1, <1>9, <1>13, <1>14, <1>16, <1>17, <1>18, <1>19, <1>20, <1>21, Zenon DEF AssignInv
<1> QED BY <1>1, <1>7, <1>8, <1>11, <1>15, <1>22, Zenon

(* The locks of a synced checkpoint agree with the log. *)
LEMMA SyncAssigns ==
    ASSUME AssignInv, StoreInv, NEW t \in Tx, AcquireSynced(t)
    PROVE  AssignInv' /\ DOMAIN assigned \subseteq DOMAIN assigned'
<1> DEFINE D == DOMAIN next_shared_object_versions
<1>1. /\ log' = log /\ last_committed_round' = last_committed_round
      /\ consensus_message_processed' = consensus_message_processed
      /\ t \in Sequenced
      /\ next_shared_object_versions' = Initialised(Shared[t])
      /\ assigned' = Assign(t, Agreed[t], assigned)
  BY Zenon DEF AcquireSynced, acquire_shared_locks_from_effects
<1>2. Here' = Here /\ Sequenced' = Sequenced /\ Agreed' = Agreed
  BY <1>1, Zenon DEF Here, Sequenced, Agreed
<1>3. Shared[t] \in SUBSET SharedObject
  BY Zenon DEF SharedObject
<1>4. /\ next_shared_object_versions' \in [D \cup Shared[t] -> Nat]
      /\ \A o \in D \cup Shared[t] : next_shared_object_versions'[o] = Here.next[o]
  <2>1. PICK I : I = Initialised(Shared[t])
    BY Zenon
  <2> HIDE DEF D
  <2>2. FollowsLog(Shared[t], I)
    BY <1>3, <2>1, InitialisedFacts, Zenon
  <2> QED BY <1>1, <2>1, <2>2, Zenon DEF FollowsLog, D
<1>5. DOMAIN (next_shared_object_versions') = D \cup Shared[t]
  BY <1>4, Zenon
<1>6. DOMAIN (assigned') = DOMAIN assigned \cup {t}
      /\ \A u \in DOMAIN (assigned') : assigned'[u] = IF u = t THEN Agreed[t] ELSE assigned[u]
  BY <1>1, Zenon DEF Assign
<1>7. assigned' \in VersionTables
  <2> DEFINE X == UNION {[B -> Nat] : B \in SUBSET SharedObject}
  <2>1. PICK A \in SUBSET Tx : assigned \in [A -> X]
    BY Zenon DEF AssignInv, VersionTables
  <2>2. Agreed[t] \in [Shared[t] -> Nat]
    <3>1. log \in Seq(Seq(Tx)) /\ log \in Logs
      BY ValidatorAssumption, Zenon DEF AssignInv
    <3>2. Len(log) \in 0 .. Len(log)
      BY <3>1, SMTT(30)
    <3>3. /\ Chain(AgreedTables(log)[Len(log)])
          /\ t \in AgreedTables(log)[Len(log)].processed
      BY <1>1, <3>1, <3>2, LogFacts, Zenon DEF Sequenced
    <3> QED BY <3>3, Zenon DEF Chain, Agreed, AgreedVersions
  <2>3. Agreed[t] \in X
    BY <1>3, <2>2, Zenon
  <2> HIDE DEF X
  <2>4. assigned' \in [A \cup {t} -> X]
    BY <1>1, <2>1, <2>3, Zenon DEF Assign
  <2>5. A \cup {t} \in SUBSET Tx
    BY Zenon
  <2> QED BY <2>4, <2>5, Zenon DEF VersionTables, X
<1>8. D \subseteq SharedObject /\ consensus_message_processed \subseteq DOMAIN assigned
      /\ DOMAIN assigned \subseteq Sequenced
  BY Zenon DEF AssignInv
<1>9. ASSUME NEW u \in DOMAIN (assigned')
      PROVE  assigned'[u] = Agreed[u] /\ Shared[u] \subseteq D \cup Shared[t]
  <2>1. CASE u = t
    BY <1>6, <2>1, Zenon
  <2>2. CASE u # t
    <3>1. u \in DOMAIN assigned /\ assigned'[u] = assigned[u]
      BY <1>6, <2>2, Zenon
    <3> QED BY <3>1, Zenon DEF AssignInv
  <2> QED BY <2>1, <2>2, Zenon
<1>10. log \in Logs /\ last_committed_round \in 0 .. Len(log)
       /\ consensus_message_processed = Here.processed
  BY Zenon DEF AssignInv
<1> HIDE DEF D
<1>11. AssignInv'
  BY <1>1, <1>2, <1>3, <1>4, <1>5, <1>6, <1>7, <1>8, <1>9, <1>10, Zenon DEF AssignInv
<1> QED BY <1>6, <1>11, Zenon

(* Which actions write the store and the tables of the epoch. *)
LEMMA Frame ==
    ASSUME [Next]_vars
    PROVE  /\ log' = log
           /\ ExecuteReady \/ UNCHANGED <<store, executed>>
           /\ \/ PrepareCommit \/ handle_consensus_output
              \/ \E t \in Tx : AcquireSynced(t)
              \/ UNCHANGED <<epoch_tables, assigned>>
<1> USE DEF others, manager, epoch_tables, disk
<1>1. CASE PrepareCommit
  BY <1>1, Zenon DEF PrepareCommit
<1>2. CASE handle_consensus_output
  BY <1>2, Zenon DEF handle_consensus_output
<1>3. CASE schedule
  BY <1>3, Zenon DEF schedule, Begin
<1>4. CASE CheckStore
  BY <1>4, Zenon DEF CheckStore, multi_input_objects_available
<1>5. CASE FinishEnqueue
  BY <1>5, Zenon DEF FinishEnqueue, Finish
<1>6. CASE ExecuteReady
  BY <1>6, Zenon DEF ExecuteReady, Execute
<1>7. CASE Notify
  BY <1>7, Zenon DEF Notify, notify_commit
<1>8. CASE Forget
  BY <1>8, Zenon DEF Forget, remove_pending_execution
<1>9. CASE \E t \in Tx : execute_certificate(t) \/ EnqueueSynced(t)
  BY <1>9, Zenon DEF execute_certificate, EnqueueSynced, Begin
<1>10. CASE \E t \in Tx : AcquireSynced(t)
  BY <1>10, Zenon DEF AcquireSynced
<1>11. CASE CrashAndRestart
  BY <1>11, Zenon DEF CrashAndRestart, Restart
<1>12. CASE UNCHANGED vars
  BY <1>12, Zenon DEF vars
<1> QED BY <1>1, <1>2, <1>3, <1>4, <1>5, <1>6, <1>7, <1>8, <1>9, <1>10, <1>11, <1>12, Zenon
        DEF Next, NodeStep

(* AssignInv is kept, and versions stay assigned. *)
LEMMA AssignNext ==
    ASSUME AssignInv, StoreInv, [Next]_vars
    PROVE  AssignInv' /\ DOMAIN assigned \subseteq DOMAIN assigned'
<1>1. CASE PrepareCommit
  <2> DEFINE D == DOMAIN next_shared_object_versions
             objects == SharedOf(Range(Commit))
  <2>1. /\ log' = log /\ last_committed_round' = last_committed_round
        /\ consensus_message_processed' = consensus_message_processed
        /\ assigned' = assigned
        /\ next_shared_object_versions' = Initialised(objects)
        /\ last_committed_round < Len(log)
    BY <1>1, Zenon DEF PrepareCommit, manager, disk
  <2>2. Here' = Here /\ Sequenced' = Sequenced /\ Agreed' = Agreed
    BY <2>1, Zenon DEF Here, Sequenced, Agreed
  <2>3. objects \in SUBSET SharedObject
    <3>1. log \in Seq(Seq(Tx)) /\ last_committed_round \in 0 .. Len(log)
      BY ValidatorAssumption, Zenon DEF AssignInv
    <3>2. Commit \in Seq(Tx)
      BY <2>1, <3>1 DEF Commit
    <3>3. Range(Commit) \subseteq Tx
      BY <3>2 DEF Range
    <3> QED BY <3>3, Zenon DEF SharedOf, SharedObject
  <2>4. /\ next_shared_object_versions' \in [D \cup objects -> Nat]
        /\ \A o \in D \cup objects : next_shared_object_versions'[o] = Here.next[o]
    <3>1. PICK I : I = Initialised(objects)
      BY Zenon
    <3> HIDE DEF D, objects
    <3>2. FollowsLog(objects, I)
      BY <2>3, <3>1, InitialisedFacts, Zenon
    <3> QED BY <2>1, <3>1, <3>2, Zenon DEF FollowsLog, D
  <2> HIDE DEF objects
  <2>5. DOMAIN (next_shared_object_versions') = D \cup objects
    BY <2>4, Zenon
  <2>6. /\ D \subseteq SharedObject
        /\ \A t \in DOMAIN assigned : Shared[t] \subseteq D
    BY Zenon DEF AssignInv
  <2> HIDE DEF D
  <2> QED BY <2>1, <2>2, <2>3, <2>4, <2>5, <2>6, Zenon DEF AssignInv
<1>2. CASE handle_consensus_output
  BY <1>2, CommitAssigns, Zenon
<1>3. CASE \E t \in Tx : AcquireSynced(t)
  BY <1>3, SyncAssigns, Zenon
<1>4. CASE UNCHANGED <<epoch_tables, assigned>>
  <2>1. log' = log
    BY Frame, Zenon
  <2> QED BY <1>4, <2>1, Zenon DEF AssignInv, epoch_tables, Here, Sequenced, Agreed
<1> QED BY <1>1, <1>2, <1>3, <1>4, Frame, Zenon

(* What has versions keeps them, and so what it reads and writes. *)
LEMMA KeysStay ==
    ASSUME AssignInv, AssignInv', log' = log, DOMAIN assigned \subseteq DOMAIN assigned'
    PROVE  /\ KnownTx \subseteq KnownTx'
           /\ \A t \in KnownTx : Keys(t)' = Keys(t) /\ Outputs(t)' = Outputs(t)
<1>1. KnownTx \subseteq KnownTx'
  BY Zenon DEF KnownTx
<1>2. Agreed' = Agreed
  BY Zenon DEF Agreed
<1>3. ASSUME NEW t \in KnownTx
      PROVE  Keys(t)' = Keys(t) /\ Outputs(t)' = Outputs(t)
  <2>1. CASE Shared[t] = {}
    <3>1. Keys(t)' = Keys(t)
      BY <2>1, Zenon DEF Keys, InputKeys
    <3> QED BY <3>1, Zenon DEF Outputs
  <2>2. CASE Shared[t] # {}
    <3>1. t \in DOMAIN assigned
      BY <2>2, Zenon DEF KnownTx
    <3>2. assigned'[t] = assigned[t]
      BY <1>2, <3>1, Zenon DEF AssignInv
    <3>3. Keys(t)' = Keys(t)
      BY <3>2, Zenon DEF Keys, InputKeys
    <3> QED BY <3>3, Zenon DEF Outputs
  <2> QED BY <2>1, <2>2, Zenon
<1> QED BY <1>1, <1>3, Zenon

(* StoreInv is kept. *)
LEMMA StoreNext ==
    ASSUME AssignInv, StoreInv, WorkInv, [Next]_vars
    PROVE  StoreInv'
<1>1. /\ KnownTx \subseteq KnownTx'
      /\ \A t \in KnownTx : Keys(t)' = Keys(t) /\ Outputs(t)' = Outputs(t)
  BY AssignNext, Frame, KeysStay, Zenon
<1>2. CASE UNCHANGED <<store, executed>>
  BY <1>1, <1>2, Zenon DEF StoreInv
<1>3. CASE ExecuteReady
  <2>1. PICK t \in ready : Execute(t)
    BY <1>3, Zenon DEF ExecuteReady
  <2>2. /\ t \in KnownTx /\ Keys(t) \subseteq store
        /\ store' = store \cup Outputs(t) /\ executed' = executed \cup {t}
    BY <2>1, Zenon DEF Execute, WorkInv
  <2>3. executed' \subseteq KnownTx
    BY <2>2, Zenon DEF StoreInv
  <2>4. \A k \in store' : k \in Genesis \/ \E u \in executed' : k \in Outputs(u)
    BY <2>2, Zenon DEF StoreInv
  <2>5. \A u \in executed' : Keys(u) \subseteq store' /\ Outputs(u) \subseteq store'
    BY <2>2, Zenon DEF StoreInv
  <2>6. Genesis \subseteq store'
    BY <2>2, Zenon DEF StoreInv
  <2> QED BY <1>1, <2>3, <2>4, <2>5, <2>6, Zenon DEF StoreInv
<1> QED BY <1>2, <1>3, Frame, Zenon

(* An enqueue in its first part takes certificates that have versions. *)
LEMMA BeginWork ==
    ASSUME WorkInv, NEW from, NEW txs \in SUBSET KnownTx, Begin(from, txs),
           scheduled' \in Seq(SUBSET KnownTx)
    PROVE  WorkInv'
<1>1. /\ pending_execution' \subseteq pending_execution
      /\ assigned' = assigned /\ pending_certificates' = pending_certificates
      /\ ready' = ready /\ committed' = committed /\ executed' = executed
  BY Zenon DEF Begin, index, driver
<1>2. \A e \in enqueues' : e \in enqueues \/ e.certs \subseteq txs
  BY DEF Begin
<1>3. KnownTx' = KnownTx
  BY <1>1, Zenon DEF KnownTx
<1> QED BY <1>1, <1>2, <1>3, Zenon DEF WorkInv

(* WorkInv is kept. *)
LEMMA WorkNext ==
    ASSUME AssignInv, StoreInv, WorkInv, [Next]_vars
    PROVE  WorkInv'
<1>1. KnownTx \subseteq KnownTx'
  BY AssignNext, Frame, KeysStay, Zenon
<1>2. scheduled \in Seq(SUBSET KnownTx')
  <2>1. scheduled \in Seq(SUBSET KnownTx)
    BY Zenon DEF WorkInv
  <2> QED BY <1>1, <2>1
<1> USE DEF others, manager, index, driver, caches, disk
<1>3. ASSUME UNCHANGED <<pending_execution, executed, enqueues, pending_certificates, ready,
                         committed, scheduled>>
      PROVE  WorkInv'
  BY <1>1, <1>2, <1>3, Zenon DEF WorkInv
<1>4. CASE PrepareCommit
  BY <1>3, <1>4, Zenon DEF PrepareCommit
<1>5. CASE handle_consensus_output
  <2>1. \A t \in Range(Commit) : t \in KnownTx'
    BY <1>5, CommitAssigns, Zenon DEF KnownTx
  <2>2. /\ pending_execution' \subseteq KnownTx'
        /\ UNCHANGED <<executed, enqueues, pending_certificates, ready, committed>>
    BY <1>1, <1>5, <2>1, Zenon DEF handle_consensus_output, WorkInv
  <2>3. scheduled' \in Seq(SUBSET KnownTx')
    <3>1. PICK new : new = Range(Commit) \ consensus_message_processed
      BY Zenon
    <3>2. new \in SUBSET KnownTx'
      BY <2>1, <3>1, Zenon
    <3>3. scheduled' = Append(scheduled, new)
      BY <1>5, <3>1, Zenon DEF handle_consensus_output
    <3> QED BY <1>2, <3>2, <3>3
  <2> QED BY <1>1, <2>2, <2>3, Zenon DEF WorkInv
<1>6. CASE schedule
  <2>1. /\ scheduled # <<>> /\ Begin("scheduler", Head(scheduled))
        /\ scheduled' = Tail(scheduled) /\ scheduled \in Seq(SUBSET KnownTx)
    BY <1>6, Zenon DEF schedule, WorkInv
  <2>2. Head(scheduled) \in SUBSET KnownTx /\ scheduled' \in Seq(SUBSET KnownTx)
    BY <2>1
  <2> QED BY <2>1, <2>2, BeginWork, Zenon
<1>7. CASE \E t \in Tx : execute_certificate(t)
  <2>1. PICK t \in Tx : execute_certificate(t)
    BY <1>7, Zenon
  <2>2. /\ {t} \in SUBSET KnownTx /\ Begin("client", {t})
        /\ scheduled' \in Seq(SUBSET KnownTx)
    BY <2>1, Zenon DEF execute_certificate, KnownTx, WorkInv
  <2> QED BY <2>2, BeginWork, Zenon
<1>8. CASE \E t \in Tx : EnqueueSynced(t)
  <2>1. PICK t \in Tx : EnqueueSynced(t)
    BY <1>8, Zenon
  <2>2. /\ {t} \in SUBSET KnownTx /\ Begin("sync", {t})
        /\ scheduled' \in Seq(SUBSET KnownTx)
    BY <2>1, Zenon DEF EnqueueSynced, KnownTx, WorkInv
  <2> QED BY <2>2, BeginWork, Zenon
<1>9. CASE \E t \in Tx : AcquireSynced(t)
  BY <1>3, <1>9, Zenon DEF AcquireSynced
<1>10. CASE CheckStore
  <2>1. PICK e \in enqueues : multi_input_objects_available(e) /\ UNCHANGED others
    BY <1>10, Zenon DEF CheckStore
  <2>2. \A f \in enqueues' : f \in enqueues \/ f.certs = e.certs
    BY <2>1 DEF multi_input_objects_available
  <2>3. UNCHANGED <<pending_execution, executed, pending_certificates, ready, committed,
                    scheduled>>
    BY <2>1, Zenon DEF multi_input_objects_available
  <2> QED BY <1>1, <1>2, <2>2, <2>3, Zenon DEF WorkInv
<1>11. CASE FinishEnqueue
  <2>1. PICK e \in enqueues : Finish(e) /\ UNCHANGED others
    BY <1>11, Zenon DEF FinishEnqueue
  <2>2. /\ pending_execution' \subseteq pending_execution /\ enqueues' \subseteq enqueues
        /\ UNCHANGED <<executed, committed, scheduled>>
    BY <2>1, Zenon DEF Finish
  <2>3. /\ DOMAIN (pending_certificates') \subseteq DOMAIN pending_certificates \cup e.certs
        /\ ready' \subseteq ready \cup e.certs
    BY <2>1, Zenon DEF Finish, Admit, AlreadyEnqueued
  <2> QED BY <1>1, <1>2, <2>2, <2>3, Zenon DEF WorkInv
<1>12. CASE ExecuteReady
  <2>1. PICK t \in ready : Execute(t) /\ UNCHANGED others
    BY <1>12, Zenon DEF ExecuteReady
  <2>2. /\ UNCHANGED <<pending_execution, enqueues, pending_certificates, scheduled>>
        /\ ready' \subseteq ready /\ committed' = committed \cup {t}
        /\ executed' = executed \cup {t}
    BY <2>1, Zenon DEF Execute
  <2> QED BY <1>1, <1>2, <2>2, Zenon DEF WorkInv
<1>13. CASE Notify
  <2>1. PICK t \in committed : notify_commit(t) /\ UNCHANGED others
    BY <1>13, Zenon DEF Notify
  <2>2. /\ UNCHANGED <<pending_execution, enqueues, scheduled, executed>>
        /\ committed' \subseteq committed
    BY <2>1, Zenon DEF notify_commit
  <2>3. /\ DOMAIN (pending_certificates') \subseteq DOMAIN pending_certificates
        /\ ready' \subseteq ready \cup DOMAIN pending_certificates
    BY <2>1, Zenon DEF notify_commit, Restrict
  <2> QED BY <1>1, <1>2, <2>2, <2>3, Zenon DEF WorkInv
<1>14. CASE Forget
  <2>1. PICK t \in notified : remove_pending_execution(t) /\ UNCHANGED others
    BY <1>14, Zenon DEF Forget
  <2>2. /\ UNCHANGED <<executed, enqueues, pending_certificates, ready, committed, scheduled>>
        /\ pending_execution' \subseteq pending_execution
    BY <2>1, Zenon DEF remove_pending_execution
  <2> QED BY <1>1, <1>2, <2>2, Zenon DEF WorkInv
<1>15. CASE CrashAndRestart
  <2>1. /\ pending_execution' \subseteq pending_execution
        /\ DOMAIN (pending_certificates') \subseteq pending_execution
        /\ ready' \subseteq pending_execution
        /\ enqueues' = {} /\ committed' = {} /\ scheduled' = <<>>
    BY <1>15, Zenon DEF CrashAndRestart, Restart, all_pending_execution, Restrict
  <2>2. scheduled' \in Seq(SUBSET KnownTx')
    BY <2>1
  <2> QED BY <1>1, <2>1, <2>2, Zenon DEF WorkInv
<1>16. CASE UNCHANGED vars
  BY <1>3, <1>16, Zenon DEF vars
<1> QED BY <1>4, <1>5, <1>6, <1>7, <1>8, <1>9, <1>10, <1>11, <1>12, <1>13, <1>14, <1>15,
           <1>16, Zenon DEF Next, NodeStep

(* The three hold at the start. *)
LEMMA BaseInit ==
    ASSUME Init
    PROVE  AssignInv /\ StoreInv /\ WorkInv
<1>1. /\ log \in Logs /\ last_committed_round = 0 /\ consensus_message_processed = {}
      /\ next_shared_object_versions = NoVersions /\ assigned = NoVersions
      /\ store = Genesis /\ executed = {}
  BY Zenon DEF Init
<1>2. Len(log) \in Nat
  <2>1. log \in Seq(Seq(Tx))
    BY <1>1, ValidatorAssumption, Zenon
  <2> QED BY <2>1, SMTT(30)
<1>3. Here = StartTables
  BY <1>1, <1>2, LogRuns, Zenon DEF Here, IsLogRun
<1>4. Here.processed = {}
  BY <1>3, Zenon DEF StartTables
<1>5. NoVersions \in VersionTables
  <2>1. StartTables.assigned = NoVersions
    BY Zenon DEF StartTables
  <2>2. StartTables.assigned \in VersionTables
    BY StartChain, Zenon DEF Tables
  <2> QED BY <2>1, <2>2, Zenon
<1>6. DOMAIN NoVersions = {} /\ NoVersions \in [{} -> Nat]
  BY Zenon DEF NoVersions
<1>7. AssignInv
  BY <1>1, <1>2, <1>4, <1>5, <1>6 DEF AssignInv
<1>8. StoreInv
  BY <1>1, Zenon DEF StoreInv
<1>9. WorkInv
  BY <1>6 DEF Init, WorkInv
<1> QED BY <1>7, <1>8, <1>9, Zenon

Base == AssignInv /\ StoreInv /\ WorkInv

(* The tables, the store and what is on its way to execution are as the    *)
(* log has them.                                                           *)
LEMMA BaseAlways == Spec => []Base
<1>1. Init => Base
  BY BaseInit, Zenon DEF Base
<1>2. Base /\ [Next]_vars => Base'
  BY AssignNext, StoreNext, WorkNext, Zenon DEF Base
<1> QED BY <1>1, <1>2, PTL DEF Spec

(* The versions of shared inputs that a validator assigns, from its own    *)
(* commits or from synced checkpoints, in whatever order and with whatever *)
(* crashes in between, are those that the log gives them on every          *)
(* validator (record_shared_object_cert_from_consensus).                   *)
THEOREM VersionsFollowLog == Spec => []AssignedFollowsLog
<1>1. Base => AssignedFollowsLog
  <2> SUFFICES ASSUME AssignInv PROVE AssignedFollowsLog
    BY Zenon DEF Base
  <2>1. assigned = [t \in DOMAIN assigned |-> assigned[t]]
    BY Zenon DEF AssignInv, VersionTables
  <2>2. \A t \in DOMAIN assigned : assigned[t] = Agreed[t]
    BY Zenon DEF AssignInv
  <2>3. [t \in DOMAIN assigned |-> assigned[t]] = [t \in DOMAIN assigned |-> Agreed[t]]
    BY <2>2, Zenon
  <2> QED BY <2>1, <2>3, Zenon DEF AssignedFollowsLog, Restrict
<1> QED BY <1>1, BaseAlways, PTL
=============================================================================
