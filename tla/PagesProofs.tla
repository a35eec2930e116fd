----------------------------- MODULE PagesProofs -----------------------------
(***************************************************************************)
(* What the MyAsset, Transfer and Counter pages promise, for every number  *)
(* of accounts, books, transactions and visits.                            *)
(***************************************************************************)
EXTENDS AppPages, TLAPS

(* A transaction asked for, as signAndExecuteTransactionBlock makes it. *)
IsTx(tx) ==
    tx = [kind |-> tx.kind, book |-> tx.book, arg |-> tx.arg, number |-> tx.number,
          stage |-> tx.stage, version |-> tx.version, named |-> tx.named]

(* A transaction to list or to send a book acts on the named one. *)
TxNamed(tx) ==
    IsTx(tx) /\ (tx.kind \in {"list", "transfer"} => tx.book = tx.named)

(* An open modal of MyAsset shows the book clicked last, and nothing but   *)
(* the form behind the open modal of Transfer changes NFTid.               *)
FormNamed ==
    /\ route = "MyAsset" /\ show => opened = NFTData
    /\ route = "Transfer" /\ show => opened = NFTid

NamedInv == FormNamed /\ \A tx \in pending : TxNamed(tx)

(* A step of a transaction keeps what it acts on; only mint, which names   *)
(* nothing, gets its book when it is executed.                             *)
LEMMA TxKept ==
    ASSUME NEW tx, TxNamed(tx), NEW stage, NEW v, NEW b
    PROVE  /\ TxNamed([tx EXCEPT !.stage = stage])
           /\ TxNamed([tx EXCEPT !.stage = stage, !.version = v])
           /\ tx.kind = "mint" => TxNamed([tx EXCEPT !.stage = stage, !.book = b])
<1>1. ASSUME NEW u, TxNamed(u), NEW s
      PROVE  /\ TxNamed([u EXCEPT !.stage = s]) /\ [u EXCEPT !.stage = s].kind = u.kind
             /\ TxNamed([u EXCEPT !.version = s])
             /\ u.kind = "mint" => TxNamed([u EXCEPT !.book = s])
  <2> DEFINE rec == [kind |-> u.kind, book |-> u.book, arg |-> u.arg,
                     number |-> u.number, stage |-> u.stage,
                     version |-> u.version, named |-> u.named]
  <2>1. u = rec
    BY <1>1, Zenon DEF TxNamed, IsTx
  <2>2. /\ [u EXCEPT !.stage = s] = [rec EXCEPT !.stage = s]
        /\ [u EXCEPT !.version = s] = [rec EXCEPT !.version = s]
        /\ [u EXCEPT !.book = s] = [rec EXCEPT !.book = s]
    BY <2>1, Zenon
  <2>3. TxNamed([rec EXCEPT !.stage = s]) /\ [rec EXCEPT !.stage = s].kind = u.kind
    BY <1>1 DEF TxNamed, IsTx
  <2>4. TxNamed([rec EXCEPT !.version = s])
    BY <1>1 DEF TxNamed, IsTx
  <2>5. u.kind = "mint" => TxNamed([rec EXCEPT !.book = s])
    BY <1>1 DEF TxNamed, IsTx
  <2> QED BY <2>2, <2>3, <2>4, <2>5, Zenon
<1> DEFINE next == [tx EXCEPT !.stage = stage]
<1>2. /\ [tx EXCEPT !.stage = stage, !.version = v] = [next EXCEPT !.version = v]
      /\ [tx EXCEPT !.stage = stage, !.book = b] = [next EXCEPT !.book = b]
  BY Zenon
<1>3. TxNamed(next) /\ next.kind = tx.kind
  BY <1>1, Zenon
<1> HIDE DEF next
<1>4. TxNamed([next EXCEPT !.version = v]) /\ (tx.kind = "mint" => TxNamed([next EXCEPT !.book = b]))
  BY <1>1, <1>3, Zenon
<1> QED BY <1>2, <1>3, <1>4, Zenon DEF next

(* Leaving a page closes its modals and keeps the transactions. *)
LEMMA UnmountNamed ==
    ASSUME NamedInv, Unmount
    PROVE  ~ show' /\ \A tx \in pending' : TxNamed(tx)
<1>1. ASSUME NEW u \in pending' PROVE TxNamed(u)
  <2>1. PICK tx \in pending :
            u = IF tx.stage = "called" THEN [tx EXCEPT !.stage = "left"] ELSE tx
    BY <1>1, Zenon DEF Unmount
  <2>2. u = tx \/ u = [tx EXCEPT !.stage = "left"]
    BY <2>1, Zenon
  <2>3. TxNamed(tx) /\ TxNamed([tx EXCEPT !.stage = "left"])
    BY TxKept, Zenon DEF NamedInv
  <2> QED BY <2>2, <2>3, Zenon
<1> QED BY <1>1, Zenon DEF Unmount, FreshForm

(* Asking for a transaction while the modal names its book. *)
LEMMA AskedNamed ==
    ASSUME NamedInv, NEW kind, NEW b, NEW arg,
           kind \in {"list", "transfer"} => b = opened,
           signAndExecuteTransactionBlock(kind, b, arg)
    PROVE  NamedInv'
<1> DEFINE tx == [kind |-> kind, book |-> b, arg |-> arg, number |-> presses + 1,
                  stage |-> "asked", version |-> 0, named |-> opened]
<1>1. TxNamed(tx)
  BY Zenon DEF TxNamed, IsTx
<1>2. FormNamed'
  BY Zenon DEF NamedInv, FormNamed, signAndExecuteTransactionBlock, app, form
<1>3. pending' = pending \cup {tx}
  BY Zenon DEF signAndExecuteTransactionBlock
<1> QED BY <1>1, <1>2, <1>3, Zenon DEF NamedInv

(* What is listed is the book of the card that opened the modal, what is   *)
(* sent is the book the modal names, whatever was clicked before.          *)
THEOREM NamedBookIsActedOn == Spec => []ActsOnNamedBook
<1>1. Init => NamedInv
  BY Zenon DEF Init, NamedInv, FormNamed
<1>2. NamedInv /\ [Next]_vars => NamedInv'
  <2> SUFFICES ASSUME NamedInv, [Next]_vars PROVE NamedInv'
    BY Zenon
  <2> USE DEF NamedInv
  <2>1. ASSUME UNCHANGED <<route, show, opened, NFTData, NFTid>>,
               \A tx \in pending' : TxNamed(tx)
        PROVE  NamedInv'
    BY <2>1, Zenon DEF FormNamed
  <2>2. ASSUME UNCHANGED <<app, form, pending>> PROVE NamedInv'
    BY <2>1, <2>2, Zenon DEF app, form
  <2>3. CASE UNCHANGED vars
    BY <2>2, <2>3, Zenon DEF vars, wallet
  <2>4. CASE Trade \/ (\E a \in Account : create(a) \/ set_value(a, 0)) \/ increment
    BY <2>2, <2>4, Zenon DEF Trade, create, set_value, increment, CounterCall, wallet
  <2>5. CASE (\E r \in Routes : Navigate(r)) \/ Connect \/ Disconnect
    BY <2>5, UnmountNamed, Zenon DEF Navigate, Connect, Disconnect, SetAccount, FormNamed
  <2>6. CASE Reload
    BY <2>6, Zenon DEF Reload, FreshForm, FormNamed
  <2>7. CASE AnswerOwned \/ multiGetObjects
    BY <2>1, <2>7, Zenon DEF AnswerOwned, multiGetObjects, app, wallet
  <2>8. CASE Collect \/ getObject
    BY <2>2, <2>8, Zenon DEF Collect, getObject, wallet
  <2>9. CASE \E b \in Book, option \in {"list", "detail"} : handleItemClick(b, option)
    BY <2>9, Zenon DEF handleItemClick, Card, OnPage, app, wallet, FormNamed
  <2>10. CASE handleClose
    BY <2>10, Zenon DEF handleClose, app, wallet, FormNamed
  <2>11. CASE \E value \in Ask \cup Account \cup {None} : handleChange(value)
    BY <2>1, <2>11, Zenon DEF handleChange, app, wallet
  <2>12. CASE \E k \in 1..Cardinality(Book) : handleseChange(k)
    BY <2>12 DEF handleseChange, OnPage, app, wallet, FormNamed
  <2>13. CASE SubmitTransfer
    BY <2>13, Zenon DEF SubmitTransfer, OnPage, app, wallet, FormNamed
  <2>14. CASE ListMyNFT
    BY <2>14, AskedNamed, Zenon DEF ListMyNFT, OnPage, FormNamed
  <2>15. CASE Transfer
    BY <2>15, AskedNamed, Zenon DEF Transfer, OnPage, FormNamed
  <2>16. CASE mint \/ executeMoveCall
    BY <2>16, AskedNamed, Zenon DEF mint, executeMoveCall
  <2>17. ASSUME NEW tx \in pending, NEW stage, Step(tx, stage)
         PROVE  \A u \in pending' : TxNamed(u)
    <3>1. TxNamed([tx EXCEPT !.stage = stage])
      BY TxKept, Zenon
    <3> QED BY <2>17, <3>1, Zenon DEF Step
  <2>18. ASSUME NEW tx \in pending, Build(tx) \/ Reject(tx) \/ Refuse(tx)
         PROVE  NamedInv'
    <3>1. UNCHANGED <<app, form>>
      BY <2>18, Zenon DEF Build, Reject, Refuse, onError
    <3>2. TxNamed([tx EXCEPT !.stage = "built", !.version = version])
      BY TxKept, Zenon
    <3>3. \/ pending' = pending \ {tx}
          \/ pending' = (pending \ {tx}) \cup
                {[tx EXCEPT !.stage = "built", !.version = version]}
      BY <2>18, Zenon DEF Build, Reject, Refuse, onError
    <3> QED BY <2>1, <3>1, <3>2, <3>3, Zenon DEF app, form
  <2>19. ASSUME NEW tx \in pending, Execute(tx) PROVE NamedInv'
    <3>1. UNCHANGED <<app, form>>
      BY <2>19, Zenon DEF Execute
    <3>2. CASE tx.kind = "mint"
      <4>1. PICK b \in Book : pending' = (pending \ {tx}) \cup
                {[tx EXCEPT !.stage = "executed", !.book = b]}
        BY <2>19, <3>2, Zenon DEF Execute
      <4>2. TxNamed([tx EXCEPT !.stage = "executed", !.book = b])
        BY <3>2, TxKept, Zenon
      <4> QED BY <2>1, <3>1, <4>1, <4>2, Zenon DEF app, form
    <3>3. CASE tx.kind # "mint"
      <4>1. Step(tx, "executed")
        BY <2>19, <3>3, Zenon DEF Execute
      <4> QED BY <2>1, <2>17, <3>1, <4>1, Zenon DEF app, form
    <3> QED BY <3>2, <3>3, Zenon
  <2>20. ASSUME NEW tx \in pending, onSuccess(tx) PROVE NamedInv'
    BY <2>1, <2>17, <2>20, Zenon DEF onSuccess, app, form
  <2>21. ASSUME NEW tx \in pending, Refetched(tx) PROVE NamedInv'
    BY <2>21, Zenon DEF Refetched, app, FormNamed
  <2>22. ASSUME NEW tx \in pending, onCreated(tx) PROVE NamedInv'
    BY <2>1, <2>22, Zenon DEF onCreated, form
  <2> QED
    BY <2>3, <2>4, <2>5, <2>6, <2>7, <2>8, <2>9, <2>10, <2>11, <2>12, <2>13, <2>14,
       <2>15, <2>16, <2>18, <2>19, <2>20, <2>21, <2>22 DEF Next
<1>3. NamedInv => ActsOnNamedBook
  BY Zenon DEF NamedInv, TxNamed, ActsOnNamedBook
<1> QED BY <1>1, <1>2, <1>3, PTL DEF Spec

-----------------------------------------------------------------------------
Count == [owner: Account, value: 0 .. MaxU64]

(* An answer of the Counter page is about the Counter, whose owner never   *)
(* changes, or about a book, which has none; a new ID drops the answer.    *)
CounterInv ==
    /\ count \in Count \cup {None}
    /\ counterData = None
        \/ counterData = [owner |-> None]
        \/ /\ counterId = counter /\ count # None
           /\ counterData.owner = count.owner

(* Reset is offered only for a Counter that set_value lets the account     *)
(* reset, however old the answer is.                                       *)
THEOREM ResetIsForOwner == Spec => []ResetOnlyForOwner
<1>1. Init => CounterInv
  BY Zenon DEF Init, CounterInv
<1>2. CounterInv /\ [Next]_vars => CounterInv'
  <2> SUFFICES ASSUME CounterInv, [Next]_vars PROVE CounterInv'
    BY Zenon
  <2> USE DEF CounterInv
  <2>1. ASSUME UNCHANGED <<count, counterId, counterData>> PROVE CounterInv'
    BY <2>1, Zenon
  <2>2. CASE UNCHANGED vars
    BY <2>1, <2>2, Zenon DEF vars, chain, app, cache
  <2>3. CASE Trade
    BY <2>1, <2>3, Zenon DEF Trade, app, cache
  <2>4. ASSUME NEW a \in Account, create(a) PROVE CounterInv'
    BY <2>4, PagesAssumption DEF create, CounterCall, Count, app, cache
  <2>5. ASSUME NEW new, CounterCall(new), count # None,
               new = [count EXCEPT !.value = new.value], new.value \in 0 .. MaxU64
        PROVE  CounterInv'
    <3>1. count' \in Count /\ count'.owner = count.owner
      BY <2>5, Zenon DEF CounterCall, Count
    <3> QED BY <2>5, <3>1, PagesAssumption, Zenon DEF CounterCall, Count, app, cache
  <2>6. ASSUME NEW a \in Account, set_value(a, 0) PROVE CounterInv'
    BY <2>5, <2>6, PagesAssumption DEF set_value, Count
  <2>7. CASE increment
    BY <2>5, <2>7, PagesAssumption DEF increment, Count
  <2>8. CASE (\E r \in Routes : Navigate(r)) \/ Connect \/ Disconnect
    BY <2>1, <2>8, Zenon DEF Navigate, Connect, Disconnect, SetAccount, cache, chain
  <2>9. CASE Reload
    BY <2>9, Zenon DEF Reload, chain
  <2>10. CASE AnswerOwned \/ multiGetObjects \/ Collect
    BY <2>1, <2>10, Zenon DEF AnswerOwned, multiGetObjects, Collect, app, chain
  <2>11. CASE getObject
    BY <2>11, Zenon DEF getObject, app, chain
  <2>12. CASE \/ \E b \in Book, option \in {"list", "detail"} : handleItemClick(b, option)
              \/ handleClose
              \/ \E value \in Ask \cup Account \cup {None} : handleChange(value)
              \/ \E k \in 1..Cardinality(Book) : handleseChange(k)
              \/ SubmitTransfer
    BY <2>1, <2>12, Zenon
       DEF handleItemClick, handleClose, handleChange, handleseChange, SubmitTransfer,
           app, chain, cache
  <2>13. CASE ListMyNFT \/ Transfer \/ mint \/ executeMoveCall
    BY <2>1, <2>13, Zenon
       DEF ListMyNFT, Transfer, mint, executeMoveCall, signAndExecuteTransactionBlock,
           app, chain, cache
  <2>14. ASSUME NEW tx \in pending,
                Build(tx) \/ Reject(tx) \/ Refuse(tx) \/ Execute(tx) \/ onSuccess(tx)
         PROVE  CounterInv'
    BY <2>1, <2>14, Zenon
       DEF Build, Reject, Refuse, onError, Execute, onSuccess, app, chain, cache
  <2>15. ASSUME NEW tx \in pending, Refetched(tx) PROVE CounterInv'
    BY <2>1, <2>15, Zenon DEF Refetched, app, chain
  <2>16. ASSUME NEW tx \in pending, onCreated(tx) PROVE CounterInv'
    BY <2>16, Zenon DEF onCreated, chain
  <2> QED
    BY <2>2, <2>3, <2>4, <2>6, <2>7, <2>8, <2>9, <2>10, <2>11, <2>12, <2>13, <2>14,
       <2>15, <2>16, Zenon DEF Next
<1>3. CounterInv => ResetOnlyForOwner
  BY DEF CounterInv, ResetOnlyForOwner, OnCounter, OnPage
<1> QED BY <1>1, <1>2, <1>3, PTL DEF Spec
=============================================================================
