---------------------------- MODULE OrderProofs ----------------------------
(***************************************************************************)
(* What the user of the Market page pays, for every market, balance and    *)
(* number of transactions.                                                 *)
(*                                                                         *)
(* The number of executed transactions dates everything the page knows: as *)
(* long as it has not grown since the coins were read, they are the coins  *)
(* on chain, and so is the coin a purchase was given.                      *)
(***************************************************************************)
EXTENDS OrderFlow, TLAPS

IsTx(tx) ==
    tx = [kind |-> tx.kind, item |-> tx.item, coin |-> tx.coin, order |-> tx.order,
          coins |-> tx.coins, number |-> tx.number, stage |-> tx.stage,
          version |-> tx.version]

(* A coin of the ask is among the coins w. *)
HasCoin(w, ask) == \E c \in DOMAIN w : w[c] = ask

Executed == {"executed", "refetchEvents", "refetchCoinsList"}

(* A transaction after v executed ones, with the coins w: a purchase whose *)
(* coins are not out of date pays the ask, and the coin that the last      *)
(* executed split made is there.                                           *)
TxDated(tx, v, w) ==
    /\ IsTx(tx) /\ tx.coins \in 0 .. v /\ tx.version \in Nat
    /\ tx.kind = "buy" /\ tx.coins = v => w[tx.coin] = tx.order.ask
    /\ tx.stage = "refetchCoinsList" => tx.kind = "split"
    /\ tx.kind = "split" /\ tx.stage \in Executed =>
            /\ tx.version < v
            /\ tx.version + 1 = v => HasCoin(w, tx.order.ask)

FlowInv ==
    /\ version \in Nat /\ coinVersion \in 0 .. version
    /\ DOMAIN wallet \subseteq 0 .. version
    /\ coinVersion = version => coinData = wallet
    /\ \A tx \in pending : TxDated(tx, version, wallet)
    /\ ~ isButtonDisabled =>
            /\ enabledBy.version \in Nat /\ enabledBy.version < coinVersion
            /\ enabledBy.version + 1 = version => HasCoin(wallet, enabledBy.order.ask)
    /\ FreshCoinPaysPrice

(* A step of a transaction changes its stage, or its version when it is    *)
(* built.                                                                  *)
LEMMA TxFields ==
    ASSUME NEW tx, IsTx(tx), NEW stage, NEW v
    PROVE  /\ [tx EXCEPT !.stage = stage] =
                [kind |-> tx.kind, item |-> tx.item, coin |-> tx.coin,
                 order |-> tx.order, coins |-> tx.coins, number |-> tx.number,
                 stage |-> stage, version |-> tx.version]
           /\ [tx EXCEPT !.stage = stage, !.version = v] =
                [kind |-> tx.kind, item |-> tx.item, coin |-> tx.coin,
                 order |-> tx.order, coins |-> tx.coins, number |-> tx.number,
                 stage |-> stage, version |-> v]
<1> DEFINE rec(s, u) == [kind |-> tx.kind, item |-> tx.item, coin |-> tx.coin,
                         order |-> tx.order, coins |-> tx.coins,
                         number |-> tx.number, stage |-> s, version |-> u]
<1>1. tx = rec(tx.stage, tx.version)
  BY Zenon DEF IsTx
<1>2. [tx EXCEPT !.stage = stage] = [rec(tx.stage, tx.version) EXCEPT !.stage = stage]
  BY <1>1, Zenon
<1>3. [rec(tx.stage, tx.version) EXCEPT !.stage = stage] = rec(stage, tx.version)
  OBVIOUS
<1>4. [tx EXCEPT !.stage = stage, !.version = v] =
            [[tx EXCEPT !.stage = stage] EXCEPT !.version = v]
  BY Zenon
<1>5. [rec(stage, tx.version) EXCEPT !.version = v] = rec(stage, v)
  OBVIOUS
<1> QED BY <1>2, <1>3, <1>4, <1>5, Zenon

(* A step of a transaction before or after its execution keeps what is     *)
(* known of it.                                                            *)
LEMMA TxStep ==
    ASSUME NEW tx, NEW v \in Nat, NEW w, TxDated(tx, v, w), NEW stage
    PROVE  /\ tx.stage \in Executed /\ (stage = "refetchCoinsList" => tx.kind = "split")
                => TxDated([tx EXCEPT !.stage = stage], v, w)
           /\ TxDated([tx EXCEPT !.stage = "built", !.version = v], v, w)
<1> DEFINE rec(s, u) == [kind |-> tx.kind, item |-> tx.item, coin |-> tx.coin,
                         order |-> tx.order, coins |-> tx.coins,
                         number |-> tx.number, stage |-> s, version |-> u]
<1>1. /\ [tx EXCEPT !.stage = stage] = rec(stage, tx.version)
      /\ [tx EXCEPT !.stage = "built", !.version = v] = rec("built", v)
  BY TxFields, Zenon DEF TxDated
<1>2. TxDated(rec("built", v), v, w)
  BY Zenon DEF TxDated, IsTx, Executed
<1>3. tx.stage \in Executed /\ (stage = "refetchCoinsList" => tx.kind = "split")
        => TxDated(rec(stage, tx.version), v, w)
  BY Zenon DEF TxDated, IsTx
<1> QED BY <1>1, <1>2, <1>3, Zenon

(* With no transaction executed, what was known stays. *)
LEMMA Quiet ==
    ASSUME FlowInv, UNCHANGED <<wallet, version, bought, coinData, coinVersion>>,
           \A tx \in pending' : TxDated(tx, version, wallet),
           isButtonDisabled' = TRUE \/ UNCHANGED <<isButtonDisabled, enabledBy>>
    PROVE  FlowInv'
<1>1. \A tx \in pending' : TxDated(tx, version', wallet')
  BY Zenon
<1>2. FreshCoinPaysPrice'
  BY Zenon DEF FlowInv, FreshCoinPaysPrice
<1> QED BY <1>1, <1>2, Zenon DEF FlowInv

(* Asking for a transaction with the coins as the page knows them. *)
LEMMA Asked ==
    ASSUME FlowInv, NEW kind \in {"split", "buy", "delist"}, NEW item, NEW coin,
           kind = "buy" => coin \in getusefulcoinid(orderData.ask),
           signAndExecuteTransactionBlock(Tx(kind, item, coin))
    PROVE  FlowInv'
<1> DEFINE tx == [kind |-> kind, item |-> item, coin |-> coin, order |-> orderData,
                  coins |-> IF kind = "buy" THEN coinVersion ELSE 0,
                  number |-> presses + 1, stage |-> "asked", version |-> 0]
<1>1. Tx(kind, item, coin) = tx
  BY Zenon DEF Tx
<1>2. TxDated(tx, version, wallet)
  BY DEF TxDated, IsTx, Executed, FlowInv, getusefulcoinid
<1>3. pending' = pending \cup {tx}
  BY <1>1, Zenon DEF signAndExecuteTransactionBlock
<1> HIDE DEF tx
<1>4. \A u \in pending' : TxDated(u, version, wallet)
  BY <1>2, <1>3, Zenon DEF FlowInv
<1> QED BY <1>4, Quiet, Zenon DEF signAndExecuteTransactionBlock, purse, queries, button

(* An execution dates everything: only what it made is known of the coins. *)
LEMMA ExecuteDates ==
    ASSUME FlowInv, NEW tx \in pending, Execute(tx)
    PROVE  FlowInv'
<1> DEFINE new == [tx EXCEPT !.stage = "executed"]
<1>1. /\ version \in Nat /\ version' = version + 1 /\ tx.version = version
      /\ coinVersion' = coinVersion /\ coinVersion \in 0 .. version
      /\ pending' = (pending \ {tx}) \cup {new}
      /\ isButtonDisabled' = isButtonDisabled /\ enabledBy' = enabledBy
      /\ \A u \in pending : TxDated(u, version, wallet)
  BY Zenon DEF Execute, FlowInv, Step, queries, button
<1>2. ASSUME NEW spent, NEW lost, NEW made, Charge(tx, spent, lost, made),
             DOMAIN made \subseteq {version + 1}
      PROVE  /\ DOMAIN wallet' \subseteq 0 .. version'
             /\ \A c \in DOMAIN made : c \in DOMAIN wallet' /\ wallet'[c] = made[c]
  <2> DEFINE kept == DOMAIN wallet \ (GasCoins(tx) \cup lost)
  <2>1. PICK gas \in GasCoins(tx) :
            wallet' = [c \in {gas} \cup DOMAIN made \cup kept |->
                IF c = gas THEN GasBalance(tx) - spent
                ELSE IF c \in DOMAIN made THEN made[c] ELSE wallet[c]]
    BY <1>2, Zenon DEF Charge
  <2>2. /\ gas \in DOMAIN wallet /\ kept \subseteq DOMAIN wallet
        /\ DOMAIN wallet \subseteq 0 .. version
    BY Zenon DEF GasCoins, FlowInv
  <2>3. gas # version + 1
    BY <1>1, <2>2
  <2> HIDE DEF kept
  <2> QED BY <1>1, <1>2, <2>1, <2>2, <2>3
<1>3. ASSUME NEW ask
      PROVE  /\ DOMAIN [c \in {version + 1} |-> ask] = {version + 1}
             /\ [c \in {version + 1} |-> ask][version + 1] = ask
             /\ DOMAIN None = {}
  BY Zenon DEF None
<1>4. DOMAIN wallet' \subseteq 0 .. version'
  BY <1>2, <1>3, Zenon DEF Execute
<1>5. tx.kind = "split" => HasCoin(wallet', tx.order.ask)
  <2>1. CASE tx.kind = "split" /\ Charge(tx, Spent(tx), {}, [c \in {version + 1} |-> tx.order.ask])
    BY <1>2, <1>3, <2>1, Zenon DEF HasCoin
  <2>2. tx.kind = "split" => Accepted(tx)
    BY Zenon DEF Accepted
  <2> QED BY <2>1, <2>2, Zenon DEF Execute
<1>6. TxDated(new, version', wallet')
  <2>1. /\ IsTx(new) /\ new.kind = tx.kind /\ new.coins = tx.coins
        /\ new.version = tx.version /\ new.order = tx.order /\ new.stage = "executed"
    <3>1. IsTx(tx)
      BY <1>1, Zenon DEF TxDated
    <3>2. new = [kind |-> tx.kind, item |-> tx.item, coin |-> tx.coin,
                 order |-> tx.order, coins |-> tx.coins, number |-> tx.number,
                 stage |-> "executed", version |-> tx.version]
      BY <3>1, TxFields, Zenon
    <3> HIDE DEF new
    <3> QED BY <3>2, Zenon DEF IsTx
  <2>2. tx.coins \in 0 .. version
    BY <1>1, Zenon DEF TxDated
  <2> HIDE DEF new
  <2> QED BY <1>1, <1>5, <2>1, <2>2, SMTT(30) DEF TxDated
<1>7. ASSUME NEW u \in pending PROVE u # tx => TxDated(u, version', wallet')
  <2>1. TxDated(u, version, wallet)
    BY <1>1, Zenon
  <2>2. u.kind = "split" /\ u.stage \in Executed => u.version < version
    BY <2>1, Zenon DEF TxDated
  <2> QED BY <1>1, <2>1, <2>2 DEF TxDated
<1>8. \A u \in pending' : TxDated(u, version', wallet')
  BY <1>1, <1>6, <1>7, Zenon
<1>9. FreshCoinPaysPrice'
  <2>1. CASE bought' = bought
    BY <2>1, Zenon DEF FlowInv, FreshCoinPaysPrice
  <2>2. CASE tx.kind = "buy" /\ bought' = bought \cup
                {[order |-> tx.order, paid |-> wallet[tx.coin],
                  late |-> tx.coins # version]}
    <3>1. tx.coins = version => wallet[tx.coin] = tx.order.ask
      BY <1>1, <2>2, Zenon DEF TxDated
    <3> DEFINE b == [order |-> tx.order, paid |-> wallet[tx.coin],
                     late |-> tx.coins # version]
    <3>2. b.late = (tx.coins # version) /\ b.paid = wallet[tx.coin] /\ b.order = tx.order
      BY Zenon
    <3>3. b.late \/ b.paid = b.order.ask
      BY <3>1, <3>2, Zenon
    <3> HIDE DEF b
    <3>4. bought' = bought \cup {b}
      BY <2>2, Zenon DEF b
    <3> QED BY <3>3, <3>4, Zenon DEF FlowInv, FreshCoinPaysPrice
  <2> QED BY <2>1, <2>2, Zenon DEF Execute
<1>10. ~ isButtonDisabled =>
            /\ enabledBy.version \in Nat /\ enabledBy.version < coinVersion
  BY Zenon DEF FlowInv
<1>11. coinVersion' # version'
  BY <1>1
<1> HIDE DEF new
<1> QED BY <1>1, <1>4, <1>8, <1>9, <1>10, <1>11, SMTT(30) DEF FlowInv

(* Everything the page knows stays dated. *)
LEMMA FlowAlways == Spec => []FlowInv
<1>1. Init => FlowInv
  BY DEF Init, FlowInv, FreshCoinPaysPrice
<1>2. FlowInv /\ [Next]_vars => FlowInv'
  <2> SUFFICES ASSUME FlowInv, [Next]_vars PROVE FlowInv'
    BY Zenon
  <2>1. \A tx \in pending : TxDated(tx, version, wallet)
    BY Zenon DEF FlowInv
  <2>2. CASE UNCHANGED vars
    BY <2>1, <2>2, Quiet, Zenon DEF vars, purse, queries, button
  <2>3. CASE Trade
    BY <2>1, <2>3, Quiet, Zenon DEF Trade, purse, queries, button
  <2>4. ASSUME UNCHANGED <<wallet, version, bought, isButtonDisabled, enabledBy>>,
               coinData' = wallet, coinVersion' = version, pending' \subseteq pending
        PROVE  FlowInv'
    <3>1. \A tx \in pending' : TxDated(tx, version', wallet')
      BY <2>1, <2>4, Zenon
    <3>2. FreshCoinPaysPrice'
      BY <2>4, Zenon DEF FlowInv, FreshCoinPaysPrice
    <3> QED BY <2>4, <3>1, <3>2 DEF FlowInv
  <2>5. CASE Focus
    BY <2>4, <2>5, Zenon DEF Focus, purse, button
  <2>6. CASE Click
    BY <2>1, <2>6, Quiet, Zenon DEF Click, handleItemClick, purse, queries
  <2>7. CASE handleClose \/ handledeClose
    BY <2>1, <2>7, Quiet, Zenon DEF handleClose, handledeClose, purse, queries, button
  <2>8. CASE SplituseCoin
    BY <2>8, Asked, Zenon DEF SplituseCoin
  <2>9. CASE BuyandTakeNFT
    BY <2>9, Asked, Zenon DEF BuyandTakeNFT
  <2>10. CASE DelistandTakeNFT
    BY <2>10, Asked, Zenon DEF DelistandTakeNFT
  <2>11. ASSUME NEW tx \in pending, Build(tx) \/ Reject(tx) \/ Refuse(tx)
         PROVE  FlowInv'
    <3>1. \/ pending' = pending \ {tx}
          \/ pending' = (pending \ {tx}) \cup
                {[tx EXCEPT !.stage = "built", !.version = version]}
      BY <2>11, Zenon DEF Build, Reject, Refuse, onError
    <3>2. TxDated([tx EXCEPT !.stage = "built", !.version = version], version, wallet)
      BY <2>1, TxStep, Zenon DEF FlowInv
    <3>3. \A u \in pending' : TxDated(u, version, wallet)
      BY <2>1, <3>1, <3>2, Zenon
    <3>4. UNCHANGED <<purse, queries, button>>
      BY <2>11, Zenon DEF Build, Reject, Refuse, onError
    <3> QED BY <3>3, <3>4, Quiet, Zenon DEF purse, queries, button
  <2>12. ASSUME NEW tx \in pending, Execute(tx) PROVE FlowInv'
    BY <2>12, ExecuteDates, Zenon
  <2>13. ASSUME NEW tx \in pending, onSuccess(tx) \/ refetchEvents(tx)
         PROVE  FlowInv'
    <3>1. PICK stage : /\ \/ pending' = pending \ {tx}
                          \/ pending' = (pending \ {tx}) \cup {[tx EXCEPT !.stage = stage]}
                       /\ stage = "refetchCoinsList" => tx.kind = "split"
      BY <2>13, Zenon DEF onSuccess, refetchEvents, Step
    <3>2. tx.stage \in Executed
      BY <2>13, Zenon DEF onSuccess, refetchEvents, Executed
    <3>3. TxDated([tx EXCEPT !.stage = stage], version, wallet)
      BY <2>1, <3>1, <3>2, TxStep, Zenon DEF FlowInv
    <3>4. \A u \in pending' : TxDated(u, version, wallet)
      BY <2>1, <3>1, <3>3, Zenon
    <3>5. UNCHANGED <<wallet, version, bought, coinData, coinVersion, button>>
      BY <2>13, Zenon DEF onSuccess, refetchEvents, purse, queries
    <3> QED BY <3>4, <3>5, Quiet, Zenon DEF button
  <2>14. ASSUME NEW tx \in pending, refetchCoinsList(tx) PROVE FlowInv'
    <3>1. TxDated(tx, version, wallet)
      BY <2>1, Zenon
    <3>2. /\ tx.version \in Nat /\ tx.version < version
          /\ tx.version + 1 = version => HasCoin(wallet, tx.order.ask)
      BY <2>14, <3>1, Zenon DEF TxDated, refetchCoinsList, Executed
    <3>3. /\ UNCHANGED <<wallet, version, bought>> /\ pending' \subseteq pending
          /\ coinData' = wallet /\ coinVersion' = version
          /\ enabledBy' = [order |-> tx.order, version |-> tx.version]
      BY <2>14, Zenon DEF refetchCoinsList, purse
    <3>4. FreshCoinPaysPrice'
      BY <3>3, Zenon DEF FlowInv, FreshCoinPaysPrice
    <3>5. \A u \in pending' : TxDated(u, version', wallet')
      BY <2>1, <3>3, Zenon
    <3> QED BY <3>2, <3>3, <3>4, <3>5 DEF FlowInv
  <2> QED
    BY <2>2, <2>3, <2>5, <2>6, <2>7, <2>8, <2>9, <2>10, <2>11, <2>12, <2>13, <2>14, Zenon
       DEF Next
<1> QED BY <1>1, <1>2, PTL DEF Spec

(* A purchase costs what its card said, unless a transaction of the user   *)
(* was executed between the page's look at the coins and the purchase.     *)
THEOREM FreshCoinPaysThePrice == Spec => []FreshCoinPaysPrice
<1>1. FlowInv => FreshCoinPaysPrice
  BY Zenon DEF FlowInv
<1> QED BY <1>1, FlowAlways, PTL

(* An enabled Buy finds a coin on chain of exactly the ask, unless another *)
(* transaction of the user was executed since the split.                   *)
THEOREM CoinIsReady == Spec => []CoinReady
<1>1. FlowInv => CoinReady
  <2> SUFFICES ASSUME FlowInv, ~ isButtonDisabled, enabledBy.order = orderData,
                      enabledBy.version + 1 = version
               PROVE  /\ getusefulcoinid(orderData.ask) # {}
                      /\ \A coin \in getusefulcoinid(orderData.ask) :
                            coin \in DOMAIN wallet /\ wallet[coin] = orderData.ask
    BY Zenon DEF CoinReady
  <2>1. coinVersion = version
    BY DEF FlowInv
  <2>2. coinData = wallet /\ HasCoin(wallet, orderData.ask)
    BY <2>1, Zenon DEF FlowInv
  <2> QED BY <2>2, Zenon DEF getusefulcoinid, HasCoin
<1> QED BY <1>1, FlowAlways, PTL
=============================================================================
