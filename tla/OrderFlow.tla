----------------------------- MODULE OrderFlow -----------------------------
(***************************************************************************)
(* The handlers of the Market page: a click on a card, the buy and the     *)
(* delist modal, and the transactions they ask the wallet for.             *)
(*                                                                         *)
(* A pressed button fixes the arguments of a transaction.  The wallet      *)
(* builds it on the objects of that moment, runs it dry and lets the user  *)
(* sign; it is executed later, on whatever the Marketplace has become.     *)
(* A transaction that aborts on chain still resolves the wallet's promise, *)
(* so onSuccess runs; onError runs when building, signing or submitting    *)
(* fails.  All the user's coins but those used as arguments pay for gas    *)
(* and are merged into one.                                                *)
(*                                                                         *)
(* The page's answers to a refetch are taken together here; module         *)
(* MarketQueries has them arrive one by one.                               *)
(***************************************************************************)
EXTENDS MarketChain
LOCAL INSTANCE FiniteSetsExt

CONSTANTS
    me,             \* the account of the page's user
    InitialMarkets, \* markets on which the page is opened
    Money,          \* the user's balance, in one coin
    Fee,            \* gas of a transaction
    MaxPresses      \* bound on the transactions asked for

ASSUME FlowAssumption ==
    me \in Account /\ Money \in Nat /\ Fee \in Nat /\ MaxPresses \in Nat

VARIABLES
    wallet,             \* the user's coins: IDs to balances
    mine,               \* books the user bought or took back
    version,            \* transactions of the user that were executed
    view,               \* market of the last refetch
    coinData, balance,  \* wallet of the last refetch, total of the first
    show, delistShow,      \* the buy modal and the delist modal are open
    orderData, NFTData, NFTid,
    isButtonDisabled,
    pending,            \* transactions asked for and not yet done with
    presses,            \* transactions asked for so far
    coinVersion,        \* history: version of the wallet in coinData
    enabledBy,          \* history: the split that last enabled Buy
    bought              \* history: the purchases that were executed

shown == <<orderData, NFTData, NFTid>>
modals == <<show, delistShow>>
queries == <<view, coinData, coinVersion, balance>>
purse == <<wallet, mine, version, bought>>
button == <<isButtonDisabled, enabledBy>>
vars == <<chain, purse, queries, modals, shown, button, pending, presses>>

Total(coins) == MapThenSumSet(LAMBDA c : coins[c], DOMAIN coins)

Init ==
    /\ market \in InitialMarkets
    /\ loose = {}
    /\ burned = {}
    /\ nextId = 1 + Cardinality(DOMAIN market)
    /\ wallet = [c \in {0} |-> Money]
    /\ mine = {}
    /\ version = 0
    /\ view = market
    /\ coinData = wallet
    /\ coinVersion = 0
    /\ balance = Money
    /\ show = FALSE
    /\ delistShow = FALSE
    /\ orderData = Undefined
    /\ NFTData = Undefined
    /\ NFTid = Undefined
    /\ isButtonDisabled = TRUE
    /\ pending = {}
    /\ presses = 0
    /\ enabledBy = Undefined
    /\ bought = {}

-----------------------------------------------------------------------------
(* The other accounts trade, but not with the user's books. *)
Trade ==
    /\ \/ \E a \in Account \ {me}, i \in Item \ mine :
            \/ \E ask \in Ask : list(a, i, ask)
            \/ delist(a, i)
       \/ \E i \in Item : buy(i)
    /\ UNCHANGED <<purse, queries, modals, shown, button, pending, presses>>

(* The window gets focus, and every query is asked again. *)
Focus ==
    /\ view' = market
    /\ coinData' = wallet
    /\ coinVersion' = version
    /\ balance' = Total(wallet)
    /\ UNCHANGED <<chain, purse, modals, shown, button, pending, presses>>

-----------------------------------------------------------------------------
(* Clicks.  Cards are behind the modals. *)

deTaskList ==
    LET fs == getDynamicFields(view) IN [k \in DOMAIN fs |-> view[fs[k].name]]

deNFTList ==
    LET fs == getDynamicFields(view)
    IN  SelectSeq([k \in DOMAIN fs |-> fs[k].name], LAMBDA n : n \in Item)

BuyCards == Range(Cards(deTaskList, deNFTList))
DelistCards ==
    Range(MyCards(deTaskList, deNFTList, getDynamicFields(view), me))

(* NFTid gets the ID of the book of the previous click; on the first click *)
(* there is none, NFTData is {} and NFTData?.id.id throws.                 *)
handleItemClick(card, modal) ==
    /\ isButtonDisabled' = TRUE
    /\ orderData' = card.order
    /\ NFTData' = card.nft
    /\ IF NFTData = Undefined
       THEN UNCHANGED <<NFTid, modals>>
       ELSE /\ NFTid' = NFTData
            /\ show' = (modal = "buy")
            /\ delistShow' = (modal = "delist")
    /\ UNCHANGED <<chain, purse, queries, enabledBy, pending, presses>>

Click ==
    /\ ~ show /\ ~ delistShow
    /\ \/ \E card \in BuyCards : handleItemClick(card, "buy")
       \/ \E card \in DelistCards : handleItemClick(card, "delist")

handleClose ==
    /\ show
    /\ show' = FALSE
    /\ UNCHANGED <<chain, purse, queries, delistShow, shown, button, pending, presses>>

handledeClose ==
    /\ delistShow
    /\ delistShow' = FALSE
    /\ UNCHANGED <<chain, purse, queries, show, shown, button, pending, presses>>

(* A transaction with its arguments, the order it was asked for and the    *)
(* version of the coins that a purchase was given.                         *)
Tx(kind, item, coin) ==
    [kind |-> kind, item |-> item, coin |-> coin, order |-> orderData,
     coins |-> IF kind = "buy" THEN coinVersion ELSE 0,
     number |-> presses + 1, stage |-> "asked", version |-> 0]

signAndExecuteTransactionBlock(tx) ==
    /\ presses < MaxPresses
    /\ presses' = presses + 1
    /\ pending' = pending \cup {tx}
    /\ UNCHANGED <<chain, purse, queries, modals, shown, button>>

(* The order of a hanging Coin has no ask, and pure.u64 throws; with too  *)
(* small a balance there is only an alert.                                *)
SplituseCoin ==
    /\ show
    /\ orderData.ask # Undefined
    /\ balance >= orderData.ask
    /\ signAndExecuteTransactionBlock(Tx("split", Undefined, Undefined))

(* Fault: any coin that covers the ask. *)
AnyCoinAbove(ask) ==
    {c \in DOMAIN coinData : ask # Undefined /\ coinData[c] >= ask}

(* One of the coins of this balance, the last in the nodes' order. *)
getusefulcoinid(ask) == {c \in DOMAIN coinData : coinData[c] = ask}

(* Without such a coin txb.object(null) throws. *)
BuyandTakeNFT ==
    /\ show
    /\ ~ isButtonDisabled
    /\ \E coin \in getusefulcoinid(orderData.ask) :
            signAndExecuteTransactionBlock(Tx("buy", NFTData, coin))

DelistandTakeNFT ==
    /\ delistShow
    /\ signAndExecuteTransactionBlock(Tx("delist", NFTid, Undefined))

-----------------------------------------------------------------------------
(* The wallet and the nodes. *)

Step(tx, stage) == pending' = (pending \ {tx}) \cup {[tx EXCEPT !.stage = stage]}

(* The three handlers share one mutation: only the callbacks of the last  *)
(* transaction asked for are called.                                      *)
Observed(tx) == tx.number = presses

onError(tx) ==
    /\ pending' = pending \ {tx}
    /\ UNCHANGED <<chain, purse, queries, modals, shown, button, presses>>

GasCoins(tx) == DOMAIN wallet \ {tx.coin}
GasBalance(tx) == MapThenSumSet(LAMBDA c : wallet[c], GasCoins(tx))
Spent(tx) == Fee + (IF tx.kind = "split" THEN tx.order.ask ELSE 0)

(* What the Marketplace asserts of a buy and of a delist. *)
Accepted(tx) ==
    CASE tx.kind = "split" -> TRUE
      [] tx.kind = "buy" -> /\ tx.item \in DOMAIN market
                            /\ market[tx.item].ask = wallet[tx.coin]
      [] tx.kind = "delist" -> /\ tx.item \in DOMAIN market
                               /\ market[tx.item].owner = me

(* The arguments are resolved, gas is selected and the transaction is run  *)
(* dry.                                                                    *)
Builds(tx) ==
    /\ tx.coin \in DOMAIN wallet \cup {Undefined}
    /\ GasCoins(tx) # {}
    /\ GasBalance(tx) >= Spent(tx)
    /\ Accepted(tx)

Build(tx) ==
    /\ tx.stage = "asked"
    /\ IF Builds(tx)
       THEN /\ pending' = (pending \ {tx}) \cup
                    {[tx EXCEPT !.stage = "built", !.version = version]}
            /\ UNCHANGED <<chain, purse, queries, modals, shown, button, presses>>
       ELSE onError(tx)

Reject(tx) ==
    /\ tx.stage \in {"asked", "built"}
    /\ onError(tx)

(* Gas is paid by the merged coins.  An aborted transaction pays, too, and *)
(* changes nothing else.                                                   *)
Charge(tx, spent, lost, made) ==
    \E gas \in GasCoins(tx) :
        LET kept == DOMAIN wallet \ (GasCoins(tx) \cup lost)
        IN  wallet' = [c \in {gas} \cup DOMAIN made \cup kept |->
                IF c = gas THEN GasBalance(tx) - spent
                ELSE IF c \in DOMAIN made THEN made[c] ELSE wallet[c]]

None == [c \in {} |-> 0]

Execute(tx) ==
    /\ tx.stage = "built"
    /\ tx.version = version
    /\ version' = version + 1
    /\ Step(tx, "executed")
    /\ \/ /\ tx.kind = "split"
          /\ Charge(tx, Spent(tx), {}, [c \in {version + 1} |-> tx.order.ask])
          /\ UNCHANGED <<chain, mine, bought>>
       \/ /\ tx.kind = "buy"
          /\ Accepted(tx)
          /\ buy(tx.item)
          /\ Charge(tx, Fee, {tx.coin}, None)
          /\ mine' = mine \cup {tx.item}
          /\ bought' = bought \cup
                {[order |-> tx.order, paid |-> wallet[tx.coin],
                  late |-> tx.coins # version]}
       \/ /\ tx.kind = "delist"
          /\ Accepted(tx)
          /\ delist(me, tx.item)
          /\ Charge(tx, Fee, {}, None)
          /\ mine' = mine \cup {tx.item}
          /\ UNCHANGED bought
       \/ /\ ~ Accepted(tx)
          /\ Charge(tx, Fee, {}, None)
          /\ UNCHANGED <<chain, mine, bought>>
    /\ UNCHANGED <<queries, modals, shown, button, presses>>

(* Its coins have a newer version than the one that was signed. *)
Refuse(tx) ==
    /\ tx.stage = "built"
    /\ tx.version # version
    /\ onError(tx)

-----------------------------------------------------------------------------
(* The callbacks. *)

onSuccess(tx) ==
    /\ tx.stage = "executed"
    /\ IF Observed(tx)
       THEN Step(tx, "refetchEvents")
       ELSE pending' = pending \ {tx}
    /\ UNCHANGED <<chain, purse, queries, modals, shown, button, presses>>

(* The callback of a delist ends by closing the buy modal. *)
refetchEvents(tx) ==
    /\ tx.stage = "refetchEvents"
    /\ view' = market
    /\ IF tx.kind = "split"
       THEN Step(tx, "refetchCoinsList")
       ELSE pending' = pending \ {tx}
    /\ show' = (show /\ tx.kind # "delist")
    /\ UNCHANGED <<chain, purse, coinData, coinVersion, balance, delistShow, shown,
                   button, presses>>

(* Fault: Buy is enabled with the coins of before the split. *)
EnableAtOnce(tx) ==
    /\ tx.stage = "refetchCoinsList"
    /\ isButtonDisabled' = FALSE
    /\ enabledBy' = [order |-> tx.order, version |-> tx.version]
    /\ pending' = pending \ {tx}
    /\ UNCHANGED <<chain, purse, queries, modals, shown, presses>>

refetchCoinsList(tx) ==
    /\ tx.stage = "refetchCoinsList"
    /\ coinData' = wallet
    /\ coinVersion' = version
    /\ isButtonDisabled' = FALSE
    /\ enabledBy' = [order |-> tx.order, version |-> tx.version]
    /\ pending' = pending \ {tx}
    /\ UNCHANGED <<chain, purse, view, balance, modals, shown, presses>>

Next ==
    \/ Trade
    \/ Focus
    \/ Click
    \/ handleClose
    \/ handledeClose
    \/ SplituseCoin
    \/ BuyandTakeNFT
    \/ DelistandTakeNFT
    \/ \E tx \in pending :
            \/ Build(tx)
            \/ Reject(tx)
            \/ Execute(tx)
            \/ Refuse(tx)
            \/ onSuccess(tx)
            \/ refetchEvents(tx)
            \/ refetchCoinsList(tx)

Spec == Init /\ [][Next]_vars

-----------------------------------------------------------------------------
(* A purchase costs what its card said, whatever happened to the order     *)
(* since the page was loaded, if no transaction of the user was executed   *)
(* between the page's last look at the coins and the purchase (286-302,    *)
(* 357-404): the coin is chosen by its balance and never changed by others.*)
FreshCoinPaysPrice ==
    \A b \in bought : b.late \/ b.paid = b.order.ask

(* As long as no other transaction of the user was executed since the     *)
(* split for the order in the modal, an enabled Buy finds a coin that is   *)
(* on chain and has the value of the ask (286-302, 320-354).               *)
CoinReady ==
    show /\ ~ isButtonDisabled /\ enabledBy.order = orderData
         /\ enabledBy.version + 1 = version
      => /\ getusefulcoinid(orderData.ask) # {}
         /\ \A coin \in getusefulcoinid(orderData.ask) :
                coin \in DOMAIN wallet /\ wallet[coin] = orderData.ask

(* "Are you sure to delist this NFT?" (642): Confirm delists the book that *)
(* the modal describes.                                                    *)
DelistTakesShownBook ==
    [][\A tx \in pending' \ pending :
            tx.kind = "delist" /\ tx.stage = "asked" => tx.item = NFTData]_vars
=============================================================================
