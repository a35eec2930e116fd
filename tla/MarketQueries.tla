--------------------------- MODULE MarketQueries ---------------------------
(***************************************************************************)
(* The Market page and its query caches, while accounts trade on chain.    *)
(*                                                                         *)
(* The page asks four kinds of queries, each for the keys that the answers *)
(* of the earlier ones give: getDynamicFields of the Marketplace,          *)
(* getDynamicFieldObject per name, multiGetObjects of the objects found,   *)
(* and multiGetObjects of the names.  react-query keeps the last answer    *)
(* per key and asks again when the window gets focus, when a key is        *)
(* mounted, or when a handler calls refetch; each answer arrives by itself.*)
(*                                                                         *)
(* Of the two multiGetObjects queries the model keeps the answer for one   *)
(* key.  An older answer that comes back with an older key shows what the  *)
(* page would show had it not asked for the lists in between.              *)
(***************************************************************************)
EXTENDS MarketChain

CONSTANT me     \* the account of the page's user

ASSUME UserAssumption == me \in Account

VARIABLES
    fields,     \* last answer to getDynamicFields
    detail,     \* last object ID found under each name
    multi,      \* last answer to multiGetObjects of objects, and its key
    bnft        \* last answer to multiGetObjects of names, and its key

cache == <<fields, detail, multi, bnft>>
vars == <<chain, cache>>

Answer(key, data) == [key |-> key, data |-> data]

Init ==
    /\ market = [n \in {} |-> Undefined]
    /\ loose = {}
    /\ burned = {}
    /\ nextId = 1
    /\ fields = <<>>
    /\ detail = [n \in Name |-> Undefined]
    /\ multi = Answer(<<>>, <<>>)
    /\ bnft = Answer(<<>>, <<>>)

Trade ==
    /\ \/ \E a \in Account, i \in Item :
            \/ \E ask \in Ask : list(a, i, ask)
            \/ delist(a, i)
       \/ \E i \in Item : buy(i) \/ burn(i)
       \/ \E a \in Account : take_profits(a)
    /\ UNCHANGED cache

-----------------------------------------------------------------------------
(* Answers. *)

DynamicObjectlist == [k \in DOMAIN fields |-> detail[fields[k].name]]
obooknftidlist == [k \in DOMAIN fields |-> fields[k].name]

Objects == Range(market) \cup loose

FetchFields ==
    /\ fields' = getDynamicFields(market)
    /\ UNCHANGED <<chain, detail, multi, bnft>>

(* There is a query for every name of the last list. *)
FetchDetail(n) ==
    /\ n \in Range(obooknftidlist)
    /\ detail' = [detail EXCEPT
                    ![n] = IF n \in DOMAIN market THEN market[n].id
                                                  ELSE Undefined]
    /\ UNCHANGED <<chain, fields, multi, bnft>>

(* The request fails as long as one of the IDs is null. *)
FetchMulti ==
    /\ Undefined \notin Range(DynamicObjectlist)
    /\ multi' = Answer(DynamicObjectlist,
                       multiGetObjects(DynamicObjectlist, Objects))
    /\ UNCHANGED <<chain, fields, detail, bnft>>

(* Books exist under their ID, in escrow or not; an address is no object. *)
FetchBooks ==
    /\ bnft' = Answer(obooknftidlist,
                      [k \in DOMAIN obooknftidlist |->
                        IF obooknftidlist[k] \in Item \ burned
                        THEN obooknftidlist[k] ELSE Undefined])
    /\ UNCHANGED <<chain, fields, detail, multi>>

Next ==
    \/ Trade
    \/ FetchFields
    \/ \E n \in Name : FetchDetail(n)
    \/ FetchMulti
    \/ FetchBooks

(* The user comes back to the window again and again. *)
Fairness ==
    /\ WF_vars(FetchFields)
    /\ \A n \in Name : WF_vars(FetchDetail(n))
    /\ WF_vars(FetchMulti)
    /\ WF_vars(FetchBooks)

Spec == Init /\ [][Next]_vars /\ Fairness

-----------------------------------------------------------------------------
(* What the page shows. *)

deTaskList ==
    IF multi.key = DynamicObjectlist THEN Found(multi.data) ELSE <<>>

deNFTList ==
    IF bnft.key = obooknftidlist THEN Found(bnft.data) ELSE <<>>

AllOrders == Cards(deTaskList, deNFTList)
MyOrders == MyCards(deTaskList, deNFTList, fields, me)

(* What it should show: each order with the book that hangs behind it. *)
OnSale(owners) ==
    {[order |-> market[i], nft |-> i] :
        i \in {j \in Item \cap DOMAIN market : market[j].owner \in owners}}

FitsOnePage == Cardinality(DOMAIN market) <= PageSize

NoProfits == DOMAIN market \cap Account = {}

(* Once trading pauses, MyList ends up with exactly the user's own orders, *)
(* each with its own book, in spite of the answers of different ages that  *)
(* the filters of lines 232-236 join, and of hanging Coins among them; and *)
(* so does the list of all orders as long as no Coin hangs.                *)
PageCatchesUp ==
    <>[](FitsOnePage =>
            /\ Range(MyOrders) = OnSale({me})
            /\ NoProfits => Range(AllOrders) = OnSale(Account))
=============================================================================
