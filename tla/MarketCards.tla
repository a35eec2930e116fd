---------------------------- MODULE MarketCards ----------------------------
(***************************************************************************)
(* What the Market page (Market.tsx) renders from the answers of its       *)
(* queries: the card of every order, and the cards of the user's own       *)
(* orders.                                                                 *)
(*                                                                         *)
(* An answer to getDynamicFields is a sequence of entries [name, objectId] *)
(* in the order of the nodes' index, which is that of the hashes of the    *)
(* names.  An object, as the page reads it, is a record [id, ask, owner];  *)
(* a Coin has no ask and no owner, so reading them gives Undefined.        *)
(***************************************************************************)
EXTENDS Integers, SequencesExt

CONSTANTS
    Account,        \* addresses, the names of hanging Coins
    Item,           \* IDs of books, the names of Listings
    FieldOrder,     \* the names, in the order of the nodes' index
    PageSize,       \* entries in one answer of getDynamicFields, 50 on chain
    Undefined

ASSUME CardsAssumption ==
    /\ Range(FieldOrder) = Account \cup Item
    /\ IsInjective(FieldOrder)
    /\ PageSize \in Nat

(* What hangs at the Marketplace: a function from names to objects. *)
ListingAt(id, ask, owner) == [id |-> id, ask |-> ask, owner |-> owner]
CoinAt(id) == ListingAt(id, Undefined, Undefined)

getDynamicFields(market) ==
    LET names == SelectSeq(FieldOrder, LAMBDA n : n \in DOMAIN market)
    IN  [k \in 1 .. Min({Len(names), PageSize}) |->
            [name |-> names[k], objectId |-> market[names[k]].id]]

(* An answer has an error entry, Undefined here, for an ID of no object. *)
multiGetObjects(ids, objects) ==
    [k \in DOMAIN ids |->
        IF \E o \in objects : o.id = ids[k]
        THEN CHOOSE o \in objects : o.id = ids[k]
        ELSE Undefined]

Found(answer) == SelectSeq(answer, LAMBDA o : o # Undefined)

-----------------------------------------------------------------------------
(* Orders and books are paired by their position in the two answers, after *)
(* the error entries have been filtered out of each.                       *)
PairUp(orders, nfts) ==
    [k \in 1 .. Min({Len(orders), Len(nfts)}) |->
        [order |-> orders[k], nft |-> nfts[k]]]

Cards(deTaskList, deNFTList) == PairUp(deTaskList, deNFTList)

(* Fault: the books are not filtered by the user's own orders. *)
MyCardsUnfiltered(deTaskList, deNFTList, fields, account) ==
    PairUp(SelectSeq(deTaskList, LAMBDA o : o.owner = account), deNFTList)

(* The user's orders, the entries they hang in, and the books named there. *)
MyCards(deTaskList, deNFTList, fields, account) ==
    LET ListedData == SelectSeq(deTaskList, LAMBDA o : o.owner = account)
        ListnftidData ==
            SelectSeq(fields,
                      LAMBDA e : \E o \in Range(ListedData) : o.id = e.objectId)
        ListnftData ==
            SelectSeq(deNFTList,
                      LAMBDA n : \E e \in Range(ListnftidData) : e.name = n)
    IN  PairUp(ListedData, ListnftData)
=============================================================================
