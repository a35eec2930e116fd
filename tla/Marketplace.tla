---------------------------- MODULE Marketplace ----------------------------
(***************************************************************************)
(* The Move package booknft (modules marketplace and book_nft) run by      *)
(* programmable transactions.                                              *)
(*                                                                         *)
(* A transaction has a sender and executes commands one after the other    *)
(* on a working copy of the store.  Calls of public functions leave their  *)
(* results in the transaction's "Hand", for later commands to use.  The    *)
(* working copy replaces the committed store when the last command has     *)
(* succeeded and no object is left in hand; a failed check anywhere throws *)
(* the working copy away.  Transactions that write the same shared         *)
(* Marketplace are executed one at a time, and those that share no object  *)
(* commute, so one transaction runs at a time here.                        *)
(***************************************************************************)
EXTENDS Objects

CONSTANTS
    GenesisObj,     \* the objects before the first transaction
    GenesisHolder,  \* and who holds them
    MaxCommands     \* max_programmable_tx_commands, 1024 on chain

VARIABLES
    obj,        \* contents of every object
    holder,     \* who holds it
    field,      \* the Field objects of dynamic object fields
    minted,     \* NFTMinted events
    sender,     \* sender of the running transaction
    moved,      \* objects the transaction has given away or shared
    ncmd,       \* commands it has executed
    committed   \* the store the running transaction started from

store == <<obj, holder, field, minted>>
vars == <<store, sender, moved, ncmd, committed>>

ASSUME GenesisAssumption ==
    /\ GenesisObj \in [Id -> Object]
    /\ GenesisHolder \in [Id -> Holder]
    /\ MaxCommands \in Nat
    /\ \A i \in Id :
        CASE GenesisObj[i].type = "Marketplace" -> GenesisHolder[i] = "Shared"
          [] GenesisObj[i].type \in ItemType -> GenesisHolder[i] \in Address
          [] OTHER -> GenesisObj[i] = Free /\ GenesisHolder[i] = "Nowhere"

NFTMinted == [object_id: Id, creator: Address]

Snapshot ==
    [obj |-> obj, holder |-> holder, field |-> field, minted |-> minted]

Init ==
    /\ obj = GenesisObj
    /\ holder = GenesisHolder
    /\ field = {}
    /\ minted = {[object_id |-> i, creator |-> GenesisObj[i].author] :
                    i \in {j \in Id : GenesisObj[j].type = "BookNFT"}}
    /\ sender = NoSender
    /\ moved = {}
    /\ ncmd = 0
    /\ committed = Snapshot

-----------------------------------------------------------------------------
(* Transactions. *)

Begin(a) ==
    /\ sender = NoSender
    /\ sender' = a
    /\ UNCHANGED <<store, moved, ncmd, committed>>

(* Every object a command returned must have been used by value. *)
Commit ==
    /\ sender # NoSender
    /\ \A i \in Id : holder[i] # "Hand"
    /\ committed' = Snapshot
    /\ sender' = NoSender
    /\ moved' = {}
    /\ ncmd' = 0
    /\ UNCHANGED store

(* Fault: an abort that does not give back the removed fields. *)
AbortKeepsFields ==
    /\ sender # NoSender
    /\ obj' = committed.obj
    /\ holder' = committed.holder
    /\ minted' = committed.minted
    /\ sender' = NoSender
    /\ moved' = {}
    /\ ncmd' = 0
    /\ UNCHANGED <<field, committed>>

(* A failed assert, a missing field, an unused value, exhausted gas. *)
Abort ==
    /\ sender # NoSender
    /\ obj' = committed.obj
    /\ holder' = committed.holder
    /\ field' = committed.field
    /\ minted' = committed.minted
    /\ sender' = NoSender
    /\ moved' = {}
    /\ ncmd' = 0
    /\ UNCHANGED committed

(* Every command counts, and none changes the committed store. *)
Command ==
    /\ sender # NoSender
    /\ ncmd < MaxCommands
    /\ ncmd' = ncmd + 1
    /\ UNCHANGED <<sender, committed>>

(* Objects of the given types that a command may take by value or by       *)
(* mutable reference.                                                      *)
Input(types) ==
    {i \in Id :
        /\ obj[i].type \in types
        /\ holder[i] = "Hand" \/ (holder[i] = sender /\ i \notin moved)}

(* Marketplaces that were shared before this transaction. *)
SharedInput == {m \in Id : obj[m].type = "Marketplace" /\ m \notin moved}

(* IDs that object::new may return. *)
Fresh == {i \in Id : obj[i].type = "Free"}

(* Results stay in hand; what is transferred is out of the reach of later  *)
(* commands, also when it is transferred to the sender.                    *)
Hands(i, to) == moved' = IF to = "Hand" THEN moved ELSE moved \cup {i}

-----------------------------------------------------------------------------
(* Module marketplace. *)

create(m, coin) ==
    /\ obj' = [obj EXCEPT ![m] = MarketplaceOf(coin)]
    /\ holder' = [holder EXCEPT ![m] = "Shared"]
    /\ moved' = moved \cup {m}
    /\ UNCHANGED <<field, minted>>

(* Fault: the Listing names the item but does not take it. *)
ListByReference(m, item, ask, listing) ==
    /\ ~ exists_(field, m, item)
    /\ obj' = [obj EXCEPT ![listing] = ListingOf(ask, sender)]
    /\ holder' = [holder EXCEPT ![listing] = "Child"]
    /\ field' = field \cup {NewField(listing, "true", item),
                            NewField(m, item, listing)}
    /\ UNCHANGED <<moved, minted>>

list(m, item, ask, listing) ==
    /\ ~ exists_(field, listing, "true")
    /\ ~ exists_(field, m, item)
    /\ obj' = [obj EXCEPT ![listing] = ListingOf(ask, sender)]
    /\ holder' = [holder EXCEPT ![item] = "Child", ![listing] = "Child"]
    /\ field' = field \cup {NewField(listing, "true", item),
                            NewField(m, item, listing)}
    /\ UNCHANGED <<moved, minted>>

(* f leads from m to a Listing under item_id and g from there to its item. *)
Unlist(m, item_id, f, g) ==
    /\ FieldAt(f, m, item_id)
    /\ obj[f.value].type = "Listing"
    /\ FieldAt(g, f.value, "true")
    /\ obj[g.value].type \in ItemType

(* Fault: no owner check. *)
DelistByAnyone(m, item_id, to) ==
    /\ \E f, g \in field :
        /\ Unlist(m, item_id, f, g)
        /\ obj' = [obj EXCEPT ![f.value] = Deleted]
        /\ holder' = [holder EXCEPT ![f.value] = "Nowhere", ![g.value] = to]
        /\ field' = field \ {f, g}
        /\ Hands(g.value, to)
    /\ UNCHANGED minted

(* Fault: the Listing is deleted with the item still in it. *)
DelistLeavesItem(m, item_id, to) ==
    /\ \E f, g \in field :
        /\ Unlist(m, item_id, f, g)
        /\ obj[f.value].owner = sender
        /\ obj' = [obj EXCEPT ![f.value] = Deleted]
        /\ holder' = [holder EXCEPT ![f.value] = "Nowhere"]
        /\ field' = field \ {f}
    /\ UNCHANGED <<minted, moved>>

Delist(m, item_id, to) ==
    /\ \E f, g \in field :
        /\ Unlist(m, item_id, f, g)
        /\ obj[f.value].owner = sender
        /\ obj' = [obj EXCEPT ![f.value] = Deleted]
        /\ holder' = [holder EXCEPT ![f.value] = "Nowhere", ![g.value] = to]
        /\ field' = field \ {f, g}
        /\ Hands(g.value, to)
    /\ UNCHANGED minted

delist(m, item_id) == Delist(m, item_id, "Hand")
delist_and_take(m, item_id) == Delist(m, item_id, sender)

(* Fault: the payment replaces what the owner had. *)
PayByReplace(m, paid, f, g, to) ==
    \E p \in field :
        /\ FieldAt(p, m, obj[f.value].owner)
        /\ obj' = [obj EXCEPT ![f.value] = Deleted, ![paid] = Deleted,
                              ![p.value] = CoinOf(obj[p.value].coin,
                                                  obj[paid].value)]
        /\ holder' = [holder EXCEPT ![f.value] = "Nowhere",
                                    ![paid] = "Nowhere", ![g.value] = to]
        /\ field' = field \ {f, g}

(* The owner already has a Coin hanging at the Marketplace: join paid to it. *)
PayByJoin(m, paid, f, g, to) ==
    \E p \in field :
        /\ FieldAt(p, m, obj[f.value].owner)
        /\ obj[p.value].type = "Coin" /\ obj[p.value].coin = obj[m].coin
        /\ obj[p.value].value + obj[paid].value <= MaxU64
        /\ obj' = [obj EXCEPT
                    ![f.value] = Deleted,
                    ![paid] = Deleted,
                    ![p.value] = CoinOf(obj[p.value].coin,
                                        obj[p.value].value + obj[paid].value)]
        /\ holder' = [holder EXCEPT
                        ![f.value] = "Nowhere",
                        ![paid] = "Nowhere",
                        ![g.value] = to]
        /\ field' = field \ {f, g}

(* Fault: the Listing is read and its item taken, but it stays listed. *)
PayAndKeepListing(m, paid, f, g, to) ==
    /\ ~ exists_(field, m, obj[f.value].owner)
    /\ holder' = [holder EXCEPT ![paid] = "Child", ![g.value] = to]
    /\ field' = (field \ {g}) \cup {NewField(m, obj[f.value].owner, paid)}
    /\ UNCHANGED obj

(* No Coin there: attach paid under the owner's address. *)
PayByAdd(m, paid, f, g, to) ==
    /\ ~ exists_(field, m, obj[f.value].owner)
    /\ obj' = [obj EXCEPT ![f.value] = Deleted]
    /\ holder' = [holder EXCEPT
                    ![f.value] = "Nowhere",
                    ![paid] = "Child",
                    ![g.value] = to]
    /\ field' = (field \ {f, g}) \cup {NewField(m, obj[f.value].owner, paid)}

(* Fault: the ask is not compared with what is paid. *)
BuyAtAnyPrice(m, item_id, paid, to) ==
    /\ obj[paid].coin = obj[m].coin
    /\ \E f, g \in field :
        /\ Unlist(m, item_id, f, g)
        /\ \/ PayByJoin(m, paid, f, g, to)
           \/ PayByAdd(m, paid, f, g, to)
        /\ Hands(g.value, to)
    /\ UNCHANGED minted

Buy(m, item_id, paid, to) ==
    /\ obj[paid].coin = obj[m].coin
    /\ \E f, g \in field :
        /\ Unlist(m, item_id, f, g)
        /\ obj[f.value].ask = obj[paid].value
        /\ \/ PayByJoin(m, paid, f, g, to)
           \/ PayByAdd(m, paid, f, g, to)
        /\ Hands(g.value, to)
    /\ UNCHANGED minted

buy(m, item_id, paid) == Buy(m, item_id, paid, "Hand")
buy_and_take(m, item_id, paid) == Buy(m, item_id, paid, sender)

(* Fault: the key is not the sender's address. *)
TakeAnyProfits(m, to) ==
    /\ \E p \in field :
        /\ p.parent = m /\ p.name \in Address
        /\ holder' = [holder EXCEPT ![p.value] = to]
        /\ field' = field \ {p}
        /\ Hands(p.value, to)
    /\ UNCHANGED <<obj, minted>>

TakeProfits(m, to) ==
    /\ \E p \in field :
        /\ FieldAt(p, m, sender)
        /\ obj[p.value].type = "Coin" /\ obj[p.value].coin = obj[m].coin
        /\ holder' = [holder EXCEPT ![p.value] = to]
        /\ field' = field \ {p}
        /\ Hands(p.value, to)
    /\ UNCHANGED <<obj, minted>>

take_profits(m) == TakeProfits(m, "Hand")
take_profits_and_keep(m) == TakeProfits(m, sender)

-----------------------------------------------------------------------------
(* Module book_nft. *)

mint_to_sender(nft, description) ==
    /\ obj' = [obj EXCEPT ![nft] = BookNFTOf(sender, description)]
    /\ holder' = [holder EXCEPT ![nft] = sender]
    /\ minted' = minted \cup {[object_id |-> nft, creator |-> sender]}
    /\ moved' = moved \cup {nft}
    /\ UNCHANGED field

(* book_nft::transfer and the TransferObjects command. *)
transfer(i, recipient) ==
    /\ holder' = [holder EXCEPT ![i] = recipient]
    /\ moved' = moved \cup {i}
    /\ UNCHANGED <<obj, field, minted>>

(* Fault: whoever updates a book becomes its author. *)
UpdateTakesAuthorship(nft, new_description) ==
    /\ obj' = [obj EXCEPT ![nft] = BookNFTOf(sender, new_description)]
    /\ UNCHANGED <<holder, field, minted, moved>>

update_description(nft, new_description) ==
    /\ obj' = [obj EXCEPT
                ![nft] = BookNFTOf(obj[nft].author, new_description)]
    /\ UNCHANGED <<holder, field, minted, moved>>

burn(nft) ==
    /\ obj' = [obj EXCEPT ![nft] = Deleted]
    /\ holder' = [holder EXCEPT ![nft] = "Nowhere"]
    /\ UNCHANGED <<field, minted, moved>>

-----------------------------------------------------------------------------
(* Coin commands of a transaction. *)

(* Fault: no check that the balance suffices. *)
SplitUnchecked(c, amount, new) ==
    /\ obj' = [obj EXCEPT
                ![c] = CoinOf(obj[c].coin, obj[c].value - amount),
                ![new] = CoinOf(obj[c].coin, amount)]
    /\ holder' = [holder EXCEPT ![new] = "Hand"]
    /\ UNCHANGED <<field, minted, moved>>

SplitCoins(c, amount, new) ==
    /\ amount <= obj[c].value
    /\ obj' = [obj EXCEPT
                ![c] = CoinOf(obj[c].coin, obj[c].value - amount),
                ![new] = CoinOf(obj[c].coin, amount)]
    /\ holder' = [holder EXCEPT ![new] = "Hand"]
    /\ UNCHANGED <<field, minted, moved>>

(* Fault: the joined coin is not destroyed. *)
MergeKeepsSource(target, c) ==
    /\ target # c
    /\ obj[c].coin = obj[target].coin
    /\ obj[target].value + obj[c].value <= MaxU64
    /\ obj' = [obj EXCEPT
                ![target] = CoinOf(obj[target].coin,
                                   obj[target].value + obj[c].value)]
    /\ UNCHANGED <<holder, field, minted, moved>>

MergeCoins(target, c) ==
    /\ target # c
    /\ obj[c].coin = obj[target].coin
    /\ obj[target].value + obj[c].value <= MaxU64
    /\ obj' = [obj EXCEPT
                ![target] = CoinOf(obj[target].coin,
                                   obj[target].value + obj[c].value),
                ![c] = Deleted]
    /\ holder' = [holder EXCEPT ![c] = "Nowhere"]
    /\ UNCHANGED <<field, minted, moved>>

-----------------------------------------------------------------------------
Call(m) ==
    \/ \E item \in Input(ItemType), ask \in U64, listing \in Fresh :
            list(m, item, ask, listing)
    \/ \E i \in Id : delist(m, i) \/ delist_and_take(m, i)
    \/ \E i \in Id, paid \in Input({"Coin"}) :
            buy(m, i, paid) \/ buy_and_take(m, i, paid)
    \/ take_profits(m)
    \/ take_profits_and_keep(m)

ExecuteCommand ==
    \/ \E m \in Fresh, coin \in CoinType : create(m, coin)
    \/ \E m \in SharedInput : Call(m)
    \/ \E nft \in Fresh, d \in Description : mint_to_sender(nft, d)
    \/ \E i \in Input(ItemType), recipient \in Address : transfer(i, recipient)
    \/ \E nft \in Input({"BookNFT"}), d \in Description :
            update_description(nft, d)
    \/ \E nft \in Input({"BookNFT"}) : burn(nft)
    \/ \E c \in Input({"Coin"}), amount \in U64, new \in Fresh :
            SplitCoins(c, amount, new)
    \/ \E target, c \in Input({"Coin"}) : MergeCoins(target, c)

Next ==
    \/ \E a \in Address : Begin(a)
    \/ Commit
    \/ Abort
    \/ Command /\ ExecuteCommand

Spec == Init /\ [][Next]_vars

-----------------------------------------------------------------------------
(* The working copy and the committed store hold objects, fields and       *)
(* events of their types; the value of a Coin stays within u64 through     *)
(* every join and split, and a transaction within its commands.            *)
TypeOK ==
    /\ obj \in [Id -> Object]
    /\ holder \in [Id -> Holder]
    /\ field \subseteq Field
    /\ minted \subseteq NFTMinted
    /\ sender \in Address \cup {NoSender}
    /\ moved \subseteq Id
    /\ ncmd \in 0 .. MaxCommands
    /\ committed \in [obj: [Id -> Object], holder: [Id -> Holder],
                      field: SUBSET Field, minted: SUBSET NFTMinted]

(* Properties of a store with contents o, holders h and Field objects fs. *)

FieldsInjective(fs) ==
    \A f, g \in fs :
        (f.parent = g.parent /\ f.name = g.name) \/ f.value = g.value => f = g

ListingsHoldTheirItem(o, fs) ==
    \A f \in fs : f.name \in Id =>
        /\ o[f.parent].type = "Marketplace"
        /\ o[f.value].type = "Listing"
        /\ \E g \in fs : FieldAt(g, f.value, "true") /\ g.value = f.name

ItemsAreListed(o, fs) ==
    \A g \in fs : g.name = "true" =>
        /\ o[g.parent].type = "Listing"
        /\ o[g.value].type \in ItemType
        /\ \E f \in fs : f.name = g.value /\ f.value = g.parent

ProfitsAreCoins(o, fs) ==
    \A p \in fs : p.name \in Address =>
        /\ o[p.parent].type = "Marketplace"
        /\ o[p.value].type = "Coin"
        /\ o[p.value].coin = o[p.parent].coin

HeldByType(o, h) ==
    \A i \in Id :
        /\ o[i].type = "Marketplace" <=> h[i] = "Shared"
        /\ o[i].type \in {"Free", "Deleted"} <=> h[i] = "Nowhere"
        /\ o[i].type = "Listing" => h[i] = "Child"

ChildrenHang(h, fs) ==
    \A i \in Id : h[i] = "Child" <=> \E f \in fs : f.value = i

MintedByAuthor(o, e) ==
    \A i \in Id : o[i].type = "BookNFT" =>
        {x \in e : x.object_id = i} =
            {[object_id |-> i, creator |-> o[i].author]}

NoEventYet(o, e) ==
    \A i \in Id : o[i].type = "Free" => \A x \in e : x.object_id # i

StoreOK(o, h, fs, e) ==
    /\ FieldsInjective(fs)
    /\ ListingsHoldTheirItem(o, fs)
    /\ ItemsAreListed(o, fs)
    /\ ProfitsAreCoins(o, fs)
    /\ HeldByType(o, h)
    /\ ChildrenHang(h, fs)
    /\ MintedByAuthor(o, e)
    /\ NoEventYet(o, e)

(* The inductive invariant: the working copy and the committed store are   *)
(* sound and are the same between transactions, although delist and buy    *)
(* remove fields before they assert (lines 74-76, 101-103) and a Listing   *)
(* is deleted after its item was taken out (lines 79, 116).                *)
StoresSound ==
    /\ StoreOK(obj, holder, field, minted)
    /\ StoreOK(committed.obj, committed.holder, committed.field,
               committed.minted)
    /\ \A i \in Id : committed.holder[i] # "Hand"
    /\ sender = NoSender => Snapshot = committed

-----------------------------------------------------------------------------
(* What the contract promises. *)

(* Whatever was listed can be taken out again: the Listing found under an  *)
(* item's ID at a Marketplace is live and its only field leads to that     *)
(* very item, so after the first remove of delist and buy (lines 74, 101)  *)
(* the second one (lines 78, 115) cannot fail nor return another object.   *)
ListingsRedeemable ==
    \A f \in field : f.name \in Id =>
        /\ obj[f.value].type = "Listing"
        /\ {g \in field : g.parent = f.value} =
               {NewField(f.value, "true", f.name)}
        /\ obj[f.name].type \in ItemType

(* Nothing is stranded and nothing is listed twice: an object that hangs   *)
(* in a dynamic field hangs in exactly one, and that field belongs to a    *)
(* shared Marketplace or to a Listing that does, never to an object that   *)
(* object::delete (lines 79, 116) has removed.                             *)
NothingStranded ==
    \A i \in Id : holder[i] = "Child" =>
        \E f \in field :
            /\ f.value = i
            /\ \A g \in field : g.value = i => g = f
            /\ \/ holder[f.parent] = "Shared"
               \/ \E g \in field :
                    g.value = f.parent /\ holder[g.parent] = "Shared"

(* Every BookNFT has exactly one NFTMinted event, and its creator is still *)
(* the author after any number of sales, updates and aborted transactions. *)
Provenance == MintedByAuthor(obj, minted)

(* The Coin of a at Marketplace m; 0 when there is none. *)
ProfitsIn(o, fs, m, a) ==
    IF exists_(fs, m, a)
    THEN o[(CHOOSE p \in fs : FieldAt(p, m, a)).value].value
    ELSE 0

Profits(m, a) == ProfitsIn(obj, field, m, a)

(* Fields of m under which a's Listings hang. *)
ListedBy(m, a) ==
    {f \in field :
        f.parent = m /\ f.name \in Id /\ obj[f.value].owner = a}

(* As long as a listing stays, its ask, its owner and the listed object    *)
(* are what they were: nobody can update_description, split or burn an     *)
(* item in escrow, and no call rewrites a Listing.                         *)
EscrowFrozen ==
    [][\A f \in field \cap field' : f.name \in Id =>
            /\ obj'[f.value] = obj[f.value]
            /\ obj'[f.name] = obj[f.name]]_vars

(* A command of one sender does to another account one thing only: it may  *)
(* sell one of their listings, and then their profits at that Marketplace  *)
(* grow by exactly its ask.  It never delists for them, lists for them or  *)
(* touches their profits otherwise (asserts of lines 76 and 103, key of    *)
(* line 138).                                                              *)
OthersMadeWhole ==
    [][ncmd' = ncmd + 1 =>
        \A m \in Id, a \in Address \ {sender} :
            /\ ListedBy(m, a)' \subseteq ListedBy(m, a)
            /\ ListedBy(m, a)' = ListedBy(m, a) =>
                    Profits(m, a)' = Profits(m, a)
            /\ \A f \in ListedBy(m, a) \ ListedBy(m, a)' :
                    /\ ListedBy(m, a)' = ListedBy(m, a) \ {f}
                    /\ Profits(m, a)' = Profits(m, a) + obj[f.value].ask]_vars
=============================================================================
