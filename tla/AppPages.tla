------------------------------ MODULE AppPages ------------------------------
(***************************************************************************)
(* The dApp around the Market page: routes, the connected account, the     *)
(* MyAsset, Transfer, Mint and Counter pages, and the template's counter   *)
(* contract that the Counter page was written for.                         *)
(*                                                                         *)
(* MyAsset and Transfer ask the same two queries with the same keys, and   *)
(* share their cached answers.  State of a page is lost when it is left;   *)
(* a transaction asked for goes on, but its callbacks do not.  Hooks after *)
(* an early return make React throw when the account comes or goes, and    *)
(* without an error boundary the whole app disappears until a reload.      *)
(***************************************************************************)
EXTENDS Naturals, Sequences, FiniteSets, SequencesExt

CONSTANTS
    Account, me,    \* accounts, and that of the user
    Book,           \* object IDs of books
    counter,        \* object ID of a Counter
    coin,           \* object ID of the user's coin
    None,           \* undefined, null and ''
    Ask,            \* asks that are typed
    MaxU64,         \* largest u64
    MaxPresses,     \* bound on the transactions asked for
    MaxEvents,      \* bound on trades of others, counter calls and visits
    InitialHolders  \* who has the books at the start

ASSUME PagesAssumption ==
    /\ me \in Account
    /\ Book \cup {coin} \subseteq Nat /\ coin \notin Book
    /\ counter \notin Book \cup {coin}
    /\ None \notin Account \cup Book \cup Ask \cup [owner: Account, value: 0 .. MaxU64]
    /\ InitialHolders \subseteq [Book -> Account \cup {None}]
    /\ MaxU64 \in Nat /\ MaxPresses \in Nat /\ MaxEvents \in Nat

VARIABLES
    holder,         \* account, listing or None (not minted), of each book
    count,          \* the Counter: None, or its owner and value
    version,        \* transactions of the user that were executed
    events,         \* trades of others, counter calls and visits so far
    route, hash, account,
    crashed,        \* the app was unmounted by an error in a render
    counterId,
    owned,          \* answer of getOwnedObjects: None or IDs
    answered,       \* IDs of the last answer of multiGetObjects, or None
    counterData,    \* answer of getObject on the Counter page
    NFTData, NFTid, input, show, bookdetail,
    selected,       \* index of the option the select element shows
    pending,        \* transactions asked for and not yet done with
    presses,        \* transactions asked for so far
    observed,       \* the transaction whose callbacks can be called, or 0
    opened          \* history: the book the open modal was opened for

chain == <<holder, count, version, events>>
app == <<route, hash, account, crashed, counterId>>
cache == <<owned, answered, counterData>>
form == <<NFTData, NFTid, input, show, bookdetail, selected, opened>>
wallet == <<pending, presses, observed>>
vars == <<chain, app, cache, form, wallet>>

(* "/" shows nothing, and /Market is in modules MarketQueries and          *)
(* OrderFlow.                                                              *)
Routes == {"Mint", "MyAsset", "Transfer"}

Listing(a, ask) == [seller |-> a, ask |-> ask]
Mine == {b \in Book : holder[b] = me}

FreshForm ==
    /\ NFTData' = None /\ NFTid' = None /\ input' = None
    /\ show' = FALSE /\ bookdetail' = FALSE
    /\ selected' = 0 /\ opened' = None

Init ==
    /\ holder \in InitialHolders
    /\ count = None
    /\ version = 0 /\ events = 0
    /\ route \in Routes
    /\ hash = None \/ (hash = counter /\ route = "Mint")
    /\ account = None /\ crashed = FALSE
    /\ counterId = hash
    /\ owned = None /\ answered = None /\ counterData = None
    /\ NFTData = None /\ NFTid = None /\ input = None
    /\ show = FALSE /\ bookdetail = FALSE
    /\ selected = 0 /\ opened = None
    /\ pending = {} /\ presses = 0 /\ observed = 0

-----------------------------------------------------------------------------
(* Other accounts, and the counter contract. *)

Trade ==
    /\ events < MaxEvents
    /\ events' = events + 1
    /\ \E b \in Book, a \in Account \ {me} :
            \/ /\ holder[b] \in {Listing(me, ask) : ask \in Ask \cup {0}}
               /\ holder' = [holder EXCEPT ![b] = a]
            \/ /\ holder[b] = a
               /\ holder' = [holder EXCEPT ![b] = me]
    /\ UNCHANGED <<count, version, app, cache, form, wallet>>

(* Calls are considered only when the page that reads them is there. *)
CounterCall(new) ==
    /\ route = "Mint" /\ counterId = counter
    /\ events < MaxEvents
    /\ events' = events + 1
    /\ count' = new
    /\ UNCHANGED <<holder, version, app, cache, form, wallet>>

create(a) == count = None /\ CounterCall([owner |-> a, value |-> 0])

(* The addition aborts beyond u64. *)
increment ==
    /\ count # None
    /\ count.value < MaxU64
    /\ CounterCall([count EXCEPT !.value = @ + 1])

set_value(a, value) ==
    /\ count # None
    /\ count.owner = a
    /\ CounterCall([count EXCEPT !.value = value])

-----------------------------------------------------------------------------
(* The app. *)

(* Pages with hooks after the early return on a missing account. *)
HookPages == {"MyAsset", "Transfer"}

OnPage(r) == route = r /\ account # None /\ ~ crashed
OnAssetPage == OnPage("MyAsset") \/ OnPage("Transfer")
OnMintForm == OnPage("Mint") /\ counterId = None

(* Fault: the Counter is shown to a visitor without an account. *)
CounterForAnyone == route = "Mint" /\ ~ crashed /\ counterId # None

OnCounter == OnPage("Mint") /\ counterId # None

(* The page goes: its state is lost, and callbacks that wait for an answer *)
(* find nothing of it.                                                     *)
Unmount ==
    /\ observed' = 0
    /\ pending' = {IF tx.stage = "called" THEN [tx EXCEPT !.stage = "left"] ELSE tx :
                        tx \in pending}
    /\ FreshForm

Navigate(r) ==
    /\ ~ crashed
    /\ route # r
    /\ events < MaxEvents
    /\ events' = events + 1
    /\ route' = r /\ hash' = None
    /\ Unmount
    /\ UNCHANGED <<holder, count, version, account, crashed, counterId, cache, presses>>

SetAccount(a) ==
    /\ ~ crashed
    /\ account' = a
    /\ crashed' = (route \in HookPages)
    /\ Unmount
    /\ UNCHANGED <<chain, route, hash, counterId, cache, presses>>

(* By the button, or by autoConnect after the first render. *)
Connect == account = None /\ SetAccount(me)
Disconnect == account # None /\ SetAccount(None)

(* The path and the hash are all that survives. *)
Reload ==
    /\ account' = None /\ crashed' = FALSE
    /\ counterId' = hash
    /\ owned' = None /\ answered' = None /\ counterData' = None
    /\ observed' = 0
    /\ pending' = {tx \in pending : tx.stage \notin {"called", "left"}}
    /\ FreshForm
    /\ UNCHANGED <<chain, route, hash, presses>>

-----------------------------------------------------------------------------
(* Queries.  The contents of a book never change, so that an answer of     *)
(* multiGetObjects is known by its key.                                    *)

BooksOf(ids) == SetToSortSeq(ids \cap Book, <)

(* A new key has no data until it is answered. *)
Shown(ids, key) == IF ids # None /\ ids = key THEN BooksOf(ids) ELSE <<>>
filteredData == Shown(owned, answered)

(* The element keeps its index; without that option it shows the first. *)
Reselect(n) ==
    selected' = CASE route # "Transfer" \/ n = 0 -> 0
                  [] selected \in 1..n -> selected
                  [] OTHER -> 1

(* Asked on mounting, on focus of the window and by the callbacks. *)
getOwnedObjects ==
    /\ owned' = Mine \cup {coin}
    /\ Reselect(Len(Shown(Mine \cup {coin}, answered)))

(* Fault: an answer is never asked for again. *)
AnswerOnce ==
    /\ OnAssetPage
    /\ owned = None
    /\ getOwnedObjects
    /\ UNCHANGED <<chain, app, answered, counterData, wallet,
                   NFTData, NFTid, input, show, bookdetail, opened>>

AnswerOwned ==
    /\ OnAssetPage
    /\ getOwnedObjects
    /\ UNCHANGED <<chain, app, answered, counterData, wallet,
                   NFTData, NFTid, input, show, bookdetail, opened>>

multiGetObjects ==
    /\ OnAssetPage
    /\ owned # None
    /\ answered' = owned
    /\ Reselect(Len(BooksOf(owned)))
    /\ UNCHANGED <<chain, app, owned, counterData, wallet,
                   NFTData, NFTid, input, show, bookdetail, opened>>

(* Answers that no page uses are dropped after some minutes. *)
Collect ==
    /\ ~ OnAssetPage
    /\ owned' = None /\ answered' = None
    /\ UNCHANGED <<chain, app, counterData, form, wallet>>

(* A book has no field "owner". *)
getObject ==
    /\ OnCounter
    /\ counterData' =
            CASE counterId = counter -> count
              [] counterId # counter /\ holder[counterId] # None -> [owner |-> None]
              [] OTHER -> None
    /\ UNCHANGED <<chain, app, owned, answered, form, wallet>>

-----------------------------------------------------------------------------
(* Handlers.  The cards and the form are behind the modals. *)

Card(b) == OnPage("MyAsset") /\ ~ show /\ ~ bookdetail /\ b \in Range(filteredData)

(* NFTid gets the ID of the book of the click before; on the first click   *)
(* NFTData is {}, and NFTData?.id.id throws.                               *)
handleItemClick(b, option) ==
    /\ Card(b)
    /\ NFTData' = b
    /\ IF NFTData = None
       THEN UNCHANGED <<NFTid, show, bookdetail, opened>>
       ELSE /\ NFTid' = NFTData
            /\ show' = (option = "list")
            /\ bookdetail' = (option = "detail")
            /\ opened' = b
    /\ UNCHANGED <<chain, app, cache, wallet, input, selected>>

(* handleClose and handledeClose. *)
handleClose ==
    /\ show \/ bookdetail
    /\ show' = FALSE /\ bookdetail' = FALSE
    /\ opened' = None
    /\ UNCHANGED <<chain, app, cache, wallet, NFTData, NFTid, input, selected>>

(* The ask in the list modal, or the receiver in the form. *)
handleChange(value) ==
    /\ \/ OnPage("MyAsset") /\ show /\ value \in Ask \cup {None}
       \/ OnPage("Transfer") /\ ~ show /\ value \in Account \ {me}
    /\ input' = value
    /\ UNCHANGED <<chain, app, cache, wallet, NFTData, NFTid, show, bookdetail,
                   selected, opened>>

(* Only another option than the one shown is a change. *)
handleseChange(k) ==
    /\ OnPage("Transfer") /\ ~ show
    /\ k \in DOMAIN filteredData \ {selected}
    /\ selected' = k
    /\ NFTid' = filteredData[k]
    /\ UNCHANGED <<chain, app, cache, wallet, NFTData, input, show, bookdetail, opened>>

(* Select and receiver are required. *)
SubmitTransfer ==
    /\ OnPage("Transfer") /\ ~ show
    /\ selected # 0 /\ input # None
    /\ show' = TRUE
    /\ opened' = NFTid
    /\ UNCHANGED <<chain, app, cache, wallet, NFTData, NFTid, input, bookdetail, selected>>

signAndExecuteTransactionBlock(kind, b, arg) ==
    /\ presses < MaxPresses
    /\ presses' = presses + 1
    /\ observed' = presses + 1
    /\ pending' = pending \cup
            {[kind |-> kind, book |-> b, arg |-> arg, number |-> presses + 1,
              stage |-> "asked", version |-> 0, named |-> opened]}
    /\ UNCHANGED <<chain, app, cache, form>>

u64(text) == IF text = None THEN 0 ELSE text

(* Fault: NFTid, as in the delist of the Market page. *)
ListNFTid ==
    /\ OnPage("MyAsset") /\ show
    /\ signAndExecuteTransactionBlock("list", NFTid, u64(input))

ListMyNFT ==
    /\ OnPage("MyAsset") /\ show
    /\ signAndExecuteTransactionBlock("list", NFTData, u64(input))

Transfer ==
    /\ OnPage("Transfer") /\ show
    /\ signAndExecuteTransactionBlock("transfer", NFTid, input)

mint ==
    /\ OnMintForm
    /\ signAndExecuteTransactionBlock("mint", None, None)

(* The package of the dApp has no module counter. *)
executeMoveCall ==
    /\ OnCounter /\ counterData # None
    /\ signAndExecuteTransactionBlock("counter", counterId, None)

-----------------------------------------------------------------------------
(* The wallet and the nodes. *)

Step(tx, stage) == pending' = (pending \ {tx}) \cup {[tx EXCEPT !.stage = stage]}

(* An alert at most. *)
onError(tx) ==
    /\ pending' = pending \ {tx}
    /\ UNCHANGED <<chain, app, cache, form, presses, observed>>

Builds(tx) == tx.kind = "mint" \/ (tx.kind \in {"list", "transfer"} /\ tx.book \in Mine)

Build(tx) ==
    /\ tx.stage = "asked"
    /\ IF Builds(tx)
       THEN /\ pending' = (pending \ {tx}) \cup
                    {[tx EXCEPT !.stage = "built", !.version = version]}
            /\ UNCHANGED <<chain, app, cache, form, presses, observed>>
       ELSE onError(tx)

Reject(tx) == tx.stage \in {"asked", "built"} /\ onError(tx)

(* The coin that pays gas has a newer version than the signed one. *)
Refuse(tx) == tx.stage = "built" /\ tx.version # version /\ onError(tx)

Execute(tx) ==
    /\ tx.stage = "built"
    /\ tx.version = version
    /\ version' = version + 1
    /\ \/ /\ tx.kind = "list"
          /\ holder' = [holder EXCEPT ![tx.book] = Listing(me, tx.arg)]
          /\ Step(tx, "executed")
       \/ /\ tx.kind = "transfer"
          /\ holder' = [holder EXCEPT ![tx.book] = tx.arg]
          /\ Step(tx, "executed")
       \/ /\ tx.kind = "mint"
          /\ \E b \in Book :
                /\ holder[b] = None
                /\ holder' = [holder EXCEPT ![b] = me]
                /\ pending' = (pending \ {tx}) \cup
                        {[tx EXCEPT !.stage = "executed", !.book = b]}
    /\ UNCHANGED <<count, events, app, cache, form, presses, observed>>

(* The callbacks of a page that was left, or of a transaction that another *)
(* one was asked for after, are not called.                                *)
onSuccess(tx) ==
    /\ tx.stage = "executed"
    /\ IF tx.number = observed
       THEN Step(tx, "called")
       ELSE pending' = pending \ {tx}
    /\ UNCHANGED <<chain, app, cache, form, presses, observed>>

(* refetchEvents is answered, and whatever modal the page has open by then *)
(* is closed.                                                              *)
Refetched(tx) ==
    /\ tx.stage \in {"called", "left"} /\ tx.kind # "mint"
    /\ pending' = pending \ {tx}
    /\ getOwnedObjects
    /\ show' = (show /\ tx.stage = "left")
    /\ opened' = IF tx.stage = "left" THEN opened ELSE None
    /\ UNCHANGED <<chain, app, answered, counterData, presses, observed,
                   NFTData, NFTid, input, bookdetail>>

(* waitForTransactionBlock has returned.  The app need not be on the Mint  *)
(* page any more.                                                          *)
onCreated(tx) ==
    /\ tx.stage \in {"called", "left"} /\ tx.kind = "mint"
    /\ pending' = pending \ {tx}
    /\ hash' = tx.book
    /\ counterId' = IF crashed THEN counterId ELSE tx.book
    /\ counterData' = None
    /\ observed' = IF OnMintForm THEN 0 ELSE observed
    /\ UNCHANGED <<chain, route, account, crashed, owned, answered, form, presses>>

Next ==
    \/ Trade
    \/ \E a \in Account : create(a) \/ set_value(a, 0)
    \/ increment
    \/ \E r \in Routes : Navigate(r)
    \/ Connect
    \/ Disconnect
    \/ Reload
    \/ AnswerOwned
    \/ multiGetObjects
    \/ Collect
    \/ getObject
    \/ \E b \in Book, option \in {"list", "detail"} : handleItemClick(b, option)
    \/ handleClose
    \/ \E value \in Ask \cup Account \cup {None} : handleChange(value)
    \/ \E k \in 1..Cardinality(Book) : handleseChange(k)
    \/ SubmitTransfer
    \/ ListMyNFT
    \/ Transfer
    \/ mint
    \/ executeMoveCall
    \/ \E tx \in pending :
            \/ Build(tx)
            \/ Reject(tx)
            \/ Refuse(tx)
            \/ Execute(tx)
            \/ onSuccess(tx)
            \/ Refetched(tx)
            \/ onCreated(tx)

(* Queries of a page are asked again on focus, and answered. *)
Fairness == WF_vars(AnswerOwned) /\ WF_vars(multiGetObjects)

Spec == Init /\ [][Next]_vars /\ Fairness

-----------------------------------------------------------------------------
(* A user who stays on MyAsset or Transfer with a wallet ends up seeing    *)
(* exactly their books (Myasset.tsx:28-95, transfer.tsx:23-88): neither an *)
(* answer of before a transaction whose callbacks were dropped, nor the    *)
(* cache of the other page, nor the blank of a new key stays.              *)
AssetsCatchUp ==
    <>[]OnAssetPage => <>[](OnAssetPage => filteredData = SetToSortSeq(Mine, <))

(* "Which NFT is to be listed? A function sets it, triggered by a click on *)
(* one of the two buttons" (journal.md:418): what is listed is the book of *)
(* the card that opened the modal, what is sent is the book the modal      *)
(* names (Myasset.tsx:113-145, transfer.tsx:100-124), whatever was clicked *)
(* before and whatever callbacks closed in between.                        *)
ActsOnNamedBook ==
    \A tx \in pending : tx.kind \in {"list", "transfer"} => tx.book = tx.named

(* "The owner of the counter can reset it" (counter.move:8): Reset is      *)
(* offered only for a Counter that set_value would let the account reset,  *)
(* however old the page's answer is (Counter.tsx:64-79, App.tsx:45-58).    *)
ResetOnlyForOwner ==
    OnCounter /\ counterData # None /\ counterData.owner = account
        => counterId = counter /\ count.owner = account

(* "We first check that the wallet is connected, and once it is we ask for *)
(* the objects of the account" (journal.md:407): a user who stays on       *)
(* MyAsset with their wallet connected gets to see their books.            *)
ConnectedPageShowsBooks ==
    <>[](route = "MyAsset" /\ account = me)
        => <>[](filteredData = SetToSortSeq(Mine, <))
=============================================================================
