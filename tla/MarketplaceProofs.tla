------------------------- MODULE MarketplaceProofs --------------------------
(***************************************************************************)
(* Every store the marketplace can reach is well typed and sound, for every *)
(* number of accounts, objects, coin types and commands: types first, then *)
(* the commands that leave the fields alone, list and delist, purchases and *)
(* withdrawals, and what follows for listings, escrow and events.          *)
(***************************************************************************)
EXTENDS MarketplaceRefinement, TLAPS

(* The contents that the calls write are objects of the right type. *)
LEMMA ContentsType ==
    /\ Free \in Object /\ Deleted \in Object
    /\ \A coin \in CoinType : MarketplaceOf(coin) \in Object
    /\ \A ask \in U64, owner \in Address : ListingOf(ask, owner) \in Object
    /\ \A author \in Address, d \in Description :
            BookNFTOf(author, d) \in Object
    /\ \A coin \in CoinType, v \in U64 : CoinOf(coin, v) \in Object
  BY Zenon DEF Object, Free, Deleted, MarketplaceOf, ListingOf, BookNFTOf, CoinOf

(* What the type of an object says about its contents. *)
LEMMA ObjectCases ==
    ASSUME NEW x \in Object
    PROVE  /\ x.type = "Marketplace" => x.coin \in CoinType
           /\ x.type = "Listing" => x.ask \in U64 /\ x.owner \in Address
           /\ x.type = "BookNFT" => x.author \in Address
           /\ x.type = "Coin" => x.coin \in CoinType /\ x.value \in U64
           /\ x.type \in {"Free", "Deleted", "Marketplace", "Listing",
                          "BookNFT", "Coin"}
  BY DEF Object, Free, Deleted

(* The fields that the calls add are fields of the right type. *)
LEMMA NewFieldType ==
    ASSUME NEW p \in Id, NEW n \in Name, NEW v \in Id
    PROVE  /\ NewField(p, n, v) \in Field
           /\ NewField(p, n, v).parent = p
           /\ NewField(p, n, v).name = n
           /\ NewField(p, n, v).value = v
  BY Zenon DEF NewField, Field

-----------------------------------------------------------------------------
(* Type correctness. *)

TypedStore ==
    /\ obj \in [Id -> Object]
    /\ holder \in [Id -> Holder]
    /\ field \subseteq Field
    /\ minted \subseteq NFTMinted
    /\ moved \subseteq Id

(* The store before the first transaction is well typed. *)
LEMMA InitType == Init => TypeOK
  <1> SUFFICES ASSUME Init PROVE TypeOK
    BY Zenon
  <1>1. minted \subseteq NFTMinted
    BY GenesisAssumption, ObjectCases DEF Init, NFTMinted
  <1> QED
    BY <1>1, GenesisAssumption DEF Init, TypeOK, Snapshot

(* Every command leaves a well-typed working copy. *)
LEMMA CommandType ==
    ASSUME TypeOK, sender \in Address, ExecuteCommand
    PROVE  TypedStore'
  <1>0. /\ obj \in [Id -> Object] /\ holder \in [Id -> Holder]
        /\ field \subseteq Field /\ minted \subseteq NFTMinted
        /\ moved \subseteq Id
        /\ sender \in Holder /\ "Hand" \in Holder /\ "Child" \in Holder
        /\ "Nowhere" \in Holder /\ "Shared" \in Holder
        /\ Address \subseteq Holder /\ Address \subseteq Name
        /\ Id \subseteq Name /\ "true" \in Name
        /\ \A f \in field : f.parent \in Id /\ f.name \in Name /\ f.value \in Id
    BY Zenon DEF TypeOK, Holder, Keepers, Name, Field
  <1>1. ASSUME NEW m \in Fresh, NEW coin \in CoinType, create(m, coin)
        PROVE  TypedStore'
    BY <1>0, <1>1, ContentsType, Zenon DEF create, Fresh, TypedStore
  <1>2. ASSUME NEW m \in SharedInput, NEW item \in Input(ItemType),
               NEW ask \in U64, NEW listing \in Fresh,
               list(m, item, ask, listing)
        PROVE  TypedStore'
    <2>1. m \in Id /\ item \in Id /\ listing \in Id
      BY Zenon DEF SharedInput, Input, Fresh
    <2>2. NewField(listing, "true", item) \in Field
      BY <1>0, <2>1, NewFieldType, Zenon
    <2>3. NewField(m, item, listing) \in Field
      BY <1>0, <2>1, NewFieldType, Zenon
    <2> QED
      BY <1>0, <1>2, <2>1, <2>2, <2>3, ContentsType, Zenon DEF list, TypedStore
  <1>3. ASSUME NEW m \in SharedInput, NEW i \in Id, NEW to \in {"Hand", sender},
               Delist(m, i, to)
        PROVE  TypedStore'
    BY <1>0, <1>3, ContentsType DEF Delist, Hands, TypedStore
  <1>4. ASSUME NEW m \in SharedInput, NEW i \in Id, NEW paid \in Input({"Coin"}),
               NEW to \in {"Hand", sender}, Buy(m, i, paid, to)
        PROVE  TypedStore'
    <2>1. m \in Id /\ paid \in Id /\ obj[paid].type = "Coin"
      BY Zenon DEF SharedInput, Input
    <2>2. PICK f \in field, g \in field :
            /\ Unlist(m, i, f, g)
            /\ \/ PayByJoin(m, paid, f, g, to)
               \/ PayByAdd(m, paid, f, g, to)
            /\ Hands(g.value, to)
            /\ UNCHANGED minted
      BY <1>4, Zenon DEF Buy
    <2>3. obj[f.value].owner \in Address
      BY <1>0, <2>2, ObjectCases, Zenon DEF Unlist
    <2>4. obj[paid].value \in U64
      BY <1>0, <2>1, ObjectCases, Zenon
    <2>5. CASE PayByJoin(m, paid, f, g, to)
      <3>1. PICK p \in field :
              /\ obj[p.value].type = "Coin"
              /\ obj[p.value].value + obj[paid].value <= MaxU64
              /\ obj' = [obj EXCEPT
                    ![f.value] = Deleted,
                    ![paid] = Deleted,
                    ![p.value] = CoinOf(obj[p.value].coin,
                                        obj[p.value].value + obj[paid].value)]
              /\ holder' = [holder EXCEPT
                        ![f.value] = "Nowhere",
                        ![paid] = "Nowhere",
                        ![g.value] = to]
              /\ field' = field \ {f, g}
        BY <2>5, Zenon DEF PayByJoin
      <3>2. obj[p.value].value \in U64 /\ obj[p.value].coin \in CoinType
        BY <1>0, <3>1, ObjectCases, Zenon
      <3>3. obj[p.value].value + obj[paid].value \in U64
        BY <2>4, <3>1, <3>2, ConstantsAssumption DEF U64
      <3>4. CoinOf(obj[p.value].coin, obj[p.value].value + obj[paid].value)
                \in Object
        BY <3>2, <3>3, ContentsType, Zenon
      <3> QED
        BY <1>0, <2>1, <2>2, <3>1, <3>4, ContentsType, Zenon DEF Hands, TypedStore
    <2>6. CASE PayByAdd(m, paid, f, g, to)
      <3>1. NewField(m, obj[f.value].owner, paid) \in Field
        BY <1>0, <2>1, <2>3, NewFieldType, Zenon
      <3> QED
        BY <1>0, <2>1, <2>2, <2>6, <3>1, ContentsType, Zenon
           DEF PayByAdd, Hands, TypedStore
    <2> QED
      BY <2>2, <2>5, <2>6, Zenon
  <1>5. ASSUME NEW m \in SharedInput, NEW to \in {"Hand", sender},
               TakeProfits(m, to)
        PROVE  TypedStore'
    BY <1>0, <1>5 DEF TakeProfits, Hands, TypedStore
  <1>6. ASSUME NEW nft \in Fresh, NEW d \in Description, mint_to_sender(nft, d)
        PROVE  TypedStore'
    BY <1>0, <1>6, ContentsType
       DEF mint_to_sender, Fresh, NFTMinted, TypedStore
  <1>7. ASSUME NEW i \in Input(ItemType), NEW recipient \in Address,
               transfer(i, recipient)
        PROVE  TypedStore'
    BY <1>0, <1>7, Zenon DEF transfer, Input, TypedStore
  <1>8. ASSUME NEW nft \in Input({"BookNFT"}), NEW d \in Description,
               update_description(nft, d)
        PROVE  TypedStore'
    <2>1. nft \in Id /\ obj[nft].author \in Address
      BY <1>0, ObjectCases, Zenon DEF Input
    <2> QED
      BY <1>0, <1>8, <2>1, ContentsType, Zenon DEF update_description, TypedStore
  <1>9. ASSUME NEW nft \in Input({"BookNFT"}), burn(nft)
        PROVE  TypedStore'
    BY <1>0, <1>9, ContentsType, Zenon DEF burn, Input, TypedStore
  <1>10. ASSUME NEW c \in Input({"Coin"}), NEW amount \in U64, NEW new \in Fresh,
                SplitCoins(c, amount, new)
         PROVE  TypedStore'
    <2>1. /\ c \in Id /\ new \in Id
          /\ obj[c].coin \in CoinType /\ obj[c].value \in U64
      BY <1>0, ObjectCases, Zenon DEF Input, Fresh
    <2>2. obj[c].value - amount \in U64
      BY <1>10, <2>1, ConstantsAssumption DEF SplitCoins, U64
    <2>3. /\ CoinOf(obj[c].coin, obj[c].value - amount) \in Object
          /\ CoinOf(obj[c].coin, amount) \in Object
      BY <2>1, <2>2, ContentsType, Zenon
    <2> QED
      BY <1>0, <1>10, <2>1, <2>3, Zenon DEF SplitCoins, TypedStore
  <1>11. ASSUME NEW target \in Input({"Coin"}), NEW c \in Input({"Coin"}),
                MergeCoins(target, c)
         PROVE  TypedStore'
    <2>1. /\ c \in Id /\ target \in Id /\ obj[target].coin \in CoinType
          /\ obj[c].value \in U64 /\ obj[target].value \in U64
      BY <1>0, ObjectCases, Zenon DEF Input
    <2>2. obj[target].value + obj[c].value \in U64
      BY <1>11, <2>1, ConstantsAssumption DEF MergeCoins, U64
    <2>3. CoinOf(obj[target].coin, obj[target].value + obj[c].value) \in Object
      BY <2>1, <2>2, ContentsType, Zenon
    <2> QED
      BY <1>0, <1>11, <2>1, <2>3, ContentsType, Zenon DEF MergeCoins, TypedStore
  <1> QED
    BY <1>1, <1>2, <1>3, <1>4, <1>5, <1>6, <1>7, <1>8, <1>9, <1>10, <1>11, Zenon
       DEF ExecuteCommand, Call, delist, delist_and_take, buy, buy_and_take,
           take_profits, take_profits_and_keep

(* Every reachable state is well typed; in particular a coin never exceeds *)
(* u64, since coin::join, SplitCoins and MergeCoins check their arithmetic. *)
THEOREM TypeCorrect == Spec => []TypeOK
  <1>1. TypeOK /\ [Next]_vars => TypeOK'
    <2> SUFFICES ASSUME TypeOK, [Next]_vars PROVE TypeOK'
      BY Zenon
    <2>1. ASSUME NEW a \in Address, Begin(a) PROVE TypeOK'
      BY <2>1, Zenon DEF TypeOK, Begin, store
    <2>2. CASE Commit
      BY <2>2, GenesisAssumption DEF TypeOK, Commit, Snapshot, store
    <2>3. CASE Abort
      BY <2>3, GenesisAssumption DEF TypeOK, Abort
    <2>4. CASE Command /\ ExecuteCommand
      <3>1. sender \in Address
        BY <2>4, Zenon DEF Command, TypeOK
      <3>2. TypedStore'
        BY <2>4, <3>1, CommandType, Zenon
      <3>3. ncmd' \in 0 .. MaxCommands
        BY <2>4, GenesisAssumption DEF Command, TypeOK
      <3> QED
        BY <2>4, <3>2, <3>3, Zenon DEF Command, TypeOK, TypedStore
    <2>5. CASE UNCHANGED vars
      BY <2>5, Zenon DEF TypeOK, vars, store
    <2> QED
      BY <2>1, <2>2, <2>3, <2>4, <2>5, Zenon DEF Next
  <1> QED
    BY <1>1, InitType, PTL DEF Spec

-----------------------------------------------------------------------------
(* Commands without a payment. *)

(* Soundness of the two copies of the store. *)

Sound == StoreOK(obj, holder, field, minted)

(* The parent of a field is a Marketplace or a Listing, its value a        *)
(* Listing, an item or a Coin that hangs there.                            *)
LEMMA FieldEnds ==
    ASSUME TypeOK, Sound, NEW f \in field
    PROVE  /\ f.parent \in Id /\ f.value \in Id /\ f.name \in Name
           /\ holder[f.value] = "Child"
           /\ obj[f.parent].type \in {"Marketplace", "Listing"}
           /\ obj[f.value].type \in {"Listing", "BookNFT", "Coin"}
  <1>1. /\ f.parent \in Id /\ f.value \in Id /\ f.name \in Name
    BY Zenon DEF TypeOK, Field
  <1>2. holder[f.value] = "Child"
    BY <1>1, Zenon DEF Sound, StoreOK, ChildrenHang
  <1>3. CASE f.name \in Id
    BY <1>1, <1>2, <1>3, Zenon DEF Sound, StoreOK, ListingsHoldTheirItem
  <1>4. CASE f.name \in Address
    BY <1>1, <1>2, <1>4, Zenon DEF Sound, StoreOK, ProfitsAreCoins
  <1>5. CASE f.name = "true"
    BY <1>1, <1>2, <1>5, Zenon DEF Sound, StoreOK, ItemsAreListed, ItemType
  <1> QED
    BY <1>1, <1>3, <1>4, <1>5, Zenon DEF Name

(* What a command can be given: nothing that hangs in a field. *)
LEMMA InputEnds ==
    ASSUME TypeOK, Sound, sender \in Address
    PROVE  /\ \A i \in Input(ItemType) :
                i \in Id /\ obj[i].type \in ItemType /\ holder[i] # "Child"
           /\ \A i \in Input({"Coin"}) :
                i \in Id /\ obj[i].type = "Coin" /\ holder[i] # "Child"
           /\ \A i \in Input({"BookNFT"}) :
                i \in Id /\ obj[i].type = "BookNFT" /\ holder[i] # "Child"
           /\ \A i \in Fresh :
                i \in Id /\ obj[i].type = "Free" /\ holder[i] = "Nowhere"
           /\ \A m \in SharedInput :
                m \in Id /\ obj[m].type = "Marketplace" /\ holder[m] = "Shared"
  BY ConstantsAssumption, Zenon DEF Sound, StoreOK, HeldByType, Input, Fresh, SharedInput, Keepers

HeldRight(o, h, i) ==
    /\ o[i].type = "Marketplace" <=> h[i] = "Shared"
    /\ o[i].type \in {"Free", "Deleted"} <=> h[i] = "Nowhere"
    /\ o[i].type = "Listing" => h[i] = "Child"

(* Holders follow types if they do for every object that was changed. *)
LEMMA HeldPointwise ==
    ASSUME NEW o, NEW h, NEW p, NEW k, HeldByType(o, h),
           \A i \in Id : \/ p[i] = o[i] /\ k[i] = h[i]
                         \/ HeldRight(p, k, i)
    PROVE  HeldByType(p, k)
  <1> SUFFICES ASSUME NEW i \in Id PROVE HeldRight(p, k, i)
    BY Zenon DEF HeldByType, HeldRight
  <1>1. HeldRight(o, h, i)
    BY Zenon DEF HeldByType, HeldRight
  <1>2. CASE p[i] = o[i] /\ k[i] = h[i]
    BY <1>1, <1>2, Zenon DEF HeldRight
  <1> QED
    BY <1>2, Zenon

(* Children are what fields lead to if that is so for every object of      *)
(* which either was changed.                                               *)
LEMMA ChildrenPointwise ==
    ASSUME NEW h, NEW fs, NEW k, NEW gs, ChildrenHang(h, fs),
           \A i \in Id :
             \/ /\ k[i] = h[i]
                /\ (\E f \in gs : f.value = i) <=> (\E f \in fs : f.value = i)
             \/ k[i] = "Child" /\ \E f \in gs : f.value = i
             \/ k[i] # "Child" /\ \A f \in gs : f.value # i
    PROVE  ChildrenHang(k, gs)
  <1> SUFFICES ASSUME NEW i \in Id
               PROVE  k[i] = "Child" <=> \E f \in gs : f.value = i
    BY Zenon DEF ChildrenHang
  <1>1. h[i] = "Child" <=> \E f \in fs : f.value = i
    BY Zenon DEF ChildrenHang
  <1> QED
    BY <1>1, Zenon

(* A command that leaves the fields alone and changes only objects that    *)
(* have nothing to do with one keeps the structure of the store.           *)
LEMMA OffField ==
    ASSUME TypeOK, Sound, TypedStore', field' = field,
           \A i \in Id :
                \/ obj'[i] = obj[i] /\ holder'[i] = holder[i]
                \/ /\ holder[i] # "Child"
                   /\ obj[i].type \notin {"Marketplace", "Listing"}
                   /\ holder'[i] # "Child"
                   /\ obj'[i].type # "Listing"
                   /\ obj'[i].type = "Marketplace" <=> holder'[i] = "Shared"
                   /\ obj'[i].type \in {"Free", "Deleted"}
                            <=> holder'[i] = "Nowhere"
    PROVE  /\ FieldsInjective(field')
           /\ ListingsHoldTheirItem(obj', field')
           /\ ItemsAreListed(obj', field')
           /\ ProfitsAreCoins(obj', field')
           /\ HeldByType(obj', holder')
           /\ ChildrenHang(holder', field')
  <1>1. \A f \in field : /\ f.parent \in Id /\ obj'[f.parent] = obj[f.parent]
                         /\ f.value \in Id /\ obj'[f.value] = obj[f.value]
                         /\ holder'[f.value] = holder[f.value]
    BY FieldEnds, Zenon
  <1>2. FieldsInjective(field')
    BY Zenon DEF Sound, StoreOK
  <1>3. ListingsHoldTheirItem(obj', field')
    BY <1>1 DEF Sound, StoreOK, ListingsHoldTheirItem
  <1>4. ItemsAreListed(obj', field')
    BY <1>1 DEF Sound, StoreOK, ItemsAreListed
  <1>5. ProfitsAreCoins(obj', field')
    BY <1>1 DEF Sound, StoreOK, ProfitsAreCoins
  <1>6. HeldByType(obj', holder')
    <2>1. HeldByType(obj, holder)
      BY Zenon DEF Sound, StoreOK
    <2>2. \A i \in Id : \/ obj'[i] = obj[i] /\ holder'[i] = holder[i]
                        \/ HeldRight(obj', holder', i)
      BY Zenon DEF HeldRight
    <2> QED
      BY <2>1, <2>2, HeldPointwise
  <1>7. ChildrenHang(holder', field')
    BY <1>1 DEF Sound, StoreOK, ChildrenHang
  <1> QED
    BY <1>2, <1>3, <1>4, <1>5, <1>6, <1>7, Zenon

(* A command that emits no event, creates no BookNFT and changes no author *)
(* keeps the events in line with the books.                                *)
LEMMA SameEvents ==
    ASSUME TypeOK, Sound, TypedStore', minted' = minted,
           \A i \in Id : /\ obj'[i].type = "BookNFT" =>
                                /\ obj[i].type = "BookNFT"
                                /\ obj'[i].author = obj[i].author
                         /\ obj'[i].type = "Free" => obj[i].type = "Free"
    PROVE  MintedByAuthor(obj', minted') /\ NoEventYet(obj', minted')
  BY Zenon DEF Sound, StoreOK, MintedByAuthor, NoEventYet

(* Contents written by the calls, field by field. *)
LEMMA ContentsFields ==
    /\ Deleted.type = "Deleted" /\ Free.type = "Free"
    /\ \A coin : /\ MarketplaceOf(coin).type = "Marketplace"
                 /\ MarketplaceOf(coin).coin = coin
    /\ \A ask, owner : /\ ListingOf(ask, owner).type = "Listing"
                       /\ ListingOf(ask, owner).ask = ask
                       /\ ListingOf(ask, owner).owner = owner
    /\ \A author, d : /\ BookNFTOf(author, d).type = "BookNFT"
                      /\ BookNFTOf(author, d).author = author
    /\ \A coin, v : /\ CoinOf(coin, v).type = "Coin"
                    /\ CoinOf(coin, v).coin = coin
                    /\ CoinOf(coin, v).value = v
  BY Zenon DEF Deleted, Free, MarketplaceOf, ListingOf, BookNFTOf, CoinOf

(* The commands that leave the fields alone. *)
LEMMA OffFieldSound ==
    ASSUME TypeOK, Sound, sender \in Address, TypedStore',
           \/ \E m \in Fresh, coin \in CoinType : create(m, coin)
           \/ \E nft \in Fresh, d \in Description : mint_to_sender(nft, d)
           \/ \E i \in Input(ItemType), recipient \in Address :
                    transfer(i, recipient)
           \/ \E nft \in Input({"BookNFT"}), d \in Description :
                    update_description(nft, d)
           \/ \E nft \in Input({"BookNFT"}) : burn(nft)
           \/ \E c \in Input({"Coin"}), amount \in U64, new \in Fresh :
                    SplitCoins(c, amount, new)
           \/ \E target, c \in Input({"Coin"}) : MergeCoins(target, c)
    PROVE  Sound'
  <1>0. /\ obj \in [Id -> Object] /\ holder \in [Id -> Holder]
        /\ \A a \in Address : a \notin Keepers
        /\ minted \subseteq NFTMinted
    BY ConstantsAssumption, Zenon DEF TypeOK
  <1>1. ASSUME NEW m \in Fresh, NEW coin \in CoinType, create(m, coin)
        PROVE  Sound'
    <2>1. m \in Id /\ obj[m].type = "Free" /\ holder[m] = "Nowhere"
      BY InputEnds, Zenon
    <2>2. /\ obj'[m].type = "Marketplace" /\ holder'[m] = "Shared"
          /\ \A i \in Id \ {m} : obj'[i] = obj[i] /\ holder'[i] = holder[i]
          /\ field' = field /\ minted' = minted
      BY <1>0, <1>1, <2>1, ContentsFields, Zenon DEF create
    <2>3. MintedByAuthor(obj', minted') /\ NoEventYet(obj', minted')
      BY <2>1, <2>2, SameEvents, Zenon
    <2> QED
      BY <2>1, <2>2, <2>3, OffField, Zenon DEF Sound, StoreOK
  <1>2. ASSUME NEW nft \in Fresh, NEW d \in Description, mint_to_sender(nft, d)
        PROVE  Sound'
    <2>1. nft \in Id /\ obj[nft].type = "Free" /\ holder[nft] = "Nowhere"
      BY InputEnds, Zenon
    <2>2. /\ obj'[nft].type = "BookNFT" /\ obj'[nft].author = sender
          /\ holder'[nft] = sender
          /\ \A i \in Id \ {nft} : obj'[i] = obj[i] /\ holder'[i] = holder[i]
          /\ field' = field
          /\ minted' = minted \cup {[object_id |-> nft, creator |-> sender]}
      BY <1>0, <1>2, <2>1, ContentsFields, SMTT(30) DEF mint_to_sender
    <2>3. \A x \in minted : x.object_id # nft
      BY <2>1, Zenon DEF Sound, StoreOK, NoEventYet
    <2>4. \A i \in Id \ {nft} :
            {x \in minted' : x.object_id = i} = {x \in minted : x.object_id = i}
      BY <2>2
    <2>5. {x \in minted' : x.object_id = nft} =
            {[object_id |-> nft, creator |-> sender]}
      BY <2>2, <2>3
    <2>6. MintedByAuthor(obj', minted')
      <3>1. MintedByAuthor(obj, minted)
        BY Zenon DEF Sound, StoreOK
      <3> QED
        BY <2>2, <2>4, <2>5, <3>1, Zenon DEF MintedByAuthor
    <2>7. NoEventYet(obj', minted')
      <3>1. NoEventYet(obj, minted)
        BY Zenon DEF Sound, StoreOK
      <3> QED
        BY <2>2, <3>1 DEF NoEventYet
    <2> QED
      BY <1>0, <2>1, <2>2, <2>6, <2>7, OffField, Zenon DEF Sound, StoreOK, Keepers
  <1>3. ASSUME NEW i \in Input(ItemType), NEW recipient \in Address,
               transfer(i, recipient)
        PROVE  Sound'
    <2>1. i \in Id /\ obj[i].type \in ItemType /\ holder[i] # "Child"
      BY InputEnds, Zenon
    <2>2. /\ holder'[i] = recipient /\ obj' = obj
          /\ \A j \in Id \ {i} : obj'[j] = obj[j] /\ holder'[j] = holder[j]
          /\ field' = field /\ minted' = minted
      BY <1>0, <1>3, <2>1, Zenon DEF transfer
    <2>3. MintedByAuthor(obj', minted') /\ NoEventYet(obj', minted')
      BY <2>2, SameEvents, Zenon
    <2> QED
      BY <1>0, <2>1, <2>2, <2>3, OffField, Zenon DEF Sound, StoreOK, Keepers, ItemType
  <1>4. ASSUME NEW nft \in Input({"BookNFT"}), NEW d \in Description,
               update_description(nft, d)
        PROVE  Sound'
    <2>1. nft \in Id /\ obj[nft].type = "BookNFT" /\ holder[nft] # "Child"
      BY InputEnds, Zenon
    <2>2. /\ obj'[nft].type = "BookNFT" /\ obj'[nft].author = obj[nft].author
          /\ holder' = holder
          /\ \A j \in Id \ {nft} : obj'[j] = obj[j] /\ holder'[j] = holder[j]
          /\ field' = field /\ minted' = minted
      BY <1>0, <1>4, <2>1, ContentsFields, SMTT(30) DEF update_description
    <2>3. MintedByAuthor(obj', minted') /\ NoEventYet(obj', minted')
      BY <2>1, <2>2, SameEvents, Zenon
    <2>4. holder[nft] # "Shared" /\ holder[nft] # "Nowhere"
      BY <2>1, Zenon DEF Sound, StoreOK, HeldByType
    <2> QED
      BY <2>1, <2>2, <2>3, <2>4, OffField, Zenon DEF Sound, StoreOK
  <1>5. ASSUME NEW nft \in Input({"BookNFT"}), burn(nft)
        PROVE  Sound'
    <2>1. nft \in Id /\ obj[nft].type = "BookNFT" /\ holder[nft] # "Child"
      BY InputEnds, Zenon
    <2>2. /\ obj'[nft].type = "Deleted" /\ holder'[nft] = "Nowhere"
          /\ \A j \in Id \ {nft} : obj'[j] = obj[j] /\ holder'[j] = holder[j]
          /\ field' = field /\ minted' = minted
      BY <1>0, <1>5, <2>1, ContentsFields, SMTT(30) DEF burn
    <2>3. MintedByAuthor(obj', minted') /\ NoEventYet(obj', minted')
      BY <2>1, <2>2, SameEvents, Zenon
    <2> QED
      BY <2>1, <2>2, <2>3, OffField, Zenon DEF Sound, StoreOK
  <1>6. ASSUME NEW c \in Input({"Coin"}), NEW amount \in U64, NEW new \in Fresh,
               SplitCoins(c, amount, new)
        PROVE  Sound'
    <2>1. /\ c \in Id /\ obj[c].type = "Coin" /\ holder[c] # "Child"
          /\ new \in Id /\ obj[new].type = "Free" /\ holder[new] = "Nowhere"
      BY InputEnds, Zenon
    <2>2. /\ obj'[c].type = "Coin" /\ holder'[c] = holder[c]
          /\ obj'[new].type = "Coin" /\ holder'[new] = "Hand"
          /\ \A j \in Id \ {c, new} : obj'[j] = obj[j] /\ holder'[j] = holder[j]
          /\ field' = field /\ minted' = minted
      BY <1>0, <1>6, <2>1, ContentsFields, SMTT(30) DEF SplitCoins
    <2>3. MintedByAuthor(obj', minted') /\ NoEventYet(obj', minted')
      BY <2>1, <2>2, SameEvents, Zenon
    <2>4. holder[c] # "Shared" /\ holder[c] # "Nowhere"
      BY <2>1, Zenon DEF Sound, StoreOK, HeldByType
    <2> QED
      BY <2>1, <2>2, <2>3, <2>4, OffField, Zenon DEF Sound, StoreOK
  <1>7. ASSUME NEW target \in Input({"Coin"}), NEW c \in Input({"Coin"}),
               MergeCoins(target, c)
        PROVE  Sound'
    <2>1. /\ c \in Id /\ obj[c].type = "Coin" /\ holder[c] # "Child"
          /\ target \in Id /\ obj[target].type = "Coin"
          /\ holder[target] # "Child" /\ c # target
      BY <1>7, InputEnds, Zenon DEF MergeCoins
    <2>2. /\ obj'[c].type = "Deleted" /\ holder'[c] = "Nowhere"
          /\ obj'[target].type = "Coin" /\ holder'[target] = holder[target]
          /\ \A j \in Id \ {c, target} :
                obj'[j] = obj[j] /\ holder'[j] = holder[j]
          /\ field' = field /\ minted' = minted
      BY <1>0, <1>7, <2>1, ContentsFields, SMTT(30) DEF MergeCoins
    <2>3. MintedByAuthor(obj', minted') /\ NoEventYet(obj', minted')
      BY <2>1, <2>2, SameEvents, Zenon
    <2>4. holder[target] # "Shared" /\ holder[target] # "Nowhere"
      BY <2>1, Zenon DEF Sound, StoreOK, HeldByType
    <2> QED
      BY <2>1, <2>2, <2>3, <2>4, OffField, Zenon DEF Sound, StoreOK
  <1> QED
    BY <1>1, <1>2, <1>3, <1>4, <1>5, <1>6, <1>7, Zenon

(* list hangs the item under a new Listing and the Listing under the       *)
(* Marketplace.                                                            *)
LEMMA ListSound ==
    ASSUME TypeOK, Sound, sender \in Address, TypedStore',
           NEW m \in SharedInput, NEW item \in Input(ItemType), NEW ask \in U64,
           NEW listing \in Fresh, list(m, item, ask, listing)
    PROVE  Sound'
  <1> DEFINE F == NewField(listing, "true", item)
             G == NewField(m, item, listing)
  <1>1. /\ m \in Id /\ obj[m].type = "Marketplace" /\ holder[m] = "Shared"
        /\ item \in Id /\ obj[item].type \in ItemType /\ holder[item] # "Child"
        /\ listing \in Id /\ obj[listing].type = "Free"
        /\ holder[listing] = "Nowhere"
        /\ obj[item].type \in {"BookNFT", "Coin"}
    BY InputEnds, Zenon DEF ItemType
  <1>2. m # item /\ m # listing /\ item # listing
    BY <1>1, Zenon
  <1>3. /\ F \in Field /\ F.parent = listing /\ F.name = "true"
        /\ F.value = item
        /\ G \in Field /\ G.parent = m /\ G.name = item /\ G.value = listing
    BY <1>1, Zenon DEF NewField, Field, Name
  <1>4. /\ obj'[listing].type = "Listing"
        /\ \A i \in Id \ {listing} : obj'[i] = obj[i]
        /\ holder'[item] = "Child" /\ holder'[listing] = "Child"
        /\ \A i \in Id \ {item, listing} : holder'[i] = holder[i]
        /\ field' = field \cup {F, G} /\ minted' = minted
    BY <1>1, <1>2, ContentsFields DEF list, TypeOK
  <1>5. /\ "true" \notin Id \cup Address
        /\ \A a \in Address : a \notin Id
    BY ConstantsAssumption, Zenon
  <1>6. \A h \in field :
            /\ h.parent \in Id /\ h.parent \notin {listing, item}
            /\ h.value \in Id /\ h.value \notin {listing, item, m}
            /\ ~ (h.parent = m /\ h.name = item)
    BY <1>1, FieldEnds, Zenon DEF list, exists_, FieldAt
  <1> HIDE DEF F, G
  <1>7. FieldsInjective(field')
    <2> SUFFICES ASSUME NEW h \in field', NEW k \in field',
                        (h.parent = k.parent /\ h.name = k.name)
                            \/ h.value = k.value
                 PROVE  h = k
      BY Zenon DEF FieldsInjective
    <2>1. CASE h \in field /\ k \in field
      BY <2>1, Zenon DEF Sound, StoreOK, FieldsInjective
    <2>2. CASE h \in field /\ k \notin field
      BY <1>3, <1>4, <1>6, <2>2, Zenon
    <2>3. CASE h \notin field /\ k \in field
      BY <1>3, <1>4, <1>6, <2>3, Zenon
    <2>4. CASE h \notin field /\ k \notin field
      BY <1>2, <1>3, <1>4, <2>4
    <2> QED
      BY <2>1, <2>2, <2>3, <2>4, Zenon
  <1>8. ListingsHoldTheirItem(obj', field')
    <2> SUFFICES ASSUME NEW f \in field', f.name \in Id
                 PROVE  /\ obj'[f.parent].type = "Marketplace"
                        /\ obj'[f.value].type = "Listing"
                        /\ \E g \in field' : /\ FieldAt(g, f.value, "true")
                                             /\ g.value = f.name
      BY Zenon DEF ListingsHoldTheirItem
    <2>1. CASE f \in field
      BY <1>4, <1>6, <2>1, Zenon DEF Sound, StoreOK, ListingsHoldTheirItem
    <2>2. CASE f = G
      BY <1>1, <1>2, <1>3, <1>4, <2>2, Zenon DEF FieldAt
    <2>3. f # F
      BY <1>3, <1>5, Zenon
    <2> QED
      BY <1>4, <2>1, <2>2, <2>3, Zenon
  <1>9. ItemsAreListed(obj', field')
    <2> SUFFICES ASSUME NEW g \in field', g.name = "true"
                 PROVE  /\ obj'[g.parent].type = "Listing"
                        /\ obj'[g.value].type \in ItemType
                        /\ \E f \in field' : f.name = g.value
                                             /\ f.value = g.parent
      BY Zenon DEF ItemsAreListed
    <2>1. CASE g \in field
      BY <1>4, <1>6, <2>1, Zenon DEF Sound, StoreOK, ItemsAreListed
    <2>2. CASE g = F
      <3>1. obj'[item] = obj[item]
        BY <1>1, <1>2, <1>4, Zenon
      <3> QED
        BY <1>1, <1>3, <1>4, <2>2, <3>1, Zenon
    <2>3. g # G
      BY <1>1, <1>3, <1>5, Zenon
    <2> QED
      BY <1>4, <2>1, <2>2, <2>3, Zenon
  <1>10. ProfitsAreCoins(obj', field')
    <2> SUFFICES ASSUME NEW p \in field', p.name \in Address
                 PROVE  /\ obj'[p.parent].type = "Marketplace"
                        /\ obj'[p.value].type = "Coin"
                        /\ obj'[p.value].coin = obj'[p.parent].coin
      BY Zenon DEF ProfitsAreCoins
    <2>1. p \in field
      BY <1>1, <1>3, <1>4, <1>5, Zenon
    <2>2. obj'[p.parent] = obj[p.parent] /\ obj'[p.value] = obj[p.value]
      BY <1>4, <1>6, <2>1, Zenon
    <2> QED
      BY <2>1, <2>2, Zenon DEF Sound, StoreOK, ProfitsAreCoins
  <1>11. HeldByType(obj', holder')
    <2>1. HeldRight(obj', holder', item) /\ HeldRight(obj', holder', listing)
      BY <1>1, <1>2, <1>4, Zenon DEF HeldRight
    <2>2. HeldByType(obj, holder)
      BY Zenon DEF Sound, StoreOK
    <2>3. \A i \in Id \ {item, listing} :
            obj'[i] = obj[i] /\ holder'[i] = holder[i]
      BY <1>4, Zenon
    <2> QED
      BY <2>1, <2>2, <2>3, HeldPointwise
  <1>12. ChildrenHang(holder', field')
    <2>1. ChildrenHang(holder, field)
      BY Zenon DEF Sound, StoreOK
    <2>2. \A i \in Id \ {item, listing} :
            /\ holder'[i] = holder[i]
            /\ (\E h \in field' : h.value = i) <=> (\E h \in field : h.value = i)
      BY <1>3, <1>4, Zenon
    <2>3. /\ holder'[item] = "Child" /\ \E h \in field' : h.value = item
          /\ holder'[listing] = "Child" /\ \E h \in field' : h.value = listing
      BY <1>3, <1>4, Zenon
    <2> QED
      BY <2>1, <2>2, <2>3, ChildrenPointwise
  <1>13. MintedByAuthor(obj', minted') /\ NoEventYet(obj', minted')
    BY <1>1, <1>4, SameEvents, Zenon
  <1> QED
    BY <1>7, <1>8, <1>9, <1>10, <1>11, <1>12, <1>13, Zenon DEF Sound, StoreOK

(* The two fields that delist and buy remove: no other field has anything  *)
(* to do with the Listing, and the item is the one it was listed under.    *)
LEMMA PairFacts ==
    ASSUME TypeOK, Sound, NEW m \in Id, obj[m].type = "Marketplace",
           NEW i \in Id, NEW f \in field, NEW g \in field, Unlist(m, i, f, g)
    PROVE  /\ f.parent = m /\ f.name = i /\ f.value \in Id /\ f.value # m
           /\ obj[f.value].type = "Listing" /\ obj[f.value].owner \in Address
           /\ obj[f.value].ask \in U64
           /\ g.parent = f.value /\ g.name = "true" /\ g.value = i
           /\ obj[i].type \in {"BookNFT", "Coin"} /\ i # f.value /\ i # m
           /\ holder[f.value] = "Child" /\ holder[i] = "Child" /\ f # g
           /\ \A h \in field \ {f, g} :
                h.parent \notin {f.value, i} /\ h.value \notin {f.value, i}
  <1>1. /\ f.parent = m /\ f.name = i /\ g.parent = f.value /\ g.name = "true"
        /\ obj[f.value].type = "Listing" /\ obj[g.value].type \in ItemType
    BY Zenon DEF Unlist, FieldAt
  <1>2. /\ f.value \in Id /\ g.value \in Id
        /\ holder[f.value] = "Child" /\ holder[g.value] = "Child"
    BY FieldEnds, Zenon
  <1>3. obj[f.value].owner \in Address /\ obj[f.value].ask \in U64
    BY <1>1, <1>2, ObjectCases, Zenon DEF TypeOK
  <1>4. PICK k \in field : FieldAt(k, f.value, "true") /\ k.value = f.name
    BY <1>1, Zenon DEF Sound, StoreOK, ListingsHoldTheirItem
  <1>5. k = g
    BY <1>1, <1>4, Zenon DEF Sound, StoreOK, FieldsInjective, FieldAt
  <1>6. g.value = i
    BY <1>1, <1>4, <1>5, Zenon
  <1>7. obj[i].type \in {"BookNFT", "Coin"}
    BY <1>1, <1>6, Zenon DEF ItemType
  <1>8. ASSUME NEW h \in field \ {f, g}
        PROVE  h.parent \notin {f.value, i} /\ h.value \notin {f.value, i}
    <2>1. h.value \notin {f.value, i}
      BY <1>6, Zenon DEF Sound, StoreOK, FieldsInjective
    <2>2. h.parent # i
      BY <1>7, FieldEnds, Zenon
    <2>3. ASSUME h.parent = f.value PROVE FALSE
      <3>1. h.name = "true"
        BY <1>1, <2>3, FieldEnds, Zenon
           DEF Name, Sound, StoreOK, ListingsHoldTheirItem, ProfitsAreCoins
      <3> QED
        BY <1>1, <2>3, <3>1, Zenon DEF Sound, StoreOK, FieldsInjective
    <2> QED
      BY <2>1, <2>2, <2>3, Zenon
  <1> QED
    BY <1>1, <1>2, <1>3, <1>6, <1>7, <1>8, ConstantsAssumption, Zenon

(* Taking a Listing and its item out leaves a sound store, whoever gets    *)
(* the item.                                                               *)
LEMMA DelistSound ==
    ASSUME TypeOK, Sound, sender \in Address, TypedStore',
           NEW m \in SharedInput, NEW i \in Id, NEW to \in {"Hand", sender},
           Delist(m, i, to)
    PROVE  Sound'
  <1>1. /\ m \in Id /\ obj[m].type = "Marketplace"
        /\ to \notin {"Child", "Shared", "Nowhere"}
    BY InputEnds, ConstantsAssumption, Zenon DEF Keepers
  <1>2. PICK f \in field, g \in field :
            /\ Unlist(m, i, f, g)
            /\ obj' = [obj EXCEPT ![f.value] = Deleted]
            /\ holder' = [holder EXCEPT ![f.value] = "Nowhere", ![g.value] = to]
            /\ field' = field \ {f, g}
            /\ minted' = minted
    BY Zenon DEF Delist
  <1>3. /\ f.parent = m /\ f.name = i /\ f.value \in Id /\ f.value # m
        /\ obj[f.value].type = "Listing"
        /\ g.parent = f.value /\ g.name = "true" /\ g.value = i
        /\ obj[i].type \in {"BookNFT", "Coin"} /\ i # f.value /\ i # m
        /\ holder[f.value] = "Child" /\ holder[i] = "Child" /\ f # g
        /\ \A h \in field \ {f, g} :
            h.parent \notin {f.value, i} /\ h.value \notin {f.value, i}
    BY <1>1, <1>2, PairFacts
  <1>4. /\ obj'[f.value].type = "Deleted"
        /\ \A j \in Id \ {f.value} : obj'[j] = obj[j]
        /\ holder'[f.value] = "Nowhere" /\ holder'[i] = to
        /\ \A j \in Id \ {f.value, i} : holder'[j] = holder[j]
    BY <1>2, <1>3, ContentsFields, Zenon DEF TypeOK
  <1>5. \A h \in field' : h \in field /\ h.parent \in Id /\ h.value \in Id
    BY <1>2, FieldEnds, Zenon
  <1>6. FieldsInjective(field')
    BY <1>5, Zenon DEF Sound, StoreOK, FieldsInjective
  <1>7. ListingsHoldTheirItem(obj', field')
    BY <1>2, <1>3, <1>4, <1>5, SMTT(30)
       DEF Sound, StoreOK, ListingsHoldTheirItem, FieldAt
  <1>8. ItemsAreListed(obj', field')
    BY <1>2, <1>3, <1>4, <1>5, SMTT(30) DEF Sound, StoreOK, ItemsAreListed
  <1>9. ProfitsAreCoins(obj', field')
    BY <1>2, <1>3, <1>4, <1>5, SMTT(30) DEF Sound, StoreOK, ProfitsAreCoins
  <1>10. HeldByType(obj', holder')
    <2>1. HeldRight(obj', holder', i) /\ HeldRight(obj', holder', f.value)
      BY <1>1, <1>3, <1>4, Zenon DEF HeldRight
    <2>2. HeldByType(obj, holder)
      BY Zenon DEF Sound, StoreOK
    <2>3. \A j \in Id \ {f.value, i} :
            obj'[j] = obj[j] /\ holder'[j] = holder[j]
      BY <1>4, Zenon
    <2> QED
      BY <2>1, <2>2, <2>3, HeldPointwise, SMTT(30)
  <1>11. ChildrenHang(holder', field')
    <2>1. ChildrenHang(holder, field)
      BY Zenon DEF Sound, StoreOK
    <2>2. field' = field \ {f, g}
      BY <1>2, Zenon
    <2>3. \A j \in Id \ {f.value, i} :
            /\ holder'[j] = holder[j]
            /\ (\E h \in field' : h.value = j) <=> (\E h \in field : h.value = j)
      BY <1>3, <1>4, <2>2, Zenon
    <2>4. \A j \in {f.value, i} :
            holder'[j] # "Child" /\ \A h \in field' : h.value # j
      BY <1>1, <1>3, <1>4, <2>2, Zenon
    <2> QED
      BY <2>1, <2>3, <2>4, ChildrenPointwise
  <1>12. MintedByAuthor(obj', minted') /\ NoEventYet(obj', minted')
    BY <1>2, <1>3, <1>4, SameEvents
  <1> QED
    BY <1>6, <1>7, <1>8, <1>9, <1>10, <1>11, <1>12, Zenon DEF Sound, StoreOK

-----------------------------------------------------------------------------
(* Purchases and withdrawals, and the theorems. *)

(* The store stays sound in a purchase whose payment joins the hanging     *)
(* Coin of the owner.                                                      *)
LEMMA BuyByJoinSound ==
    ASSUME TypeOK, Sound, sender \in Address, TypedStore',
           NEW m \in SharedInput, NEW i \in Id, NEW paid \in Input({"Coin"}),
           NEW to \in {"Hand", sender}, NEW f \in field, NEW g \in field,
           Unlist(m, i, f, g), PayByJoin(m, paid, f, g, to), minted' = minted
    PROVE  Sound'
  <1>1. /\ m \in Id /\ obj[m].type = "Marketplace" /\ paid \in Id
        /\ obj[paid].type = "Coin" /\ holder[paid] # "Child"
        /\ to \notin {"Child", "Shared", "Nowhere"}
    BY InputEnds, ConstantsAssumption, Zenon DEF Keepers
  <1>2. PICK p \in field :
            /\ FieldAt(p, m, obj[f.value].owner)
            /\ obj[p.value].type = "Coin" /\ obj[p.value].coin = obj[m].coin
            /\ obj' = [obj EXCEPT
                    ![f.value] = Deleted,
                    ![paid] = Deleted,
                    ![p.value] = CoinOf(obj[p.value].coin,
                                        obj[p.value].value + obj[paid].value)]
            /\ holder' = [holder EXCEPT
                        ![f.value] = "Nowhere",
                        ![paid] = "Nowhere",
                        ![g.value] = to]
            /\ field' = field \ {f, g}
    BY Zenon DEF PayByJoin
  <1>3. /\ f.parent = m /\ f.name = i /\ f.value \in Id /\ f.value # m
        /\ obj[f.value].type = "Listing" /\ obj[f.value].owner \in Address
        /\ g.parent = f.value /\ g.name = "true" /\ g.value = i
        /\ obj[i].type \in {"BookNFT", "Coin"} /\ i # f.value /\ i # m
        /\ holder[f.value] = "Child" /\ holder[i] = "Child" /\ f # g
        /\ \A h \in field \ {f, g} :
            h.parent \notin {f.value, i} /\ h.value \notin {f.value, i}
    BY <1>1, PairFacts, SMTT(30)
  <1>4. p \in field \ {f, g} /\ p.value \in Id
    BY <1>2, <1>3, ConstantsAssumption, FieldEnds, Zenon DEF FieldAt
  <1>5. holder[p.value] = "Child" /\ p.value \notin {f.value, i, paid, m}
    BY <1>1, <1>2, <1>3, <1>4, FieldEnds, Zenon
  <1>6. /\ obj'[f.value].type = "Deleted" /\ obj'[paid].type = "Deleted"
        /\ obj'[p.value].type = "Coin" /\ obj'[p.value].coin = obj[m].coin
        /\ \A j \in Id \ {f.value, paid, p.value} : obj'[j] = obj[j]
        /\ holder'[f.value] = "Nowhere" /\ holder'[paid] = "Nowhere"
        /\ holder'[i] = to
        /\ \A j \in Id \ {f.value, paid, i} : holder'[j] = holder[j]
    BY <1>1, <1>2, <1>3, <1>4, <1>5, ContentsFields, SMTT(30) DEF TypeOK
  <1>7. \A h \in field' : /\ h \in field /\ h.parent \in Id /\ h.value \in Id
                          /\ h.parent \notin {f.value, i, paid, p.value}
                          /\ h.value \notin {f.value, i, paid}
                          /\ h.value = p.value => h = p
    <2> SUFFICES ASSUME NEW h \in field'
                 PROVE  /\ h \in field /\ h.parent \in Id /\ h.value \in Id
                        /\ h.parent \notin {f.value, i, paid, p.value}
                        /\ h.value \notin {f.value, i, paid}
                        /\ h.value = p.value => h = p
      BY Zenon
    <2>1. h \in field \ {f, g}
      BY <1>2, Zenon
    <2>2. h.value = p.value => h = p
      BY <2>1, <1>4, Zenon DEF Sound, StoreOK, FieldsInjective
    <2> QED
      BY <1>1, <1>2, <1>3, <2>1, <2>2, FieldEnds, Zenon
  <1>8. FieldsInjective(field')
    BY <1>7, Zenon DEF Sound, StoreOK, FieldsInjective
  <1>9. ListingsHoldTheirItem(obj', field')
    <2> SUFFICES ASSUME NEW h \in field', h.name \in Id
                 PROVE  /\ obj'[h.parent].type = "Marketplace"
                        /\ obj'[h.value].type = "Listing"
                        /\ \E k \in field' : /\ FieldAt(k, h.value, "true")
                                             /\ k.value = h.name
      BY Zenon DEF ListingsHoldTheirItem
    <2>1. /\ obj[h.parent].type = "Marketplace"
          /\ obj[h.value].type = "Listing"
          /\ \E k \in field : /\ FieldAt(k, h.value, "true")
                              /\ k.value = h.name
      BY <1>7, Zenon DEF Sound, StoreOK, ListingsHoldTheirItem
    <2>2. PICK k \in field : FieldAt(k, h.value, "true") /\ k.value = h.name
      BY <2>1, Zenon
    <2>3. k # f
      BY <1>3, <2>2, ConstantsAssumption, Zenon DEF FieldAt
    <2>4. k # g
      BY <1>3, <1>7, <2>2, Zenon DEF FieldAt
    <2>5. obj'[h.parent] = obj[h.parent] /\ obj'[h.value] = obj[h.value]
      BY <1>2, <1>6, <1>7, <2>1, Zenon
    <2> QED
      BY <1>2, <2>1, <2>2, <2>3, <2>4, <2>5, Zenon
  <1>10. ItemsAreListed(obj', field')
    <2> SUFFICES ASSUME NEW h \in field', h.name = "true"
                 PROVE  /\ obj'[h.parent].type = "Listing"
                        /\ obj'[h.value].type \in ItemType
                        /\ \E k \in field' : /\ k.name = h.value
                                             /\ k.value = h.parent
      BY Zenon DEF ItemsAreListed
    <2>1. /\ obj[h.parent].type = "Listing"
          /\ obj[h.value].type \in ItemType
          /\ \E k \in field : k.name = h.value /\ k.value = h.parent
      BY <1>7, Zenon DEF Sound, StoreOK, ItemsAreListed
    <2>2. obj'[h.parent].type = "Listing"
      BY <1>6, <1>7, <2>1, Zenon
    <2>3. obj'[h.value].type \in ItemType
      BY <1>6, <1>7, <2>1, Zenon DEF ItemType
    <2> QED
      BY <1>2, <1>3, <1>7, <2>1, <2>2, <2>3, Zenon
  <1>11. ProfitsAreCoins(obj', field')
    <2> SUFFICES ASSUME NEW h \in field', h.name \in Address
                 PROVE  /\ obj'[h.parent].type = "Marketplace"
                        /\ obj'[h.value].type = "Coin"
                        /\ obj'[h.value].coin = obj'[h.parent].coin
      BY Zenon DEF ProfitsAreCoins
    <2>1. /\ obj[h.parent].type = "Marketplace"
          /\ obj[h.value].type = "Coin"
          /\ obj[h.value].coin = obj[h.parent].coin
      BY <1>7, Zenon DEF Sound, StoreOK, ProfitsAreCoins
    <2>2. obj'[h.parent] = obj[h.parent]
      BY <1>6, <1>7, Zenon
    <2>3. CASE h.value = p.value
      BY <1>2, <1>6, <1>7, <2>1, <2>2, <2>3, Zenon DEF FieldAt
    <2>4. CASE h.value # p.value
      BY <1>6, <1>7, <2>1, <2>2, <2>4, Zenon
    <2> QED
      BY <2>3, <2>4, Zenon
  <1>12. HeldByType(obj', holder')
    <2>1. HeldByType(obj, holder)
      BY Zenon DEF Sound, StoreOK
    <2>2. i # paid
      BY <1>1, <1>3, Zenon
    <2>3. HeldRight(obj', holder', i)
      BY <1>1, <1>3, <1>5, <1>6, <2>2, Zenon DEF HeldRight
    <2>4. HeldRight(obj', holder', f.value) /\ HeldRight(obj', holder', paid)
      BY <1>6, Zenon DEF HeldRight
    <2>5. holder'[p.value] = "Child"
      BY <1>4, <1>5, <1>6, Zenon
    <2>6. HeldRight(obj', holder', p.value)
      BY <1>6, <2>5, Zenon DEF HeldRight
    <2>7. \A j \in Id \ {f.value, i, paid, p.value} :
            obj'[j] = obj[j] /\ holder'[j] = holder[j]
      BY <1>6, Zenon
    <2> QED
      <3>1. \A j \in Id : \/ obj'[j] = obj[j] /\ holder'[j] = holder[j]
                          \/ HeldRight(obj', holder', j)
        BY <2>3, <2>4, <2>6, <2>7, Zenon
      <3> QED
        BY <2>1, <3>1, HeldPointwise, Zenon
  <1>13. ChildrenHang(holder', field')
    <2>1. ChildrenHang(holder, field)
      BY DEF Sound, StoreOK
    <2>2. field' = field \ {f, g}
      BY <1>2, Zenon
    <2>3. \A j \in Id \ {f.value, i, paid} :
            /\ holder'[j] = holder[j]
            /\ (\E h \in field' : h.value = j) <=> (\E h \in field : h.value = j)
      BY <1>3, <1>6, <2>2, Zenon
    <2>4. \A j \in {f.value, i, paid} :
            holder'[j] # "Child" /\ \A h \in field' : h.value # j
      BY <1>1, <1>6, <1>7, Zenon
    <2> QED
      BY <2>1, <2>3, <2>4, ChildrenPointwise
  <1>14. MintedByAuthor(obj', minted') /\ NoEventYet(obj', minted')
    BY <1>1, <1>3, <1>6, SameEvents, Zenon
  <1> QED
    BY <1>8, <1>9, <1>10, <1>11, <1>12, <1>13, <1>14 DEF Sound, StoreOK

(* And one whose payment is attached under the owner's address. *)
LEMMA BuyByAddSound ==
    ASSUME TypeOK, Sound, sender \in Address, TypedStore',
           NEW m \in SharedInput, NEW i \in Id, NEW paid \in Input({"Coin"}),
           NEW to \in {"Hand", sender}, NEW f \in field, NEW g \in field,
           obj[paid].coin = obj[m].coin,
           Unlist(m, i, f, g), PayByAdd(m, paid, f, g, to), minted' = minted
    PROVE  Sound'
  <1> DEFINE owner == obj[f.value].owner
             P == NewField(m, owner, paid)
  <1>1. /\ m \in Id /\ obj[m].type = "Marketplace" /\ paid \in Id
        /\ obj[paid].type = "Coin" /\ holder[paid] # "Child"
        /\ to \notin {"Child", "Shared", "Nowhere"}
        /\ holder[paid] \notin {"Shared", "Nowhere"}
    BY InputEnds, ConstantsAssumption, Zenon
       DEF Keepers, Sound, StoreOK, HeldByType
  <1>2. /\ f.parent = m /\ f.name = i /\ f.value \in Id /\ f.value # m
        /\ obj[f.value].type = "Listing" /\ owner \in Address
        /\ g.parent = f.value /\ g.name = "true" /\ g.value = i
        /\ obj[i].type \in {"BookNFT", "Coin"} /\ i # f.value /\ i # m
        /\ holder[f.value] = "Child" /\ holder[i] = "Child" /\ f # g
        /\ \A h \in field \ {f, g} :
            h.parent \notin {f.value, i} /\ h.value \notin {f.value, i}
    BY <1>1, PairFacts, SMTT(30)
  <1>3. P.parent = m /\ P.name = owner /\ P.value = paid
    BY SMTT(30) DEF NewField
  <1>4. /\ obj'[f.value].type = "Deleted"
        /\ \A j \in Id \ {f.value} : obj'[j] = obj[j]
        /\ holder'[f.value] = "Nowhere" /\ holder'[paid] = "Child"
        /\ holder'[i] = to
        /\ \A j \in Id \ {f.value, paid, i} : holder'[j] = holder[j]
        /\ field' = (field \ {f, g}) \cup {P}
    BY <1>1, <1>2, ContentsFields DEF PayByAdd, TypeOK
  <1>5. \A h \in field \ {f, g} :
            /\ h.parent \in Id /\ h.parent \notin {f.value, i, paid}
            /\ h.value \in Id /\ h.value \notin {f.value, i, paid}
            /\ ~ (h.parent = m /\ h.name = owner)
    BY <1>1, <1>2, FieldEnds DEF PayByAdd, exists_, FieldAt
  <1>6. owner \notin Id /\ owner # "true" /\ "true" \notin Id
    BY <1>2, ConstantsAssumption, Zenon
  <1> HIDE DEF P, owner
  <1>7. FieldsInjective(field')
    <2>1. FieldsInjective(field) /\ field' = (field \ {f, g}) \cup {P}
      BY <1>4, Zenon DEF Sound, StoreOK
    <2>2. ASSUME NEW h \in field \ {f, g}
          PROVE  ~ (h.parent = P.parent /\ h.name = P.name) /\ h.value # P.value
      BY <1>3, <1>5, Zenon
    <2>3. ASSUME NEW h \in field', NEW k \in field',
                 (h.parent = k.parent /\ h.name = k.name) \/ h.value = k.value
          PROVE  h = k
      <3>1. CASE h \in field \ {f, g} /\ k \in field \ {f, g}
        BY <2>1, <2>3, <3>1, Zenon DEF FieldsInjective
      <3>2. CASE h = P \/ k = P
        BY <2>1, <2>2, <2>3, <3>2, Zenon
      <3> QED
        BY <2>1, <3>1, <3>2, Zenon
    <2> QED
      BY <2>3, Zenon DEF FieldsInjective
  <1>8. ListingsHoldTheirItem(obj', field')
    <2> SUFFICES ASSUME NEW h \in field', h.name \in Id
                 PROVE  /\ obj'[h.parent].type = "Marketplace"
                        /\ obj'[h.value].type = "Listing"
                        /\ \E k \in field' : /\ FieldAt(k, h.value, "true")
                                             /\ k.value = h.name
      BY Zenon DEF ListingsHoldTheirItem
    <2>1. h \in field \ {f, g}
      BY <1>3, <1>4, <1>6, Zenon
    <2>2. /\ obj[h.parent].type = "Marketplace"
          /\ obj[h.value].type = "Listing"
          /\ \E k \in field : /\ FieldAt(k, h.value, "true")
                              /\ k.value = h.name
      BY <2>1, Zenon DEF Sound, StoreOK, ListingsHoldTheirItem
    <2>3. PICK k \in field : FieldAt(k, h.value, "true") /\ k.value = h.name
      BY <2>2, Zenon
    <2>4. k # f /\ k # g
      BY <1>2, <1>5, <1>6, <2>1, <2>3, Zenon DEF FieldAt
    <2> QED
      BY <1>4, <1>5, <2>1, <2>2, <2>3, <2>4, Zenon
  <1>9. ItemsAreListed(obj', field')
    <2> SUFFICES ASSUME NEW h \in field', h.name = "true"
                 PROVE  /\ obj'[h.parent].type = "Listing"
                        /\ obj'[h.value].type \in ItemType
                        /\ \E k \in field' : /\ k.name = h.value
                                             /\ k.value = h.parent
      BY Zenon DEF ItemsAreListed
    <2>1. h \in field \ {f, g}
      BY <1>3, <1>4, <1>6, Zenon
    <2>2. PICK k \in field : k.name = h.value /\ k.value = h.parent
      BY <2>1, Zenon DEF Sound, StoreOK, ItemsAreListed
    <2>3. k # f /\ k # g
      BY <1>2, <1>5, <2>1, <2>2, Zenon
    <2> QED
      BY <1>4, <1>5, <2>1, <2>2, <2>3, Zenon
         DEF Sound, StoreOK, ItemsAreListed
  <1>10. ProfitsAreCoins(obj', field')
    <2> SUFFICES ASSUME NEW h \in field', h.name \in Address
                 PROVE  /\ obj'[h.parent].type = "Marketplace"
                        /\ obj'[h.value].type = "Coin"
                        /\ obj'[h.value].coin = obj'[h.parent].coin
      BY DEF ProfitsAreCoins
    <2>1. CASE h = P
      <3>1. obj'[m] = obj[m] /\ obj'[paid] = obj[paid]
        BY <1>1, <1>2, <1>4, Zenon
      <3> QED
        BY <1>1, <1>3, <2>1, <3>1, Zenon
    <2>2. CASE h \in field \ {f, g}
      <3>1. obj'[h.parent] = obj[h.parent] /\ obj'[h.value] = obj[h.value]
        BY <1>4, <1>5, <2>2, Zenon
      <3> QED
        BY <2>2, <3>1, Zenon DEF Sound, StoreOK, ProfitsAreCoins
    <2> QED
      BY <1>4, <2>1, <2>2, Zenon
  <1>11. HeldByType(obj', holder')
    <2>1. HeldByType(obj, holder)
      BY Zenon DEF Sound, StoreOK
    <2>2. i # paid /\ f.value # paid
      BY <1>1, <1>2, Zenon
    <2>3. obj'[i] = obj[i] /\ obj'[paid] = obj[paid]
      BY <1>1, <1>2, <1>4, <2>2, Zenon
    <2>4. HeldRight(obj', holder', i) /\ HeldRight(obj', holder', paid)
      BY <1>1, <1>2, <1>4, <2>3, Zenon DEF HeldRight
    <2>5. HeldRight(obj', holder', f.value)
      BY <1>4, Zenon DEF HeldRight
    <2>6. \A j \in Id \ {f.value, i, paid} :
            obj'[j] = obj[j] /\ holder'[j] = holder[j]
      BY <1>4, Zenon
    <2> QED
      BY <2>1, <2>4, <2>5, <2>6, HeldPointwise
  <1>12. ChildrenHang(holder', field')
    <2>1. ChildrenHang(holder, field)
      BY Zenon DEF Sound, StoreOK
    <2>2. \A j \in Id \ {f.value, i, paid} :
            /\ holder'[j] = holder[j]
            /\ (\E h \in field' : h.value = j) <=> (\E h \in field : h.value = j)
      BY <1>2, <1>3, <1>4, Zenon
    <2>3. \A j \in {f.value, i} :
            holder'[j] # "Child" /\ \A h \in field' : h.value # j
      BY <1>1, <1>2, <1>3, <1>4, Zenon
    <2>4. holder'[paid] = "Child" /\ \E h \in field' : h.value = paid
      BY <1>3, <1>4, Zenon
    <2> QED
      BY <2>1, <2>2, <2>3, <2>4, ChildrenPointwise
  <1>13. MintedByAuthor(obj', minted') /\ NoEventYet(obj', minted')
    BY <1>2, <1>4, SameEvents
  <1> QED
    BY <1>7, <1>8, <1>9, <1>10, <1>11, <1>12, <1>13 DEF Sound, StoreOK

(* Taking the Coin that hangs under the sender's address. *)
LEMMA TakeProfitsSound ==
    ASSUME TypeOK, Sound, sender \in Address, TypedStore',
           NEW m \in SharedInput, NEW to \in {"Hand", sender},
           TakeProfits(m, to)
    PROVE  Sound'
  <1>1. /\ m \in Id /\ obj[m].type = "Marketplace"
        /\ to \notin {"Child", "Shared", "Nowhere"}
    BY InputEnds, ConstantsAssumption DEF Keepers
  <1>2. PICK p \in field :
            /\ FieldAt(p, m, sender)
            /\ obj[p.value].type = "Coin"
            /\ holder' = [holder EXCEPT ![p.value] = to]
            /\ field' = field \ {p}
            /\ obj' = obj /\ minted' = minted
    BY Zenon DEF TakeProfits
  <1>3. /\ p.value \in Id /\ holder[p.value] = "Child" /\ p.name = sender
        /\ \A h \in field \ {p} : h.value # p.value
    BY <1>2, FieldEnds, Zenon DEF FieldAt, Sound, StoreOK, FieldsInjective
  <1>4. /\ holder'[p.value] = to
        /\ \A j \in Id \ {p.value} : holder'[j] = holder[j]
    BY <1>2, <1>3 DEF TypeOK
  <1>5. sender \notin Id /\ sender # "true"
    BY ConstantsAssumption, Zenon
  <1>6. FieldsInjective(field')
    BY <1>2, Zenon DEF Sound, StoreOK, FieldsInjective
  <1>7. ListingsHoldTheirItem(obj', field')
    BY <1>2, <1>3, <1>5, Zenon
       DEF Sound, StoreOK, ListingsHoldTheirItem, FieldAt
  <1>8. ItemsAreListed(obj', field')
    <2> SUFFICES ASSUME NEW h \in field', h.name = "true"
                 PROVE  /\ obj'[h.parent].type = "Listing"
                        /\ obj'[h.value].type \in ItemType
                        /\ \E k \in field' : /\ k.name = h.value
                                             /\ k.value = h.parent
      BY DEF ItemsAreListed
    <2>1. h \in field /\ h.value \in Id
      BY <1>2, FieldEnds, Zenon
    <2> QED
      BY <1>2, <1>3, <1>5, <2>1, Zenon DEF Sound, StoreOK, ItemsAreListed
  <1>9. ProfitsAreCoins(obj', field')
    BY <1>2, Zenon DEF Sound, StoreOK, ProfitsAreCoins
  <1>10. HeldByType(obj', holder')
    <2>1. HeldByType(obj, holder)
      BY Zenon DEF Sound, StoreOK
    <2>2. obj'[p.value].type = "Coin" /\ \A j \in Id : obj'[j] = obj[j]
      BY <1>2, Zenon
    <2>3. HeldRight(obj', holder', p.value)
      BY <1>1, <1>4, <2>2, Zenon DEF HeldRight
    <2> QED
      BY <1>4, <2>1, <2>2, <2>3, HeldPointwise
  <1>11. ChildrenHang(holder', field')
    <2>1. ChildrenHang(holder, field)
      BY DEF Sound, StoreOK
    <2>2. field' = field \ {p}
      BY <1>2
    <2>3. \A j \in Id \ {p.value} :
            /\ holder'[j] = holder[j]
            /\ (\E h \in field' : h.value = j) <=> (\E h \in field : h.value = j)
      BY <1>4, <2>2
    <2>4. holder'[p.value] # "Child" /\ \A h \in field' : h.value # p.value
      BY <1>1, <1>3, <1>4, <2>2, Zenon
    <2> QED
      BY <2>1, <2>3, <2>4, ChildrenPointwise
  <1>12. MintedByAuthor(obj', minted') /\ NoEventYet(obj', minted')
    BY <1>2, SameEvents
  <1> QED
    BY <1>6, <1>7, <1>8, <1>9, <1>10, <1>11, <1>12, Zenon DEF Sound, StoreOK

(* No command of a transaction breaks the working copy. *)
LEMMA CommandSound ==
    ASSUME TypeOK, Sound, sender \in Address, ExecuteCommand
    PROVE  Sound'
  <1>0. TypedStore'
    BY CommandType, Zenon
  <1>1. ASSUME NEW m \in SharedInput, NEW i \in Id,
               NEW paid \in Input({"Coin"}), NEW to \in {"Hand", sender},
               Buy(m, i, paid, to)
        PROVE  Sound'
    <2>1. PICK f \in field, g \in field :
            /\ Unlist(m, i, f, g)
            /\ \/ PayByJoin(m, paid, f, g, to)
               \/ PayByAdd(m, paid, f, g, to)
            /\ obj[paid].coin = obj[m].coin
            /\ minted' = minted
      BY <1>1, Zenon DEF Buy
    <2> QED
      BY <1>0, <2>1, BuyByJoinSound, BuyByAddSound, Zenon
  <1>2. ASSUME NEW m \in SharedInput, Call(m) PROVE Sound'
    BY <1>0, <1>1, <1>2, ListSound, DelistSound, TakeProfitsSound, Zenon
       DEF Call, delist, delist_and_take, buy, buy_and_take,
           take_profits, take_profits_and_keep
  <1> QED
    BY <1>0, <1>2, OffFieldSound DEF ExecuteCommand

(* It is sound, with no field in it. *)
LEMMA InitSound == Init => StoresSound
  <1> SUFFICES ASSUME Init PROVE StoresSound
    OBVIOUS
  <1>1. /\ obj \in [Id -> Object] /\ obj = GenesisObj
        /\ holder = GenesisHolder /\ field = {}
        /\ minted = {[object_id |-> i, creator |-> GenesisObj[i].author] :
                        i \in {j \in Id : GenesisObj[j].type = "BookNFT"}}
        /\ committed = Snapshot
    BY GenesisAssumption DEF Init
  <1>2. \A i \in Id :
            /\ obj[i].type \in {"Free", "Marketplace", "BookNFT", "Coin"}
            /\ obj[i].type = "Marketplace" => holder[i] = "Shared"
            /\ obj[i].type \in {"BookNFT", "Coin"} => holder[i] \in Address
            /\ obj[i].type = "Free" => holder[i] = "Nowhere"
    BY <1>1, GenesisAssumption, ContentsFields, Zenon DEF ItemType
  <1>3. HeldByType(obj, holder) /\ \A i \in Id : holder[i] \notin {"Child", "Hand"}
    BY <1>2, ConstantsAssumption, Zenon DEF HeldByType, Keepers
  <1>4. /\ FieldsInjective(field) /\ ListingsHoldTheirItem(obj, field)
        /\ ItemsAreListed(obj, field) /\ ProfitsAreCoins(obj, field)
        /\ ChildrenHang(holder, field)
    BY <1>1, <1>3, Zenon DEF FieldsInjective, ListingsHoldTheirItem, ItemsAreListed,
                      ProfitsAreCoins, ChildrenHang
  <1>5. MintedByAuthor(obj, minted) /\ NoEventYet(obj, minted)
    BY <1>1 DEF MintedByAuthor, NoEventYet
  <1> QED
    BY <1>1, <1>3, <1>4, <1>5, Zenon DEF StoresSound, StoreOK, Snapshot

(* Every step keeps both copies sound: a commit copies the working copy,   *)
(* an abort brings back the committed one.                                 *)
LEMMA StepSound == TypeOK /\ StoresSound /\ [Next]_vars => StoresSound'
  <1> SUFFICES ASSUME TypeOK, StoresSound, [Next]_vars PROVE StoresSound'
    OBVIOUS
  <1>1. ASSUME NEW a \in Address, Begin(a) PROVE StoresSound'
    BY <1>1, ConstantsAssumption DEF StoresSound, Begin, store, Snapshot
  <1>2. CASE Commit
    BY <1>2 DEF StoresSound, Commit, Snapshot, store
  <1>3. CASE Abort
    BY <1>3 DEF StoresSound, Abort, Snapshot, TypeOK
  <1>4. CASE Command /\ ExecuteCommand
    <2>1. sender \in Address /\ sender' = sender /\ committed' = committed
      BY <1>4 DEF Command, TypeOK
    <2>2. Sound'
      BY <1>4, <2>1, CommandSound DEF StoresSound, Sound
    <2> QED
      BY <2>1, <2>2, ConstantsAssumption DEF StoresSound, Sound
  <1>5. CASE UNCHANGED vars
    BY <1>5 DEF StoresSound, vars, store, Snapshot
  <1> QED
    BY <1>1, <1>2, <1>3, <1>4, <1>5 DEF Next

(* Dynamic fields, holders, types and events fit together in every         *)
(* reachable working copy and in every committed store.                    *)
THEOREM StoresAreSound == Spec => []StoresSound
  BY InitSound, StepSound, TypeCorrect, PTL DEF Spec

-----------------------------------------------------------------------------
(* What follows for the users of the marketplace. *)

(* delist and buy find, behind the Listing kept under an item's ID, that   *)
(* item and nothing else.                                                  *)
THEOREM ListingsAreRedeemable == Spec => []ListingsRedeemable
  <1>1. TypeOK /\ StoresSound => ListingsRedeemable
    <2> SUFFICES ASSUME TypeOK, StoresSound, NEW f \in field, f.name \in Id
                 PROVE  /\ obj[f.value].type = "Listing"
                        /\ {g \in field : g.parent = f.value} =
                               {NewField(f.value, "true", f.name)}
                        /\ obj[f.name].type \in ItemType
      BY Zenon DEF ListingsRedeemable
    <2>1. Sound
      BY Zenon DEF Sound, StoresSound
    <2>2. /\ obj[f.parent].type = "Marketplace" /\ obj[f.value].type = "Listing"
          /\ \E g \in field : FieldAt(g, f.value, "true") /\ g.value = f.name
      BY <2>1, Zenon DEF Sound, StoreOK, ListingsHoldTheirItem
    <2>3. PICK g \in field : FieldAt(g, f.value, "true") /\ g.value = f.name
      BY <2>2, Zenon
    <2>4. obj[f.name].type \in ItemType
      BY <2>1, <2>3, Zenon DEF Sound, StoreOK, ItemsAreListed, FieldAt
    <2>5. f.parent \in Id /\ g \in Field
      BY DEF TypeOK, Field
    <2>6. Unlist(f.parent, f.name, f, g)
      BY <2>2, <2>3, <2>4, Zenon DEF Unlist, FieldAt
    <2>7. \A h \in field \ {f, g} : h.parent # f.value
      BY <2>1, <2>2, <2>5, <2>6, PairFacts
    <2>8. f.parent # f.value
      BY <2>2, Zenon
    <2>9. g = NewField(f.value, "true", f.name)
      BY <2>3, <2>5 DEF FieldAt, NewField, Field
    <2> QED
      BY <2>2, <2>3, <2>4, <2>7, <2>8, <2>9 DEF FieldAt
  <1> QED
    BY <1>1, TypeCorrect, StoresAreSound, PTL

(* What hangs in a dynamic field hangs in one only, and can be reached     *)
(* from a shared Marketplace.                                              *)
THEOREM NothingIsStranded == Spec => []NothingStranded
  <1>1. TypeOK /\ StoresSound => NothingStranded
    <2> SUFFICES ASSUME TypeOK, StoresSound, NEW i \in Id, holder[i] = "Child"
                 PROVE  \E f \in field :
                            /\ f.value = i
                            /\ \A g \in field : g.value = i => g = f
                            /\ \/ holder[f.parent] = "Shared"
                               \/ \E g \in field : /\ g.value = f.parent
                                                   /\ holder[g.parent] = "Shared"
      BY DEF NothingStranded
    <2>1. Sound
      BY Zenon DEF Sound, StoresSound
    <2>2. PICK f \in field : f.value = i
      BY <2>1, Zenon DEF Sound, StoreOK, ChildrenHang
    <2>3. \A g \in field : g.value = i => g = f
      BY <2>1, <2>2, Zenon DEF Sound, StoreOK, FieldsInjective
    <2>4. \A g \in field : /\ g.parent \in Id /\ g.value \in Id
                           /\ obj[g.parent].type = "Marketplace"
                                    => holder[g.parent] = "Shared"
      BY <2>1, FieldEnds, Zenon DEF Sound, StoreOK, HeldByType
    <2>5. CASE f.name \in Id \cup Address
      BY <2>1, <2>2, <2>3, <2>4, <2>5, Zenon
         DEF Sound, StoreOK, ListingsHoldTheirItem, ProfitsAreCoins
    <2>6. CASE f.name = "true"
      <3>1. PICK g \in field : g.name = f.value /\ g.value = f.parent
        BY <2>1, <2>6, Zenon DEF Sound, StoreOK, ItemsAreListed
      <3>2. holder[g.parent] = "Shared"
        BY <2>1, <2>4, <3>1, Zenon DEF Sound, StoreOK, ListingsHoldTheirItem
      <3> QED
        BY <2>2, <2>3, <3>1, <3>2, Zenon
    <2>7. f.name \in Id \cup Address \cup {"true"}
      BY DEF TypeOK, Field, Name
    <2> QED
      BY <2>5, <2>6, <2>7
  <1> QED
    BY <1>1, TypeCorrect, StoresAreSound, PTL

(* The NFTMinted event of a book names its author for as long as the book  *)
(* exists.                                                                 *)
THEOREM BooksHaveProvenance == Spec => []Provenance
  <1>1. StoresSound => Provenance
    BY Zenon DEF StoresSound, StoreOK, Provenance
  <1> QED
    BY <1>1, StoresAreSound, PTL
=============================================================================
