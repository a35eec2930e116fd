---------------------------- MODULE LedgerProofs ----------------------------
(***************************************************************************)
(* What each command does to the listings and to the profits of every      *)
(* account, one of five effects; from it, that the marketplace implements  *)
(* the escrow ledger, and what a command does to the accounts of others.   *)
(* Then that money is conserved, every payment fits into u64, and a        *)
(* transaction settles with all other accounts, for every number of        *)
(* accounts, objects, coin types and commands.                             *)
(***************************************************************************)
EXTENDS MarketplaceProofs, Settlement, FiniteSetTheorems

(* The Coin found under an address is the only one there. *)
LEMMA ProfitsFound ==
    ASSUME NEW o, NEW fs, FieldsInjective(fs), NEW m, NEW a, NEW p \in fs,
           FieldAt(p, m, a)
    PROVE  ProfitsIn(o, fs, m, a) = o[p.value].value
  <1>1. exists_(fs, m, a)
    BY Zenon DEF exists_
  <1>2. \A q \in fs : FieldAt(q, m, a) => q = p
    BY Zenon DEF FieldsInjective, FieldAt
  <1>3. (CHOOSE q \in fs : FieldAt(q, m, a)) = p
    BY <1>2, Zenon
  <1> QED
    BY <1>1, <1>3, Zenon DEF ProfitsIn

(* Without a Coin there are no profits. *)
LEMMA ProfitsMissing ==
    ASSUME NEW o, NEW fs, NEW m, NEW a, ~ exists_(fs, m, a)
    PROVE  ProfitsIn(o, fs, m, a) = 0
  BY Zenon DEF ProfitsIn

(* Two stores that agree on the Coin of an account agree on its profits. *)
LEMMA ProfitsSame ==
    ASSUME NEW o1, NEW fs1, NEW o2, NEW fs2,
           FieldsInjective(fs1), FieldsInjective(fs2), NEW m, NEW a,
           \A p \in fs1 : FieldAt(p, m, a) =>
                p \in fs2 /\ o2[p.value].value = o1[p.value].value,
           \A p \in fs2 : FieldAt(p, m, a) => p \in fs1
    PROVE  ProfitsIn(o2, fs2, m, a) = ProfitsIn(o1, fs1, m, a)
  <1>1. CASE exists_(fs1, m, a)
    <2>1. PICK p \in fs1 : FieldAt(p, m, a)
      BY <1>1, Zenon DEF exists_
    <2> QED
      BY <2>1, ProfitsFound
  <1>2. CASE ~ exists_(fs1, m, a)
    <2>1. ~ exists_(fs2, m, a)
      BY <1>2, Zenon DEF exists_
    <2> QED
      BY <1>2, <2>1, ProfitsMissing, Zenon
  <1> QED
    BY <1>1, <1>2, Zenon

(* Stores with the same Listings make the same offers. *)
LEMMA OffersSame ==
    ASSUME NEW o1, NEW fs1, NEW o2, NEW fs2,
           \A h : h \in fs1 /\ h.name \in Id <=> h \in fs2 /\ h.name \in Id,
           \A h \in fs1 : h.name \in Id => o2[h.value] = o1[h.value]
    PROVE  OffersIn(o2, fs2) = OffersIn(o1, fs1)
  <1>1. {h \in fs1 : h.name \in Id} = {h \in fs2 : h.name \in Id}
    BY Zenon
  <1>2. \A h \in {h \in fs1 : h.name \in Id} : OfferOf(o2, h) = OfferOf(o1, h)
    BY Zenon DEF OfferOf
  <1> QED
    BY <1>1, <1>2, Zenon DEF OffersIn

(* Taking one Listing out takes one offer out. *)
LEMMA OfferGone ==
    ASSUME NEW o1, NEW fs1, NEW o2, NEW fs2, FieldsInjective(fs1),
           NEW f \in fs1, f.name \in Id,
           \A h : h \in fs2 /\ h.name \in Id
                    <=> h \in fs1 /\ h.name \in Id /\ h # f,
           \A h \in fs2 : h.name \in Id => o2[h.value] = o1[h.value]
    PROVE  OffersIn(o2, fs2) = OffersIn(o1, fs1) \ {OfferOf(o1, f)}
  <1> DEFINE L1 == {h \in fs1 : h.name \in Id}
             L2 == {h \in fs2 : h.name \in Id}
  <1>1. L2 = L1 \ {f}
    BY Zenon
  <1>2. \A h \in L2 : OfferOf(o2, h) = OfferOf(o1, h)
    BY Zenon DEF OfferOf
  <1>3. \A h \in L1 : OfferOf(o1, h) = OfferOf(o1, f) => h = f
    <2> SUFFICES ASSUME NEW h \in L1, OfferOf(o1, h) = OfferOf(o1, f)
                 PROVE  h = f
      BY Zenon
    <2>1. h.parent = f.parent /\ h.name = f.name
      BY Zenon DEF OfferOf
    <2> QED
      BY <2>1, Zenon DEF FieldsInjective
  <1>4. OffersIn(o1, fs1) = {OfferOf(o1, h) : h \in L1}
    BY Zenon DEF OffersIn
  <1>5. OffersIn(o2, fs2) = {OfferOf(o2, h) : h \in L2}
    BY Zenon DEF OffersIn
  <1> HIDE DEF L1, L2
  <1> QED
    BY <1>1, <1>2, <1>3, <1>4, <1>5, Zenon

(* Commands on objects in hand, or new ones, reach nothing that hangs. *)
LEMMA OffFieldKeeps ==
    ASSUME TypeOK, Sound, sender \in Address,
           \/ \E m \in Fresh, coin \in CoinType : create(m, coin)
           \/ \E nft \in Fresh, d \in Description : mint_to_sender(nft, d)
           \/ \E i \in Input(ItemType), r \in Address : transfer(i, r)
           \/ \E nft \in Input({"BookNFT"}), d \in Description :
                    update_description(nft, d)
           \/ \E nft \in Input({"BookNFT"}) : burn(nft)
           \/ \E c \in Input({"Coin"}), amount \in U64, new \in Fresh :
                    SplitCoins(c, amount, new)
           \/ \E target, c \in Input({"Coin"}) : MergeCoins(target, c)
    PROVE  field' = field /\ \A f \in field : obj'[f.value] = obj[f.value]
  <1>1. field' = field
    BY Zenon DEF create, mint_to_sender, transfer, update_description, burn,
           SplitCoins, MergeCoins
  <1>2. \A i \in Id : obj'[i] = obj[i] \/ holder[i] # "Child"
    <2> USE InputEnds DEF TypeOK
    <2>1. CASE \E m \in Fresh, coin \in CoinType : create(m, coin)
      BY <2>1, Zenon DEF create
    <2>2. CASE \E nft \in Fresh, d \in Description : mint_to_sender(nft, d)
      BY <2>2, Zenon DEF mint_to_sender
    <2>3. CASE \E i \in Input(ItemType), r \in Address : transfer(i, r)
      BY <2>3, Zenon DEF transfer
    <2>4. CASE \E nft \in Input({"BookNFT"}), d \in Description :
                    update_description(nft, d)
      BY <2>4, Zenon DEF update_description
    <2>5. CASE \E nft \in Input({"BookNFT"}) : burn(nft)
      BY <2>5 DEF burn
    <2>6. CASE \E c \in Input({"Coin"}), amount \in U64, new \in Fresh :
                    SplitCoins(c, amount, new)
      BY <2>6 DEF SplitCoins
    <2>7. CASE \E target, c \in Input({"Coin"}) : MergeCoins(target, c)
      BY <2>7 DEF MergeCoins
    <2> QED
      BY <2>1, <2>2, <2>3, <2>4, <2>5, <2>6, <2>7, Zenon
  <1> QED
    BY <1>1, <1>2, FieldEnds, Zenon

-----------------------------------------------------------------------------
(* What a command does to Listings and to profits. *)

Listings(fs) == {f \in fs : f.name \in Id}

(* Listings and items whose fields stay keep their contents. *)
EscrowKept ==
    \A h \in field \cap field' :
        h.name \notin Address => obj'[h.value] = obj[h.value]

ProfitsKept == \A n \in Id, a \in Address : Profits(n, a)' = Profits(n, a)

ProfitsGrow(m, owner, ask) ==
    \A n \in Id, a \in Address :
        Profits(n, a)' = IF n = m /\ a = owner THEN Profits(n, a) + ask
                                               ELSE Profits(n, a)

ProfitsTaken(m) ==
    \A n \in Id, a \in Address :
        Profits(n, a)' = IF n = m /\ a = sender THEN 0 ELSE Profits(n, a)

(* A command off the fields has no effect. *)
LEMMA OffFieldEffect ==
    ASSUME TypeOK, Sound, Sound', field' = field,
           \A f \in field : obj'[f.value] = obj[f.value]
    PROVE  Listings(field') = Listings(field) /\ EscrowKept /\ ProfitsKept
  <1>1. FieldsInjective(field) /\ FieldsInjective(field')
    BY Zenon DEF Sound, StoreOK
  <1>2. ProfitsKept
    BY <1>1, ProfitsSame DEF ProfitsKept, Profits
  <1> QED
    BY <1>2, Zenon DEF EscrowKept

(* list adds one Listing of the sender. *)
LEMMA ListEffect ==
    ASSUME TypeOK, Sound, Sound', sender \in Address,
           NEW m \in SharedInput, NEW item \in Input(ItemType),
           NEW ask \in U64, NEW l \in Fresh, list(m, item, ask, l)
    PROVE  /\ Listings(field') = Listings(field) \cup {NewField(m, item, l)}
           /\ l \in Id /\ obj[l].type = "Free" /\ obj'[l] = ListingOf(ask, sender)
           /\ \A h \in Listings(field) : h.name # item
           /\ EscrowKept /\ ProfitsKept
  <1>1. /\ m \in Id /\ item \in Id /\ l \in Id
        /\ obj[l].type = "Free" /\ holder[item] # "Child"
        /\ holder[l] = "Nowhere"
    BY InputEnds, Zenon
  <1>2. /\ obj' = [obj EXCEPT ![l] = ListingOf(ask, sender)]
        /\ field' = field \cup {NewField(l, "true", item), NewField(m, item, l)}
    BY Zenon DEF list
  <1>3. obj'[l] = ListingOf(ask, sender)
    BY <1>1, <1>2, Zenon DEF TypeOK
  <1>4. \A f \in field : f.value \in Id /\ obj'[f.value] = obj[f.value]
    BY <1>1, <1>2, FieldEnds, Zenon DEF TypeOK
  <1>5. Listings(field') = Listings(field) \cup {NewField(m, item, l)}
    BY <1>1, <1>2, ConstantsAssumption DEF Listings, NewField
  <1>6. \A h \in Listings(field) : h.name # item
    <2> SUFFICES ASSUME NEW h \in field, h.name = item PROVE FALSE
      BY Zenon DEF Listings
    <2>1. PICK g \in field : g.value = item
      BY <1>1, Zenon DEF Sound, StoreOK, ListingsHoldTheirItem
    <2> QED
      BY <1>1, <2>1, FieldEnds, Zenon
  <1>7. FieldsInjective(field) /\ FieldsInjective(field')
    BY Zenon DEF Sound, StoreOK
  <1>8. \A p \in field' : p.name \in Address => p \in field
    BY <1>1, <1>2, ConstantsAssumption DEF NewField
  <1>9. ASSUME NEW n \in Id, NEW a \in Address
        PROVE  ProfitsIn(obj', field', n, a) = ProfitsIn(obj, field, n, a)
    <2>1. \A p \in field : FieldAt(p, n, a) =>
                p \in field' /\ obj'[p.value].value = obj[p.value].value
      BY <1>2, <1>4, <1>7, <1>8, Zenon DEF FieldAt
    <2>2. \A p \in field' : FieldAt(p, n, a) => p \in field
      BY <1>2, <1>4, <1>7, <1>8, Zenon DEF FieldAt
    <2> QED
      BY <1>7, <2>1, <2>2, ProfitsSame
  <1>10. ProfitsKept
    BY <1>9, Zenon DEF ProfitsKept, Profits
  <1> QED
    BY <1>1, <1>3, <1>4, <1>5, <1>6, <1>10, Zenon DEF EscrowKept

(* delist takes out one Listing, and the sender is its owner. *)
LEMMA DelistEffect ==
    ASSUME TypeOK, Sound, Sound', sender \in Address,
           NEW m \in SharedInput, NEW i \in Id, NEW to, Delist(m, i, to)
    PROVE  \E f \in Listings(field) :
            /\ obj[f.value].owner = sender
            /\ Listings(field') = Listings(field) \ {f}
            /\ EscrowKept /\ ProfitsKept
  <1>1. m \in Id /\ obj[m].type = "Marketplace"
    BY InputEnds, Zenon
  <1>2. PICK f \in field, g \in field :
            /\ Unlist(m, i, f, g)
            /\ obj[f.value].owner = sender
            /\ obj' = [obj EXCEPT ![f.value] = Deleted]
            /\ field' = field \ {f, g}
    BY Zenon DEF Delist
  <1>3. /\ f.parent = m /\ f.name = i /\ f.value \in Id
        /\ g.name = "true"
        /\ \A h \in field \ {f, g} : h.value \notin {f.value, i}
    BY <1>1, <1>2, PairFacts
  <1>4. \A h \in field' : h.value \in Id /\ obj'[h.value] = obj[h.value]
    BY <1>2, <1>3, FieldEnds, Zenon DEF TypeOK
  <1>5. Listings(field') = Listings(field) \ {f}
    BY <1>2, <1>3, ConstantsAssumption, Zenon DEF Listings
  <1>6. FieldsInjective(field) /\ FieldsInjective(field')
    BY Zenon DEF Sound, StoreOK
  <1>7. \A p \in field : p.name \in Address => p \in field'
    BY <1>2, <1>3, ConstantsAssumption, Zenon
  <1>8. ASSUME NEW n \in Id, NEW a \in Address
        PROVE  ProfitsIn(obj', field', n, a) = ProfitsIn(obj, field, n, a)
    <2>1. \A p \in field : FieldAt(p, n, a) =>
                p \in field' /\ obj'[p.value].value = obj[p.value].value
      BY <1>2, <1>4, <1>6, <1>7, Zenon DEF FieldAt
    <2>2. \A p \in field' : FieldAt(p, n, a) => p \in field
      BY <1>2, <1>4, <1>6, <1>7, Zenon DEF FieldAt
    <2> QED
      BY <1>6, <2>1, <2>2, ProfitsSame
  <1>9. ProfitsKept
    BY <1>8, Zenon DEF ProfitsKept, Profits
  <1>10. EscrowKept
    BY <1>4, Zenon DEF EscrowKept
  <1> QED
    BY <1>2, <1>3, <1>5, <1>9, <1>10, Zenon DEF Listings

(* A sale to an owner with a Coin at the Marketplace adds the ask to it. *)
LEMMA SellByJoinEffect ==
    ASSUME TypeOK, Sound, Sound', sender \in Address,
           NEW m \in SharedInput, NEW i \in Id, NEW paid \in Input({"Coin"}),
           NEW to, NEW f \in field, NEW g \in field, Unlist(m, i, f, g),
           obj[f.value].ask = obj[paid].value, PayByJoin(m, paid, f, g, to)
    PROVE  /\ Listings(field') = Listings(field) \ {f}
           /\ EscrowKept
           /\ ProfitsGrow(m, obj[f.value].owner, obj[f.value].ask)
  <1>1. /\ m \in Id /\ obj[m].type = "Marketplace"
        /\ paid \in Id /\ obj[paid].type = "Coin" /\ holder[paid] # "Child"
    BY InputEnds, Zenon
  <1>2. PICK p \in field :
            /\ FieldAt(p, m, obj[f.value].owner)
            /\ obj' = [obj EXCEPT
                        ![f.value] = Deleted,
                        ![paid] = Deleted,
                        ![p.value] = CoinOf(obj[p.value].coin,
                                            obj[p.value].value + obj[paid].value)]
            /\ field' = field \ {f, g}
    BY Zenon DEF PayByJoin
  <1>3. /\ f.parent = m /\ f.name = i /\ f.value \in Id
        /\ g.name = "true" /\ obj[f.value].owner \in Address
        /\ \A h \in field \ {f, g} : h.value \notin {f.value, i}
    BY <1>1, PairFacts
  <1>4. p \notin {f, g} /\ p.name \in Address
    BY <1>2, <1>3, ConstantsAssumption, Zenon DEF FieldAt
  <1>5. /\ p.value \in Id /\ p.value # f.value /\ p.value # paid
        /\ \A h \in field : h.value \in Id /\ h.value # paid
    BY <1>1, <1>3, <1>4, FieldEnds, Zenon
  <1>6. obj'[p.value].value = obj[p.value].value + obj[f.value].ask
    BY <1>1, <1>2, <1>3, <1>5, Zenon DEF TypeOK, CoinOf
  <1>7. \A h \in field' : h # p => obj'[h.value] = obj[h.value]
    <2>1. \A h \in field' : h # p => h.value # p.value
      BY <1>2, Zenon DEF Sound, StoreOK, FieldsInjective
    <2> QED
      BY <1>1, <1>2, <1>3, <1>5, <2>1, Zenon DEF TypeOK
  <1>8. Listings(field') = Listings(field) \ {f}
    BY <1>2, <1>3, ConstantsAssumption, Zenon DEF Listings
  <1>9. EscrowKept
    BY <1>4, <1>7, Zenon DEF EscrowKept
  <1>10. FieldsInjective(field) /\ FieldsInjective(field')
    BY Zenon DEF Sound, StoreOK
  <1>11. \A q \in field : q.name \in Address => q \in field'
    BY <1>2, <1>3, ConstantsAssumption, Zenon
  <1>12. ProfitsIn(obj', field', m, obj[f.value].owner) =
            ProfitsIn(obj, field, m, obj[f.value].owner) + obj[f.value].ask
    <2>1. ProfitsIn(obj, field, m, obj[f.value].owner) = obj[p.value].value
      BY <1>2, <1>10, ProfitsFound
    <2>2. p \in field' /\ FieldAt(p, m, obj[f.value].owner)
      BY <1>2, <1>4, <1>11, Zenon
    <2>3. ProfitsIn(obj', field', m, obj[f.value].owner) = obj'[p.value].value
      BY <1>10, <2>2, ProfitsFound
    <2> QED
      BY <1>6, <2>1, <2>3, Zenon
  <1>13. ASSUME NEW n \in Id, NEW a \in Address,
                ~ (n = m /\ a = obj[f.value].owner)
         PROVE  ProfitsIn(obj', field', n, a) = ProfitsIn(obj, field, n, a)
    <2>1. \A q \in field : FieldAt(q, n, a) =>
                q \in field' /\ obj'[q.value].value = obj[q.value].value
      BY <1>2, <1>7, <1>11, <1>13, Zenon DEF FieldAt
    <2>2. \A q \in field' : FieldAt(q, n, a) => q \in field
      BY <1>2, Zenon
    <2> QED
      BY <1>10, <2>1, <2>2, ProfitsSame
  <1> QED
    BY <1>8, <1>9, <1>12, <1>13, Zenon DEF ProfitsGrow, Profits

(* A sale to an owner without one leaves them the Coin that was paid. *)
LEMMA SellByAddEffect ==
    ASSUME TypeOK, Sound, Sound', sender \in Address,
           NEW m \in SharedInput, NEW i \in Id, NEW paid \in Input({"Coin"}),
           NEW to, NEW f \in field, NEW g \in field, Unlist(m, i, f, g),
           obj[f.value].ask = obj[paid].value, PayByAdd(m, paid, f, g, to)
    PROVE  /\ Listings(field') = Listings(field) \ {f}
           /\ EscrowKept
           /\ ProfitsGrow(m, obj[f.value].owner, obj[f.value].ask)
  <1> DEFINE owner == obj[f.value].owner
             p == NewField(m, owner, paid)
  <1>1. /\ m \in Id /\ obj[m].type = "Marketplace"
        /\ paid \in Id /\ obj[paid].type = "Coin" /\ holder[paid] # "Child"
    BY InputEnds, Zenon
  <1>2. /\ ~ exists_(field, m, owner)
        /\ obj' = [obj EXCEPT ![f.value] = Deleted]
        /\ field' = (field \ {f, g}) \cup {p}
    BY Zenon DEF PayByAdd
  <1>3. /\ f.parent = m /\ f.name = i /\ f.value \in Id
        /\ g.name = "true" /\ owner \in Address
        /\ obj[f.value].type = "Listing" /\ obj[f.value].ask \in U64
        /\ \A h \in field \ {f, g} : h.value \notin {f.value, i}
    BY <1>1, PairFacts
  <1>4. p.parent = m /\ p.name = owner /\ p.value = paid
    BY Zenon DEF NewField
  <1>5. obj'[paid] = obj[paid]
    BY <1>1, <1>2, <1>3, Zenon DEF TypeOK
  <1>6. \A h \in field \ {f, g} : obj'[h.value] = obj[h.value]
    BY <1>2, <1>3, FieldEnds, Zenon DEF TypeOK
  <1>7. FieldsInjective(field) /\ FieldsInjective(field')
    BY Zenon DEF Sound, StoreOK
  <1> HIDE DEF p, owner
  <1>8. Listings(field') = Listings(field) \ {f}
    BY <1>2, <1>3, <1>4, ConstantsAssumption, Zenon DEF Listings
  <1>9. EscrowKept
    BY <1>2, <1>3, <1>4, <1>6, Zenon DEF EscrowKept
  <1>10. ProfitsIn(obj', field', m, owner) =
            ProfitsIn(obj, field, m, owner) + obj[f.value].ask
    <2>1. ProfitsIn(obj, field, m, owner) = 0
      BY <1>2, ProfitsMissing, Zenon
    <2>0. p \in field' /\ FieldAt(p, m, owner)
      BY <1>2, <1>4, Zenon DEF FieldAt
    <2>2. ProfitsIn(obj', field', m, owner) = obj'[p.value].value
      BY <1>7, <2>0, ProfitsFound
    <2>3. obj'[p.value].value = obj[f.value].ask
      BY <1>4, <1>5, Zenon
    <2>4. obj[f.value].ask \in Nat
      BY <1>3, ConstantsAssumption DEF U64
    <2> QED
      BY <2>1, <2>2, <2>3, <2>4
  <1>11. ASSUME NEW n \in Id, NEW a \in Address, ~ (n = m /\ a = owner)
         PROVE  ProfitsIn(obj', field', n, a) = ProfitsIn(obj, field, n, a)
    <2>1. \A q \in field : FieldAt(q, n, a) =>
                q \in field' /\ obj'[q.value].value = obj[q.value].value
      BY <1>2, <1>3, <1>6, ConstantsAssumption, Zenon DEF FieldAt
    <2>2. \A q \in field' : FieldAt(q, n, a) => q \in field
      BY <1>2, <1>4, <1>11, Zenon DEF FieldAt
    <2> QED
      BY <1>7, <2>1, <2>2, ProfitsSame
  <1> QED
    BY <1>8, <1>9, <1>10, <1>11, Zenon DEF ProfitsGrow, Profits, owner

(* take_profits empties the sender's account at one Marketplace. *)
LEMMA TakeEffect ==
    ASSUME TypeOK, Sound, Sound', sender \in Address,
           NEW m \in SharedInput, NEW to, TakeProfits(m, to)
    PROVE  /\ Listings(field') = Listings(field)
           /\ EscrowKept
           /\ ProfitsTaken(m)
  <1>1. PICK p \in field : FieldAt(p, m, sender) /\ field' = field \ {p}
    BY Zenon DEF TakeProfits
  <1>2. obj' = obj
    BY Zenon DEF TakeProfits
  <1>3. FieldsInjective(field) /\ FieldsInjective(field')
    BY Zenon DEF Sound, StoreOK
  <1>4. Listings(field') = Listings(field)
    BY <1>1, ConstantsAssumption, Zenon DEF Listings, FieldAt
  <1>5. ProfitsIn(obj', field', m, sender) = 0
    <2>1. ~ exists_(field', m, sender)
      BY <1>1, <1>3, Zenon DEF exists_, FieldAt, FieldsInjective
    <2> QED
      BY <2>1, ProfitsMissing, Zenon
  <1>6. ASSUME NEW n \in Id, NEW a \in Address, ~ (n = m /\ a = sender)
        PROVE  ProfitsIn(obj', field', n, a) = ProfitsIn(obj, field, n, a)
    <2>1. \A q \in field : FieldAt(q, n, a) =>
                q \in field' /\ obj'[q.value].value = obj[q.value].value
      BY <1>1, <1>2, <1>6, Zenon DEF FieldAt
    <2>2. \A q \in field' : FieldAt(q, n, a) => q \in field
      BY <1>1, Zenon
    <2> QED
      BY <1>3, <2>1, <2>2, ProfitsSame
  <1> QED
    BY <1>2, <1>4, <1>5, <1>6, Zenon DEF EscrowKept, ProfitsTaken, Profits

(* Every command has one of five effects. *)
LEMMA CommandEffect ==
    ASSUME TypeOK, Sound, sender \in Address, ExecuteCommand
    PROVE  /\ EscrowKept
           /\ \/ Listings(field') = Listings(field) /\ ProfitsKept
              \/ \E m, item, l \in Id, ask \in U64 :
                    /\ Listings(field') =
                            Listings(field) \cup {NewField(m, item, l)}
                    /\ obj[l].type = "Free" /\ obj'[l] = ListingOf(ask, sender)
                    /\ \A h \in Listings(field) : h.name # item
                    /\ ProfitsKept
              \/ \E f \in Listings(field) :
                    /\ obj[f.value].owner = sender
                    /\ Listings(field') = Listings(field) \ {f}
                    /\ ProfitsKept
              \/ \E f \in Listings(field) :
                    /\ Listings(field') = Listings(field) \ {f}
                    /\ ProfitsGrow(f.parent, obj[f.value].owner,
                                   obj[f.value].ask)
              \/ \E m \in Id :
                    /\ Listings(field') = Listings(field)
                    /\ ProfitsTaken(m)
  <1>1. Sound'
    BY CommandSound, Zenon
  <1>2. CASE \E m \in SharedInput : Call(m)
    <2>1. PICK m \in SharedInput : Call(m)
      BY <1>2, Zenon
    <2>2. m \in Id /\ obj[m].type = "Marketplace"
      BY InputEnds, Zenon
    <2>3. CASE \E item \in Input(ItemType), ask \in U64, listing \in Fresh :
                    list(m, item, ask, listing)
      BY <1>1, <2>2, <2>3, ListEffect, InputEnds
    <2>4. CASE \E i \in Id : delist(m, i) \/ delist_and_take(m, i)
      BY <1>1, <2>2, <2>4, DelistEffect, Zenon DEF delist, delist_and_take
    <2>5. CASE \E i \in Id, paid \in Input({"Coin"}) :
                    buy(m, i, paid) \/ buy_and_take(m, i, paid)
      <3>1. PICK i \in Id, paid \in Input({"Coin"}), to \in {"Hand", sender} :
                    Buy(m, i, paid, to)
        BY <2>5, Zenon DEF buy, buy_and_take
      <3>2. PICK f \in field, g \in field :
                    /\ Unlist(m, i, f, g)
                    /\ obj[f.value].ask = obj[paid].value
                    /\ \/ PayByJoin(m, paid, f, g, to)
                       \/ PayByAdd(m, paid, f, g, to)
        BY <3>1, Zenon DEF Buy
      <3>3. f.parent = m /\ f \in Listings(field)
        BY <2>2, <3>2, PairFacts, SMTT(30) DEF Listings
      <3>4. /\ Listings(field') = Listings(field) \ {f}
            /\ EscrowKept
            /\ ProfitsGrow(m, obj[f.value].owner, obj[f.value].ask)
        BY <1>1, <3>2, SellByJoinEffect, SellByAddEffect, Zenon
      <3> QED
        BY <3>3, <3>4, Zenon
    <2>6. CASE take_profits(m) \/ take_profits_and_keep(m)
      BY <1>1, <2>2, <2>6, TakeEffect, Zenon DEF take_profits, take_profits_and_keep
    <2> QED
      BY <2>1, <2>3, <2>4, <2>5, <2>6, Zenon DEF Call
  <1>3. CASE ~ \E m \in SharedInput : Call(m)
    <2>1. field' = field /\ \A f \in field : obj'[f.value] = obj[f.value]
      BY <1>3, OffFieldKeeps, Zenon DEF ExecuteCommand
    <2> QED
      BY <1>1, <2>1, OffFieldEffect, Zenon
  <1> QED
    BY <1>2, <1>3, Zenon

-----------------------------------------------------------------------------
(* What other accounts can rely on. *)

(* A command of one sender takes at most one listing from another account, *)
(* and then adds exactly its ask to the account's profits.                 *)
LEMMA CommandSettles ==
    ASSUME TypeOK, StoresSound, Command, ExecuteCommand,
           NEW m \in Id, NEW a \in Address \ {sender}
    PROVE  /\ ListedBy(m, a)' \subseteq ListedBy(m, a)
           /\ ListedBy(m, a)' = ListedBy(m, a) => Profits(m, a)' = Profits(m, a)
           /\ \A f \in ListedBy(m, a) \ ListedBy(m, a)' :
                    /\ ListedBy(m, a)' = ListedBy(m, a) \ {f}
                    /\ Profits(m, a)' = Profits(m, a) + obj[f.value].ask
  <1>1. sender \in Address /\ Sound
    BY Zenon DEF Command, TypeOK, StoresSound, Sound
  <1>2. ListedBy(m, a) = {f \in Listings(field) :
                              f.parent = m /\ obj[f.value].owner = a}
    BY Zenon DEF ListedBy, Listings
  <1>3. ListedBy(m, a)' = {f \in Listings(field') :
                              f.parent = m /\ obj'[f.value].owner = a}
    BY Zenon DEF ListedBy, Listings
  <1>4. \A f \in Listings(field) \cap Listings(field') :
              obj'[f.value] = obj[f.value]
    BY <1>1, CommandEffect, ConstantsAssumption, Zenon DEF EscrowKept, Listings
  <1>5. CASE Listings(field') = Listings(field) /\ ProfitsKept
    BY <1>2, <1>3, <1>4, <1>5, Zenon DEF ProfitsKept
  <1>6. CASE \E n, item, l \in Id, ask \in U64 :
                  /\ Listings(field') =
                          Listings(field) \cup {NewField(n, item, l)}
                  /\ obj'[l] = ListingOf(ask, sender)
                  /\ ProfitsKept
    <2>1. PICK n \in Id, item \in Id, l \in Id, ask \in U64 :
                  /\ Listings(field') =
                          Listings(field) \cup {NewField(n, item, l)}
                  /\ obj'[l] = ListingOf(ask, sender)
                  /\ ProfitsKept
      BY <1>6, Zenon
    <2>2. obj'[NewField(n, item, l).value].owner # a
      BY <2>1 DEF NewField, ListingOf
    <2>3. ListedBy(m, a)' = ListedBy(m, a)
      BY <1>2, <1>3, <1>4, <2>1, <2>2, Zenon
    <2> QED
      BY <2>1, <2>3, Zenon DEF ProfitsKept
  <1>7. CASE \E f \in Listings(field) :
                  /\ obj[f.value].owner = sender
                  /\ Listings(field') = Listings(field) \ {f}
                  /\ ProfitsKept
    <2>1. ListedBy(m, a)' = ListedBy(m, a)
      BY <1>2, <1>3, <1>4, <1>7, Zenon
    <2> QED
      BY <1>7, <2>1, Zenon DEF ProfitsKept
  <1>8. CASE \E f \in Listings(field) :
                  /\ Listings(field') = Listings(field) \ {f}
                  /\ ProfitsGrow(f.parent, obj[f.value].owner,
                                 obj[f.value].ask)
    <2>1. PICK f \in Listings(field) :
                  /\ Listings(field') = Listings(field) \ {f}
                  /\ ProfitsGrow(f.parent, obj[f.value].owner,
                                 obj[f.value].ask)
      BY <1>8, Zenon
    <2>2. CASE f.parent = m /\ obj[f.value].owner = a
      <3>1. ListedBy(m, a)' = ListedBy(m, a) \ {f} /\ f \in ListedBy(m, a)
        BY <1>2, <1>3, <1>4, <2>1, <2>2, Zenon
      <3>2. Profits(m, a)' = Profits(m, a) + obj[f.value].ask
        BY <2>1, <2>2, Zenon DEF ProfitsGrow
      <3> QED
        BY <3>1, <3>2, Zenon
    <2>3. CASE ~ (f.parent = m /\ obj[f.value].owner = a)
      <3>1. ListedBy(m, a)' = ListedBy(m, a)
        BY <1>2, <1>3, <1>4, <2>1, <2>3, Zenon
      <3>2. Profits(m, a)' = Profits(m, a)
        BY <2>1, <2>3, Zenon DEF ProfitsGrow
      <3> QED
        BY <3>1, <3>2, Zenon
    <2> QED
      BY <2>2, <2>3, Zenon
  <1>9. CASE \E n \in Id : /\ Listings(field') = Listings(field)
                            /\ ProfitsTaken(n)
    <2>1. ListedBy(m, a)' = ListedBy(m, a)
      BY <1>2, <1>3, <1>4, <1>9, Zenon
    <2>2. Profits(m, a)' = Profits(m, a)
      BY <1>9, Zenon DEF ProfitsTaken
    <2> QED
      BY <2>1, <2>2, Zenon
  <1> QED
    BY <1>1, <1>5, <1>6, <1>7, <1>8, <1>9, CommandEffect, Zenon

(* A command of one sender leaves the listings and the profits of everyone *)
(* else alone, except that it may sell a listing and then credits its ask. *)
THEOREM OthersAreMadeWhole == Spec => OthersMadeWhole
  <1> DEFINE Whole ==
        ncmd' = ncmd + 1 =>
            \A m \in Id, a \in Address \ {sender} :
                /\ ListedBy(m, a)' \subseteq ListedBy(m, a)
                /\ ListedBy(m, a)' = ListedBy(m, a) =>
                        Profits(m, a)' = Profits(m, a)
                /\ \A f \in ListedBy(m, a) \ ListedBy(m, a)' :
                        /\ ListedBy(m, a)' = ListedBy(m, a) \ {f}
                        /\ Profits(m, a)' = Profits(m, a) + obj[f.value].ask
  <1>1. TypeOK /\ StoresSound /\ [Next]_vars => [Whole]_vars
    <2> SUFFICES ASSUME TypeOK, StoresSound, Next, ncmd' = ncmd + 1,
                        NEW m \in Id, NEW a \in Address \ {sender}
                 PROVE
                /\ ListedBy(m, a)' \subseteq ListedBy(m, a)
                /\ ListedBy(m, a)' = ListedBy(m, a) =>
                        Profits(m, a)' = Profits(m, a)
                /\ \A f \in ListedBy(m, a) \ ListedBy(m, a)' :
                        /\ ListedBy(m, a)' = ListedBy(m, a) \ {f}
                        /\ Profits(m, a)' = Profits(m, a) + obj[f.value].ask
      BY Zenon
    <2>1. ncmd \in Nat
      BY GenesisAssumption DEF TypeOK
    <2>2. Command /\ ExecuteCommand
      BY <2>1 DEF Next, Begin, Commit, Abort
    <2> QED
      BY <2>2, CommandSettles, Zenon
  <1> QED
    BY <1>1, TypeCorrect, StoresAreSound, PTL DEF Spec, OthersMadeWhole

(* A Listing whose field is in two sound stores has its item's field in    *)
(* both.                                                                   *)
LEMMA ItemFieldToo ==
    ASSUME NEW o, NEW fs, fs \subseteq Field, ListingsHoldTheirItem(o, fs),
           NEW f \in fs, f.name \in Id
    PROVE  NewField(f.value, "true", f.name) \in fs
  <1>1. PICK g \in fs : FieldAt(g, f.value, "true") /\ g.value = f.name
    BY Zenon DEF ListingsHoldTheirItem
  <1>2. g = NewField(f.value, "true", f.name)
    BY <1>1, Zenon DEF FieldAt, NewField, Field
  <1> QED
    BY <1>1, <1>2, Zenon

(* No command frees an ID, and a field it adds for a Listing or an item    *)
(* has a new Listing at one end.                                           *)
LEMMA NewEnds ==
    ASSUME TypeOK, Sound, sender \in Address, ExecuteCommand
    PROVE  /\ \A i \in Id : obj'[i].type = "Free" => obj[i].type = "Free"
           /\ \A h \in field' \ field :
                \/ h.name \in Address
                \/ h.name \in Id /\ obj[h.value].type = "Free"
                \/ h.name = "true" /\ obj[h.parent].type = "Free"
  <1>1. CASE \E m \in Fresh, coin \in CoinType : create(m, coin)
    BY <1>1, InputEnds, ContentsFields, SMTT(30)
       DEF create, TypeOK
  <1>2. CASE \E nft \in Fresh, d \in Description : mint_to_sender(nft, d)
    BY <1>2, InputEnds, ContentsFields, SMTT(30)
       DEF mint_to_sender, TypeOK
  <1>3. CASE \E i \in Input(ItemType), r \in Address : transfer(i, r)
    BY <1>3, InputEnds, ContentsFields, Zenon
       DEF transfer, TypeOK
  <1>4. CASE \E nft \in Input({"BookNFT"}), d \in Description :
                update_description(nft, d)
    BY <1>4, InputEnds, ContentsFields
       DEF update_description, TypeOK
  <1>5. CASE \E nft \in Input({"BookNFT"}) : burn(nft)
    BY <1>5, InputEnds, ContentsFields, Zenon
       DEF burn, TypeOK
  <1>6. CASE \E c \in Input({"Coin"}), amount \in U64, new \in Fresh :
                SplitCoins(c, amount, new)
    BY <1>6, InputEnds, ContentsFields, SMTT(30)
       DEF SplitCoins, TypeOK
  <1>7. CASE \E target, c \in Input({"Coin"}) : MergeCoins(target, c)
    BY <1>7, InputEnds, ContentsFields, SMTT(30)
       DEF MergeCoins, TypeOK
  <1>8. ASSUME NEW m \in SharedInput, NEW item \in Input(ItemType),
               NEW ask \in U64, NEW l \in Fresh, list(m, item, ask, l)
        PROVE  /\ \A i \in Id : obj'[i].type = "Free" => obj[i].type = "Free"
               /\ \A h \in field' \ field :
                    \/ h.name \in Id /\ obj[h.value].type = "Free"
                    \/ h.name = "true" /\ obj[h.parent].type = "Free"
    BY <1>8, InputEnds, ContentsFields DEF list, NewField, TypeOK
  <1>9. ASSUME NEW m \in SharedInput, NEW i \in Id, NEW to, Delist(m, i, to)
        PROVE  /\ \A j \in Id : obj'[j].type = "Free" => obj[j].type = "Free"
               /\ field' \subseteq field
    BY <1>9, InputEnds, ContentsFields, Zenon DEF Delist, TypeOK
  <1>10. ASSUME NEW m \in SharedInput, NEW to, TakeProfits(m, to)
         PROVE  obj' = obj /\ field' \subseteq field
    BY <1>10, Zenon DEF TakeProfits
  <1>11. ASSUME NEW m \in SharedInput, NEW i \in Id,
                NEW paid \in Input({"Coin"}), NEW to, Buy(m, i, paid, to)
         PROVE  /\ \A j \in Id : obj'[j].type = "Free" => obj[j].type = "Free"
                /\ \A h \in field' \ field : h.name \in Address
    <2>1. PICK f \in field, g \in field :
            /\ Unlist(m, i, f, g)
            /\ PayByJoin(m, paid, f, g, to) \/ PayByAdd(m, paid, f, g, to)
      BY <1>11, Zenon DEF Buy
    <2>2. obj[f.value].owner \in Address
      BY <2>1, InputEnds, PairFacts, Zenon
    <2>3. CASE PayByJoin(m, paid, f, g, to)
      BY <2>3, InputEnds, ContentsFields, SMTT(30) DEF PayByJoin, TypeOK
    <2>4. CASE PayByAdd(m, paid, f, g, to)
      BY <2>2, <2>4, InputEnds, ContentsFields, SMTT(30)
         DEF PayByAdd, NewField, TypeOK
    <2> QED
      BY <2>1, <2>3, <2>4, Zenon
  <1>12. CASE \E m \in SharedInput : Call(m)
    BY <1>8, <1>9, <1>10, <1>11, <1>12, Zenon
       DEF Call, delist, delist_and_take, buy, buy_and_take,
           take_profits, take_profits_and_keep
  <1> QED
    BY <1>1, <1>2, <1>3, <1>4, <1>5, <1>6, <1>7, <1>12, Zenon DEF ExecuteCommand

(* What the running transaction has left of the escrow it found: an abort  *)
(* gives back the contents these fields have now.                          *)
SinceBegin ==
    /\ \A i \in Id : obj[i].type = "Free" => committed.obj[i].type = "Free"
    /\ \A f \in field \cap committed.field :
            f.name \notin Address => obj[f.value] = committed.obj[f.value]

(* The escrow a transaction has left alone is the committed one, at every  *)
(* point of every transaction.                                             *)
LEMMA EscrowSinceBegin == Spec => []SinceBegin
  <1>1. Init => SinceBegin
    BY DEF Init, SinceBegin, Snapshot
  <1>2. TypeOK /\ StoresSound /\ SinceBegin /\ [Next]_vars => SinceBegin'
    <2> SUFFICES ASSUME TypeOK, StoresSound, SinceBegin, [Next]_vars
                 PROVE  SinceBegin'
      BY Zenon
    <2>1. CASE UNCHANGED vars \/ \E a \in Address : Begin(a)
      BY <2>1 DEF Begin, SinceBegin, vars, store
    <2>2. CASE Commit \/ Abort
      BY <2>2 DEF Commit, Abort, SinceBegin, Snapshot, store
    <2>3. CASE Command /\ ExecuteCommand
      <3>1. sender \in Address /\ Sound /\ committed' = committed
        BY <2>3, Zenon DEF Command, TypeOK, StoresSound, Sound
      <3>2. EscrowKept
        BY <2>3, <3>1, CommandEffect, Zenon
      <3>3. \A i \in Id :
                obj'[i].type = "Free" => committed.obj[i].type = "Free"
        BY <2>3, <3>1, NewEnds, Zenon DEF SinceBegin
      <3>4. ASSUME NEW h \in field' \cap committed.field, h.name \notin Address
            PROVE  obj'[h.value] = committed.obj[h.value]
        <4>1. h.parent \in Id /\ h.value \in Id
          BY Zenon DEF TypeOK, Field
        <4>2. h \in field
          <5> SUFFICES ASSUME h \notin field PROVE FALSE
            BY Zenon
          <5>1. \/ h.name \in Id /\ obj[h.value].type = "Free"
                \/ h.name = "true" /\ obj[h.parent].type = "Free"
            BY <2>3, <3>1, <3>4, NewEnds, Zenon
          <5>2. \/ h.name \in Id /\ committed.obj[h.value].type = "Free"
                \/ h.name = "true" /\ committed.obj[h.parent].type = "Free"
            BY <4>1, <5>1, Zenon DEF SinceBegin
          <5>3. /\ ListingsHoldTheirItem(committed.obj, committed.field)
                /\ ItemsAreListed(committed.obj, committed.field)
            BY Zenon DEF StoresSound, StoreOK
          <5> QED
            BY <5>2, <5>3, Zenon DEF ListingsHoldTheirItem, ItemsAreListed
        <4> QED
          BY <3>2, <3>4, <4>2 DEF EscrowKept, SinceBegin
      <3> QED
        BY <3>1, <3>3, <3>4, Zenon DEF SinceBegin
    <2> QED
      BY <2>1, <2>2, <2>3, Zenon DEF Next
  <1> QED
    BY <1>1, <1>2, TypeCorrect, StoresAreSound, PTL DEF Spec

(* Ask, owner and item of a listing that stays are frozen, also when a     *)
(* transaction that worked on other listings aborts.                       *)
THEOREM EscrowIsFrozen == Spec => EscrowFrozen
  <1> DEFINE Frozen ==
        \A f \in field \cap field' : f.name \in Id =>
            /\ obj'[f.value] = obj[f.value]
            /\ obj'[f.name] = obj[f.name]
  <1>1. TypeOK /\ StoresSound /\ TypeOK' /\ StoresSound' /\ SinceBegin
            /\ [Next]_vars => [Frozen]_vars
    <2> SUFFICES ASSUME TypeOK, StoresSound, TypeOK', StoresSound', SinceBegin,
                        Next, NEW f \in field \cap field', f.name \in Id
                 PROVE  obj'[f.value] = obj[f.value] /\ obj'[f.name] = obj[f.name]
      BY Zenon
    <2> DEFINE g == NewField(f.value, "true", f.name)
    <2>1. g.value = f.name /\ g.name \notin Address /\ f.name \notin Address
      BY ConstantsAssumption, Zenon DEF NewField
    <2>2. g \in field
      BY ItemFieldToo, Zenon DEF TypeOK, StoresSound, StoreOK
    <2>3. g \in field'
      BY ItemFieldToo, Zenon DEF TypeOK, StoresSound, StoreOK
    <2> HIDE DEF g
    <2>4. CASE (\E a \in Address : Begin(a)) \/ Commit
      BY <2>4, Zenon DEF Begin, Commit, store
    <2>5. CASE Abort
      <3>1. field' = committed.field /\ obj' = committed.obj
        BY <2>5, Zenon DEF Abort
      <3> QED
        BY <2>1, <2>2, <2>3, <3>1, Zenon DEF SinceBegin
    <2>6. CASE Command /\ ExecuteCommand
      <3>1. sender \in Address /\ Sound
        BY <2>6, Zenon DEF Command, TypeOK, StoresSound, Sound
      <3>2. EscrowKept
        BY <2>6, <3>1, CommandEffect, Zenon
      <3> QED
        BY <2>1, <2>2, <2>3, <3>2 DEF EscrowKept
    <2> QED
      BY <2>4, <2>5, <2>6, Zenon DEF Next
  <1> QED
    BY <1>1, TypeCorrect, StoresAreSound, EscrowSinceBegin, PTL
       DEF Spec, EscrowFrozen

-----------------------------------------------------------------------------
(* The refinement. *)

(* A command is a step of the ledger, or leaves it alone. *)
LEMMA CommandRefines ==
    ASSUME TypeOK, Sound, Command, ExecuteCommand
    PROVE  [Ledger!Next]_(Ledger!ledgerVars)
  <1> DEFINE O == OffersIn(obj, field)
             P == OffersIn(obj', field')
             D == OwedIn(obj, field)
             E == OwedIn(obj', field')
             saved == <<OffersIn(committed.obj, committed.field),
                        OwedIn(committed.obj, committed.field)>>
  <1>1. sender \in Address /\ sender # NoSender /\ UNCHANGED <<sender, committed>>
    BY Zenon DEF Command, TypeOK
  <1>2. FieldsInjective(field)
    BY Zenon DEF Sound, StoreOK
  <1>3. EscrowKept
    BY <1>1, CommandEffect, Zenon
  <1>4. \A h \in Listings(field) \cap Listings(field') :
            obj'[h.value] = obj[h.value]
    BY <1>3, ConstantsAssumption, Zenon DEF EscrowKept, Listings
  <1>5. D = [m \in Id |-> [a \in Address |-> Profits(m, a)]]
    BY Zenon DEF OwedIn, Profits
  <1>6. E = [m \in Id |-> [a \in Address |-> Profits(m, a)']]
    BY Zenon DEF OwedIn, Profits
  <1>7. ProfitsKept => E = D
    BY <1>5, <1>6, Zenon DEF ProfitsKept
  <1>8. Listings(field') = Listings(field) => P = O
    BY <1>4, OffersSame DEF Listings
  <1>9. ASSUME NEW f \in Listings(field),
               Listings(field') = Listings(field) \ {f}
        PROVE  P = O \ {OfferOf(obj, f)} /\ OfferOf(obj, f) \in O
    <2>1. f \in field /\ f.name \in Id
      BY Zenon DEF Listings
    <2>2. \A h : h \in field' /\ h.name \in Id
                    <=> h \in field /\ h.name \in Id /\ h # f
      BY <1>9, Zenon DEF Listings
    <2>3. \A h \in field' : h.name \in Id => obj'[h.value] = obj[h.value]
      BY <1>4, <1>9, Zenon DEF Listings
    <2>4. P = O \ {OfferOf(obj, f)}
      BY <1>2, <2>1, <2>2, <2>3, OfferGone
    <2> QED
      BY <2>1, <2>4, Zenon DEF OffersIn
  <1> HIDE DEF O, P, D, E
  <1>10. CASE Listings(field') = Listings(field) /\ ProfitsKept
    <2>1. P = O /\ E = D
      BY <1>7, <1>8, <1>10, Zenon
    <2> QED
      BY <1>1, <2>1, Zenon DEF Ledger!ledgerVars, O, P, D, E
  <1>11. CASE \E m, item, l \in Id, ask \in U64 :
                /\ Listings(field') = Listings(field) \cup {NewField(m, item, l)}
                /\ obj[l].type = "Free" /\ obj'[l] = ListingOf(ask, sender)
                /\ \A h \in Listings(field) : h.name # item
                /\ ProfitsKept
    <2>1. PICK m \in Id, item \in Id, l \in Id, ask \in U64 :
                /\ Listings(field') = Listings(field) \cup {NewField(m, item, l)}
                /\ obj'[l] = ListingOf(ask, sender)
                /\ \A h \in Listings(field) : h.name # item
                /\ ProfitsKept
      BY <1>11, Zenon
    <2> DEFINE new == [market |-> m, item |-> item, ask |-> ask, owner |-> sender]
    <2>2. OfferOf(obj', NewField(m, item, l)) = new
      BY <2>1 DEF OfferOf, NewField, ListingOf
    <2>3. P = {OfferOf(obj', h) : h \in Listings(field')}
      BY Zenon DEF P, OffersIn, Listings
    <2>4. O = {OfferOf(obj, h) : h \in Listings(field)}
      BY Zenon DEF O, OffersIn, Listings
    <2>5. \A h \in Listings(field) : OfferOf(obj', h) = OfferOf(obj, h)
      BY <1>4, <2>1, Zenon DEF OfferOf
    <2>6. P = O \cup {new}
      BY <2>1, <2>2, <2>3, <2>4, <2>5
    <2>7. \A o \in O : o.item # item
      BY <2>1, <2>4 DEF OfferOf
    <2>8. E = D
      BY <1>7, <2>1, Zenon
    <2>9. Ledger!List(m, item, ask)
      BY <1>1, <2>6, <2>7, <2>8, Zenon DEF Ledger!List, O, P, D, E
    <2> QED
      BY <2>9, Zenon DEF Ledger!Next
  <1>12. CASE \E f \in Listings(field) :
                /\ obj[f.value].owner = sender
                /\ Listings(field') = Listings(field) \ {f}
                /\ ProfitsKept
    <2>1. PICK f \in Listings(field) :
                /\ obj[f.value].owner = sender
                /\ Listings(field') = Listings(field) \ {f}
                /\ ProfitsKept
      BY <1>12, Zenon
    <2>2. P = O \ {OfferOf(obj, f)} /\ OfferOf(obj, f) \in O /\ E = D
      BY <1>7, <1>9, <2>1, Zenon
    <2>3. Ledger!Delist(OfferOf(obj, f))
      <3>1. OfferOf(obj, f).owner = sender
        BY <2>1, Zenon DEF OfferOf
      <3> QED
        BY <1>1, <2>2, <3>1, Zenon DEF Ledger!Delist, O, P, D, E
    <2> QED
      BY <2>2, <2>3, Zenon DEF Ledger!Next, O
  <1>13. CASE \E f \in Listings(field) :
                /\ Listings(field') = Listings(field) \ {f}
                /\ ProfitsGrow(f.parent, obj[f.value].owner, obj[f.value].ask)
    <2>1. PICK f \in Listings(field) :
                /\ Listings(field') = Listings(field) \ {f}
                /\ ProfitsGrow(f.parent, obj[f.value].owner, obj[f.value].ask)
      BY <1>13, Zenon
    <2>2. P = O \ {OfferOf(obj, f)} /\ OfferOf(obj, f) \in O
      BY <1>9, <2>1, Zenon
    <2> DEFINE o == OfferOf(obj, f)
    <2>3. /\ o.market = f.parent /\ o.owner = obj[f.value].owner
          /\ o.ask = obj[f.value].ask
      BY Zenon DEF OfferOf
    <2> HIDE DEF o
    <2>4. E = [D EXCEPT ![o.market][o.owner] = @ + o.ask]
      <3>1. ASSUME NEW n \in Id, NEW a \in Address
            PROVE  E[n][a] = IF n = o.market /\ a = o.owner
                             THEN D[n][a] + o.ask ELSE D[n][a]
        BY <1>5, <1>6, <2>1, <2>3, Zenon DEF ProfitsGrow
      <3> DEFINE F == [D EXCEPT ![o.market][o.owner] = @ + o.ask]
      <3>2. ASSUME NEW n \in Id
            PROVE  E[n] = F[n]
        <4>1. /\ D[n] = [a \in Address |-> D[n][a]]
              /\ E[n] = [a \in Address |-> E[n][a]]
          BY <1>5, <1>6, Zenon
        <4>2. CASE n = o.market
          <5>1. F[n] = [D[n] EXCEPT ![o.owner] = D[n][o.owner] + o.ask]
            BY <1>5, <4>2, Zenon
          <5> QED
            BY <3>1, <4>1, <4>2, <5>1
        <4>3. CASE n # o.market
          <5>1. F[n] = D[n]
            BY <1>5, <4>3, Zenon
          <5> QED
            BY <3>1, <4>1, <4>3, <5>1, Zenon
        <4> QED
          BY <4>2, <4>3, Zenon
      <3>3. E = [n \in Id |-> E[n]] /\ F = [n \in Id |-> F[n]]
        BY <1>5, <1>6, Zenon
      <3> QED
        BY <3>2, <3>3, Zenon
    <2>5. Ledger!Sell(o)
      BY <1>1, <2>2, <2>4, Zenon DEF Ledger!Sell, O, P, D, E, o
    <2> QED
      BY <2>2, <2>5, Zenon DEF Ledger!Next, O, o
  <1>14. CASE \E m \in Id : /\ Listings(field') = Listings(field)
                            /\ ProfitsTaken(m)
    <2>1. PICK m \in Id : /\ Listings(field') = Listings(field)
                          /\ ProfitsTaken(m)
      BY <1>14, Zenon
    <2>2. P = O
      BY <1>8, <2>1, Zenon
    <2>3. E = [D EXCEPT ![m][sender] = 0]
      BY <1>5, <1>6, <2>1, Zenon DEF ProfitsTaken
    <2>4. Ledger!TakeProfits(m)
      BY <1>1, <2>2, <2>3, Zenon DEF Ledger!TakeProfits, O, P, D, E
    <2> QED
      BY <2>1, <2>4, Zenon DEF Ledger!Next
  <1> QED
    BY <1>1, <1>10, <1>11, <1>12, <1>13, <1>14, CommandEffect, Zenon

(* The contract on objects, dynamic fields and coins implements the ledger *)
(* of offers and debts.                                                    *)
THEOREM MarketplaceImplementsLedger == Spec => ImplementsLedger
  <1>1. Init => Ledger!Init
    <2> SUFFICES ASSUME Init PROVE Ledger!Init
      BY Zenon
    <2>1. field = {} /\ committed = Snapshot /\ sender = NoSender
      BY Zenon DEF Init
    <2>2. committed.obj = obj /\ committed.field = field
      BY <2>1, Zenon DEF Snapshot
    <2>3. OffersIn(obj, field) = {}
      BY <2>1, Zenon DEF OffersIn
    <2>4. \A m, a : ProfitsIn(obj, field, m, a) = 0
      BY <2>1, Zenon DEF ProfitsIn, exists_
    <2>5. OwedIn(obj, field) = [m \in Id |-> [a \in Address |-> 0]]
      BY <2>4, Zenon DEF OwedIn
    <2> QED
      BY <2>1, <2>2, <2>3, <2>5, Zenon DEF Ledger!Init
  <1>2. TypeOK /\ StoresSound /\ [Next]_vars
            => [Ledger!Next]_(Ledger!ledgerVars)
    <2> SUFFICES ASSUME TypeOK, StoresSound, [Next]_vars
                 PROVE  [Ledger!Next]_(Ledger!ledgerVars)
      BY Zenon
    <2>1. CASE \E a \in Address : Begin(a)
      BY <2>1, Zenon DEF Begin, store, Ledger!Begin, Ledger!Next
    <2>2. CASE Commit
      BY <2>2, Zenon DEF Commit, store, Snapshot, Ledger!Commit, Ledger!Next
    <2>3. CASE Abort
      BY <2>3, Zenon DEF Abort, Ledger!Abort, Ledger!Next
    <2>4. CASE Command /\ ExecuteCommand
      BY <2>4, CommandRefines, Zenon DEF StoresSound, Sound
    <2>5. CASE UNCHANGED vars
      BY <2>5, Zenon DEF vars, store, Ledger!ledgerVars
    <2> QED
      BY <2>1, <2>2, <2>3, <2>4, <2>5, Zenon DEF Next
  <1> QED
    BY <1>1, <1>2, TypeCorrect, StoresAreSound, PTL
       DEF Spec, ImplementsLedger, Ledger!Spec

-----------------------------------------------------------------------------
(* A sum of amounts is the number of its units: pairs of a summand and a   *)
(* number up to its amount.  Counting gives the recursion that the library *)
(* defines sums by, so that the facts about finite sets become facts about *)
(* sums.                                                                   *)
Units(v, s, n) == {u \in s \X (1 .. n) : u[2] <= v[u[1]]}

(* The units of the amounts up to n of finitely many summands are finitely *)
(* many, and those of one summand are as many as its amount says.          *)
LEMMA UnitsSplit ==
    ASSUME NEW S, IsFiniteSet(S), NEW n \in Nat, NEW v \in [S -> 0 .. n],
           NEW s \in SUBSET S
    PROVE  /\ Cardinality(Units(v, s, n)) \in Nat
           /\ Cardinality(Units(v, {}, n)) = 0
           /\ \A x \in s : Cardinality(Units(v, s, n)) =
                    v[x] + Cardinality(Units(v, s \ {x}, n))
<1>1. ASSUME NEW t \in SUBSET S
      PROVE  IsFiniteSet(Units(v, t, n)) /\ Cardinality(Units(v, t, n)) \in Nat
  <2>1. IsFiniteSet(1 .. n)
    BY FS_Interval
  <2>2. IsFiniteSet(t)
    BY FS_Subset, Zenon
  <2>3. IsFiniteSet(t \X (1 .. n))
    BY <2>1, <2>2, FS_Product, Zenon
  <2>4. Units(v, t, n) \in SUBSET (t \X (1 .. n))
    BY Zenon DEF Units
  <2> QED BY <2>3, <2>4, FS_Subset, FS_CardinalityType, Zenon
<1>2. Cardinality(Units(v, {}, n)) = 0
  <2>1. Units(v, {}, n) = {}
    BY Zenon DEF Units
  <2> QED BY <2>1, FS_EmptySet, Zenon
<1>3. ASSUME NEW x \in s
      PROVE  Cardinality(Units(v, s, n)) = v[x] + Cardinality(Units(v, s \ {x}, n))
  <2> DEFINE A == Units(v, s \ {x}, n)
             B == {x} \X (1 .. v[x])
  <2>1. v[x] \in 0 .. n
    BY Zenon
  <2>2. IsFiniteSet(B) /\ Cardinality(B) = v[x]
    <3>1. IsFiniteSet({x}) /\ Cardinality({x}) = 1
      BY FS_Singleton, Zenon
    <3>2. PICK k \in Nat : k = v[x]
      BY <2>1
    <3>3. IsFiniteSet(1 .. k) /\ Cardinality(1 .. k) = IF 1 > k THEN 0 ELSE k - 1 + 1
      <4>1. k \in Int /\ 1 \in Int
        OBVIOUS
      <4> QED BY <4>1, FS_Interval, Zenon
    <3>4. Cardinality(1 .. k) = k
      BY <3>3
    <3>5. IsFiniteSet(B) /\ Cardinality(B) = Cardinality({x}) * Cardinality(1 .. k)
      BY <3>1, <3>2, <3>3, FS_Product, Zenon
    <3> QED BY <3>1, <3>2, <3>4, <3>5
  <2>3. Units(v, s, n) = A \cup B
    BY <2>1 DEF Units
  <2>4. A \cap B = {}
    BY Zenon DEF Units
  <2>5. IsFiniteSet(A) /\ Cardinality(A) \in Nat
    BY <1>1, Zenon
  <2>6. Cardinality(A \cap B) = 0
    BY <2>4, FS_EmptySet, Zenon
  <2> HIDE DEF A, B
  <2>7. Cardinality(A \cup B) = Cardinality(A) + Cardinality(B) - Cardinality(A \cap B)
    BY <2>2, <2>5, FS_Union, Zenon
  <2> QED BY <2>1, <2>2, <2>3, <2>5, <2>6, <2>7 DEF A
<1> QED BY <1>1, <1>2, <1>3, Zenon

(* The sum of the library is the number of units. *)
LEMMA SumIsUnits ==
    ASSUME NEW S, IsFiniteSet(S), NEW n \in Nat, NEW v \in [S -> 0 .. n]
    PROVE  SumFunction(v) = Cardinality(Units(v, S, n))
<1> DEFINE pick(s) == CHOOSE x \in s : TRUE
           Body(g) == [s \in SUBSET S |-> IF s = {} THEN 0
                                          ELSE v[pick(s)] + g[s \ {pick(s)}]]
           count == [s \in SUBSET S |-> Cardinality(Units(v, s, n))]
           iter == CHOOSE g : g = Body(g)
<1>1. SumFunction(v) = iter[S]
  BY Zenon DEF SumFunction, SumFunctionOnSet, FoldFunctionOnSet, MapThenFoldSet
<1>2. count = Body(count)
  <2>1. ASSUME NEW s \in SUBSET S
        PROVE  count[s] = IF s = {} THEN 0 ELSE v[pick(s)] + count[s \ {pick(s)}]
    <3>1. CASE s = {}
      BY <3>1, UnitsSplit, Zenon
    <3>2. CASE s # {}
      <4>1. pick(s) \in s
        BY <3>2, Zenon
      <4> HIDE DEF pick
      <4>2. Cardinality(Units(v, s, n)) =
                v[pick(s)] + Cardinality(Units(v, s \ {pick(s)}, n))
        BY <4>1, UnitsSplit
      <4> QED BY <3>2, <4>2, Zenon
    <3> QED BY <3>1, <3>2, Zenon
  <2> QED BY <2>1, Zenon
<1>3. iter = Body(iter)
  BY <1>2, Zenon
<1>4. ASSUME NEW s \in SUBSET S
      PROVE  iter[s] = IF s = {} THEN 0 ELSE v[pick(s)] + iter[s \ {pick(s)}]
  BY <1>3, Zenon
<1>5. ASSUME NEW s \in SUBSET S
      PROVE  count[s] = IF s = {} THEN 0 ELSE v[pick(s)] + count[s \ {pick(s)}]
  BY <1>2, Zenon
<1> DEFINE wrong == {s \in SUBSET S : iter[s] # count[s]}
<1>6. count[S] = Cardinality(Units(v, S, n))
  BY Zenon
<1> HIDE DEF iter, count
<1>7. wrong = {}
  <2> SUFFICES ASSUME wrong # {} PROVE FALSE
    BY Zenon
  <2>1. IsWellFoundedOn(StrictSubsetOrdering(S), SUBSET S)
    BY FS_StrictSubsetOrderingWellFounded, FS_FiniteSubsetsOfFinite, Zenon
  <2>2. PICK s \in wrong : \A t \in wrong : <<t, s>> \notin StrictSubsetOrdering(S)
    BY <2>1, WFMin, Zenon
  <2>3. s # {}
    BY <1>4, <1>5, Zenon
  <2>4. pick(s) \in s
    BY <2>3, Zenon
  <2>5. <<s \ {pick(s)}, s>> \in StrictSubsetOrdering(S)
    BY <2>4 DEF StrictSubsetOrdering
  <2>6. iter[s \ {pick(s)}] = count[s \ {pick(s)}]
    BY <2>2, <2>5, Zenon
  <2> QED BY <1>4, <1>5, <2>3, <2>6, Zenon
<1> QED BY <1>1, <1>6, <1>7, Zenon

(* Two summands are not more than the sum. *)
LEMMA SumBound ==
    ASSUME NEW S, IsFiniteSet(S), NEW n \in Nat, NEW v \in [S -> 0 .. n],
           NEW x \in S, NEW y \in S, x # y
    PROVE  SumFunction(v) \in Nat /\ v[x] + v[y] <= SumFunction(v)
<1>1. Cardinality(Units(v, S, n)) = v[x] + Cardinality(Units(v, S \ {x}, n))
  BY UnitsSplit
<1>2. Cardinality(Units(v, S \ {x}, n)) =
            v[y] + Cardinality(Units(v, (S \ {x}) \ {y}, n))
  BY UnitsSplit
<1>3. Cardinality(Units(v, (S \ {x}) \ {y}, n)) \in Nat
  BY UnitsSplit, Zenon
<1>4. v[x] \in Nat /\ v[y] \in Nat
  OBVIOUS
<1> QED BY <1>1, <1>2, <1>3, <1>4, SumIsUnits

(* Moving an amount from one summand to another keeps the sum. *)
LEMMA SumMoved ==
    ASSUME NEW S, IsFiniteSet(S), NEW n \in Nat,
           NEW v \in [S -> 0 .. n], NEW w \in [S -> 0 .. n],
           NEW x \in S, NEW y \in S, x # y, v[x] + v[y] = w[x] + w[y],
           \A z \in S \ {x, y} : v[z] = w[z]
    PROVE  SumFunction(v) = SumFunction(w)
<1> DEFINE rest(u) == Cardinality(Units(u, (S \ {x}) \ {y}, n))
<1>1. ASSUME NEW u \in [S -> 0 .. n]
      PROVE  SumFunction(u) = u[x] + (u[y] + rest(u))
  <2>1. Cardinality(Units(u, S, n)) = u[x] + Cardinality(Units(u, S \ {x}, n))
    BY UnitsSplit
  <2>2. Cardinality(Units(u, S \ {x}, n)) = u[y] + rest(u)
    BY UnitsSplit
  <2> QED BY <2>1, <2>2, SumIsUnits, Zenon
<1>2. rest(v) = rest(w)
  <2>1. Units(v, (S \ {x}) \ {y}, n) = Units(w, (S \ {x}) \ {y}, n)
    BY Zenon DEF Units
  <2> QED BY <2>1, Zenon
<1>3. rest(v) \in Nat
  BY UnitsSplit, Zenon
<1>4. v[x] \in Nat /\ v[y] \in Nat /\ w[x] \in Nat /\ w[y] \in Nat
  OBVIOUS
<1>5. /\ SumFunction(v) = v[x] + (v[y] + rest(v))
      /\ SumFunction(w) = w[x] + (w[y] + rest(w))
  BY <1>1, Zenon
<1> HIDE DEF rest
<1> QED BY <1>2, <1>3, <1>4, <1>5

(* Nothing adds up to 0, and a new summand adds its amount. *)
LEMMA SumExtended ==
    ASSUME NEW S, IsFiniteSet(S), NEW n \in Nat, NEW w \in [S -> 0 .. n], NEW x \in S
    PROVE  SumFunction(w) = w[x] + SumFunction([i \in S \ {x} |-> w[i]])
<1> DEFINE v == [i \in S \ {x} |-> w[i]]
<1>1. IsFiniteSet(S \ {x}) /\ v \in [S \ {x} -> 0 .. n]
  BY FS_RemoveElement, Zenon
<1>2. SumFunction(v) = Cardinality(Units(v, S \ {x}, n))
  BY <1>1, SumIsUnits, Zenon
<1>3. Units(v, S \ {x}, n) = Units(w, S \ {x}, n)
  BY Zenon DEF Units
<1>4. SumFunction(w) = Cardinality(Units(w, S, n))
  BY SumIsUnits, Zenon
<1>5. Cardinality(Units(w, S, n)) = w[x] + Cardinality(Units(w, S \ {x}, n))
  BY UnitsSplit
<1> QED BY <1>2, <1>3, <1>4, <1>5, Zenon

(* The sum over no summands. *)
LEMMA SumEmpty ==
    ASSUME NEW v, v \in [{} -> 0 .. 0]
    PROVE  SumFunction(v) = 0
<1>1. IsFiniteSet({}) /\ 0 \in Nat
  BY FS_EmptySet, Zenon
<1>2. SumFunction(v) = Cardinality(Units(v, {}, 0))
  BY <1>1, SumIsUnits, Zenon
<1>3. Units(v, {}, 0) = {}
  BY Zenon DEF Units
<1> QED BY <1>2, <1>3, FS_EmptySet, Zenon

-----------------------------------------------------------------------------
(* Money. *)

(* The amounts of a well-typed store. *)
LEMMA ValueType ==
    ASSUME NEW o \in [Id -> Object], NEW coin \in CoinType
    PROVE  ValueOf(o, coin) \in [Id -> 0 .. MaxU64] /\ MaxU64 \in Nat
<1>1. ASSUME NEW i \in Id, o[i].type = "Coin" PROVE o[i].value \in 0 .. MaxU64
  BY <1>1, ObjectCases, Zenon DEF U64
<1> QED BY <1>1, ConstantsAssumption DEF ValueOf

(* No command changes the sum of the values of all coins of a type: what a *)
(* split, a join or a purchase takes from one coin it adds to another.     *)
LEMMA CommandConserves ==
    ASSUME TypeOK, Sound, sender \in Address, ExecuteCommand, NEW coin \in CoinType
    PROVE  Total(obj', coin) = Total(obj, coin)
<1> DEFINE v == ValueOf(obj, coin)
           w == ValueOf(obj', coin)
           Same == \A i \in Id : \/ obj'[i] = obj[i]
                                 \/ obj[i].type # "Coin" /\ obj'[i].type # "Coin"
<1>1. obj \in [Id -> Object] /\ obj' \in [Id -> Object]
  BY CommandType, Zenon DEF TypeOK, TypedStore
<1>2. /\ v \in [Id -> 0 .. MaxU64] /\ w \in [Id -> 0 .. MaxU64]
      /\ MaxU64 \in Nat /\ IsFiniteSet(Id)
  BY <1>1, ValueType, SupplyAssumption, Zenon
<1>3. ASSUME Same PROVE Total(obj', coin) = Total(obj, coin)
  <2>1. v = w
    BY <1>3, Zenon DEF ValueOf
  <2> QED BY <2>1, Zenon DEF Total
<1>4. ASSUME NEW x \in Id, NEW y \in Id, x # y,
             obj[x].type = "Coin", obj'[x].type = "Coin", obj'[x].coin = obj[x].coin,
             obj[y].type = "Coin" => obj[y].coin = obj[x].coin,
             obj'[y].type = "Coin" => obj'[y].coin = obj[x].coin,
             obj[x].value + (IF obj[y].type = "Coin" THEN obj[y].value ELSE 0) =
                obj'[x].value + (IF obj'[y].type = "Coin" THEN obj'[y].value ELSE 0),
             \A i \in Id \ {x, y} : \/ obj'[i] = obj[i]
                                    \/ obj[i].type # "Coin" /\ obj'[i].type # "Coin"
      PROVE  Total(obj', coin) = Total(obj, coin)
  <2>1. \A z \in Id \ {x, y} : v[z] = w[z]
    BY <1>4, Zenon DEF ValueOf
  <2>2. v[x] + v[y] = w[x] + w[y]
    <3>1. CASE obj[x].coin = coin
      BY <1>4, <3>1, Zenon DEF ValueOf
    <3>2. CASE obj[x].coin # coin
      <4>1. v[x] = 0 /\ v[y] = 0 /\ w[x] = 0 /\ w[y] = 0
        BY <1>4, <3>2, Zenon DEF ValueOf
      <4> QED BY <4>1, Zenon
    <3> QED BY <3>1, <3>2, Zenon
  <2> HIDE DEF v, w
  <2>3. x \in Id /\ y \in Id /\ x # y
    BY <1>4, Zenon
  <2>4. SumFunction(v) = SumFunction(w)
    BY <1>2, <2>1, <2>2, <2>3, SumMoved
  <2> QED BY <2>4, Zenon DEF Total, v, w
<1> HIDE DEF v, w
<1>5. CASE \E m \in Fresh, c \in CoinType : create(m, c)
  <2>1. Same
    BY <1>1, <1>5, InputEnds, ContentsFields DEF create
  <2> QED BY <1>3, <2>1, Zenon
<1>6. CASE \E nft \in Fresh, d \in Description : mint_to_sender(nft, d)
  <2>1. Same
    BY <1>1, <1>6, InputEnds, ContentsFields DEF mint_to_sender
  <2> QED BY <1>3, <2>1, Zenon
<1>7. CASE \E i \in Input(ItemType), r \in Address : transfer(i, r)
  <2>1. Same
    BY <1>7, Zenon DEF transfer
  <2> QED BY <1>3, <2>1, Zenon
<1>8. CASE \E nft \in Input({"BookNFT"}), d \in Description :
            update_description(nft, d)
  <2>1. Same
    BY <1>1, <1>8, InputEnds, ContentsFields DEF update_description
  <2> QED BY <1>3, <2>1, Zenon
<1>9. CASE \E nft \in Input({"BookNFT"}) : burn(nft)
  <2>1. Same
    BY <1>9, InputEnds, ContentsFields, Zenon DEF burn, TypeOK
  <2> QED BY <1>3, <2>1, Zenon
<1>10. CASE \E c \in Input({"Coin"}), amount \in U64, new \in Fresh :
            SplitCoins(c, amount, new)
  <2>1. PICK c \in Input({"Coin"}), amount \in U64, new \in Fresh :
            SplitCoins(c, amount, new)
    BY <1>10, Zenon
  <2>2. /\ c \in Id /\ new \in Id /\ c # new
        /\ obj[c].type = "Coin" /\ obj[new].type = "Free"
    BY InputEnds, Zenon
  <2>3. /\ obj'[c] = CoinOf(obj[c].coin, obj[c].value - amount)
        /\ obj'[new] = CoinOf(obj[c].coin, amount)
        /\ \A i \in Id \ {c, new} : obj'[i] = obj[i]
    BY <1>1, <2>1, <2>2, Zenon DEF SplitCoins
  <2>4. obj[c].value \in Nat /\ amount \in Nat
    BY <1>1, <2>2, ObjectCases, ConstantsAssumption DEF U64
  <2>5. obj[c].value + 0 = (obj[c].value - amount) + amount
    BY <2>4
  <2> QED BY <1>4, <2>2, <2>3, <2>5, ContentsFields
<1>11. CASE \E target, c \in Input({"Coin"}) : MergeCoins(target, c)
  <2>1. PICK target \in Input({"Coin"}), c \in Input({"Coin"}) : MergeCoins(target, c)
    BY <1>11, Zenon
  <2>2. /\ c \in Id /\ target \in Id /\ c # target
        /\ obj[c].type = "Coin" /\ obj[target].type = "Coin"
        /\ obj[c].coin = obj[target].coin
    BY <2>1, InputEnds, Zenon DEF MergeCoins
  <2>3. /\ obj'[target] = CoinOf(obj[target].coin, obj[target].value + obj[c].value)
        /\ obj'[c] = Deleted
        /\ \A i \in Id \ {target, c} : obj'[i] = obj[i]
    BY <1>1, <2>1, <2>2, Zenon DEF MergeCoins
  <2>4. obj[c].value \in Nat /\ obj[target].value \in Nat
    BY <1>1, <2>2, ObjectCases, ConstantsAssumption DEF U64
  <2>5. obj[target].value + obj[c].value = (obj[target].value + obj[c].value) + 0
    BY <2>4
  <2> QED BY <1>4, <2>2, <2>3, <2>5, ContentsFields
<1>12. ASSUME NEW m \in SharedInput, NEW item \in Input(ItemType),
              NEW ask \in U64, NEW l \in Fresh, list(m, item, ask, l)
       PROVE  Same
  BY <1>12, InputEnds, ContentsFields, Zenon DEF list, TypeOK
<1>13. ASSUME NEW m \in SharedInput, NEW i \in Id, NEW to, Delist(m, i, to)
       PROVE  Same
  BY <1>13, InputEnds, ContentsFields, Zenon DEF Delist, Unlist, TypeOK
<1>14. ASSUME NEW m \in SharedInput, NEW to, TakeProfits(m, to)
       PROVE  Same
  BY <1>14, Zenon DEF TakeProfits
<1>15. ASSUME NEW m \in SharedInput, NEW i \in Id,
              NEW paid \in Input({"Coin"}), NEW to, Buy(m, i, paid, to)
       PROVE  Total(obj', coin) = Total(obj, coin)
  <2>1. PICK f \in field, g \in field :
            /\ Unlist(m, i, f, g) /\ obj[paid].coin = obj[m].coin
            /\ PayByJoin(m, paid, f, g, to) \/ PayByAdd(m, paid, f, g, to)
    BY <1>15, Zenon DEF Buy
  <2>2. /\ f.value \in Id /\ obj[f.value].type = "Listing"
        /\ paid \in Id /\ obj[paid].type = "Coin" /\ holder[paid] # "Child"
    BY <2>1, InputEnds, PairFacts
  <2>3. CASE PayByJoin(m, paid, f, g, to)
    <3>1. PICK p \in field :
            /\ obj[p.value].type = "Coin" /\ obj[p.value].coin = obj[m].coin
            /\ obj' = [obj EXCEPT
                    ![f.value] = Deleted, ![paid] = Deleted,
                    ![p.value] = CoinOf(obj[p.value].coin,
                                        obj[p.value].value + obj[paid].value)]
      BY <2>3, Zenon DEF PayByJoin
    <3>2. p.value \in Id /\ p.value # paid /\ p.value # f.value
      BY <2>2, <3>1, FieldEnds, Zenon
    <3>3. /\ obj'[p.value] = CoinOf(obj[p.value].coin, obj[p.value].value + obj[paid].value)
          /\ obj'[paid] = Deleted /\ obj'[f.value] = Deleted
          /\ \A j \in Id \ {p.value, paid, f.value} : obj'[j] = obj[j]
      BY <1>1, <2>2, <3>1, <3>2, Zenon
    <3>4. obj[p.value].value \in Nat /\ obj[paid].value \in Nat
      BY <1>1, <2>2, <3>1, <3>2, ObjectCases, ConstantsAssumption DEF U64
    <3>5. obj[p.value].value + obj[paid].value = (obj[p.value].value + obj[paid].value) + 0
      BY <3>4
    <3>6. /\ obj'[p.value].type = "Coin" /\ obj'[p.value].coin = obj[p.value].coin
          /\ obj'[p.value].value = obj[p.value].value + obj[paid].value
          /\ obj'[paid].type # "Coin" /\ obj'[f.value].type # "Coin"
      BY <3>3, ContentsFields
    <3>7. \A j \in Id \ {p.value, paid} :
                obj'[j] = obj[j] \/ (obj[j].type # "Coin" /\ obj'[j].type # "Coin")
      BY <2>2, <3>3, <3>6, Zenon
    <3>8. obj[paid].coin = obj[p.value].coin /\ obj[paid].type = "Coin"
      BY <2>1, <2>2, <3>1, Zenon
    <3>9. obj[p.value].value + (IF obj[paid].type = "Coin" THEN obj[paid].value ELSE 0) =
            obj'[p.value].value + (IF obj'[paid].type = "Coin" THEN obj'[paid].value ELSE 0)
      BY <3>5, <3>6, <3>8, Zenon
    <3>10. paid \in Id /\ obj[p.value].type = "Coin"
      BY <2>2, <3>1, Zenon
    <3> QED BY <1>4, <3>2, <3>6, <3>7, <3>8, <3>9, <3>10, Zenon
  <2>4. CASE PayByAdd(m, paid, f, g, to)
    <3>1. Same
      BY <1>1, <2>2, <2>4, ContentsFields, Zenon DEF PayByAdd
    <3> QED BY <1>3, <3>1, Zenon
  <2> QED BY <2>1, <2>3, <2>4, Zenon
<1>16. CASE \E m \in SharedInput : Call(m)
  BY <1>3, <1>12, <1>13, <1>14, <1>15, <1>16, Zenon
     DEF Call, delist, delist_and_take, buy, buy_and_take,
         take_profits, take_profits_and_keep
<1> QED
  BY <1>5, <1>6, <1>7, <1>8, <1>9, <1>10, <1>11, <1>16, Zenon DEF ExecuteCommand

(* The supply of every coin is the one at genesis in the working copy and  *)
(* in the committed store; an abort goes back to the latter.               *)
Conserved ==
    \A coin \in CoinType : /\ Total(obj, coin) = Total(GenesisObj, coin)
                           /\ Total(committed.obj, coin) = Total(GenesisObj, coin)

(* No step, an abort included, changes the supply of either store. *)
LEMMA ConservedAlways == Spec => []Conserved
<1>1. Init => Conserved
  BY DEF Init, Conserved, Snapshot
<1>2. TypeOK /\ StoresSound /\ Conserved /\ [Next]_vars => Conserved'
  <2> SUFFICES ASSUME TypeOK, StoresSound, Conserved, [Next]_vars,
                      NEW coin \in CoinType
               PROVE  /\ Total(obj', coin) = Total(GenesisObj, coin)
                      /\ Total(committed'.obj, coin) = Total(GenesisObj, coin)
    BY Zenon DEF Conserved, Total, ValueOf
  <2>1. CASE UNCHANGED vars \/ \E a \in Address : Begin(a)
    BY <2>1, Zenon DEF Begin, Conserved, vars, store
  <2>2. CASE Commit
    BY <2>2, Zenon DEF Commit, Conserved, Snapshot, store
  <2>3. CASE Abort
    BY <2>3, Zenon DEF Abort, Conserved
  <2>4. CASE Command /\ ExecuteCommand
    <3>1. sender \in Address /\ Sound /\ committed' = committed
      BY <2>4, Zenon DEF Command, TypeOK, StoresSound, Sound
    <3> QED BY <2>4, <3>1, CommandConserves, Zenon DEF Conserved
  <2> QED BY <2>1, <2>2, <2>3, <2>4, Zenon DEF Next
<1> QED BY <1>1, <1>2, TypeCorrect, StoresAreSound, PTL DEF Spec

(* No call creates or destroys money: join, split, purchases and aborted   *)
(* transactions only move it.                                              *)
THEOREM MoneyIsConserved == Spec => []ValueConserved
<1>1. Conserved => ValueConserved
  BY Zenon DEF Conserved, ValueConserved
<1> QED BY <1>1, ConservedAlways, PTL

(* A buyer with exactly the ask is never turned away: what hangs there for *)
(* the seller and what is paid are two coins of one supply, which is       *)
(* within u64.                                                             *)
THEOREM PaymentsFit == Spec => []PaymentFits
<1>1. TypeOK /\ StoresSound /\ Conserved => PaymentFits
  <2> SUFFICES ASSUME TypeOK, StoresSound, Conserved,
                      NEW f \in field, NEW c \in Id, f.name \in Id,
                      obj[c].type = "Coin", holder[c] # "Child",
                      obj[c].coin = obj[f.parent].coin,
                      obj[c].value = obj[f.value].ask
               PROVE  Profits(f.parent, obj[f.value].owner) + obj[c].value <= MaxU64
    BY Zenon DEF PaymentFits
  <2> DEFINE m == f.parent
             a == obj[f.value].owner
             v == ValueOf(obj, obj[m].coin)
  <2>1. Sound /\ FieldsInjective(field) /\ ProfitsAreCoins(obj, field)
    BY Zenon DEF StoresSound, StoreOK, Sound
  <2>2. f.value \in Id /\ obj[f.value].type = "Listing"
    BY <2>1, FieldEnds, Zenon DEF Sound, StoreOK, ListingsHoldTheirItem
  <2>3. a \in Address
    BY <2>2, ObjectCases, Zenon DEF TypeOK
  <2>4. obj[c].value \in 0 .. MaxU64 /\ obj[c].coin \in CoinType /\ MaxU64 \in Nat
    BY ObjectCases, ConstantsAssumption, Zenon DEF TypeOK, U64
  <2>5. CASE \E p \in field : FieldAt(p, m, a)
    <3>1. PICK p \in field : FieldAt(p, m, a)
      BY <2>5, Zenon
    <3>2. /\ p.value \in Id /\ p.value # c
          /\ obj[p.value].type = "Coin" /\ obj[p.value].coin = obj[m].coin
      BY <2>1, <2>3, <3>1, FieldEnds, Zenon DEF ProfitsAreCoins, FieldAt
    <3>3. Profits(m, a) = obj[p.value].value
      BY <2>1, <3>1, ProfitsFound, SMTT(30) DEF Profits
    <3>4. v \in [Id -> 0 .. MaxU64] /\ IsFiniteSet(Id)
      BY <2>4, ValueType, SupplyAssumption, Zenon DEF TypeOK
    <3>5. v[p.value] = obj[p.value].value /\ v[c] = obj[c].value
      BY <3>2, Zenon DEF ValueOf
    <3>6. SumFunction(v) \in Nat /\ SumFunction(v) <= MaxU64
      <4>1. SumFunction(v) = Total(GenesisObj, obj[m].coin)
        BY <2>4, Zenon DEF Conserved, Total
      <4>2. SumFunction(v) \in Nat
        BY <2>4, <3>2, <3>4, SumBound, Zenon
      <4> QED BY <2>4, <4>1, <4>2, SupplyAssumption, Zenon
    <3> HIDE DEF v
    <3>7. v[p.value] + v[c] <= SumFunction(v)
      BY <2>4, <3>2, <3>4, SumBound, Zenon
    <3>8. v[p.value] \in Nat /\ v[c] \in Nat
      BY <2>4, <3>2, <3>4
    <3> QED BY <2>4, <3>3, <3>5, <3>6, <3>7, <3>8, SMTT(30)
  <2>6. CASE ~ \E p \in field : FieldAt(p, m, a)
    <3>1. Profits(m, a) = 0
      BY <2>6, Zenon DEF Profits, ProfitsIn, exists_
    <3> QED BY <2>4, <3>1
  <2> QED BY <2>5, <2>6, Zenon
<1> QED BY <1>1, TypeCorrect, StoresAreSound, ConservedAlways, PTL

-----------------------------------------------------------------------------
(* Accounts. *)

(* The profits of an account are an amount. *)
LEMMA ProfitsType ==
    ASSUME NEW o \in [Id -> Object], NEW fs \in SUBSET Field, NEW m \in Id,
           NEW a \in Address, FieldsInjective(fs), ProfitsAreCoins(o, fs)
    PROVE  ProfitsIn(o, fs, m, a) \in Nat
<1>1. CASE exists_(fs, m, a)
  <2>1. PICK p \in fs : FieldAt(p, m, a)
    BY <1>1, Zenon DEF exists_
  <2>2. p.value \in Id /\ o[p.value].type = "Coin"
    BY <2>1, Zenon DEF FieldAt, ProfitsAreCoins, Field
  <2>3. o[p.value].value \in Nat
    BY <2>2, ObjectCases, ConstantsAssumption DEF U64
  <2> QED BY <2>1, <2>3, ProfitsFound
<1>2. CASE ~ exists_(fs, m, a)
  BY <1>2, ProfitsMissing
<1> QED BY <1>1, <1>2, Zenon

AsksOf(o, S) == [f \in S |-> o[f.value].ask]

(* An account with the listings C and the profits p at the beginning of a  *)
(* transaction, of which L are left, is settled when its profits are q.    *)
Settled(o, C, L, p, q) ==
    L \subseteq C /\ q = p + SumFunction(AsksOf(o, C \ L))

ProfitsBefore(m, a) == ProfitsIn(committed.obj, committed.field, m, a)

(* The property, account by account. *)
LEMMA SettledAccounts ==
    OthersSettled <=>
        \A m \in Id, a \in Address \ {sender} :
            Settled(committed.obj, CommittedListings(m, a), ListedBy(m, a),
                    ProfitsBefore(m, a), Profits(m, a))
BY Zenon DEF OthersSettled, Settled, AsksOf, ProfitsBefore

(* The asks of the committed listings can be added up one by one. *)
LEMMA CommittedAsks ==
    ASSUME TypeOK, StoresSound, NEW m \in Id, NEW a \in Address,
           NEW S \in SUBSET CommittedListings(m, a)
    PROVE  /\ SumFunction(AsksOf(committed.obj, S)) \in Nat
           /\ \A f \in S :
                /\ committed.obj[f.value].ask \in Nat
                /\ SumFunction(AsksOf(committed.obj, S)) =
                     committed.obj[f.value].ask +
                       SumFunction(AsksOf(committed.obj, S \ {f}))
<1> DEFINE asks == AsksOf(committed.obj, S)
<1>1. /\ committed.obj \in [Id -> Object] /\ S \subseteq committed.field
      /\ committed.field \subseteq Field /\ FieldsInjective(committed.field)
      /\ ListingsHoldTheirItem(committed.obj, committed.field)
  BY Zenon DEF TypeOK, StoresSound, StoreOK, CommittedListings
<1>2. \A f \in S : f.value \in Id /\ f.name \in Id
  BY <1>1, Zenon DEF Field, CommittedListings
<1>3. IsFiniteSet(S)
  <2> DEFINE at == [f \in S |-> f.value]
  <2>1. at \in Injection(S, Id)
    BY <1>1, <1>2, Zenon DEF FieldsInjective, Injection, IsInjective
  <2> QED BY <2>1, SupplyAssumption, FS_Injection, Zenon
<1>4. ASSUME NEW f \in S PROVE committed.obj[f.value].ask \in 0 .. MaxU64
  <2>1. committed.obj[f.value].type = "Listing"
    BY <1>1, <1>2, Zenon DEF ListingsHoldTheirItem
  <2> QED BY <1>1, <1>2, <2>1, ObjectCases, Zenon DEF U64
<1>5. asks \in [S -> 0 .. MaxU64] /\ MaxU64 \in Nat
  BY <1>4, ConstantsAssumption, Zenon DEF AsksOf
<1> HIDE DEF asks
<1>6. SumFunction(asks) \in Nat
  <2>1. SumFunction(asks) = Cardinality(Units(asks, S, MaxU64))
    BY <1>3, <1>5, SumIsUnits, Zenon
  <2> QED BY <1>3, <1>5, <2>1, UnitsSplit
<1>7. ASSUME NEW f \in S
      PROVE  SumFunction(asks) = committed.obj[f.value].ask +
                SumFunction(AsksOf(committed.obj, S \ {f}))
  <2>1. SumFunction(asks) = asks[f] + SumFunction([g \in S \ {f} |-> asks[g]])
    BY <1>3, <1>5, SumExtended
  <2>2. /\ asks[f] = committed.obj[f.value].ask
        /\ [g \in S \ {f} |-> asks[g]] = AsksOf(committed.obj, S \ {f})
    BY Zenon DEF asks, AsksOf
  <2> QED BY <2>1, <2>2, Zenon
<1>8. \A f \in S : committed.obj[f.value].ask \in Nat
  BY <1>4, <1>5
<1> QED BY <1>6, <1>7, <1>8, Zenon DEF asks

(* However far a transaction has come, every account but its sender's has  *)
(* its listings or their asks.                                             *)
THEOREM OthersAreSettled == Spec => []OthersSettled
<1> DEFINE At(m, a) == Settled(committed.obj, CommittedListings(m, a), ListedBy(m, a),
                               ProfitsBefore(m, a), Profits(m, a))
           Inv == \A m \in Id, a \in Address \ {sender} : At(m, a)
           Between == sender = NoSender
<1>1. TypeOK /\ StoresSound /\ Between => Inv
  <2> SUFFICES ASSUME TypeOK, StoresSound, sender = NoSender,
                      NEW m \in Id, NEW a \in Address
               PROVE  At(m, a)
    BY Zenon
  <2>1. obj = committed.obj /\ field = committed.field
    BY DEF StoresSound, Snapshot
  <2>2. ListedBy(m, a) = CommittedListings(m, a)
    BY <2>1, Zenon DEF ListedBy, CommittedListings
  <2> DEFINE asks == AsksOf(committed.obj, CommittedListings(m, a) \ ListedBy(m, a))
  <2>3. asks \in [{} -> 0 .. 0]
    BY <2>2, Zenon DEF AsksOf
  <2> HIDE DEF asks
  <2>4. SumFunction(asks) = 0
    BY <2>3, SumEmpty, Zenon
  <2>5. Profits(m, a) \in Nat
    BY ProfitsType, Zenon DEF Profits, TypeOK, StoresSound, StoreOK
  <2>6. Profits(m, a) = ProfitsBefore(m, a)
    BY <2>1, Zenon DEF Profits, ProfitsBefore
  <2> QED BY <2>2, <2>4, <2>5, <2>6 DEF asks, Settled
<1>2. TypeOK /\ StoresSound /\ SinceBegin /\ Inv /\ [Next]_vars
        => Inv' \/ Between'
  <2> SUFFICES ASSUME TypeOK, StoresSound, SinceBegin, Inv, [Next]_vars
               PROVE  Inv' \/ Between'
    BY Zenon
  <2>1. CASE UNCHANGED vars \/ \E a \in Address : Begin(a)
    <3>1. /\ obj' = obj /\ field' = field /\ committed' = committed
          /\ Address \ {sender'} \subseteq Address \ {sender}
      BY <2>1, ConstantsAssumption, Zenon DEF vars, store, Begin
    <3>2. \A m \in Id, a \in Address : At(m, a)' <=> At(m, a)
      BY <3>1, Zenon DEF CommittedListings, ListedBy, Profits, ProfitsBefore
    <3> HIDE DEF At
    <3> QED BY <3>1, <3>2, Zenon
  <2>2. CASE Commit \/ Abort
    BY <2>2, Zenon DEF Commit, Abort
  <2>3. CASE Command /\ ExecuteCommand
    <3>1. sender' = sender /\ committed' = committed
      BY <2>3, Zenon DEF Command
    <3> SUFFICES ASSUME NEW m \in Id, NEW a \in Address \ {sender}
                 PROVE  At(m, a)'
      BY <3>1, Zenon
    <3>2. PICK C, L, K, o, p, q, r :
            /\ C = CommittedListings(m, a) /\ o = committed.obj
            /\ L = ListedBy(m, a) /\ K = ListedBy(m, a)'
            /\ p = ProfitsBefore(m, a) /\ q = Profits(m, a) /\ r = Profits(m, a)'
      BY Zenon
    <3>3. At(m, a)' <=> Settled(o, C, K, p, r)
      BY <3>1, <3>2, Zenon DEF CommittedListings, ProfitsBefore
    <3>4. L \subseteq C /\ q = p + SumFunction(AsksOf(o, C \ L))
      BY <3>2, Zenon DEF Settled
    <3>5. /\ K \subseteq L
          /\ K = L => r = q
          /\ \A f \in L \ K : K = L \ {f} /\ r = q + obj[f.value].ask
      BY <2>3, <3>2, CommandSettles, Zenon
    <3>6. CASE K = L
      BY <3>3, <3>4, <3>5, <3>6, Zenon DEF Settled
    <3>7. CASE K # L
      <4>1. PICK f \in L \ K : TRUE
        BY <3>5, <3>7, Zenon
      <4>2. (C \ K) \ {f} = C \ L /\ f \in C \ K
        BY <3>4, <3>5, <4>1, Zenon
      <4>3. /\ SumFunction(AsksOf(o, C \ K)) =
                 o[f.value].ask + SumFunction(AsksOf(o, (C \ K) \ {f}))
            /\ o[f.value].ask \in Nat
            /\ SumFunction(AsksOf(o, C \ L)) \in Nat
        <5>1. C \ K \in SUBSET C /\ C \ L \in SUBSET C
          BY Zenon
        <5>2. ASSUME NEW S \in SUBSET C
              PROVE  /\ SumFunction(AsksOf(o, S)) \in Nat
                     /\ \A g \in S :
                          /\ o[g.value].ask \in Nat
                          /\ SumFunction(AsksOf(o, S)) =
                               o[g.value].ask + SumFunction(AsksOf(o, S \ {g}))
          BY <3>2, CommittedAsks, SMTT(30)
        <5> QED BY <4>2, <5>1, <5>2, Zenon
      <4>4. obj[f.value] = o[f.value]
        <5>1. f \in field \cap committed.field /\ f.name \in Id
          BY <3>2, <3>4, <4>1, Zenon DEF ListedBy, CommittedListings
        <5> QED BY <3>2, <5>1, ConstantsAssumption, Zenon DEF SinceBegin
      <4>5. p \in Nat
        BY <3>2, ProfitsType, Zenon DEF TypeOK, StoresSound, StoreOK, ProfitsBefore
      <4>6. r = q + obj[f.value].ask
        BY <3>5, <4>1, Zenon
      <4>7. SumFunction(AsksOf(o, (C \ K) \ {f})) = SumFunction(AsksOf(o, C \ L))
        BY <4>2, Zenon
      <4>8. r = p + SumFunction(AsksOf(o, C \ K))
        BY <3>4, <4>3, <4>4, <4>5, <4>6, <4>7, SMTT(30)
      <4> QED BY <3>3, <3>4, <3>5, <4>8, Zenon DEF Settled
    <3> QED BY <3>6, <3>7, Zenon
  <2> QED BY <2>1, <2>2, <2>3, Zenon DEF Next
<1>3. Init => Between
  BY Zenon DEF Init
<1>4. Inv => OthersSettled
  BY SettledAccounts, Zenon
<1> HIDE DEF Inv, Between
<1> QED BY <1>1, <1>2, <1>3, <1>4, TypeCorrect, StoresAreSound, EscrowSinceBegin, PTL DEF Spec
=============================================================================
