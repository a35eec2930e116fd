----------------------- MODULE MarketplaceRefinement -----------------------
(***************************************************************************)
(* The marketplace of objects, dynamic fields and coins implements the     *)
(* escrow ledger.                                                          *)
(***************************************************************************)
EXTENDS Marketplace

OfferOf(o, f) ==
    [market |-> f.parent, item |-> f.name,
     ask |-> o[f.value].ask, owner |-> o[f.value].owner]

OffersIn(o, fs) == {OfferOf(o, f) : f \in {f \in fs : f.name \in Id}}

OwedIn(o, fs) == [m \in Id |-> [a \in Address |-> ProfitsIn(o, fs, m, a)]]

Ledger == INSTANCE EscrowLedger WITH
    Market <- Id,
    Item <- Id,
    Account <- Address,
    Ask <- U64,
    Nobody <- NoSender,
    offers <- OffersIn(obj, field),
    owed <- OwedIn(obj, field),
    by <- sender,
    saved <- <<OffersIn(committed.obj, committed.field),
               OwedIn(committed.obj, committed.field)>>

(* Every command of a transaction is a step of the ledger or changes none  *)
(* of it: list, delist, buy and take_profits do to the Listings and the    *)
(* hanging Coins what the ledger does to offers and debts, an abort brings *)
(* both back, and book_nft and the coin commands touch neither.            *)
ImplementsLedger == Ledger!Spec
=============================================================================
