---------------------------- MODULE MCSettlement ----------------------------
(***************************************************************************)
(* An instance with two books of one seller and two coins of one buyer, so *)
(* that a single transaction can sell twice and the second payment joins   *)
(* the first.                                                              *)
(***************************************************************************)
EXTENDS Settlement, TLC

CONSTANTS seller, buyer, market, coin1, coin2, book1, book2, f1, f2, SUI, d1

MCId == {market, coin1, coin2, book1, book2, f1, f2}

MCGenesisObj ==
    [i \in MCId |->
        CASE i = market -> MarketplaceOf(SUI)
          [] i \in {coin1, coin2} -> CoinOf(SUI, 1)
          [] i \in {book1, book2} -> BookNFTOf(seller, d1)
          [] OTHER -> Free]

MCGenesisHolder ==
    [i \in MCId |->
        CASE i = market -> "Shared"
          [] i \in {coin1, coin2} -> buyer
          [] i \in {book1, book2} -> seller
          [] OTHER -> "Nowhere"]

(* The two coins, the two books and the two free IDs are interchangeable. *)
Symmetry ==
    {p @@ q @@ r : p \in Permutations({coin1, coin2}),
                   q \in Permutations({book1, book2}),
                   r \in Permutations({f1, f2})}
=============================================================================
