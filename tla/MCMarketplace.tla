--------------------------- MODULE MCMarketplace ---------------------------
(***************************************************************************)
(* Instances of Settlement for TLC.  The IDs in FreshId are interchange-   *)
(* able: object::new may return any of them.                               *)
(***************************************************************************)
EXTENDS Settlement, MarketplaceRefinement, TLC

CONSTANTS a, b, market, coin1, coin2, book, f1, f2, SUI, d1, d2

FreshId == {f1, f2}
MCId == {market, coin1, coin2, book} \cup FreshId

MCGenesisObj ==
    [i \in MCId |->
        CASE i = market -> MarketplaceOf(SUI)
          [] i = coin1 -> CoinOf(SUI, 1)
          [] i = coin2 -> CoinOf(SUI, 1)
          [] i = book -> BookNFTOf(a, d1)
          [] OTHER -> Free]

MCGenesisHolder ==
    [i \in MCId |->
        CASE i = market -> "Shared"
          [] i = coin1 -> b
          [] i = coin2 -> b
          [] i = book -> a
          [] OTHER -> "Nowhere"]

CoinSymmetry == {p @@ q : p \in Permutations(FreshId), q \in Permutations({coin1, coin2})}
=============================================================================
