----------------------------- MODULE MarketChain -----------------------------
(***************************************************************************)
(* The Marketplace as the pages see it: a function from the names of its   *)
(* dynamic fields to the Listings and Coins that hang there, traded by     *)
(* accounts.  Module Marketplace models the contract behind it.            *)
(***************************************************************************)
EXTENDS MarketCards, TLC

CONSTANTS
    Ask,        \* asks of Listings
    MaxIds      \* bound on the objects created

ASSUME ChainAssumption == Ask \subseteq Nat /\ MaxIds \in Nat

VARIABLES
    market,     \* what hangs at the Marketplace, by name
    loose,      \* Coins taken out of it
    burned,     \* books that no longer exist
    nextId      \* the next object ID

chain == <<market, loose, burned, nextId>>

Name == Account \cup Item

Without(n) == Restrict(market, DOMAIN market \ {n})

list(a, i, ask) ==
    /\ nextId <= MaxIds
    /\ i \notin burned \cup DOMAIN market
    /\ market' = (i :> ListingAt(nextId, ask, a)) @@ market
    /\ nextId' = nextId + 1
    /\ UNCHANGED <<loose, burned>>

delist(a, i) ==
    /\ i \in DOMAIN market
    /\ market[i].owner = a
    /\ market' = Without(i)
    /\ UNCHANGED <<loose, burned, nextId>>

(* The paid Coin is joined to the owner's, or hung under their address. *)
buy(i) ==
    /\ i \in DOMAIN market
    /\ LET owner == market[i].owner
       IN  \/ /\ owner \in DOMAIN market
              /\ market' = Without(i)
              /\ UNCHANGED nextId
           \/ /\ owner \notin DOMAIN market
              /\ nextId <= MaxIds
              /\ market' = (owner :> CoinAt(nextId)) @@ Without(i)
              /\ nextId' = nextId + 1
    /\ UNCHANGED <<loose, burned>>

take_profits(a) ==
    /\ a \in DOMAIN market
    /\ market' = Without(a)
    /\ loose' = loose \cup {market[a]}
    /\ UNCHANGED <<burned, nextId>>

burn(i) ==
    /\ i \notin burned \cup DOMAIN market
    /\ burned' = burned \cup {i}
    /\ UNCHANGED <<market, loose, nextId>>
=============================================================================
