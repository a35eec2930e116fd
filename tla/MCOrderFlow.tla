---------------------------- MODULE MCOrderFlow ----------------------------
(***************************************************************************)
(* A Coin hangs at the Marketplace.  Either one book of the other account  *)
(* is on sale, which may list it anew at another price or list the second  *)
(* book; or the user has an order to delist next to one of the other       *)
(* account.  The balance pays the gas of three transactions.               *)
(***************************************************************************)
EXTENDS OrderFlow

CONSTANTS peer, book1, book2

MCFieldOrder == <<me, book1, peer, book2>>

MCMarkets ==
    {(peer :> CoinAt(1)) @@ (book1 :> ListingAt(2, 1, peer)),
     (peer :> CoinAt(1)) @@ (book1 :> ListingAt(2, 2, me)) @@ (book2 :> ListingAt(3, 2, peer))}
=============================================================================
