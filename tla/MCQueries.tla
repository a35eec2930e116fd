----------------------------- MODULE MCQueries -----------------------------
(***************************************************************************)
(* Two books, the user and one other account.  An index in which a Coin    *)
(* hangs before and after a Listing, and an answer that holds all but one  *)
(* of the four names.                                                      *)
(***************************************************************************)
EXTENDS MarketQueries

CONSTANTS peer, book1, book2

MCFieldOrder == <<me, book1, peer, book2>>
=============================================================================
