------------------------------ MODULE Objects ------------------------------
(***************************************************************************)
(* The Sui object store as the booknft package sees it: objects with a     *)
(* globally unique ID, a type and contents, each held by an address, by    *)
(* everyone, by the running transaction or by a dynamic object field.      *)
(*                                                                         *)
(* A dynamic object field is a Field object, found by the hash of its      *)
(* parent, its name and the name's type, whose value is the ID of the      *)
(* child.  The hash is taken to be injective, so a Field is the record     *)
(* [parent, name, value].  The package uses names of three types, ID,      *)
(* address and bool; the type is part of the hash, so the three name sets  *)
(* are disjoint here.                                                      *)
(***************************************************************************)
EXTENDS Integers, FiniteSets

CONSTANTS
    Address,        \* accounts that sign transactions
    Id,             \* object IDs, allocated once and never again
    CoinType,       \* the instances of the type parameter COIN
    Description,    \* values of a BookNFT's description
    MaxU64          \* 18446744073709551615 on chain; small under TLC

U64 == 0 .. MaxU64

(* Who has an object: an address, or one of these four. *)
Keepers == {"Shared", "Child", "Hand", "Nowhere"}
Holder == Address \cup Keepers

NoSender == "none"

(* Names of dynamic object fields: of type ID, of type address, and true. *)
Name == Id \cup Address \cup {"true"}

ASSUME ConstantsAssumption ==
    /\ MaxU64 \in Nat
    /\ Id \cap Address = {}
    /\ "true" \notin Id \cup Address
    /\ Address \cap (Keepers \cup {NoSender}) = {}

-----------------------------------------------------------------------------
(* Contents of objects. *)

Free == [type |-> "Free"]           \* an ID not yet allocated
Deleted == [type |-> "Deleted"]     \* an ID whose object is gone for good

MarketplaceOf(coin) == [type |-> "Marketplace", coin |-> coin]
ListingOf(ask, owner) == [type |-> "Listing", ask |-> ask, owner |-> owner]
BookNFTOf(author, description) ==
    [type |-> "BookNFT", author |-> author, description |-> description]
CoinOf(coin, value) == [type |-> "Coin", coin |-> coin, value |-> value]

Object ==
    {Free, Deleted}
        \cup [type: {"Marketplace"}, coin: CoinType]
        \cup [type: {"Listing"}, ask: U64, owner: Address]
        \cup [type: {"BookNFT"}, author: Address, description: Description]
        \cup [type: {"Coin"}, coin: CoinType, value: U64]

(* Types with key + store that can be an item of the marketplace. *)
ItemType == {"BookNFT", "Coin"}

Field == [parent: Id, name: Name, value: Id]

(* dynamic_field::hash_type_and_key finds at most one Field. *)
FieldAt(f, parent, name) == f.parent = parent /\ f.name = name

NewField(parent, name, value) ==
    [parent |-> parent, name |-> name, value |-> value]

(* dynamic_field::exists_with_type *)
exists_(fields, parent, name) == \E f \in fields : FieldAt(f, parent, name)
=============================================================================
