----------------------------- MODULE Settlement -----------------------------
(***************************************************************************)
(* What whole transactions do to the accounts of a Marketplace, and what   *)
(* all of them together do to the coins: properties that add up amounts.   *)
(***************************************************************************)
EXTENDS Marketplace, Functions

(* What each object adds to the supply of coin. *)
ValueOf(o, coin) ==
    [i \in Id |-> IF o[i].type = "Coin" /\ o[i].coin = coin THEN o[i].value ELSE 0]

Total(o, coin) == SumFunction(ValueOf(o, coin))

(* An ID has 32 bytes, and balance::increase_supply keeps the supply of a  *)
(* coin within u64.                                                        *)
ASSUME SupplyAssumption ==
    /\ IsFiniteSet(Id)
    /\ \A coin \in CoinType : Total(GenesisObj, coin) <= MaxU64

(* No call creates or destroys money: the values of all coins, wherever    *)
(* they are, add up to the supply after every command.                     *)
ValueConserved ==
    \A coin \in CoinType : Total(obj, coin) = Total(GenesisObj, coin)

(* A buyer who holds a Coin of exactly the ask is never turned away: the   *)
(* join with the seller's hanging Coin (line 107) cannot overflow u64.     *)
PaymentFits ==
    \A f \in field, c \in Id :
        /\ f.name \in Id
        /\ obj[c].type = "Coin" /\ holder[c] # "Child"
        /\ obj[c].coin = obj[f.parent].coin
        /\ obj[c].value = obj[f.value].ask
        => Profits(f.parent, obj[f.value].owner) + obj[c].value <= MaxU64

CommittedListings(m, a) ==
    {f \in committed.field :
        /\ f.parent = m /\ f.name \in Id
        /\ committed.obj[f.value].owner = a}

(* However many commands the running transaction has executed, every       *)
(* account but the sender's is settled with what it had before: its        *)
(* listings are still there, or its profits at that Marketplace have grown *)
(* by the sum of the asks of those that are gone.                          *)
OthersSettled ==
    \A m \in Id, a \in Address \ {sender} :
        LET sold == CommittedListings(m, a) \ ListedBy(m, a)
        IN  /\ ListedBy(m, a) \subseteq CommittedListings(m, a)
            /\ Profits(m, a) =
                 ProfitsIn(committed.obj, committed.field, m, a)
                   + SumFunction([f \in sold |-> committed.obj[f.value].ask])
=============================================================================
