---------------------------- MODULE EscrowLedger ----------------------------
(***************************************************************************)
(* What the marketplace promises, without objects, fields or coins: a      *)
(* ledger of offers and of the money owed to sellers, changed by           *)
(* transactions that take effect completely or not at all.                 *)
(***************************************************************************)
EXTENDS Integers

CONSTANTS Market, Item, Account, Ask, Nobody

VARIABLES
    offers,     \* the items on sale: where, at which ask, for whom
    owed,       \* money a market keeps for an account
    by,         \* the account whose transaction is running
    saved       \* offers and owed before it began

ledgerVars == <<offers, owed, by, saved>>

Init ==
    /\ offers = {}
    /\ owed = [m \in Market |-> [a \in Account |-> 0]]
    /\ by = Nobody
    /\ saved = <<offers, owed>>

Begin(a) == by = Nobody /\ by' = a /\ UNCHANGED <<offers, owed, saved>>

Commit ==
    /\ by # Nobody /\ by' = Nobody
    /\ saved' = <<offers, owed>>
    /\ UNCHANGED <<offers, owed>>

Abort ==
    /\ by # Nobody /\ by' = Nobody
    /\ <<offers', owed'>> = saved
    /\ UNCHANGED saved

(* Nothing is offered twice, and everyone offers in their own name. *)
List(m, i, ask) ==
    /\ by # Nobody
    /\ \A o \in offers : o.item # i
    /\ offers' = offers \cup
            {[market |-> m, item |-> i, ask |-> ask, owner |-> by]}
    /\ UNCHANGED <<owed, by, saved>>

(* Only the owner withdraws an offer. *)
Delist(o) ==
    /\ o.owner = by
    /\ offers' = offers \ {o}
    /\ UNCHANGED <<owed, by, saved>>

(* A sale owes the owner exactly the ask. *)
Sell(o) ==
    /\ by # Nobody
    /\ offers' = offers \ {o}
    /\ owed' = [owed EXCEPT ![o.market][o.owner] = @ + o.ask]
    /\ UNCHANGED <<by, saved>>

(* Only the account itself collects what it is owed. *)
TakeProfits(m) ==
    /\ by # Nobody
    /\ owed' = [owed EXCEPT ![m][by] = 0]
    /\ UNCHANGED <<offers, by, saved>>

Next ==
    \/ \E a \in Account : Begin(a)
    \/ Commit
    \/ Abort
    \/ \E m \in Market, i \in Item, ask \in Ask : List(m, i, ask)
    \/ \E o \in offers : Delist(o) \/ Sell(o)
    \/ \E m \in Market : TakeProfits(m)

Spec == Init /\ [][Next]_ledgerVars
=============================================================================
