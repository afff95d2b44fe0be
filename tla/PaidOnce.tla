------------------------------ MODULE PaidOnce ------------------------------
(***************************************************************************)
(* What the durable transaction store promises for each item it buys: a    *)
(* purchase is opened before anything is ordered, at most one order of an  *)
(* item can ever be charged, an item is reopened only when nothing ordered *)
(* for it can be charged any more, and an item once owned is never bought  *)
(* again.                                                                  *)
(***************************************************************************)
CONSTANTS Items, Orders

VARIABLES
    phase,   \* "open": may be bought, "pending": outcome not known, "owned"
    live     \* the orders of each item that may be charged

vars == <<phase, live>>

Init ==
    /\ phase = [i \in Items |-> "open"]
    /\ live = [i \in Items |-> {}]

OpenPurchase(i) ==
    /\ phase[i] = "open"
    /\ live[i] = {}
    /\ phase' = [phase EXCEPT ![i] = "pending"]
    /\ UNCHANGED live

\* The one order of a purchase goes out.
Order(i, o) ==
    /\ phase[i] = "pending"
    /\ live[i] = {}
    /\ live' = [live EXCEPT ![i] = {o}]
    /\ UNCHANGED phase

\* The seller refuses, loses or fails the order: it will never be charged.
Void(i) ==
    /\ live[i] # {}
    /\ live' = [live EXCEPT ![i] = {}]
    /\ UNCHANGED phase

TakeOwnership(i) ==
    /\ phase[i] = "pending"
    /\ phase' = [phase EXCEPT ![i] = "owned"]
    /\ UNCHANGED live

\* The purchase is proven to have bought nothing.
Reopen(i) ==
    /\ phase[i] = "pending"
    /\ live[i] = {}
    /\ phase' = [phase EXCEPT ![i] = "open"]
    /\ UNCHANGED live

Next == \E i \in Items :
    \/ OpenPurchase(i) \/ Void(i) \/ TakeOwnership(i) \/ Reopen(i)
    \/ \E o \in Orders : Order(i, o)

Spec == Init /\ [][Next]_vars
=============================================================================
