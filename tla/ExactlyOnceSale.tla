-------------------------- MODULE ExactlyOnceSale --------------------------
(* What checkout promises of a set of sales paid by one customer: a sale    *)
(* that carries a client order id is recorded at most once, its points move *)
(* with it and only then, and nobody is told of a sale that is not there.   *)
EXTENDS Integers

CONSTANTS
    Sales,    \* sales somebody wants recorded
    Keyed,    \* those that carry a client order id
    Effect    \* what recording each one adds to the customer's points

VARIABLES
    recorded, \* sales with an order
    balance,  \* the customer's points
    told      \* sales whose client knows the order

Init == recorded = {} /\ balance \in Nat /\ told = {}

Record(s) ==
    /\ s \in Keyed => s \notin recorded
    /\ recorded' = recorded \cup {s}
    /\ balance' = balance + Effect[s]
    /\ UNCHANGED told

Tell(s) ==
    /\ s \in recorded
    /\ told' = told \cup {s}
    /\ UNCHANGED <<recorded, balance>>

Next == \E s \in Sales : Record(s) \/ Tell(s)

Spec == Init /\ [][Next]_<<recorded, balance, told>>
=============================================================================
