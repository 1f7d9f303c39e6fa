-------------------------- MODULE MCOrderLifecycle --------------------------
(* Three requests on one order that comes to 20.50 cents and is paid with   *)
(* 21 cents, or with 5 and 15, with two delivery rows; edits make it 10     *)
(* cents or 20.50.  Requests, payment ids and delivery ids are              *)
(* interchangeable.                                                         *)
EXTENDS OrderLifecycle, TLC

CONSTANTS r1, r2, r3, p1, p2, p3, d1, d2

MCRequests   == {r1, r2, r3}
MCPayments   == {p1, p2, p3}
MCDeliveries == {d1, d2}
MCTotals     == {1000, 2050}
MCTenders    == {500, 1500}

Symmetry == Permutations(MCRequests) \cup Permutations(MCPayments)
              \cup Permutations(MCDeliveries)
MCInit == Init /\ total = 2050
MCSpec == MCInit /\ [][Next]_vars
=============================================================================
