----------------------------- MODULE MCCustomers -----------------------------
(* Three requests, two phones, one email, two codes; points are given or    *)
(* taken.                                                                   *)
EXTENDS Customers, TLC

CONSTANTS r1, r2, r3, p1, p2, e1, c1, c2

MCRequests == {r1, r2, r3}
MCPhones   == {p1, p2}
MCEmails   == {e1}
MCCodes    == {c1, c2}
MCPoints   == {2, -1}

Symmetry == Permutations(MCRequests) \cup Permutations(MCPhones) \cup Permutations(MCCodes)
=============================================================================
