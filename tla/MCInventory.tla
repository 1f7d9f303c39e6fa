---------------------------- MODULE MCInventory ----------------------------
(* Three calls over three item ids, two branches and two names, with        *)
(* quantities of -1 and 1; at first one or two items, one used in recipes.  *)
EXTENDS Inventory, FiniteSets, TLC

CONSTANTS i1, i2, i3, b1, b2, n1, n2, c1, c2, c3

MCItems    == {i1, i2, i3}
MCBranches == {b1, b2}
MCNames    == {n1, n2}
MCCalls    == {c1, c2, c3}
MCChanges  == {-1, 1}

MCInit == Init /\ Cardinality(Here) \in {1, 2} /\ Cardinality(recipe) <= 1
MCSpec == MCInit /\ [][Next]_vars

Symmetry == Permutations(MCItems) \cup Permutations(MCCalls)
=============================================================================
