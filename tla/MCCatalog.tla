----------------------------- MODULE MCCatalog -----------------------------
(* Two products of one category, two sizes, one stock item; two calls, each *)
(* of which copies one product or both, and one act of an administrator.    *)
(* The first product starts as any product may be, the second is plain: the *)
(* target starts without the category.                                      *)
EXTENDS Catalog, TLC

CONSTANTS n1, n2, small, large, milk, drinks, c1, c2

MCNames      == {n1, n2}
MCCategoryOf == [n \in MCNames |-> drinks]
MCSizeNames  == {small, large}
MCCalls      == {c1, c2}

MCInit == Init /\ source[n2] = Empty /\ categories = {} /\ items = {}

MCSpec == MCInit /\ [][Next]_vars

Symmetry == Permutations(MCSizeNames) \cup Permutations(MCCalls)
=============================================================================
