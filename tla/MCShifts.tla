------------------------------ MODULE MCShifts ------------------------------
(* One sale of 1, two shifts and two calls at a time, over four ticks.      *)
(* Calls are interchangeable, and so are shift ids.                         *)
EXTENDS Shifts, TLC

CONSTANTS o1, s1, s2, c1, c2

MCOrders == {o1}
MCShiftIds == {s1, s2}
MCCalls  == {c1, c2}
MCTotal  == [o \in MCOrders |-> 1]

Symmetry == Permutations(MCShiftIds) \cup Permutations(MCCalls)
=============================================================================
