----------------------------- MODULE MCCheckout -----------------------------
(* Three sales of one customer who has 1 point unit: a counter sale that    *)
(* earns 1, a counter sale that redeems 1, and a website sale that redeems  *)
(* 1.  The counter sales may have two calls each under way.  Two calls of   *)
(* one sale are interchangeable.                                            *)
EXTENDS Checkout, TLC

CONSTANTS earn, redeem, web, e1, e2, r1, r2, w1

MCSales  == {earn, redeem, web}
MCCalls  == {e1, e2, r1, r2, w1}
MCSaleOf == [c \in MCCalls |->
               IF c \in {e1, e2} THEN earn ELSE IF c = w1 THEN web ELSE redeem]
MCCost   == [s \in MCSales |-> IF s = earn THEN 0 ELSE 1]
MCGain   == [s \in MCSales |-> IF s = earn THEN 1 ELSE 0]

\* Fewer calls and no redemption, for liveness.
LiveCalls  == {e1, e2, r1, w1}
LiveSaleOf == [c \in LiveCalls |-> MCSaleOf[c]]
LiveCost   == [s \in MCSales |-> 0]

Symmetry == Permutations({e1, e2}) \cup Permutations({r1, r2})
=============================================================================
