-------------------------- MODULE MCOrderPricing --------------------------
(* Carts of up to three lines of one or two units.  Drink a comes in a small  *)
(* size just below 100 pounds and a large one at 100, drink b in one size.  *)
(* Gift g1 is an a, g2 any drink.  Offer o1: buy two a, get an a; o2: buy   *)
(* any two, get a b.                                                        *)
EXTENDS OrderPricing

CONSTANTS a, b, g1, g2, o1, o2

MCMenu        == {<<a, 9999>>, <<a, 10000>>, <<b, 4001>>}
MCGiftProduct == [g \in {g1, g2} |-> IF g = g1 THEN a ELSE None]
MCOffer       == [o \in {o1, o2} |->
                    IF o = o1 THEN [buy |-> a, buyQty |-> 2, get |-> a, getQty |-> 1]
                    ELSE [buy |-> None, buyQty |-> 2, get |-> b, getQty |-> 1]]
MCTaxSettings == {{}, {0}}
MCSkews       == {-3, 2}
MCEditCarts   == {<<[product |-> b, price |-> 4001, quantity |-> 1]>>}
=============================================================================
