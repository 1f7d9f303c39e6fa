--------------------------- MODULE OrderPricing ---------------------------
(* What an order costs and earns: the money and points arithmetic of        *)
(* OrdersService (order-pricing.ts and the private methods of               *)
(* orders.service.ts), run by create, update and the award of points.       *)
(*                                                                          *)
(* One order.  A handler is one step here: OrderLifecycle interleaves them  *)
(* and Checkout has the points account, so what an order redeems is left    *)
(* out.  Catalogue prices, amounts of add-ons and discounts are whole cents *)
(* (roundMoney, and a catalogue kept in cents); sums of floats are exact.   *)
(* A total is in hundredths of a cent, which a whole tax percentage needs.  *)
EXTENDS Integers, Sequences, SequencesExt, FiniteSets

CONSTANTS
    Menu,        \* <<product, unit price>>: a size or a customization has its own price
    Quantities,  \* quantities of a line
    MaxLines,    \* lines of a cart
    EditCarts,   \* carts that an edit leaves
    AddonSums,   \* amounts of add-ons
    Discounts,   \* discounts a cashier types in
    TaxSettings, \* branch settings: {} or {rate}
    Gifts,       \* the loyalty catalogue
    GiftProduct, \* the fixed product of a gift, or None
    Offers,      \* offers that are on
    Offer,       \* [buy: product or None, buyQty, get, getQty]
    MaxRewards,  \* gifts, and free units of offers, in one order
    Parts,       \* first amounts of a split payment
    Skews,       \* by how much a split payment misses the total
    None         \* no product

Products == {m[1] : m \in Menu}
Cent == 100
Lines == {[product |-> m[1], price |-> m[2], quantity |-> q] : m \in Menu, q \in Quantities}
Carts == BoundedSeq(Lines, MaxLines)

ASSUME PricingAssumption ==
    /\ \A m \in Menu : m[2] \in Nat
    /\ None \notin Products /\ IsFiniteSet(Products)
    /\ Quantities \subseteq Nat \ {0} /\ AddonSums \subseteq Nat /\ Discounts \subseteq Nat
    /\ Parts \subseteq Int /\ Skews \subseteq Int
    /\ MaxLines \in Nat /\ MaxRewards \in Nat /\ EditCarts \subseteq Carts \ {<<>>}
    /\ \A s \in TaxSettings : s \subseteq Nat /\ \A q, r \in s : q = r
    /\ GiftProduct \in [Gifts -> Products \cup {None}]
    /\ Offer \in [Offers -> [buy : Products \cup {None}, buyQty : Nat \ {0},
                             get : Products, getQty : Nat \ {0}]]

VARIABLES
    status, items, discount, total, freeProduct, customer,  \* the order's row and lines
    payments,    \* amounts of its payment rows
    earned,      \* units of the EARNED row that points to it; 0 when there is none
    quote        \* what the checkout was asked for; edited since?  points awarded late?

vars == <<status, items, discount, total, freeProduct, customer, payments, earned, quote>>

Max2(a, b) == IF a > b THEN a ELSE b
Total(seq) == FoldLeft(+, 0, seq)
Mapped(f(_), seq) == [i \in DOMAIN seq |-> f(seq[i])]
Times(seq, p) == Cardinality({i \in DOMAIN seq : seq[i] = p})

-----------------------------------------------------------------------------
(* order-pricing.ts                                                         *)

roundMoney(x) == Cent * ((x + Cent \div 2) \div Cent)

\* A setting of 0 is kept; a missing one means the default.
resolveTaxRatePct(setting) == IF setting = {} THEN 15 ELSE CHOOSE rate \in setting : TRUE

computeOrderTotals(subtotal, off, rate) == Max2(subtotal - off, 0) * (100 + rate)

Subtotal(lines, addons) == Total(Mapped(LAMBDA l : l.price * l.quantity, lines)) + addons

-----------------------------------------------------------------------------
(* Free units.  One unit comes off the first line that still has one.       *)

\* Mutant: the unit is priced but stays on its line.
TakeKept(taken, p) ==
    LET i == SelectInSeq(taken.lines, LAMBDA l : l.product = p /\ l.quantity > 0)
    IN  IF i = 0 THEN [taken EXCEPT !.missing = TRUE]
        ELSE [taken EXCEPT !.price = @ + taken.lines[i].price]

TakeUnit(taken, p) ==
    LET i == SelectInSeq(taken.lines, LAMBDA l : l.product = p /\ l.quantity > 0)
    IN  IF i = 0 THEN [taken EXCEPT !.missing = TRUE]
        ELSE [taken EXCEPT !.lines[i].quantity = @ - 1, !.price = @ + taken.lines[i].price]

\* The loop of computeSequentialFreeUnitsDiscount and earnedPointsUnitsAfterFreeUnits;
\* the first throws on a missing product, the second passes over it.  For one product
\* computeFreeProductDiscount finds the same price.
TakeUnits(lines, products) ==
    FoldLeft(TakeUnit, [lines |-> lines, price |-> 0, missing |-> FALSE], products)

\* Two stored units are one point: half a point below 100 pounds, one from there on.
earnedPointsPerUnit(price) ==
    CASE price <= 0 -> 0 [] price > 0 /\ price < 100 * Cent -> 1 [] OTHER -> 2

earnedPointsUnitsFromItems(lines) ==
    Total(Mapped(LAMBDA l : earnedPointsPerUnit(l.price) * Max2(l.quantity, 0), lines))

earnedPointsUnitsAfterFreeUnits(lines, products) ==
    earnedPointsUnitsFromItems(TakeUnits(lines, products).lines)

-----------------------------------------------------------------------------
(* Rewards.  A redemption names a gift and, where the gift leaves it open,  *)
(* the product; a gift's own product wins, and may only be confirmed.       *)

Redemptions == {[gift |-> g, choice |-> p] : g \in Gifts, p \in Products \cup {None}}

FreeOf(r) == IF GiftProduct[r.gift] = None THEN r.choice ELSE GiftProduct[r.gift]

Redeemable(r) == FreeOf(r) # None /\ r.choice \in {FreeOf(r), None}

GivenAway(offers) == Mapped(LAMBDA o : Offer[o].get, offers)

\* Mutant: the offer's own free units count as bought.
PaidUnitsGross(lines, o, count, loyaltyFree) ==
    LET counts(l) == IF Offer[o].buy \in {l.product, None} THEN l.quantity ELSE 0
    IN  Total(Mapped(counts, lines))

countPaidUnitsForBogoBuy(lines, o, count, loyaltyFree) ==
    LET counts(l) == IF Offer[o].buy \in {l.product, None} THEN l.quantity ELSE 0
        units     == Total(Mapped(counts, lines))
    IN  CASE Offer[o].buy = None             -> Max2(Max2(units - count, 0) - Len(loyaltyFree), 0)
          [] Offer[o].buy = Offer[o].get    -> Max2(units - count, 0)
          [] OTHER                          -> units

\* Every offer is validated on its own, as if the others were not in the order.
validateBogoRedemptions(lines, offers, loyaltyFree) ==
    \A o \in Range(offers) :
        LET count == Times(offers, o)
            sets  == countPaidUnitsForBogoBuy(lines, o, count, loyaltyFree) \div Offer[o].buyQty
        IN  count <= sets * Offer[o].getQty

-----------------------------------------------------------------------------
(* Payments.                                                                *)

\* Mutant: any amounts will do.
SplitAnyhow(amounts, target) == Len(amounts) >= 2 /\ \A i \in DOMAIN amounts : amounts[i] > 0

\* At exactly two cents apart, floating point decides either way: accepted here.
SplitAccepted(amounts, target) ==
    /\ Len(amounts) >= 2
    /\ \A i \in DOMAIN amounts : amounts[i] > 0
    /\ Total(amounts) - target \in -2 * Cent .. 2 * Cent

resolvePaymentLines(amounts, orderTotal) ==
    \/ amounts = <<roundMoney(orderTotal)>>
    \/ SplitAccepted(amounts, roundMoney(orderTotal))

\* A single row follows an edit, to the fraction of a cent; a split stays as it was.
syncOrderTransactionsAfterEdit(newTotal) == IF Len(payments) = 1 THEN <<newTotal>> ELSE payments

-----------------------------------------------------------------------------
(* The handlers.                                                            *)

\* Mutant: the units of offers earn points.
PointsAtCheckout(lines, free, bogo) == earnedPointsUnitsAfterFreeUnits(lines, free)

CheckoutPoints(lines, free, bogo) == earnedPointsUnitsAfterFreeUnits(lines, free \o bogo)

\* Every free unit must be in the cart.  This is the till's list of gifts; a single gift
\* of the catalogue (till or website) must also cost something, and is a case of it.
RewardsAccepted(lines, redemptions, offers) ==
    LET free == Mapped(FreeOf, redemptions)
    IN  /\ \A i \in DOMAIN redemptions : Redeemable(redemptions[i])
        /\ ~TakeUnits(lines, free).missing
        /\ validateBogoRedemptions(lines, offers, free)
        /\ ~TakeUnits(lines, GivenAway(offers)).missing

Quote(custom, addons, rate, free, offers) ==
    [custom |-> custom, addons |-> addons, rate |-> rate, free |-> free, offers |-> offers,
     late |-> FALSE, edited |-> FALSE]

\* Website and delivery sales start PENDING and earn later.
Checkout(lines, redemptions, offers, deferred) ==
    LET free == Mapped(FreeOf, redemptions)
        bogo == GivenAway(offers)
    IN  /\ \E custom \in Discounts, addons \in AddonSums, setting \in TaxSettings :
             LET rate == resolveTaxRatePct(setting)
             IN  /\ discount' = custom + TakeUnits(lines, free).price
                                       + TakeUnits(lines, bogo).price
                 /\ total' = computeOrderTotals(Subtotal(lines, addons), discount', rate)
                 /\ quote' = Quote(custom, addons, rate, free, offers)
        /\ payments' \in {<<roundMoney(total')>>}
             \cup {<<Cent * part, roundMoney(total') + Cent * (skew - part)>> :
                     part \in Parts, skew \in Skews}
        /\ resolvePaymentLines(payments', total')
        /\ status' = IF deferred THEN "PENDING" ELSE "COMPLETED"
        /\ items' = lines
        /\ freeProduct' = IF free = <<>> THEN None ELSE free[1]
        /\ customer' \in BOOLEAN
        /\ redemptions # <<>> => customer'
        /\ earned' = IF customer' /\ ~deferred THEN CheckoutPoints(lines, free, bogo) ELSE 0

Create ==
    /\ status = "none"
    /\ \E lines \in Carts, redemptions \in BoundedSeq(Redemptions, MaxRewards),
          offers \in BoundedSeq(Offers, MaxRewards) :
         /\ RewardsAccepted(lines, redemptions, offers)
         /\ \E deferred \in BOOLEAN : Checkout(lines, redemptions, offers, deferred)

\* Prices, add-ons and tax are those of today.  The discount stays unless the request
\* has one, also when the drinks it was for are no longer in the order.
Update ==
    /\ status # "none"
    /\ \E lines \in EditCarts, addons \in AddonSums, setting \in TaxSettings :
         /\ discount' \in Discounts \cup {discount}
         /\ items' = lines
         /\ total' = computeOrderTotals(Subtotal(lines, addons), discount',
                                        resolveTaxRatePct(setting))
    /\ payments' = syncOrderTransactionsAfterEdit(total')
    /\ customer' \in BOOLEAN
    /\ quote' = [quote EXCEPT !.edited = TRUE]
    /\ UNCHANGED <<status, freeProduct, earned>>

\* Points are awarded to an order that has none, for all its units but one of the gift.
tryAwardDeferredLoyaltyPoints ==
    IF customer /\ earned = 0
    THEN /\ earned' = earnedPointsUnitsAfterFreeUnits(items,
                          IF freeProduct = None THEN <<>> ELSE <<freeProduct>>)
         /\ quote' = [quote EXCEPT !.late = TRUE]
    ELSE UNCHANGED <<earned, quote>>

\* Completing and reopening; cancelling is in OrderLifecycle.
UpdateStatus ==
    /\ status # "none"
    /\ status' \in {"PENDING", "COMPLETED"} \ {status}
    /\ IF status' = "COMPLETED" THEN tryAwardDeferredLoyaltyPoints ELSE UNCHANGED <<earned, quote>>
    /\ UNCHANGED <<items, discount, total, freeProduct, customer, payments>>

Init ==
    /\ status = "none" /\ items = <<>> /\ discount = 0 /\ total = 0 /\ freeProduct = None
    /\ customer = FALSE /\ payments = <<>> /\ earned = 0
    /\ quote = Quote(0, 0, 0, <<>>, <<>>)

Next == Create \/ Update \/ UpdateStatus

Spec == Init /\ [][Next]_vars

-----------------------------------------------------------------------------
(* A reference that knows no lines and no loops: the units of a product, in *)
(* the order of the cart, of which the first few are free.                  *)

Units(l, p) == [k \in 1..(IF l.product = p THEN l.quantity ELSE 0) |-> l.price]

UnitsIn(lines, p) == FoldLeft(LAMBDA units, l : units \o Units(l, p), <<>>, lines)

UnitsOf(p) == UnitsIn(items, p)

PaidUnits(free, p) == SubSeq(UnitsOf(p), Times(free, p) + 1, Len(UnitsOf(p)))

SumOver(f(_)) == SumFunction([p \in Products |-> f(p)])

Free == quote.free \o GivenAway(quote.offers)

AsQuoted == status # "none" /\ ~quote.edited

-----------------------------------------------------------------------------
(* Properties.                                                              *)

\* At checkout the buyer pays, with tax, for the add-ons and every unit that no reward
\* makes free, less the cashier's discount; and a reward is always for a unit of the
\* cart.  When a gift and an offer give the same product away, each of them takes the
\* first unit off the price, and the total can be less.
BuyersPayForTheRest ==
    AsQuoted =>
        LET bogo      == GivenAway(quote.offers)
            rest      == SumOver(LAMBDA p : Total(PaidUnits(Free, p))) + quote.addons - quote.custom
        IN  /\ \A p \in Products : Max2(Times(quote.free, p), Times(bogo, p)) <= Len(UnitsOf(p))
            /\ Range(quote.free) \cap Range(bogo) = {} =>
                   total = Max2(rest, 0) * (100 + quote.rate)

\* Points are for units that were paid for.  At checkout exactly for those; a deferred
\* award sees one gift only, so it may add up to a point for each further free unit, but
\* it never gives less than was paid for.
PaidUnitsEarn ==
    AsQuoted /\ earned > 0 =>
        LET points == SumOver(LAMBDA p : Total(Mapped(earnedPointsPerUnit, PaidUnits(Free, p))))
            unseen == Len(Free) - (IF quote.free = <<>> THEN 0 ELSE 1)
        IN  earned - points \in 0 .. (IF quote.late THEN 2 * unseen ELSE 0)

\* The free units of an offer are matched, set by set, by units the buyer pays for; unless
\* another reward gives away units that the offer counts, which its validation overlooks.
OffersArePaidFor ==
    AsQuoted =>
        \A o \in Range(quote.offers) :
            LET others  == {Offer[x].get : x \in Range(quote.offers) \ {o}}
                          \cup (IF Offer[o].buy = None THEN {} ELSE Range(quote.free))
                counted == IF Offer[o].buy = None THEN Products ELSE {Offer[o].buy}
                bought  == SumFunction([p \in counted |-> Len(PaidUnits(Free, p))])
            IN  \/ others \cap counted # {}
                \/ \E sets \in 1..Times(quote.offers, o) :
                     /\ sets * Offer[o].getQty >= Times(quote.offers, o)
                     /\ sets * Offer[o].buyQty <= bought

\* The payment rows add up to the total: a single one to half a cent, also after edits;
\* several to two and a half cents, until the order is edited.
PaymentsCoverTotal ==
    status # "none" /\ (Len(payments) = 1 \/ ~quote.edited) =>
        Total(payments) - total \in
            IF Len(payments) = 1 THEN -(Cent \div 2) .. Cent \div 2
            ELSE -((5 * Cent) \div 2) .. (5 * Cent) \div 2
=============================================================================
