CONSTANTS
    a = a  b = b  g1 = g1  g2 = g2  o1 = o1  o2 = o2
    None = None
    Menu        <- MCMenu
    Quantities  = {1, 2}
    MaxLines    = 3
    EditCarts   <- MCEditCarts
    AddonSums   = {0, 5}
    Discounts   = {0, 12000}
    TaxSettings <- MCTaxSettings
    Gifts       = {g1, g2}
    GiftProduct <- MCGiftProduct
    Offers      = {o1, o2}
    Offer       <- MCOffer
    MaxRewards  = 2
    Parts       = {1}
    Skews       <- MCSkews
SPECIFICATION Spec
INVARIANTS
    BuyersPayForTheRest
    PaidUnitsEarn
    OffersArePaidFor
    PaymentsCoverTotal
