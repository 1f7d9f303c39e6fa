CONSTANTS
    o1 = o1  s1 = s1  s2 = s2  c1 = c1  c2 = c2
    Orders   <- MCOrders
    ShiftIds <- MCShiftIds
    Calls    <- MCCalls
    Total    <- MCTotal
    Horizon  = 2
    Skew     = 1
SPECIFICATION Spec
SYMMETRY Symmetry
INVARIANTS
    SalesAreCountedOnce
    ReturnsAreCountedOnce
PROPERTIES
    OnlyEndingClosesShifts
