CONSTANTS
    r1 = r1  r2 = r2  r3 = r3
    p1 = p1  p2 = p2  p3 = p3
    d1 = d1  d2 = d2
    Requests   <- MCRequests
    Payments   <- MCPayments
    Deliveries <- MCDeliveries
    Totals     <- MCTotals
    Tenders    <- MCTenders
SPECIFICATION MCSpec
SYMMETRY Symmetry
INVARIANTS
    CancelledOrdersAreRefunded
