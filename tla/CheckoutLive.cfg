CONSTANTS
    earn = earn  redeem = redeem  web = web
    e1 = e1  e2 = e2  r1 = r1  r2 = r2  w1 = w1
    Sales    <- MCSales
    Calls    <- LiveCalls
    SaleOf   <- LiveSaleOf
    Cost     <- LiveCost
    Gain     <- MCGain
    Keyless  = {web}
    Deferred = {web}
    Opening  = 1
    Days     = 1
    MaxFailures = 1
SPECIFICATION FairSpec
PROPERTIES
    EveryClientIsAnswered
