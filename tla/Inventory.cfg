CONSTANTS
    i1 = i1  i2 = i2  i3 = i3
    b1 = b1  b2 = b2
    n1 = n1  n2 = n2
    c1 = c1  c2 = c2  c3 = c3
    Items    <- MCItems
    Branches <- MCBranches
    Names    <- MCNames
    Calls    <- MCCalls
    Changes  <- MCChanges
SPECIFICATION MCSpec
SYMMETRY Symmetry
INVARIANTS
    LedgerExplainsStock
PROPERTIES
    RemovalWritesOff
    RemovalRefusedOnlyByContention
    TransfersDoNotOverdraw
