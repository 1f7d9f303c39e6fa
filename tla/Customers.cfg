CONSTANTS
    r1 = r1  r2 = r2  r3 = r3
    p1 = p1  p2 = p2  e1 = e1  c1 = c1  c2 = c2
    Requests <- MCRequests
    Phones   <- MCPhones
    Emails   <- MCEmails
    Codes    <- MCCodes
    Points   <- MCPoints
    MaxCustomers = 4
    None     = None
SPECIFICATION Spec
SYMMETRY Symmetry
INVARIANTS
    TypeOK
    CodesSignInOnce
    CodesAreHonoured
    ConsumedCodesSignIn
    LedgerExplainsBalance
