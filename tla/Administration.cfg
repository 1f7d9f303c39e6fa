CONSTANTS
    r1 = r1  r2 = r2  r3 = r3
    u1 = u1  main = main  b2 = b2
    Requests <- MCRequests
    Users    <- MCUsers
    Branches <- MCBranches
    Main     <- main
    Asked    <- MCAsked
    Late     <- MCLate
    None     = None
    Gone     = Gone
SPECIFICATION Spec
SYMMETRY Symmetry
INVARIANTS
    TypeOK
    StaffHaveTheirBranches
    SignedInStaffCanWork
    SettingsAreKept
PROPERTIES
    ActsWhereAllowed
