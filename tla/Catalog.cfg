CONSTANTS
    n1 = n1  n2 = n2  small = small  large = large  milk = milk  drinks = drinks
    c1 = c1  c2 = c2  None = None
    Names      <- MCNames
    CategoryOf <- MCCategoryOf
    SizeNames  <- MCSizeNames
    Items      = {milk}
    Calls      <- MCCalls
    MaxActs    = 1
SPECIFICATION MCSpec
SYMMETRY Symmetry
INVARIANTS
    TypeOK
    CopiesAreWhole
    CopiesHaveNewNames
    EverySizeHasItsIngredients
