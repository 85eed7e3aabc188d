SPECIFICATION WaitingSpec
CONSTANTS
    p1 = p1
    p2 = p2
    Product = {p1, p2}
    None = None
    PageSize = 2
    Total <- MCTotal
    MaxAsks = 2
    MaxPages = 3
    MaxRatings = 1
    Word = {Empty, w1}
    Empty = Empty
    Category = {c1}
    All = All
    MaxSearches = 2
    Banner = {b1, b2}
    MaxVersion = 2
    MaxListeners = 2
    MaxOpens = 3
    Slot = {k1, k2}
    Free = Free
INVARIANTS
    WaitingTypeOK
    LastQueryShown
    RatingReadBack
    BannersOnce
    TabsStay
    OneRequestPerSpinner
PROPERTY WaitsEnd
