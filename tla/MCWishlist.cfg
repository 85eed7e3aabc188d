SPECIFICATION Spec
CONSTANTS
    Product = {p1, p2}
    MaxWish = 3
    MaxPending = 2
    MaxPages = 2
    Ask = {c1, c2}
    None = None
SYMMETRY WishSymmetry
INVARIANTS
    WishTypeOK
    HeartIsTrue
    WishedOnce
PROPERTIES
    LateAnswersGoForward
    WishesWriteBehind
