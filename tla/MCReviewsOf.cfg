SPECIFICATION Spec
CONSTANTS
    p1 = p1
    p2 = p2
    Product = {p1, p2}
    None = None
    PageSize = 2
    Total <- MCTotal
    MaxAsks = 2
    MaxPages = 3
    MaxRatings = 1
INVARIANT ReviewsOfProduct
