SPECIFICATION CartSpec
CONSTANTS
    i1 = i1
    i2 = i2
    i3 = i3
    p1 = p1
    p2 = p2
    NoItem = NoItem
    Item <- MCItem
    Product <- MCProduct
    ProductOf <- MCProductOf
    Price <- MCPrice
    MaxQty = 2
    MaxPending = 3
    MaxPages = 2
INVARIANTS
    CartTypeOK
    DiskFollows
    CartShowsBox
    RowPerProduct
PROPERTIES
    RemovedRowLeaves
