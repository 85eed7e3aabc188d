SPECIFICATION OverlapSpec
CONSTANTS
    i1 = i1
    p1 = p1
    NoItem = NoItem
    ProductOf <- MCProductOf
    Price <- MCPrice
    NoModel <- MCNoModel
    Item = {i1}
    Product = {p1}
    MaxQty = 2
    MaxPending = 1
    MaxPages = 1
    Attempt = {a1, a2}
    MaxBalance = 2
PROPERTIES
    FundedOrders
    CaptureIsPursued
