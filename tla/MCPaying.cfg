SPECIFICATION PayingSpec
CONSTANTS
    aed = aed
    eu = eu
    Qar = Qar
    Usd = Usd
    None = None
    Error = Error
    Tile <- MCTile
    Fetched <- MCFetched
    Market <- MCMarket
    Sum = {1, 2550, 9999}
    Balance = {0, 2500}
    MaxAsks = 2
    Order = {o1, o2}
    MaxReads = 2
    MaxRefunds = 2
SYMMETRY OrderSymmetry
INVARIANTS
    PayingTypeOK
    AskedIsRight
    DetailsOfOrder
    RefundButtons
PROPERTY NoSecondRefund
