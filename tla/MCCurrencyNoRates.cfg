SPECIFICATION Spec
CONSTANTS
    aed = aed
    eu = eu
    Qar = Qar
    Usd = Usd
    None = None
    Error = Error
    Tile <- MCTile
    Fetched <- MCFetched
    Market <- MCMarket
    Sum = {1, 2550, 9999}
    Balance = {0, 2500}
    MaxAsks = 2
INVARIANT AskedIsWorthShown
