SPECIFICATION CatalogueSpec
CONSTANTS
    Category = {c1}
    Any = Any
    PageSize = 2
    MaxAsks = 3
    Total <- MCTotal
    Categories = 5
    Products = 5
    MaxShelfAsks = 2
    MaxList = 6
INVARIANTS
    CatalogueTypeOK
    ShelvesWhole
    ListOfQuery
    NothingMissing
    CatalogueSpinners
