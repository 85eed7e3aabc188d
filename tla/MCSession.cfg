SPECIFICATION Spec
CONSTANTS
    User = {u1, u2}
    Nobody = Nobody
    MaxAsks = 1
    MaxWrites = 4
SYMMETRY UserSymmetry
INVARIANTS
    SessionTypeOK
    SessionSurvives
    SameUser
    WalletIsUsers
