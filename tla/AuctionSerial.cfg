CONSTANTS
    None = None
    Users = {u1, u2, u3}
    Products = {p1, p2}
    Workers = {w1}
    Sequential = FALSE
    Events = {}
    MaxRestarts = 0
    StartPrices = {1}
    Amounts = {0, 1, 2, 3, 4}
    MaxBids = 3
    Overlap = FALSE
SPECIFICATION Spec
PROPERTY ImplementsEnglishAuction
INVARIANTS
    LatestBidPublished
    SerialInv
    BidsIncrease
