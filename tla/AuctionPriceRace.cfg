CONSTANTS
    None = None
    Users = {u1, u2, u3}
    Products = {p1}
    Workers = {w1, w2}
    Sequential = TRUE
    Events = {}
    MaxRestarts = 0
    StartPrices = {1}
    Amounts = {2, 3}
    MaxBids = 3
    Overlap = FALSE
SPECIFICATION Spec
PROPERTY BidAboveCurrentPrice
