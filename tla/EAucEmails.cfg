CONSTANTS
    None = None
    Workers = {w1, w2}
    Sequential = TRUE
    Events = {}
    MaxRestarts = 0
    Emails = {e1, e2}
    Usernames = {n1}
    Passwords = {k1}
    Oversized = {}
    Unhashable = {}
    AccessTTL = 1
    RefreshTTL = 1
    MaxTime = 0
    MaxUsers = 3
    MaxPairs = 2
    Products = {p1}
    StartPrices = {1}
    Amounts = {2}
    MaxBids = 1
    Overlap = FALSE
SPECIFICATION Spec
INVARIANT EmailsUnique
