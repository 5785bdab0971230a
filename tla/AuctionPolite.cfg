CONSTANTS
    None = None
    Users = {u1, u2, u3}
    Products = {p1}
    Workers = {w1, w2}
    Sequential = FALSE
    Events = {"disconnect", "loss", "error", "crash", "shutdown"}
    MaxRestarts = 1
    StartPrices = {1}
    Amounts = {2}
    MaxBids = 3
    Overlap = FALSE
SPECIFICATION FairSpec
INVARIANTS
    NoConsecutiveBids
    PoliteInv
PROPERTY RequestsAnswered
\* The process may end with no restart left.
CHECK_DEADLOCK FALSE
