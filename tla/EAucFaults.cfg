CONSTANTS
    None = None
    Workers = {w1, w2}
    Sequential = FALSE
    Events = {"disconnect", "loss", "error", "crash", "shutdown"}
    MaxRestarts = 1
    Emails = {e1}
    Usernames = {n1}
    Passwords = {k1}
    Oversized = {}
    Unhashable = {}
    AccessTTL = 1
    RefreshTTL = 1
    MaxTime = 1
    MaxUsers = 2
    MaxPairs = 2
    Products = {p1}
    StartPrices = {1}
    Amounts = {2}
    MaxBids = 1
    Overlap = TRUE
SPECIFICATION Spec
VIEW AnsweredOrNot
SYMMETRY Symmetry
INVARIANTS
    ForeignKeys
    ConnectionReturned
    PromisesKept
    SessionsKept
PROPERTY ImplementsLedger
\* The process may end with no restart left.
CHECK_DEADLOCK FALSE
