CONSTANTS
    None = None
    Users = {u1, u2, u3}
    Products = {p1}
    Workers = {w1, w2}
    Sequential = FALSE
    Events = {"disconnect", "loss", "error", "crash", "shutdown"}
    MaxRestarts = 1
    StartPrices = {1}
    Amounts = {0, 1, 2, 3}
    MaxBids = 3
    Overlap = TRUE
SPECIFICATION Spec
SYMMETRY Symmetry
INVARIANTS
    TypeOK
    SafetyInv
    BidsAboveStart
    PriceBacked
    AckedBidsStored
    NoSelfBid
    ConnectionReturned
    ErrorMeansNotStored
PROPERTY ImplementsLedger
\* The process may end with no restart left.
CHECK_DEADLOCK FALSE
