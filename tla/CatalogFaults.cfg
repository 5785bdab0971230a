CONSTANTS
    None = None
    Workers = {w1, w2}
    Sequential = FALSE
    Events = {"disconnect", "loss", "error", "crash", "shutdown", "storage", "cache"}
    MaxRestarts = 1
    Sellers = {s1}
    Images = {i1, i2}
    MaxFiles = 2
    MaxProducts = 2
    Limits = {16, 33}
    DefaultLimit = 10
    Half = 16
SPECIFICATION Spec
SYMMETRY Symmetry
VIEW ButReplies
CONSTRAINT FewMishaps
INVARIANTS
    TypeOK
    TempListExact
    WalkSeesAll
    HandsSound
    WalkInv
PROPERTIES
    ImplementsImageLife
    UploadsFailForFirstBucket
\* The process may end with no restart left.
CHECK_DEADLOCK FALSE
