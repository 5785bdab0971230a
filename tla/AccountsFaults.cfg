CONSTANTS
    None = None
    Workers = {w1}
    Sequential = TRUE
    Events = {"disconnect", "loss", "error", "crash", "shutdown"}
    MaxRestarts = 1
    Emails = {e1, e2}
    Usernames = {n1, n2}
    Passwords = {k1, k2}
    Oversized = {n2}
    Unhashable = {k2}
    AccessTTL = 2
    RefreshTTL = 3
    MaxTime = 2
    MaxUsers = 2
    MaxPairs = 2
SPECIFICATION FairSpec
INVARIANTS
    TypeOK
    EmailsChecked
    EmailInv
    TokensNameUsers
    LogoutRemembered
    BlacklistTimed
    SessionInv
PROPERTIES
    RequestsAnswered
    BlacklistForgets
\* The process may end with no restart left.
CHECK_DEADLOCK FALSE
