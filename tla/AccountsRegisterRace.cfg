CONSTANTS
    None = None
    Workers = {w1, w2}
    Sequential = FALSE
    Events = {}
    MaxRestarts = 0
    Emails = {e1}
    Usernames = {n1, n2}
    Passwords = {k1}
    Oversized = {}
    Unhashable = {}
    AccessTTL = 1
    RefreshTTL = 2
    MaxTime = 0
    MaxUsers = 2
    MaxPairs = 0
SPECIFICATION Spec
INVARIANT EmailsUnique
