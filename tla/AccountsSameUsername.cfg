CONSTANTS
    None = None
    Workers = {w1}
    Sequential = FALSE
    Events = {}
    MaxRestarts = 0
    Emails = {e1, e2}
    Usernames = {n1}
    Passwords = {k1, k2}
    Oversized = {}
    Unhashable = {}
    AccessTTL = 1
    RefreshTTL = 2
    MaxTime = 0
    MaxUsers = 2
    MaxPairs = 1
SPECIFICATION Spec
PROPERTY CredentialsSuffice
