CONSTANTS
    Logins = {l, m, n}
    NoLogin = NoLogin
    Texts = {p, q}
    Odd = {n, q}
    Empty = Empty
    Keep = Keep
    Users = {u, v}
    MaxAccounts = 2
    MaxChanges = 2
    MaxFaults = 2
    Installed <- Default
SYMMETRY Alike
SPECIFICATION Spec
INVARIANTS   OwnUntilMoved
CHECK_DEADLOCK FALSE
