SPECIFICATION MCSpec
CONSTANTS
    Users = {u1}
    Workers = {w1, w2}
    Passwords = {p1, p2}
    Names = {n1}
    Attempts = 1
    MaxRequests = 4
    None = None
INVARIANTS
    ResetForcesLogin
CHECK_DEADLOCK FALSE
SYMMETRY symmetry
