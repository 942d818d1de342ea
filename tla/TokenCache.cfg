CONSTANTS
    Users = {u1}
    Launches = {l1, l2}
    Requests = {r1}
    Tokens = {t1, t2}
    None = None
    Ttl = 2
    Timeout = 0
    MaxTime = 3
    MaxChanges = 1
SPECIFICATION TokenSpec
INVARIANT StaleOnlyIfRaced
PROPERTIES StaleAccessBounded
SYMMETRY Symmetry
