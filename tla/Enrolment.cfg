CONSTANTS
    Nodes = {n1}
    Machines = {m1, m2}
    Codes = {e1, e2}
    Tokens = {t1, t2, t3}
    Handlers = {h1, h2}
    None = None
SPECIFICATION EnrolSpec
INVARIANTS OneActiveToken RevokedNotServed OneTokenPerCode
PROPERTY FingerprintKept
SYMMETRY Symmetry
