CONSTANTS
    Users = {u1}
    Handlers = {h1, h2, h3}
    Cases = {c1, c2}
    Bookings = {b1, b2}
    NumFiles = 2
    Copies = 2
    Faults = 2
    Edits = 2
    Replacements = 4
    None = None
SYMMETRY Symmetry
SPECIFICATION Spec
CONSTRAINT OneSide
INVARIANTS RowsMatchPackages CopiesWhole CancelledOnce OneListing
CHECK_DEADLOCK FALSE
