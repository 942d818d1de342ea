CONSTANTS
    Ids = {i1, i2}
    Paths = {f1, f2}
    Sizes = {1, 2}
    LongSize = 2
    ChunkSize = 2
    Handlers = {h1, h2}
    Readers = {r1}
    Quota = 3
    StaleAge = 1
    None = None
SPECIFICATION UploadSpec
INVARIANTS PublishedWhole OrphansComeFromRaces QuotaHoldsAlone
CONSTRAINT OneOnceMet
SYMMETRY Symmetry
