SPECIFICATION Spec
CONSTANTS
    c1 = c1
    c2 = c2
    None = None
    Conversations = {c1, c2}
    Limit = 4
    MaxRuns = 2
    MaxDamages = 1
SYMMETRY Symmetry
INVARIANTS
    WholeExchanges
    RowsAgree
PROPERTIES
    RecordsAreKept
