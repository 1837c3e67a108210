SPECIFICATION Spec
SYMMETRY Symmetry
CONSTANTS
    r1 = r1
    r2 = r2
    r3 = r3
    r4 = r4
    r5 = r5
    r6 = r6
    Rows = {r1, r2, r3, r4, r5, r6}
    TimeOf <- Pairs
    PageSize = 2
    QueryCap = 5
    ReportCaps = {5, 6}
INVARIANTS
    ReadIsWhole
