SPECIFICATION CatalogSpec
CONSTANTS
    Edits = {e1, e2, e3}
    Vendors = {v1}
    Prices = {p1, p2}
    Null = Null
CHECK_DEADLOCK FALSE
SYMMETRY EditSymmetry
PROPERTY
    ArchiveIsFinal
