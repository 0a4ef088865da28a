SPECIFICATION BrowsingSpec
CONSTANTS
    Rows = {1, 2, 3}
    Values = {1, 2}
    Limits = {2}
    Clients = {c1, c2}
    Vendors = {v1}
    Admins = {}
    Null = Null
INVARIANTS
    BrowsingTypeOK
    NothingMissed
    ClientsListTheirOwn
CHECK_DEADLOCK FALSE
SYMMETRY ClientSymmetry
