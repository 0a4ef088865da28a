SPECIFICATION PlatformSpec
CONSTANTS
    Edits = {e1, e2, e3}
    Vendors = {v1, v2}
    Prices = {p1}
    Requests = {r1, r2}
    Slots = {t1}
    Keys = {}
    Clients = {}
    Admins = {a1}
    Callers = {Null}
    Null = Null
CHECK_DEADLOCK FALSE
SYMMETRY PlatformSymmetry
PROPERTIES
    ImplementsBookings
    WithdrawnTakesNoBooking
    ArchiveSettles
    OnlyOwnerChanges
