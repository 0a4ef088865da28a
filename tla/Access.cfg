SPECIFICATION AccessSpec
CONSTANTS
    Requests = {r1, r2}
    Services = {s1}
    Slots = {t1}
    Keys = {}
    Clients = {c1}
    Vendors = {v1}
    Admins = {a1}
    Callers = {c1, Null}
    UuidV4 = {s1}
    Null = Null
SYMMETRY RequestSymmetry
INVARIANT
    AccessTypeOK
PROPERTIES
    ImplementsBookings
    SuspendedChangesNothing
