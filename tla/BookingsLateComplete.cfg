SPECIFICATION Spec
CONSTANTS
    Requests = {r1, r2, r3, r4}
    Services = {s1}
    Slots = {t1}
    Keys = {}
    Clients = {}
    Vendors = {v1}
    Admins = {}
    Callers = {Null}
    Null = Null
SYMMETRY RequestSymmetry
PROPERTY
    CancelledNeverCompleted
