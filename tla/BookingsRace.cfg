SPECIFICATION Spec
CONSTANTS
    Requests = {r1, r2, r3, r4}
    Services = {s1}
    Slots = {t1}
    Keys = {k1}
    Clients = {c1, c2}
    Vendors = {v1, v2}
    Admins = {}
    Callers = {c1}
    Null = Null
SYMMETRY RequestSymmetry
INVARIANTS
    TypeOK
    SlotExclusive
    KeyUsedOnce
    AnswerTellsOutcome
    CreationIsLogged
    TrailIsLegal
    StatusIsAudited
    CompletedWasConfirmed
    NoCircularWait
