SPECIFICATION SeedSpec
CONSTANTS
    Runs = {n1, n2, n3}
    Guests = {g1}
    Null = Null
CHECK_DEADLOCK FALSE
SYMMETRY SeedSymmetry
INVARIANTS
    SeedTypeOK
    DoneMeansSeeded
    ReseedAddsNothing
    FailsOnlyOnRace
