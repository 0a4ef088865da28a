SPECIFICATION FairInstanceSpec
CONSTANTS
    Requests = {r1, r2, r3}
    Main = main
    PoolSize = 1
    Null = Null
INVARIANTS
    NoConnectionLeaks
PROPERTIES
    NoRouteExplained
    StopLosesNothing
    HealthAnswered
    RequestsServed
    PoolRecovers
    StopCompletes
