SPECIFICATION SessionSpec
CONSTANTS
    Calls = {q1, q2, q3}
    Emails = {u1}
    TokenLife = 2
    SessionLife = 2
    MaxTime = 2
    Null = Null
CHECK_DEADLOCK FALSE
INVARIANT
    RotatedOnce
