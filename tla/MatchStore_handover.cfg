CONSTANTS
    Thread = {t1, t2}
    Request = {q1, q2}
    AI = AI
    Opening = Opening
    NoRequest = NoRequest
    AISeats = "both"
    MaxDrive = 2
    Keep = 1
    Faults = {"lost"}
    MaxMoves = 5

SPECIFICATION Spec
SYMMETRY Symmetric
\* every client has its answer, or the match is over or deleted
CHECK_DEADLOCK FALSE
INVARIANTS
    TypeOK
    AtMostOnce
    NotForgotten
