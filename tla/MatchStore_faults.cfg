CONSTANTS
    Thread = {t1, t2}
    Request = {q1}
    AI = AI
    Opening = Opening
    NoRequest = NoRequest
    AISeats = "one"
    MaxDrive = 2
    Keep = 2
    Faults = {"crash", "lost", "busy", "delete"}
    MaxMoves = 4

SPECIFICATION FairSpec
\* every client has its answer, or the match is over or deleted
CHECK_DEADLOCK FALSE
INVARIANTS
    LogAgrees
    SnapshotsAgree
PROPERTIES
    Linear
    Served
