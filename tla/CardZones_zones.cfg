CONSTANTS
    m1 = m1
    m2 = m2
    m3 = m3
    e1 = e1
    left = left
    center = center
    Nothing = Nothing
    Member = {m1, m2, m3}
    Energy = {e1}
    Slot = {left, center}
    Moves <- MCMoves
    MaxDeal = 2
    MaxReady = 1

SPECIFICATION Spec
SYMMETRY CardSymmetry
INVARIANTS
    TypeOK
    Conserved
    StageSound
    ReadiedThisStay
    DealtOneByOne
PROPERTIES
    KeepsArrivals
    DepartureClears
