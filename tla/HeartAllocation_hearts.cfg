SPECIFICATION Spec
CONSTANTS
    Live = {l1, l2, l3}
    Colors = 2
    MaxPool = 2
    MaxWild = 2
    MaxNeed = 1
SYMMETRY LiveSymmetry
CHECK_DEADLOCK FALSE
INVARIANTS
    OutcomeExact
    LedgerBalances
