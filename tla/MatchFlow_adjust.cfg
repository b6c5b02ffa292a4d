CONSTANTS
    P1 = P1
    P2 = P2
    NoPlayer = NoPlayer
    NoInvocation = NoInvocation
    CardsOf <- MCCardsOf
    LiveCard <- MCLiveCard
    Score <- MCScore
    Owner <- MCOwner
    Kind <- MCKind
    Optional <- MCOptional
    Trigger <- MCTrigger
    Impact <- MCImpact
    Chain <- MCChain
    HandScores <- MCHandScores
    Lives = 1
    Bluffs = 0
    MaxSet = 2
    MaxTurn = 1
    OfferedOnly = TRUE
    Adjustments = {"stage_departure", "inspect", "live_move", "success_move", "resolution_move"}
    Invocation = {"a_leave", "a_hand", "b_hope"}

SPECIFICATION Spec
\* the match is over, or MaxTurn is reached
CHECK_DEADLOCK FALSE
INVARIANTS
    NoStrandedInspection
    CleanTable
