CONSTANTS
    P1 = P1
    P2 = P2
    NoPlayer = NoPlayer
    NoInvocation = NoInvocation
    CardsOf <- MCCardsOf
    LiveCard <- MCLiveCard
    Score <- MCScore
    Owner <- MCOwner
    Kind <- MCKind
    Optional <- MCOptional
    Trigger <- MCTrigger
    Impact <- MCImpact
    Chain <- MCChain
    HandScores = {}
    Lives = 2
    Bluffs = 0
    MaxSet = 2
    MaxTurn = 1
    OfferedOnly = FALSE
    Adjustments = {}
    Invocation = {"a_search", "a_enter", "b_react", "a_draw", "a_ready", "a_look", "b_both", "b_hope"}

SPECIFICATION Spec
\* the match is over, or MaxTurn is reached
CHECK_DEADLOCK FALSE
INVARIANTS
    ResolutionLock
PROPERTY PhaseBarrier
