CONSTANTS
    P1 = P1
    P2 = P2
    NoPlayer = NoPlayer
    NoInvocation = NoInvocation
    CardsOf <- MCCardsOf
    LiveCard <- MCLiveCard
    Score <- MCScore
    Owner <- MCOwner
    Kind <- MCKind
    Optional <- MCOptional
    Trigger <- MCTrigger
    Impact <- MCImpact
    Chain <- MCChain
    HandScores = {}
    Lives = 2
    Bluffs = 1
    MaxSet = 2
    MaxTurn = 1
    OfferedOnly = TRUE
    Adjustments = {}
    Invocation = {"a_search", "a_draw", "a_enter", "a_bar", "b_both", "b_hand", "b_react"}

SPECIFICATION FairSpec
\* the match is over, or MaxTurn is reached
CHECK_DEADLOCK FALSE
INVARIANTS
    TypeOK
    RevealedBeforeScored
    EligiblePlaced
    NoDeadEnd
PROPERTIES
    TurnPlayerFirst
    TurnsEnd
