CONSTANTS
    P1 = P1
    P2 = P2
    NoPlayer = NoPlayer
    NoInvocation = NoInvocation
    CardsOf <- MCCardsOf
    LiveCard <- MCLiveCard
    Score <- MCScore
    Owner <- MCOwner
    Kind <- MCKind
    Optional <- MCOptional
    Trigger <- MCTrigger
    Impact <- MCImpact
    Chain <- MCChain
    HandScores <- MCHandScores
    Lives = 3
    Bluffs = 0
    MaxSet = 2
    MaxTurn = 6
    OfferedOnly = TRUE
    Adjustments = {"score"}
    Invocation = {}

SPECIFICATION Spec
\* the match is over, or MaxTurn is reached
CHECK_DEADLOCK FALSE
INVARIANTS
    OnlyWinnersPlace
    NeverBothFinished
