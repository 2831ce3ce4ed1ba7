SPECIFICATION FairSpec
CONSTANTS
    TotalQuestions = 2
    MaxFollowUps <- MCMaxFollowUps
    FollowUpAllowed <- MCFollowUpAllowed
    Keys = {k1, k2, k3}
    Texts = {t1}
    Workers = {w1}
    MaxRetries = 1
    ManualFinish = FALSE
    Faults <- FaultKinds
    MaxFaults = 2
INVARIANTS
    TypeOK
    SomeoneCarriesOn
PROPERTIES
    ReturnsToCandidate
    EvaluationEnds
    ImplementsService
CHECK_DEADLOCK FALSE
