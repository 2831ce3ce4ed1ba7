SPECIFICATION Spec
CONSTANTS
    TotalQuestions = 2
    MaxFollowUps <- MCMaxFollowUps
    FollowUpAllowed <- MCFollowUpAllowed
    Keys = {k1, k2, k3}
    Texts = {t1}
    Workers = {w1, w2}
    MaxRetries = 1
    ManualFinish = TRUE
    Faults <- FaultKinds
    MaxFaults = 1
SYMMETRY Symmetry
INVARIANTS
    SubmissionsSound
    FollowUpsSound
    PositionSound
    EvaluationPossible
    AnswerNotOrphaned
    ReportReadyIsBacked
PROPERTIES
    RecordsOnlyGrow
CHECK_DEADLOCK FALSE
