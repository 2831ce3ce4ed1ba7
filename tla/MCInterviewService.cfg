SPECIFICATION Spec
CONSTANTS
    TotalQuestions = 3
    MaxFollowUps <- MCMaxFollowUps
    FollowUpAllowed <- MCFollowUpAllowed
    Keys = {k1, k2, k3, k4}
    Texts = {t1, t2}
SYMMETRY Symmetry
INVARIANTS
    TypeOK
    EvaluatingHasWork
    NothingSkipped
    FollowUpDiscipline
    ExactlyOnceSubmission
    ReportMatchesStatus
PROPERTIES
    EvidenceFrozen
    PositionAdvances
    ImplementsLifecycle
    NeverGoesBack
CHECK_DEADLOCK FALSE
