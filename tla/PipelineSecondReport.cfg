SPECIFICATION Spec
CONSTANTS
    TotalQuestions = 2
    MaxFollowUps <- MCMaxFollowUps
    FollowUpAllowed <- MCFollowUpAllowed
    Keys = {k1, k2, k3}
    Texts = {t1}
    Workers = {w1, w2}
    MaxRetries = 2
    ManualFinish = FALSE
    Faults = {}
    MaxFaults = 0
SYMMETRY Symmetry
PROPERTIES
    TerminalStatusesStay
CHECK_DEADLOCK FALSE
