SPECIFICATION Spec
CONSTANTS
    TotalQuestions = 2
    MaxFollowUps <- MCMaxFollowUps
    FollowUpAllowed <- MCFollowUpAllowed
    Keys = {k1, k2, k3}
    Texts = {t1}
    Connections = {c1, c2}
    MaxSessions = 2
SYMMETRY Symmetry
PROPERTIES
    AnswersOnlyWhenWaiting
CHECK_DEADLOCK FALSE
