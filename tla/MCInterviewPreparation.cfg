SPECIFICATION Spec
CONSTANTS
    Resumes = {r1}
    Workers = {w1, w2}
    MaxDeliveries = 3
    ai1 = ai1
    ai2 = ai2
    b1 = b1
    b2 = b2
    misfit = misfit
    Questions <- MCQuestions
    Fits <- MCFits
    Within <- MCWithin
    Bank <- MCBank
    AI_MAX_RETRIES = 2
    TotalQuestions = 2
    NoResume = NoResume
CHECK_DEADLOCK FALSE
INVARIANTS
    TypeOK
    FilesFollowRows
    ReadyIsAnalysed
    Grounded
    QuestionsSound
    OutageSurvived
PROPERTIES
    ReadyStays
    ProcessingEnds
