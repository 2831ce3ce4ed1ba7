SPECIFICATION Spec
CONSTANTS
    tab1 = tab1
    tab2 = tab2
    gone = gone
    Tabs <- MCTabs
    Adrift <- MCAdrift
    MaxTokens = 3
CHECK_DEADLOCK FALSE
INVARIANTS
    TypeOK
    UsedOnce
    LogoutIsFinal
PROPERTIES
    SignedOutForCause
    ExchangeSettles
