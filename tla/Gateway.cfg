SPECIFICATION FairSpec
CONSTANTS
    RequireKey = TRUE
    Script <- MCScript
INVARIANTS
    TypeOK
    AnswersMatch
    TellsTruth
    OnlyChecked
PROPERTIES
    ImplementsDelivery
    EndsUnlessSilent
CHECK_DEADLOCK FALSE
