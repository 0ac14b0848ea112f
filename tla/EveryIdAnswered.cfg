SPECIFICATION Spec
CONSTANTS
    RequireKey = TRUE
    Script <- MCScript
INVARIANTS
    EveryIdAnswered
CHECK_DEADLOCK FALSE
