SPECIFICATION Spec
CONSTANT MaxRetries = 1
INVARIANTS
    OneRunPerStart
    ExitIsEarned
    FinalStatusSetsExit
    EvidenceFitsPhase
PROPERTIES
    CommandEnds
CHECK_DEADLOCK FALSE
