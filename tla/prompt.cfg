SPECIFICATION PromptFairSpec
CONSTANTS
    Capacity = 1
INVARIANTS
    ProceedsOnlyOnYes
    EchoComesBack
PROPERTIES
    PromptsEnd
\* The process may have exited.
CHECK_DEADLOCK FALSE
