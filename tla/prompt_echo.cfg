SPECIFICATION PromptFairSpec
CONSTANTS
    Capacity = 1
INVARIANTS
    TerminalRestored
\* The process may have exited.
CHECK_DEADLOCK FALSE
