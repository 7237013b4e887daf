SPECIFICATION FairSpec
CONSTANTS
    Wrappers = {w1, w2}
    Clients = {c1}
    Classes = {workspaces}
    NoClass = NoClass
    NoToken = NoToken
    BadToken = BadToken
    Nobody = Nobody
INVARIANTS
    UnattendedDeletesAreBacked
    DenialsAreFinal
    NothingLeftBehind
    IssuedSessionIsUsable
PROPERTIES
    ImplementsDeleteGrant
    ChecksTerminate
    SessionReverts
\* Every process may have ended.
CHECK_DEADLOCK FALSE
