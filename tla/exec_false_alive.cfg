SPECIFICATION FairSpec
CONSTANTS
    Wrappers = {w1}
    Clients = {c1, c2}
    Classes = {workspaces}
    NoClass = NoClass
    NoToken = NoToken
    BadToken = BadToken
    Nobody = Nobody
PROPERTIES
    AliveMeansHeld
\* Every process may have ended.
CHECK_DEADLOCK FALSE
