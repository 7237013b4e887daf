SPECIFICATION Spec
CONSTANTS
    Procs = {p1, p2}
    Names = {main, work}
    Default = main
    Hosts = {h1, h2}
    DefaultHost = h1
    None = None
    Typed = Typed
    Commands = {"set-hostname", "set", "unset-hostname", "unset-token", "login", "create", "activate", "delete", "rename"}
SYMMETRY Symmetry
CONSTRAINT OneExcuse
INVARIANTS
    TokenMatchesHost
    NextRunStarts
PROPERTIES
    RemovalIsSafe
