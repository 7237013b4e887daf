SPECIFICATION Spec
CONSTANTS
    Procs = {p1}
    Names = {main, work}
    Default = main
    Hosts = {h1, h2}
    DefaultHost = h1
    None = None
    Typed = Typed
    Commands = {"set-hostname", "unset-hostname", "login"}
INVARIANTS
    TokenMatchesDefault
