SPECIFICATION Spec
CONSTANTS
    Procs = {tfctl}
    Releases = {1, 2, 3}
    Release <- MCRelease
    Paths = {claude, agents}
    Nowhere = Nowhere
    Edited = Edited
    Absent = Absent
INVARIANTS
    WaitedMeansMigrated
PROPERTIES
    MigrationUpgrades
    LinksSurvive
    ProcessEnds
\* Every process may have ended.
CHECK_DEADLOCK FALSE
