SPECIFICATION Spec
CONSTANTS
    KnownSecretFields <- MCKnown
    CapabilityURLFields <- MCCapability
    SensitiveNames <- MCSensitive
    ShapedValues <- MCShaped
    ListIndexes <- MCIndexes
    MaxTableColumns = 3
    MaxReportedRedactions = 3
    Preferred <- MCPreferred
    Excluded <- MCExcluded
    Lines <- MCLines
    Setups <- MCSetups
    Bodies <- MCBodies
    Document <- MCDocument
    Headers <- MCHeaders
INVARIANTS
    RunsWithCredentials
    MaskingOffWasAsked
    DryRunStartsNoMigration
    ShutdownIsComplete
    HiddenIsReported
    HiddenStaysHidden
PROPERTIES
    CommandReturns
\* The process has exited.
CHECK_DEADLOCK FALSE
