SPECIFICATION Spec
CONSTANTS
    Resources <- MCResources
    Placeholders <- MCPlaceholders
    PrefixOf <- MCPrefixOf
    None = None
    OrganizationName = "{organization_name}"
    Id = "{id}"
    Plural <- MCPlural
    Directory <- MCDirectory
    Description <- MCDescription
    Cases <- MCAnswers
    Records <- MCRecords
    Collections <- MCCollections
    PageSize = 2
    MaxPaginateRecords = 5
    MaxRetries = 1
INVARIANTS
    AllIsComplete
    ActsAsAsked
    RequestIsAsNamed
PROPERTIES
    RequestEnds
\* The command has exited.
CHECK_DEADLOCK FALSE
