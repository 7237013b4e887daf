SPECIFICATION Spec
CONSTANTS
    Procs = {p1, p2}
    Versions = 2
    Operations = {1, 2, 3}
    Schemas = {"workspace", "var", "other"}
    Parameters = {"page"}
    OperationRefs <- MCOperationRefs
    SchemaRefs <- MCSchemaRefs
    Queries <- MCQueries
    Retrievals <- MCRetrievals
    Tags <- MCTags
    Path <- MCPath
    Name <- MCName
    Normal <- MCNormal
    NoWord = "-"
    Words <- MCWords
    PathParameters <- MCPathParameters
    Limit = 2
INVARIANTS
    ServesCurrent
    AnswersAreWhole
PROPERTIES
    LoadsEnd
