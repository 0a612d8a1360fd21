\* A relation, and a change of its child's table.
SPECIFICATION Spec
CONSTANTS
    Models = {"Post", "Note"}
    TableOf <- TwoTableOf
    Names = {"id", "title", "post_id"}
    Types = {"i64", "String"}
    None = None
    InitModels <- TwoInitModels
    Forced = FALSE
    AlwaysDump = TRUE
    MaxSteps = 1
    MaxFiles = 2
INVARIANTS ForeignKeysRefused
CHECK_DEADLOCK FALSE
