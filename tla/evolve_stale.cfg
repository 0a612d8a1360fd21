\* Plans that are made before the schema is dumped again.
SPECIFICATION Spec
CONSTANTS
    Models = {"Post", "Note"}
    TableOf <- TwoTableOf
    Names = {"id", "title", "post_id"}
    Types = {"i64", "String"}
    None = None
    InitModels <- TwoInitModels
    Forced = FALSE
    AlwaysDump = FALSE
    MaxSteps = 1
    MaxFiles = 2
INVARIANTS DriftIsCaught
CHECK_DEADLOCK FALSE
