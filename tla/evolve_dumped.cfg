SPECIFICATION PlansSpec
CONSTANTS
    Models = {"Post", "Note", "Memo"}
    TableOf <- MCTableOf
    Names = {"id", "title", "post_id"}
    Types = {"i64", "String", "DateTime"}
    None = None
    InitModels <- MCInitModels
    Forced = TRUE
    AlwaysDump = TRUE
    MaxSteps = 2
    MaxFiles = 3
    Words <- MCWords
    NewNames <- MCNewNames
    NewStructs <- MCNewStructs
    RustTypes = {"i64", "String", "DateTime"}
    FirstApps <- MCFirstApps
    PatchesOfPlan = 2
    MaxPatches = 3
INVARIANTS TypeOK MigrationsReachCode PlansAgree
PROPERTIES NothingDropped
\* Three migrations and everything applied and dumped: nothing is left to do.
CHECK_DEADLOCK FALSE
