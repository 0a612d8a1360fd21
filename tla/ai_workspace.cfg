CONSTANTS
    Models <- MCModels
    Core <- MCCore
    Names <- MCNames
    Types <- MCTypes
    Hints <- MCHints
    Slug <- MCSlug
    ViaOf <- MCViaOf
    Heuristic <- MCHeuristic
    None = None
    Terminals = {t1, t2}
    Admins = {a1, a2}
    t1 = t1
    t2 = t2
    a1 = a1
    a2 = a2
    Days <- MCDays
    Apps <- MCApps
    StructOf <- MCStructOf
    Scaffold <- MCScaffold
    CoreFields <- MCCoreFields
    Garbled = Garbled
    Missing = Missing
    Unread = Unread
    MaxApplied = 2
    MaxSettings = 1
SPECIFICATION ProjectSpec
SYMMETRY Symmetric
CHECK_DEADLOCK FALSE
INVARIANTS ProjectTypeOK AdviceHelps HealthyMeansServed AppliedAsShown AppliedOnce PlannedIsAllowed
PROPERTIES NothingLostUnseen
