\* Two requests at a time, up to four in all.
SPECIFICATION SiteSpec
CONSTANTS
    r1 = r1
    r2 = r2
    i1 = i1
    i2 = i2
    i3 = i3
    i4 = i4
    Requests = {r1, r2}
    None = None
    Empty = Empty
    Admin = Admin
    Staff = Staff
    Inodes = {i1, i2, i3, i4}
    Models <- MCModels
    Columns <- MCColumns
    Declared = {}
    Rank <- MCRank
    HandWritten <- MCHandWritten
    MaxViewFaults = 1
    FirstRows <- MCFirstRows
    Policies = {"restrict", "cascade", "set_null"}
    PageSize = 2
    Worded <- MCWorded
    TierOf <- MCTierOf
    MaxId = 5
    MaxLogFaults = 1
    Fields <- MCFields
    OptionCap = 1
    FirstEvents <- MCEvents
    Targets <- MCTargets
    MaxEvents = 3
    Visits <- MCVisits
SYMMETRY Symmetric
INVARIANTS
    SiteTypeOK
    TornOnlyWhenShared
    EditsAreSound
    HiddenNotShown
    RowsFit
    RowsAndLogAgree
    LinksReach
PROPERTIES
    SavesItsOwn
    EditKeepsTheRest
    LogOnlyGrows
    ListsAreSound
\* The server waits for the next request.
CHECK_DEADLOCK FALSE
