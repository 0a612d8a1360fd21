SPECIFICATION Spec
CONSTANTS
    Slugs <- MCSlugs
    MaxNumber = 2
    Rank <- MCRank
    Objects <- ForceObjects
    Contents <- ForceContents
    InitDir <- MCForceDir
    Appliers = {a1}
    Generators = {}
    NoOne = NoOne
    Absent = Absent
    MaxEdits = 0
    MaxMerges = 0
    MaxRemoves = 0
    MaxCrashes = 1
INVARIANTS ForcedDropApplies
