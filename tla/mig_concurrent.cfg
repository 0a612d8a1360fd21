SPECIFICATION Spec
CONSTANTS
    Slugs <- MCSlugs
    MaxNumber = 2
    Rank <- MCRank
    Objects <- MCObjects
    Contents <- MCContents
    InitDir <- MCInitDir
    Appliers = {a1, a2}
    Generators = {}
    NoOne = NoOne
    Absent = Absent
    MaxEdits = 1
    MaxMerges = 1
    MaxRemoves = 1
    MaxCrashes = 1
SYMMETRY MCSymmetry
INVARIANTS TypeOK AtMostOnce RecordedIsEffective OkMeansComplete DatabaseIsHistory
PROPERTIES InOrder LedgerSpec
