SPECIFICATION FairSpec
CONSTANTS
    Slugs <- MCSlugs
    MaxNumber = 3
    Rank <- MCRank
    Objects <- MCObjects
    Contents <- TwoContents
    InitDir <- MCGapDir
    Appliers = {a1, a2}
    Generators = {g1}
    NoOne = NoOne
    Absent = Absent
    MaxEdits = 0
    MaxMerges = 0
    MaxRemoves = 0
    MaxCrashes = 1
INVARIANTS NumbersAscend
PROPERTIES Returns
