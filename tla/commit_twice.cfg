SPECIFICATION Spec
CONSTANTS
    m1 = m1
    m2 = m2
    f1 = f1
    f2 = f2
    f3 = f3
    e1 = e1
    e2 = e2
    Models = {m1}
    Fields = {f1}
    Executors = {e1, e2}
    Humans = {}
    Plans <- SamePlans
    Absent = Absent
    Torn = Torn
    Nowhere = Nowhere
    MaxNumber = 2
    MaxFaults = 0
INVARIANTS ReportedIsApplied
