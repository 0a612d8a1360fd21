SPECIFICATION Spec
CONSTANTS
    m1 = m1
    m2 = m2
    f1 = f1
    f2 = f2
    f3 = f3
    e1 = e1
    e2 = e2
    Models = {m1, m2}
    Fields = {f1, f2, f3}
    Executors = {e1, e2}
    Humans = {h1}
    Plans <- ApartPlans
    Absent = Absent
    Torn = Torn
    Nowhere = Nowhere
    MaxNumber = 4
    MaxFaults = 2
INVARIANTS TypeOK AllOrNothing EarlyEditsSurvive
PROPERTIES InstallsOwn
