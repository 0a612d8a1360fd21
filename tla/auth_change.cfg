SPECIFICATION Spec
CONSTANTS
    Browsers = {b1, b2}
    Passwords = {"old", "new"}
    InitPassword = "old"
    None = None
    MaxFailures = 2
    MaxSessions = 3
    MaxChanges = 1

INVARIANTS SignedInAgain
