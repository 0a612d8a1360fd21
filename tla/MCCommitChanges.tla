--------------------------- MODULE MCCommitChanges ---------------------------
\* Small instances of CommitChanges for TLC.
EXTENDS CommitChanges, TLC

CONSTANTS m1, m2, f1, f2, f3, e1, e2

\* Two fields for one model, and one for the other, from another process.
ApartPlans ==
    e1 :> <<[model |-> m1, field |-> f1], [model |-> m1, field |-> f2]>>
    @@ e2 :> <<[model |-> m2, field |-> f3]>>

\* The admin's Apply button pressed twice.
SamePlans ==
    [e \in {e1, e2} |-> <<[model |-> m1, field |-> f1]>>]

\* "verifies preconditions against the live filesystem, and applies the change
\* set atomically" (executor.rs:2970): when nobody is at work, a plan that was
\* reported applied is on disk, every file of it.
ReportedIsApplied ==
    (\A e \in Executors : pc[e] \in Idle)
        => \A e \in Executors : pc[e] = "ok" => Applied(e)
=============================================================================
