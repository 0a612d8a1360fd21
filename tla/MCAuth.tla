------------------------------- MODULE MCAuth ------------------------------
\* Small instances of Auth for TLC.
EXTENDS Auth, TLC

MCSymmetry == Permutations(Browsers)

\* "After this call, the user must sign in again on every device"
\* (auth.rs:454): whoever has a session has proved the current password.
SignedInAgain == \A s \in sessions : s.proved = changes
=============================================================================
