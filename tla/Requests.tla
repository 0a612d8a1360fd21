------------------------------ MODULE Requests ------------------------------
(***************************************************************************)
(* What the parts of the admin share: the requests under way at a time.    *)
(***************************************************************************)
CONSTANTS
    Requests,    \* slots for requests that are handled at the same time
    None         \* no inode, no row, no language, nobody
=============================================================================
