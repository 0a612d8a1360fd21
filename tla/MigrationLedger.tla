-------------------------- MODULE MigrationLedger --------------------------
(***************************************************************************)
(* What `rustio migrate apply` promises, whoever runs it, however often    *)
(* and however many at once (rustio-core/src/migrations.rs:1-6): a         *)
(* migration file takes effect as a whole or not at all, at most once, and *)
(* the tracking table names exactly the files that took effect.            *)
(***************************************************************************)
EXTENDS Naturals, Sequences

CONSTANTS
    Filenames,   \* names of migration files
    Contents     \* statement lists a file can hold

VARIABLES
    effects,     \* the transactions that took effect, oldest first
    rows         \* rustio_migrations.filename

vars == <<effects, rows>>

Init ==
    /\ effects = <<>>
    /\ rows = {}

\* A file that is not in the table takes effect, and is in it from then on.
TakeEffect(f, c) ==
    /\ f \notin rows
    /\ effects' = Append(effects, [file |-> f, ran |-> c])
    /\ rows' = rows \cup {f}

Next == \E f \in Filenames, c \in Contents : TakeEffect(f, c)

Spec == Init /\ [][Next]_vars
=============================================================================
