--------------------------- MODULE CommitChanges ---------------------------
(***************************************************************************)
(* `execute_plan_document`: rustio-core/src/ai/executor.rs.                *)
(*                                                                         *)
(* An executor (the CLI, or a handler of the admin server) reads the       *)
(* project, computes the changes of its plan, checks that the disk is as   *)
(* it read it, writes every change to a .rustio_tmp sibling, and renames   *)
(* those into place.  People edit the same files meanwhile, and nothing    *)
(* keeps a second executor out.                                            *)
(*                                                                         *)
(* A plan is a list of `add_field` steps.  What a file holds is the set of *)
(* edits in it, or Torn once fs::write has truncated it and not filled it. *)
(***************************************************************************)
EXTENDS Naturals, Sequences, FiniteSets, Functions

CONSTANTS
    Models,      \* the models.rs files
    Fields,      \* what the steps add
    Executors,
    Humans,      \* edits made by hand
    Plans,       \* the plan of each executor: its steps
    Absent,      \* the content of a file that does not exist, ...
    Torn,        \* ... of one that was truncated and not filled, ...
    Nowhere,     \* ... and the place of an edit that is not made yet
    MaxNumber,   \* bound: the highest migration number
    MaxFaults    \* bound: I/O errors and kills together

Migrations == [num : 1..MaxNumber, field : Fields]
Paths == Models \cup Migrations
Edits == Fields \cup Humans
Contents == {Absent, Torn} \cup SUBSET Edits
Steps == [model : Models, field : Fields]
Changes == [path : Paths, old : Contents, new : SUBSET Edits]

ASSUME PlansAssumption == Plans \in [Executors -> Seq(Steps)]
ASSUME ContentsAssumption ==
    Absent # Torn /\ \A c \in SUBSET Edits : c # Absent /\ c # Torn
ASSUME PathsAssumption == Models \cap Migrations = {} /\ Fields \cap Humans = {}
ASSUME NowhereAssumption == Nowhere \notin Paths
ASSUME BoundsAssumption == MaxNumber \in Nat \ {0} /\ MaxFaults \in Nat

VARIABLES
    disk,      \* the project's files
    tmp,       \* the .rustio_tmp sibling of each
    pc,        \* where each executor is, ...
    unread,    \* ... the models it has still to read, ...
    view,      \* ... what it read, ...
    changes,   \* ... its preview.file_changes, ...
    at,        \* ... the change it is at, ...
    undo,      \* ... and, in a rollback, the rename it undoes next
    edited,    \* where each edit by hand was made (for properties)
    late,      \* edits made to a file an executor had already checked
    lost,      \* files that a rollback could not restore
    killed,    \* executors that were killed at some time
    faults     \* I/O errors and kills so far

local == <<unread, view, changes>>
ghosts == <<edited, late, lost, killed>>
vars == <<disk, tmp, pc, local, at, undo, ghosts, faults>>

-----------------------------------------------------------------------------
\* plan_execution

\* Steps of S on the model of step i that come before i.
Before(S, i) == {j \in 1..(i - 1) : S[j].model = S[i].model}

\* "the plan appears to have been applied already"
FieldExists(S, v, i) ==
    S[i].field \in v[S[i].model] \cup {S[j].field : j \in Before(S, i)}

\* No step can be patched into a file that was truncated, or twice.
Patchable(S, v) ==
    \A i \in DOMAIN S : v[S[i].model] # Torn /\ ~FieldExists(S, v, i)

\* next_migration_number is n.
IsNext(n, d) ==
    /\ n = 1 \/ \E p \in Migrations : p.num = n - 1 /\ d[p] # Absent
    /\ \A p \in Migrations : d[p] # Absent => p.num < n

\* collapse_duplicate_updates: one update for each model, with what the last
\* step made of the file.
UpdateOf(S, v, m) ==
    [path |-> m, old |-> v[m],
     new |-> v[m] \cup {S[i].field : i \in {j \in DOMAIN S : S[j].model = m}}]

CreateOf(S, n, i) ==
    [path |-> [num |-> n + i - 1, field |-> S[i].field], old |-> Absent,
     new |-> {S[i].field}]

FileChanges(S, v, n) ==
    {UpdateOf(S, v, S[i].model) : i \in DOMAIN S} \cup {CreateOf(S, n, i) : i \in DOMAIN S}

\* An update stands at the place of the first step on its model.
Place(S, n, path) ==
    IF path \in Models
    THEN 2 * (CHOOSE i \in DOMAIN S : S[i].model = path /\ Before(S, i) = {})
    ELSE 2 * (path.num - n + 1) + 1

InPlace(S, n, list) ==
    \A i, j \in DOMAIN list :
        i < j => Place(S, n, list[i].path) <= Place(S, n, list[j].path)

-----------------------------------------------------------------------------
Idle == {"idle", "ok", "failed"}

Change(e) == changes[e][at[e]]
MoreChanges(e) == at[e] <= Len(changes[e])

Fault == faults < MaxFaults /\ faults' = faults + 1

Blank == [m \in Models |-> {}]

\* The call returns, and what it held is gone.
Return(e, to) ==
    /\ pc' = [pc EXCEPT ![e] = to]
    /\ unread' = [unread EXCEPT ![e] = {}]
    /\ view' = [view EXCEPT ![e] = Blank]
    /\ changes' = [changes EXCEPT ![e] = <<>>]
    /\ at' = [at EXCEPT ![e] = 1]
    /\ undo' = [undo EXCEPT ![e] = 0]

\* ProjectView::from_dir reads the models one after the other ...
Begin(e) ==
    /\ pc[e] \in Idle
    /\ pc' = [pc EXCEPT ![e] = "read"]
    /\ unread' = [unread EXCEPT ![e] = Models]
    /\ UNCHANGED <<disk, tmp, view, changes, at, undo, ghosts, faults>>

ReadModel(e, m) ==
    /\ pc[e] = "read"
    /\ m \in unread[e]
    /\ unread' = [unread EXCEPT ![e] = @ \ {m}]
    /\ view' = [view EXCEPT ![e][m] = disk[m]]
    /\ UNCHANGED <<disk, tmp, pc, changes, at, undo, ghosts, faults>>

\* ... and then the migrations; the rest of plan_execution is pure.
PlanExecution(e) ==
    /\ pc[e] = "read"
    /\ unread[e] = {}
    /\ Patchable(Plans[e], view[e])
    /\ \E next \in 1..MaxNumber :
        LET all == FileChanges(Plans[e], view[e], next)
        IN /\ IsNext(next, disk)
           /\ next + Len(Plans[e]) - 1 <= MaxNumber
           /\ \E list \in Bijection(1..Cardinality(all), all) :
                /\ InPlace(Plans[e], next, list)
                /\ changes' = [changes EXCEPT ![e] = list]
    /\ at' = [at EXCEPT ![e] = 1]
    /\ pc' = [pc EXCEPT ![e] = "check"]
    /\ UNCHANGED <<disk, tmp, unread, view, undo, ghosts, faults>>

Refuse(e) ==
    /\ pc[e] = "read"
    /\ unread[e] = {}
    /\ ~Patchable(Plans[e], view[e])
    /\ Return(e, "failed")
    /\ UNCHANGED <<disk, tmp, ghosts, faults>>

\* The next pass over the changes begins.
NextPass(e, from, to) ==
    /\ pc[e] = from
    /\ ~MoreChanges(e)
    /\ pc' = [pc EXCEPT ![e] = to]
    /\ at' = [at EXCEPT ![e] = 1]
    /\ UNCHANGED <<disk, tmp, local, undo, ghosts, faults>>

\* All renames are done.
Finish(e) ==
    /\ pc[e] = "rename"
    /\ ~MoreChanges(e)
    /\ Return(e, "ok")
    /\ UNCHANGED <<disk, tmp, ghosts, faults>>

\* Mutant: an Update is not compared with what was read.
CheckExists(e) ==
    /\ pc[e] = "check"
    /\ MoreChanges(e)
    /\ disk[Change(e).path] = Absent <=> Change(e).old = Absent
    /\ at' = [at EXCEPT ![e] = @ + 1]
    /\ UNCHANGED <<disk, tmp, pc, local, undo, ghosts, faults>>

\* commit_changes, pass 1: an Update finds what was read, a Create nothing.
Check(e) ==
    /\ pc[e] = "check"
    /\ MoreChanges(e)
    /\ disk[Change(e).path] = Change(e).old
    /\ at' = [at EXCEPT ![e] = @ + 1]
    /\ UNCHANGED <<disk, tmp, pc, local, undo, ghosts, faults>>

FileConflict(e) ==
    /\ pc[e] = "check"
    /\ MoreChanges(e)
    /\ disk[Change(e).path] # Change(e).old
    /\ Return(e, "failed")
    /\ UNCHANGED <<disk, tmp, ghosts, faults>>

\* Mutant: a sibling that exists is taken as written.
WriteMissingTmp(e) ==
    /\ pc[e] = "write"
    /\ MoreChanges(e)
    /\ tmp' = [tmp EXCEPT ![Change(e).path] =
                  IF @ = Absent THEN Change(e).new ELSE @]
    /\ at' = [at EXCEPT ![e] = @ + 1]
    /\ UNCHANGED <<disk, pc, local, undo, ghosts, faults>>

\* Pass 2: write the siblings, over what an earlier run may have left.
WriteTmp(e) ==
    /\ pc[e] = "write"
    /\ MoreChanges(e)
    /\ tmp' = [tmp EXCEPT ![Change(e).path] = Change(e).new]
    /\ at' = [at EXCEPT ![e] = @ + 1]
    /\ UNCHANGED <<disk, pc, local, undo, ghosts, faults>>

\* cleanup_tmps: the siblings of the changes in I are removed.
Cleaned(e, I) ==
    LET gone == {changes[e][i].path : i \in I}
    IN [p \in Paths |-> IF p \in gone THEN Absent ELSE tmp[p]]

\* A write fails: the earlier siblings go, its own stays as it is.
WriteTmpFails(e) ==
    /\ pc[e] = "write"
    /\ MoreChanges(e)
    /\ Fault
    /\ \E left \in {Absent, Torn} :
        tmp' = [Cleaned(e, 1..(at[e] - 1)) EXCEPT ![Change(e).path] = left]
    /\ Return(e, "failed")
    /\ UNCHANGED <<disk, ghosts>>

\* Pass 3: rename replaces whatever is at the target.
Rename(e) ==
    /\ pc[e] = "rename"
    /\ MoreChanges(e)
    /\ tmp[Change(e).path] # Absent
    /\ disk' = [disk EXCEPT ![Change(e).path] = tmp[Change(e).path]]
    /\ tmp' = [tmp EXCEPT ![Change(e).path] = Absent]
    /\ at' = [at EXCEPT ![e] = @ + 1]
    /\ UNCHANGED <<pc, local, undo, ghosts, faults>>

\* A rename fails: the sibling is gone, or the file system says no.
RenameFails(e) ==
    /\ pc[e] = "rename"
    /\ MoreChanges(e)
    /\ IF tmp[Change(e).path] = Absent THEN UNCHANGED faults ELSE Fault
    /\ pc' = [pc EXCEPT ![e] = "rollback"]
    /\ undo' = [undo EXCEPT ![e] = at[e] - 1]
    /\ UNCHANGED <<disk, tmp, local, at, ghosts>>

\* Mutant: what was there is removed, not restored.
RollbackRemoves(e) ==
    /\ pc[e] = "rollback"
    /\ undo[e] > 0
    /\ disk' = [disk EXCEPT ![changes[e][undo[e]].path] = Absent]
    /\ undo' = [undo EXCEPT ![e] = @ - 1]
    /\ UNCHANGED <<tmp, pc, local, at, ghosts, faults>>

\* Mutant: only updated files are rolled back.
RollbackUpdates(e) ==
    /\ pc[e] = "rollback"
    /\ undo[e] > 0
    /\ LET c == changes[e][undo[e]]
       IN disk' = IF c.path \in Models THEN [disk EXCEPT ![c.path] = c.old]
                  ELSE disk
    /\ undo' = [undo EXCEPT ![e] = @ - 1]
    /\ UNCHANGED <<tmp, pc, local, at, ghosts, faults>>

\* rollback_renames, last rename first: the old content is written back, a
\* created file is removed.
Rollback(e) ==
    /\ pc[e] = "rollback"
    /\ undo[e] > 0
    /\ LET c == changes[e][undo[e]] IN disk' = [disk EXCEPT ![c.path] = c.old]
    /\ undo' = [undo EXCEPT ![e] = @ - 1]
    /\ UNCHANGED <<tmp, pc, local, at, ghosts, faults>>

\* What a write that does not end well leaves of a file.
Cut(c) ==
    \/ UNCHANGED disk
    \/ c.old # Absent /\ disk' = [disk EXCEPT ![c.path] = Torn]

\* `let _ =` passes over what fails.
RollbackFails(e) ==
    /\ pc[e] = "rollback"
    /\ undo[e] > 0
    /\ Fault
    /\ LET c == changes[e][undo[e]] IN Cut(c) /\ lost' = lost \cup {c.path}
    /\ undo' = [undo EXCEPT ![e] = @ - 1]
    /\ UNCHANGED <<tmp, pc, local, at, edited, late, killed>>

\* ... and the siblings that are not renamed yet are removed.
RolledBack(e) ==
    /\ pc[e] = "rollback"
    /\ undo[e] = 0
    /\ tmp' = Cleaned(e, at[e]..Len(changes[e]))
    /\ Return(e, "failed")
    /\ UNCHANGED <<disk, ghosts, faults>>

\* The process dies, possibly in the middle of an fs::write.
Kill(e) ==
    /\ pc[e] \notin Idle
    /\ Fault
    /\ Return(e, "idle")
    /\ killed' = killed \cup {e}
    /\ \/ UNCHANGED <<disk, tmp, lost>>
       \/ /\ pc[e] = "write" /\ MoreChanges(e)
          /\ tmp' = [tmp EXCEPT ![Change(e).path] = Torn]
          /\ UNCHANGED <<disk, lost>>
       \/ /\ pc[e] = "rollback" /\ undo[e] > 0
          /\ LET c == changes[e][undo[e]] IN Cut(c) /\ lost' = lost \cup {c.path}
          /\ UNCHANGED tmp
    /\ UNCHANGED <<edited, late>>

\* Pass 1 of e is past the file p, and e has not returned.
Checked(e, p) ==
    \E i \in 1..Len(changes[e]) :
        /\ changes[e][i].path = p
        /\ \/ pc[e] = "check" /\ i < at[e]
           \/ pc[e] \in {"write", "rename", "rollback"}

\* Somebody edits a file, or adds the next migration, and saves it.
Edit(h, p) ==
    /\ edited[h] = Nowhere
    /\ disk[p] # Absent \/ (p \in Migrations /\ IsNext(p.num, disk))
    /\ disk' = [disk EXCEPT ![p] = IF @ \in {Absent, Torn} THEN {h} ELSE @ \cup {h}]
    /\ edited' = [edited EXCEPT ![h] = p]
    /\ late' = IF \E e \in Executors : Checked(e, p) THEN late \cup {h} ELSE late
    /\ UNCHANGED <<tmp, pc, local, at, undo, lost, killed, faults>>

Step(e) ==
    \/ \E m \in Models : ReadModel(e, m)
    \/ PlanExecution(e) \/ Refuse(e) \/ Check(e) \/ FileConflict(e)
    \/ WriteTmp(e) \/ WriteTmpFails(e) \/ Rename(e) \/ RenameFails(e)
    \/ Rollback(e) \/ RollbackFails(e) \/ RolledBack(e)
    \/ NextPass(e, "check", "write") \/ NextPass(e, "write", "rename")
    \/ Finish(e)

-----------------------------------------------------------------------------
Init ==
    /\ disk = [p \in Paths |-> IF p \in Models THEN {} ELSE Absent]
    /\ tmp = [p \in Paths |-> Absent]
    /\ pc = [e \in Executors |-> "idle"]
    /\ unread = [e \in Executors |-> {}]
    /\ view = [e \in Executors |-> Blank]
    /\ changes = [e \in Executors |-> <<>>]
    /\ at = [e \in Executors |-> 1]
    /\ undo = [e \in Executors |-> 0]
    /\ edited = [h \in Humans |-> Nowhere]
    /\ late = {}
    /\ lost = {}
    /\ killed = {}
    /\ faults = 0

Next ==
    \/ \E e \in Executors : Begin(e) \/ Step(e) \/ Kill(e)
    \/ \E h \in Humans, p \in Paths : Edit(h, p)

Spec == Init /\ [][Next]_vars

-----------------------------------------------------------------------------
\* Properties.

\* Every variable keeps its shape, and no models.rs ever disappears.
TypeOK ==
    /\ disk \in [Paths -> Contents]
    /\ \A m \in Models : disk[m] # Absent
    /\ tmp \in [Paths -> Contents]
    /\ pc \in [Executors -> Idle \cup {"read", "check", "write", "rename",
                                       "rollback"}]
    /\ unread \in [Executors -> SUBSET Models]
    /\ view \in [Executors -> [Models -> Contents \ {Absent}]]
    /\ changes \in [Executors -> Seq(Changes)]
    /\ at \in [Executors -> Nat]
    /\ undo \in [Executors -> Nat]
    /\ edited \in [Humans -> Paths \cup {Nowhere}]
    /\ late \subseteq Humans
    /\ lost \subseteq Paths
    /\ killed \subseteq Executors
    /\ faults \in Nat

\* Where step i of e's plan is on disk.
Holds(p, f) == disk[p] \notin {Absent, Torn} /\ f \in disk[p]
ModelHas(e, i) == Holds(Plans[e][i].model, Plans[e][i].field)
MigrationHas(e, i) ==
    \E n \in 1..MaxNumber :
        Holds([num |-> n, field |-> Plans[e][i].field], Plans[e][i].field)

Applied(e) ==
    \A i \in DOMAIN Plans[e] : ModelHas(e, i) /\ MigrationHas(e, i)
Untouched(e) ==
    \A i \in DOMAIN Plans[e] : ~ModelHas(e, i) /\ ~MigrationHas(e, i)

\* A rollback has left a file of e's plan as it was.
NotRestored(e) ==
    \E i \in DOMAIN Plans[e], p \in lost :
        p = Plans[e][i].model \/ (p \in Migrations /\ p.field = Plans[e][i].field)

\* "All-or-nothing. A partial apply is worse than no apply" (executor.rs:13):
\* an executor that says Ok has its whole plan on disk; one that says Err, and
\* was never killed, has the whole plan or nothing of it there -- unless a write
\* of its rollback failed, which is the one failure it passes over.
AllOrNothing ==
    \A e \in Executors :
        /\ pc[e] = "ok" => Applied(e)
        /\ pc[e] = "failed" /\ e \notin killed
                => Applied(e) \/ Untouched(e) \/ NotRestored(e)

\* "Never silently overwrite" (executor.rs:186): an edit by hand that is saved
\* before commit_changes checks its file is never lost, neither to the new
\* content nor to a rollback, but for a rollback whose write is cut short.
EarlyEditsSurvive ==
    \A h \in Humans :
        edited[h] \notin lost \cup {Nowhere} /\ h \notin late => Holds(edited[h], h)

\* A rename installs what this executor computed from what it checked, never
\* the sibling a killed run left behind.
InstallsOwn ==
    [][\A e \in Executors :
        pc[e] = "rename" /\ at'[e] = at[e] + 1
            => disk'[Change(e).path] = Change(e).new]_vars
=============================================================================
