----------------------------- MODULE Migrations -----------------------------
(***************************************************************************)
(* Forward-only migrations: rustio-core/src/migrations.rs.                 *)
(*                                                                         *)
(* A directory of `NNNN_<slug>.sql` files, the tracking table              *)
(* `rustio_migrations`, any number of processes in `apply_with` (the CLI   *)
(* and programs that migrate at boot), any number in `generate`, and the   *)
(* people who edit, add and remove files by hand.                          *)
(*                                                                         *)
(* SQLite gives one writer at a time: the first statement of a transaction *)
(* that writes takes the lock, COMMIT or ROLLBACK gives it back, and who   *)
(* waits longer than the busy timeout gets an error.  A reader sees the    *)
(* last commit.                                                            *)
(***************************************************************************)
EXTENDS Naturals, Sequences, FiniteSets

CONSTANTS
    Slugs,        \* sanitized migration names
    MaxNumber,    \* bound: the highest number a file is given
    Rank,         \* position of a filename in the byte order `list` sorts by
    Objects,      \* tables and columns the statements are about
    Contents,     \* statement lists a finished file can hold
    InitDir,      \* the files that exist at the start
    Appliers,     \* processes that run `apply_with`
    Generators,   \* processes that run `generate`
    NoOne,        \* nobody holds SQLite's write lock
    Absent,       \* the content of a file that does not exist
    MaxEdits,     \* bound: changes made by hand to files that exist
    MaxMerges,    \* bound: files that arrive from elsewhere (a git pull)
    MaxRemoves,   \* bound: files removed by hand
    MaxCrashes    \* bound: processes killed

Numbers == 1..MaxNumber
Filenames == [num : Numbers, slug : Slugs]

\* A statement: what must exist for it, what it adds, what it drops.
\* A "noop" touches nothing: a comment, or PRAGMA foreign_keys, which SQLite
\* ignores inside a transaction.  "begin" is BEGIN or COMMIT.
Statements == [op : {"noop", "sql", "begin"},
               needs : SUBSET Objects, adds : SUBSET Objects,
               drops : SUBSET Objects]

\* fs::write truncates before it writes: a reader may find no statement.
Empty == <<>>
FileContents == Contents \cup {Empty}

ASSUME NamesAssumption == MaxNumber \in Nat \ {0} /\ Slugs # {}
ASSUME RankAssumption ==
    /\ Rank \in [Filenames -> Nat]
    /\ \A f, g \in Filenames : Rank[f] = Rank[g] => f = g
ASSUME ContentsAssumption == Contents \subseteq Seq(Statements)
ASSUME NoopAssumption ==
    \A c \in Contents : \A i \in DOMAIN c :
        c[i].op = "noop" => c[i].adds = {} /\ c[i].drops = {}
ASSUME AbsentAssumption == Absent \notin FileContents
ASSUME InitDirAssumption == InitDir \in [Filenames -> FileContents \cup {Absent}]
ASSUME NoOneAssumption == NoOne \notin Appliers
ASSUME BoundsAssumption ==
    {MaxEdits, MaxMerges, MaxRemoves, MaxCrashes} \subseteq Nat

VARIABLES
    dir,        \* the migrations directory
    recorded,   \* rows of rustio_migrations
    objects,    \* tables and columns of the committed database
    history,    \* the committed transactions, oldest first (for properties)
    writer,     \* who holds SQLite's write lock
    pc,         \* where each process in apply_with is ...
    seen,       \* ... already_applied, as it read it ...
    listed,     \* ... the files it listed, ...
    todo,       \* ... those it has still to visit ...
    file,       \* ... and the one it is at: its name, ...
    body,       \* ... its statements, ...
    ran,        \* ... those that are executed ...
    view,       \* ... and the database its transaction sees
    gpc,        \* where each process in generate is ...
    gfile,      \* ... and the name it has chosen
    spent       \* how much of each bound is used up

disk == <<dir, gpc, gfile>>
db == <<recorded, objects, history>>
plan == <<seen, listed, todo>>
tx == <<file, body, ran, view>>
vars == <<disk, db, writer, pc, plan, tx, spent>>

-----------------------------------------------------------------------------
\* Files on disk.

\* `list`: the .sql files, to be visited in ascending order of their names.
Listed(d) == {f \in Filenames : d[f] # Absent}

\* Mutant: visits the files in the order the directory returns them.
UnsortedFirst(f, S) == f \in S

First(f, S) == f \in S /\ \A g \in S : Rank[f] <= Rank[g]

\* `status`: what is listed and not in the table, in listing order.
Pending(files, rows) == files \ rows

\* Mutant: counts the files instead of taking the highest number.
CountNumber(files) == Cardinality(files)

\* `next_number`: one more than the highest number in use, 1 when none is.
NextNumber(files) ==
    IF files = {} THEN 1
    ELSE CHOOSE n \in 1..(MaxNumber + 1) :
            /\ \E f \in files : n = f.num + 1
            /\ \A f \in files : f.num < n

-----------------------------------------------------------------------------
\* Statements.

\* SQLite refuses a BEGIN inside the transaction `apply_with` has open, a
\* statement about what does not exist, and one that creates what does.
Refused(s, objs) ==
    \/ s.op = "begin"
    \/ ~(s.needs \subseteq objs)
    \/ s.adds \cap (objs \ s.drops) # {}

Effect(s, objs) == (objs \ s.drops) \cup s.adds

-----------------------------------------------------------------------------
\* apply_with

Stages == {"idle", "started", "tabled", "loop", "exec", "record", "commit",
           "ok", "failed"}

AnyFile == CHOOSE f \in Filenames : TRUE

HasLock(a) == writer \in {NoOne, a}

\* What the transaction in process a sees: the committed database until it
\* writes, its own version from then on.
View(a) == IF writer = a THEN view[a] ELSE objects

Release(a) == IF writer = a THEN NoOne ELSE writer

\* A new call, or none: the locals hold nothing.
Fresh(a) ==
    /\ seen' = [seen EXCEPT ![a] = {}]
    /\ listed' = [listed EXCEPT ![a] = {}]
    /\ todo' = [todo EXCEPT ![a] = {}]
    /\ file' = [file EXCEPT ![a] = AnyFile]
    /\ body' = [body EXCEPT ![a] = Empty]
    /\ ran' = [ran EXCEPT ![a] = Empty]
    /\ view' = [view EXCEPT ![a] = {}]

\* ensure_core_tables and ensure_tracking_table: CREATE IF NOT EXISTS.
Start(a) ==
    /\ pc[a] \in {"idle", "ok", "failed"}
    /\ pc' = [pc EXCEPT ![a] = "started"]
    /\ Fresh(a)
    /\ UNCHANGED <<disk, db, writer, spent>>

\* SELECT filename FROM rustio_migrations, once per run.
ReadApplied(a) ==
    /\ pc[a] = "started"
    /\ pc' = [pc EXCEPT ![a] = "tabled"]
    /\ seen' = [seen EXCEPT ![a] = recorded]
    /\ UNCHANGED <<disk, db, writer, listed, todo, tx, spent>>

\* list(dir), once per run; what `seen` names is skipped in the loop.
ListFiles(a) ==
    /\ pc[a] = "tabled"
    /\ pc' = [pc EXCEPT ![a] = "loop"]
    /\ listed' = [listed EXCEPT ![a] = Listed(dir)]
    /\ todo' = [todo EXCEPT ![a] = Pending(Listed(dir), seen[a])]
    /\ UNCHANGED <<disk, db, writer, seen, tx, spent>>

\* Mutant: a file that has gone is opened all the same.
OpenMissing(a) ==
    /\ pc[a] = "loop"
    /\ \E f \in todo[a] :
        /\ First(f, todo[a])
        /\ file' = [file EXCEPT ![a] = f]
        /\ body' = [body EXCEPT ![a] = dir[f]]
    /\ ran' = [ran EXCEPT ![a] = Empty]
    /\ pc' = [pc EXCEPT ![a] = "exec"]
    /\ UNCHANGED <<disk, db, writer, plan, view, spent>>

\* The next file in order: read it and open its transaction.
OpenFile(a) ==
    /\ pc[a] = "loop"
    /\ \E f \in todo[a] :
        /\ First(f, todo[a])
        /\ dir[f] # Absent
        /\ file' = [file EXCEPT ![a] = f]
        /\ body' = [body EXCEPT ![a] = dir[f]]
    /\ ran' = [ran EXCEPT ![a] = Empty]
    /\ pc' = [pc EXCEPT ![a] = "exec"]
    /\ UNCHANGED <<disk, db, writer, plan, view, spent>>

\* The run ends with an error; an open transaction rolls back.
Fail(a) ==
    /\ pc' = [pc EXCEPT ![a] = "failed"]
    /\ writer' = Release(a)
    /\ UNCHANGED <<disk, db, plan, tx, spent>>

\* The next file was removed after it was listed: reading it fails.
FileGone(a) ==
    /\ pc[a] = "loop"
    /\ \E f \in todo[a] : First(f, todo[a]) /\ dir[f] = Absent
    /\ Fail(a)

\* The next statement of the open file, when there is one.
More(a) == pc[a] = "exec" /\ Len(ran[a]) < Len(body[a])
NextStatement(a) == body[a][Len(ran[a]) + 1]

\* A comment is sent like any statement, and needs no lock.
ExecNoop(a) ==
    /\ More(a)
    /\ NextStatement(a).op = "noop"
    /\ ran' = [ran EXCEPT ![a] = Append(@, NextStatement(a))]
    /\ UNCHANGED <<disk, db, writer, pc, plan, file, body, view, spent>>

\* Mutant: the statement runs on the pool and not in the transaction.
ExecOnPool(a) ==
    /\ More(a)
    /\ NextStatement(a).op = "sql"
    /\ HasLock(a)
    /\ ~Refused(NextStatement(a), objects)
    /\ ran' = [ran EXCEPT ![a] = Append(@, NextStatement(a))]
    /\ objects' = Effect(NextStatement(a), objects)
    /\ view' = [view EXCEPT ![a] = objects']
    /\ UNCHANGED <<disk, recorded, history, writer, pc, plan, file, body, spent>>

ExecStatement(a) ==
    /\ More(a)
    /\ NextStatement(a).op = "sql"
    /\ HasLock(a)
    /\ ~Refused(NextStatement(a), View(a))
    /\ writer' = a
    /\ ran' = [ran EXCEPT ![a] = Append(@, NextStatement(a))]
    /\ view' = [view EXCEPT ![a] = Effect(NextStatement(a), View(a))]
    /\ UNCHANGED <<disk, db, pc, plan, file, body, spent>>

\* Mutant: a migration that fails is logged and the loop goes on.
SkipFailed(a) ==
    /\ More(a)
    /\ NextStatement(a).op # "noop"
    /\ Refused(NextStatement(a), View(a))
    /\ todo' = [todo EXCEPT ![a] = @ \ {file[a]}]
    /\ pc' = [pc EXCEPT ![a] = "loop"]
    /\ writer' = Release(a)
    /\ UNCHANGED <<disk, db, seen, listed, tx, spent>>

\* A refused statement: `?` leaves apply_with and the transaction rolls back.
StatementFails(a) ==
    /\ More(a)
    /\ NextStatement(a).op # "noop"
    /\ Refused(NextStatement(a), View(a))
    /\ Fail(a)

\* Mutant: the row is inserted before the last statement.
RecordEarly(a) ==
    /\ pc[a] = "exec"
    /\ pc' = [pc EXCEPT ![a] = "record"]
    /\ UNCHANGED <<disk, db, writer, plan, tx, spent>>

AllExecuted(a) ==
    /\ pc[a] = "exec"
    /\ ran[a] = body[a]
    /\ pc' = [pc EXCEPT ![a] = "record"]
    /\ UNCHANGED <<disk, db, writer, plan, tx, spent>>

\* Mutant: the row is inserted in a transaction of its own.
RecordApart(a) ==
    /\ pc[a] = "record"
    /\ HasLock(a)
    /\ file[a] \notin recorded
    /\ recorded' = recorded \cup {file[a]}
    /\ writer' = a
    /\ view' = [view EXCEPT ![a] = View(a)]
    /\ pc' = [pc EXCEPT ![a] = "commit"]
    /\ UNCHANGED <<disk, objects, history, plan, file, body, ran, spent>>

\* Mutant: filename is not a key of the table.
RecordWithoutKey(a) ==
    /\ pc[a] = "record"
    /\ HasLock(a)
    /\ writer' = a
    /\ view' = [view EXCEPT ![a] = View(a)]
    /\ pc' = [pc EXCEPT ![a] = "commit"]
    /\ UNCHANGED <<disk, db, plan, file, body, ran, spent>>

\* INSERT INTO rustio_migrations, inside the same transaction.
RecordFile(a) ==
    /\ pc[a] = "record"
    /\ HasLock(a)
    /\ file[a] \notin recorded
    /\ writer' = a
    /\ view' = [view EXCEPT ![a] = View(a)]
    /\ pc' = [pc EXCEPT ![a] = "commit"]
    /\ UNCHANGED <<disk, db, plan, file, body, ran, spent>>

\* Mutant: who comes second tries the same file again.
TryAgain(a) ==
    /\ pc[a] = "record"
    /\ HasLock(a)
    /\ file[a] \in recorded
    /\ pc' = [pc EXCEPT ![a] = "loop"]
    /\ writer' = Release(a)
    /\ UNCHANGED <<disk, db, plan, tx, spent>>

\* filename is the primary key: who comes second is rolled back.
AlreadyRecorded(a) ==
    /\ pc[a] = "record"
    /\ HasLock(a)
    /\ file[a] \in recorded
    /\ Fail(a)

\* tx.commit(): the statements and the row become visible together.
Commit(a) ==
    /\ pc[a] = "commit"
    /\ recorded' = recorded \cup {file[a]}
    /\ objects' = view[a]
    /\ history' = Append(history, [file |-> file[a], ran |-> ran[a]])
    /\ writer' = NoOne
    /\ todo' = [todo EXCEPT ![a] = @ \ {file[a]}]
    /\ pc' = [pc EXCEPT ![a] = "loop"]
    /\ UNCHANGED <<disk, seen, listed, tx, spent>>

\* The commit itself fails (disk full, a reader that does not let go).
CommitFails(a) == pc[a] = "commit" /\ Fail(a)

\* Somebody else writes for longer than the busy timeout.
Busy(a) ==
    /\ \/ More(a) /\ NextStatement(a).op = "sql"
       \/ pc[a] = "record"
    /\ ~HasLock(a)
    /\ Fail(a)

Finish(a) ==
    /\ pc[a] = "loop"
    /\ todo[a] = {}
    /\ pc' = [pc EXCEPT ![a] = "ok"]
    /\ UNCHANGED <<disk, db, writer, plan, tx, spent>>

Applying(a) == pc[a] \notin {"idle", "ok", "failed"}

\* A bounded event happens once more.
Spend(what, max) ==
    /\ spent[what] < max
    /\ spent' = [spent EXCEPT ![what] = @ + 1]

\* The process dies; SQLite rolls its transaction back.
Kill(a) ==
    /\ Applying(a)
    /\ Spend("crashes", MaxCrashes)
    /\ pc' = [pc EXCEPT ![a] = "idle"]
    /\ writer' = Release(a)
    /\ Fresh(a)
    /\ UNCHANGED <<disk, db>>

\* What a process does once it has been started.
Step(a) ==
    \/ ReadApplied(a) \/ ListFiles(a) \/ OpenFile(a) \/ FileGone(a)
    \/ ExecNoop(a) \/ ExecStatement(a) \/ StatementFails(a) \/ AllExecuted(a)
    \/ RecordFile(a) \/ AlreadyRecorded(a) \/ Commit(a) \/ CommitFails(a)
    \/ Busy(a) \/ Finish(a)

-----------------------------------------------------------------------------
\* generate

\* list + next_number choose the name ...
ChooseName(g) ==
    /\ gpc[g] = "idle"
    /\ NextNumber(Listed(dir)) \in Numbers
    /\ \E s \in Slugs :
        gfile' = [gfile EXCEPT ![g] =
                    [num |-> NextNumber(Listed(dir)), slug |-> s]]
    /\ gpc' = [gpc EXCEPT ![g] = "named"]
    /\ UNCHANGED <<dir, db, writer, pc, plan, tx, spent>>

\* ... and fs::write creates or truncates that file, whoever made it, ...
CreateFile(g) ==
    /\ gpc[g] = "named"
    /\ dir' = [dir EXCEPT ![gfile[g]] = Empty]
    /\ gpc' = [gpc EXCEPT ![g] = "created"]
    /\ UNCHANGED <<gfile, db, writer, pc, plan, tx, spent>>

\* ... then fills it.
FillFile(g) ==
    /\ gpc[g] = "created"
    /\ \E c \in Contents : dir' = [dir EXCEPT ![gfile[g]] = c]
    /\ gpc' = [gpc EXCEPT ![g] = "idle"]
    /\ UNCHANGED <<gfile, db, writer, pc, plan, tx, spent>>

KillGenerator(g) ==
    /\ gpc[g] # "idle"
    /\ Spend("crashes", MaxCrashes)
    /\ gpc' = [gpc EXCEPT ![g] = "idle"]
    /\ UNCHANGED <<dir, gfile, db, writer, pc, plan, tx>>

-----------------------------------------------------------------------------
\* People.

EditFile(f, c) ==
    /\ dir[f] \notin {Absent, c}
    /\ Spend("edits", MaxEdits)
    /\ dir' = [dir EXCEPT ![f] = c]
    /\ UNCHANGED <<gpc, gfile, db, writer, pc, plan, tx>>

MergeFile(f, c) ==
    /\ dir[f] = Absent
    /\ Spend("merges", MaxMerges)
    /\ dir' = [dir EXCEPT ![f] = c]
    /\ UNCHANGED <<gpc, gfile, db, writer, pc, plan, tx>>

RemoveFile(f) ==
    /\ dir[f] # Absent
    /\ Spend("removes", MaxRemoves)
    /\ dir' = [dir EXCEPT ![f] = Absent]
    /\ UNCHANGED <<gpc, gfile, db, writer, pc, plan, tx>>

-----------------------------------------------------------------------------
Init ==
    /\ dir = InitDir
    /\ recorded = {}
    /\ objects = {}
    /\ history = <<>>
    /\ writer = NoOne
    /\ pc = [a \in Appliers |-> "idle"]
    /\ seen = [a \in Appliers |-> {}]
    /\ listed = [a \in Appliers |-> {}]
    /\ todo = [a \in Appliers |-> {}]
    /\ file = [a \in Appliers |-> AnyFile]
    /\ body = [a \in Appliers |-> Empty]
    /\ ran = [a \in Appliers |-> Empty]
    /\ view = [a \in Appliers |-> {}]
    /\ gpc = [g \in Generators |-> "idle"]
    /\ gfile = [g \in Generators |-> AnyFile]
    /\ spent = [b \in {"edits", "merges", "removes", "crashes"} |-> 0]

Next ==
    \/ \E a \in Appliers : Start(a) \/ Step(a) \/ Kill(a)
    \/ \E g \in Generators :
        ChooseName(g) \/ CreateFile(g) \/ FillFile(g) \/ KillGenerator(g)
    \/ \E f \in Filenames :
        \/ RemoveFile(f)
        \/ \E c \in Contents : EditFile(f, c) \/ MergeFile(f, c)

Spec == Init /\ [][Next]_vars

\* A process that is running keeps running; nobody is obliged to start one.
FairSpec == Spec /\ \A a \in Appliers : WF_vars(Step(a))

-----------------------------------------------------------------------------
\* Properties.

\* Every variable keeps its shape.
TypeOK ==
    /\ dir \in [Filenames -> FileContents \cup {Absent}]
    /\ recorded \subseteq Filenames
    /\ objects \subseteq Objects
    /\ history \in Seq([file : Filenames, ran : FileContents])
    /\ writer \in Appliers \cup {NoOne}
    /\ pc \in [Appliers -> Stages]
    /\ seen \in [Appliers -> SUBSET Filenames]
    /\ listed \in [Appliers -> SUBSET Filenames]
    /\ todo \in [Appliers -> SUBSET Filenames]
    /\ file \in [Appliers -> Filenames]
    /\ body \in [Appliers -> FileContents]
    /\ ran \in [Appliers -> Seq(Statements)]
    /\ view \in [Appliers -> SUBSET Objects]
    /\ gpc \in [Generators -> {"idle", "named", "created"}]
    /\ gfile \in [Generators -> Filenames]
    /\ spent \in [{"edits", "merges", "removes", "crashes"} -> Nat]

\* "reruns are idempotent" (migrations.rs:6): no file takes effect twice, even
\* when two processes that both found it pending apply it at the same time.
AtMostOnce ==
    \A i, j \in 1..Len(history) : history[i].file = history[j].file => i = j

\* The tracking table names exactly the files whose statements are committed:
\* a crash or an error between a file's statements leaves neither.
RecordedIsEffective ==
    recorded = {history[i].file : i \in 1..Len(history)}

\* What a list of statements makes of the database, ...
Ran(did, before) ==
    LET after[k \in 0..Len(did)] ==
            IF k = 0 THEN before ELSE Effect(did[k], after[k - 1])
    IN after[Len(did)]

\* ... and what a list of transactions makes of an empty one.
Replay(done) ==
    LET after[i \in 0..Len(done)] ==
            IF i = 0 THEN {} ELSE Ran(done[i].ran, after[i - 1])
    IN after[Len(done)]

\* The committed database holds exactly what the committed files did to it,
\* one after the other: nothing of a failed, killed or concurrent run leaks
\* in, and no committed effect is lost.
DatabaseIsHistory == objects = Replay(history)

\* A file's transaction commits only when everything listed before it has: a
\* migration that fails is not jumped over by the same run.
InOrder ==
    [][\A a \in Appliers :
        (pc[a] = "commit" /\ recorded' # recorded
                             /\ pc'[a] = "loop")
            => \A f \in listed[a] :
                Rank[f] < Rank[file[a]] => f \in recorded]_vars

\* A run that returns Ok has left nothing of what it listed pending, although
\* it read the table only once, before other processes wrote to it.
OkMeansComplete ==
    \A a \in Appliers :
        pc[a] = "ok" => Pending(listed[a], recorded) = {}

\* With one author at a time, auto-numbering never gives two files of the
\* directory the same number, whatever crashes in between.
NumbersUnique ==
    \A f, g \in Listed(dir) : f.num = g.num => f = g

\* ... and files take effect in the order they were numbered, over all the
\* runs together.
HistoryAscends ==
    \A i, j \in 1..Len(history) :
        i < j => history[i].file.num < history[j].file.num

\* Together: the numbers order the files as their authors did (generate).
NumbersAscend == NumbersUnique /\ HistoryAscends

\* A started `migrate apply` returns: it neither loops over a file it cannot
\* get past nor waits for ever on another process.
Returns == \A a \in Appliers : Applying(a) ~> ~Applying(a)

-----------------------------------------------------------------------------
\* The inductive invariant: what a process in apply_with can rely on.

\* The row is inserted after the last statement, never before.
WholeFile ==
    \A a \in Appliers :
        pc[a] \in {"record", "commit"} => ran[a] = body[a]

\* From the INSERT to the COMMIT a process holds the write lock, and nobody
\* else can have recorded its file.
Locked ==
    \A a \in Appliers :
        pc[a] = "commit" => writer = a /\ file[a] \notin recorded

\* What is off the to-do list is recorded; the open file heads the list.
Progress ==
    \A a \in Appliers :
        /\ pc[a] = "tabled" => seen[a] \subseteq recorded
        /\ pc[a] \in {"loop", "exec", "record", "commit"} =>
                listed[a] \ todo[a] \subseteq recorded
        /\ pc[a] \in {"exec", "record", "commit"} =>
                First(file[a], todo[a])
        /\ pc[a] = "ok" => listed[a] \subseteq recorded

IInv == TypeOK /\ WholeFile /\ Locked /\ Progress /\ AtMostOnce
               /\ RecordedIsEffective

-----------------------------------------------------------------------------
\* What keeps the database to the history: whoever holds the write lock sees
\* what its statements make of the committed database; who does not hold it has
\* run nothing that matters.
Isolated ==
    /\ DatabaseIsHistory
    /\ \A a \in Appliers :
        /\ writer = a => /\ pc[a] \in {"exec", "record", "commit"}
                         /\ view[a] = Ran(ran[a], objects)
        /\ pc[a] \in {"exec", "record", "commit"} /\ writer # a =>
                \A o \in SUBSET Objects : Ran(ran[a], o) = o

\* What keeps the numbers in order: a new one is above all there are, so that
\* whoever lists a file lists those before it, and whoever records it finds
\* them recorded.
Numbered ==
    /\ NumbersUnique
    /\ \A g \in Generators :
        /\ gpc[g] = "named" => \A f \in Listed(dir) : f.num < gfile[g].num
        /\ gpc[g] = "created" => gfile[g] \in Listed(dir)
    /\ \A a \in Appliers :
        /\ todo[a] \subseteq listed[a] /\ listed[a] \subseteq Listed(dir)
        /\ \A f \in Listed(dir), g \in listed[a] : f.num < g.num => f \in listed[a]
    /\ recorded \subseteq Listed(dir)
    /\ \A f \in Listed(dir), g \in recorded : f.num < g.num => f \in recorded
    /\ HistoryAscends

-----------------------------------------------------------------------------
Ledger == INSTANCE MigrationLedger
    WITH effects <- history, rows <- recorded, Contents <- FileContents

\* apply_with implements the ledger: each file whole, once, and recorded.
LedgerSpec == Ledger!Spec
=============================================================================
