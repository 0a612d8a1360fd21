------------------------------ MODULE Journey ------------------------------
(***************************************************************************)
(* The way from an empty directory to a project that is served             *)
(* (rustio-cli/src/main.rs, wizard.rs): init, add model, migrate apply,    *)
(* user create, run, and what comes after (Workspace).  At every point     *)
(* three voices say what to do next: `rustio doctor`, `rustio` alone, and  *)
(* the hint at the end of each command.                                    *)
(*                                                                         *)
(* A command may be killed between any two files it writes.  A migration   *)
(* is one step here: Migrations has its steps, GeneratedSql its SQL.       *)
(***************************************************************************)
EXTENDS Workspace

CONSTANTS
    Apps,       \* names given to `rustio add model`
    StructOf,   \* singular_capitalize
    Scaffold    \* the fields of MODEL_MODELS_RS

ASSUME AppsAssumption ==
    /\ Apps # {} /\ StructOf \in [Apps -> Models] /\ Scaffold \subseteq Fields
    /\ \A d \in Days :
        d.apps \subseteq Apps /\ (d.apps # {} => \A m \in Models : d.code[m] = NoModel)

VARIABLES
    site,   \* the rest of the project: its directory, migrations, database
    hint    \* what the command that has just ended says to run next

\* What the voices name; "stop" is the process at the port.
Commands == {"init", "add model", "migrate apply", "schema", "user create", "run", "stop"}
NoHint == "none"
SiteVars == <<vars, site, hint>>

Tables == {Slug[m] : m \in Models}

\* The columns the structs select.
Selected(c) ==
    [u \in Tables |-> UNION {NamesOf(c[m]) : m \in {n \in Models : Slug[n] = u}}]

\* One directory for each struct that `rustio add model` can have made.
Directories(c) ==
    {a \in Apps : /\ c[StructOf[a]] # NoModel
                  /\ a = CHOOSE b \in Apps : StructOf[b] = StructOf[a]}

\* An empty place, and a project at work.
NoSite ==
    [tree |-> "none", dirs |-> {}, mods |-> {}, made |-> {}, clash |-> {},
     adding |-> <<>>, pending |-> <<>>, db |-> "none", tables |-> [u \in Tables |-> {}], admins |-> 0]
OldSite(c) ==
    LET dirs == Directories(c)
    IN [NoSite EXCEPT !.tree = "whole", !.dirs = dirs, !.mods = dirs, !.made = dirs,
                      !.db = "core", !.tables = Selected(c), !.admins = 1]

\* The files of new_project, as far as other commands look for them.
Trees == {"none", "bare", "rootless", "whole"}

\* Everything that is looked at and changed, as one value.
Here == [site |-> site, code |-> code, schema |-> schema, up |-> server.up]

-----------------------------------------------------------------------------
\* What each command makes of the project: nothing if it is refused.

NewProject(p) ==
    {[p EXCEPT !.site.tree = "whole"] : x \in {y \in {p} : y.site.tree = "none"}}

\* add_model, file by file: the directory, models/mod.rs, the migration.
MakeDir(a, p) ==
    {[p EXCEPT !.site.dirs = @ \cup {a}] :
        x \in {y \in {p} : y.site.tree = "whole" /\ a \notin y.site.dirs}}

\* What there is already under the name of a: its struct, which Schema::validate
\* then finds twice, or its table.
Clashes(a, p) ==
    {c \in {"struct", "table"} :
        CASE c = "struct" -> p.code[StructOf[a]] # NoModel
          [] c = "table" -> Selected(p.code)[Slug[StructOf[a]]] # {}}

Register(a, p) ==
    [p EXCEPT !.site.mods = @ \cup {a}, !.site.clash = @ \cup Clashes(a, p),
              !.code[StructOf[a]] = Scaffold]
CreateTable(a) ==
    [op |-> "create", table |-> Slug[StructOf[a]], columns |-> NamesOf(Scaffold)]
Generate(a, p) ==
    [p EXCEPT !.site.pending = Append(@, CreateTable(a)), !.site.made = @ \cup {a}]
AddModel(a, p) == {Generate(a, Register(a, d)) : d \in MakeDir(a, p)}

\* try_dump_schema: the project is compiled and run.
Dumped(p) ==
    {[p EXCEPT !.schema = Dump(p.code)] :
        x \in {y \in {p} : /\ y.site.tree = "whole" /\ Compiles(y.code)
                           /\ "struct" \notin y.site.clash}}

Accepted(m, t) ==
    CASE m.op = "create" -> t[m.table] = {}
      [] m.op = "alter" -> ~m.refused /\ \A u \in Tables :
                                m.before[u] # m.after[u] => t[u] = m.before[u]

Effect(m, t) ==
    IF m.op = "create" THEN [t EXCEPT ![m.table] = m.columns]
    ELSE [u \in Tables |-> IF m.before[u] # m.after[u] THEN m.after[u] ELSE t[u]]

\* apply_with: file after file, until one is refused.
RunFiles(s) ==
    FoldLeft(LAMBDA r, m :
                IF r.pending # <<>> /\ Head(r.pending) = m /\ Accepted(m, r.tables)
                THEN [r EXCEPT !.tables = Effect(m, @), !.pending = Tail(@)] ELSE r,
             s, s.pending)

\* Whatever opens the database makes an empty file of it: migrate status, and
\* the server.
Opened(s) == [s EXCEPT !.db = IF @ = "none" THEN "file" ELSE @]

\* ensure_core_tables: the tables of the framework.
Connected(p) == [p EXCEPT !.site.db = "core"]

\* Mutant: nothing pending, nothing to do.
MigrateIfPending(p) ==
    LET q == [Connected(p) EXCEPT !.site = RunFiles(@)]
    IN CASE p.site.pending = <<>> -> {[p EXCEPT !.site = Opened(@)]}
         [] q.site.pending = <<>> /\ Dumped(q) # {} -> Dumped(q)
         [] OTHER -> {q}

\* migrate_apply: a refused file ends it; the dump is best effort, and only
\* tried when something was applied.
MigrateApply(p) ==
    LET q == [Connected(p) EXCEPT !.site = RunFiles(@)]
    IN IF p.site.pending # <<>> /\ q.site.pending = <<>> /\ Dumped(q) # {}
       THEN Dumped(q) ELSE {q}

\* user_create_command.
UserCreate(p, role) ==
    {[Connected(p) EXCEPT !.site.admins = IF role = "admin" THEN 1 ELSE @]}

-----------------------------------------------------------------------------
\* What to do next.

\* ProjectState::detect.
InProject(p) == p.site.tree \in {"rootless", "whole"}
HasDb(p) == p.site.db # "none"

\* schema_matches_database: a field of the schema file has no column.
Mismatch(p) ==
    p.schema # Missing /\ \E m \in Models \ Core :
        ~(NamesOf(p.schema[m]) \subseteq p.site.tables[Slug[m]])

\* A check that finds something, and the command it names.
Check(bad, finding, fix) == IF bad THEN <<[finding |-> finding, fix |-> fix]>> ELSE <<>>

\* Mutant: the schema file is compared, and nobody asks what is pending.
DatabaseUncounted(p) ==
    IF ~HasDb(p) THEN <<>>
    ELSE Check(Mismatch(p), "mismatch", "migrate apply")
      \o Check(p.site.db = "core" /\ p.site.admins = 0, "admin", "user create")
      \o Check(p.site.db = "file", "auth tables", "migrate apply")

\* What only the database can tell.
DatabaseChecks(p) ==
    IF ~HasDb(p) THEN <<>>
    ELSE Check(p.site.pending # <<>>, "pending", "migrate apply")
      \o Check(Mismatch(p), "mismatch", "migrate apply")
      \o Check(p.site.db = "core" /\ p.site.admins = 0, "admin", "user create")
      \o Check(p.site.db = "file", "auth tables", "migrate apply")

\* doctor_command.
Doctor(p) ==
    IF ~InProject(p) THEN Check(TRUE, "structure", "init")
    ELSE Check(p.site.dirs = {}, "models", "add model")
      \o Check(~HasDb(p), "database", "migrate apply")
      \o Check(p.schema = Missing, "schema", "schema")
      \o DatabaseChecks(p)
      \o Check(p.up, "port", "stop")

\* default_action, its first suggestion.
DefaultAction(p) ==
    CASE ~InProject(p) -> "init"
      [] InProject(p) /\ p.site.dirs = {} -> "add model"
      [] InProject(p) /\ p.site.dirs # {} /\ ~HasDb(p) -> "migrate apply"
      [] OTHER -> "run"

\* The projects a command leads to.
After(command, p) ==
    CASE command = "init" -> NewProject(p)
      [] command = "add model" -> UNION {AddModel(a, p) : a \in Apps}
      [] command = "migrate apply" -> MigrateApply(p)
      [] command = "schema" -> Dumped(p)
      [] command = "user create" -> UserCreate(p, "admin")
      [] command = "run" -> {[p EXCEPT !.up = TRUE, !.site = Opened(@)] :
                                x \in {y \in {p} : ~y.up}}
      [] command = "stop" -> {[p EXCEPT !.up = FALSE]}

-----------------------------------------------------------------------------
\* The steps of the one who follows them, or does not.

To(q) ==
    /\ site' = q.site /\ code' = q.code /\ schema' = q.schema
    /\ UNCHANGED <<day, context, referenced, saved, server, terminal, admin, applied, edits>>

InDirectory == site.tree # "none" /\ site.adding = <<>>

\* init_command, new_project.
Scaffolding == \E q \in NewProject(Here) : To(q) /\ hint' = "add model"

\* Killed on the way; the directory that is there is refused from now on,
InitKilled ==
    /\ site.tree = "none"
    /\ \E tree \in {"bare", "rootless"} : site' = [site EXCEPT !.tree = tree]
    /\ hint' = NoHint
    /\ UNCHANGED vars

\* ... and somebody removes it.
StartOver ==
    /\ site.tree \in {"bare", "rootless"}
    /\ site' = NoSite /\ hint' = NoHint
    /\ UNCHANGED vars

\* add_model: the directory and its files, ...
StartModel(a) ==
    /\ InDirectory
    /\ \E q \in MakeDir(a, Here) : To([q EXCEPT !.site.adding = <<a>>])
    /\ hint' = NoHint

\* ... register_model_in_mod, ...
RegisterModel ==
    /\ site.adding # <<>> /\ Head(site.adding) \notin site.mods
    /\ To(Register(Head(site.adding), Here))
    /\ UNCHANGED hint

\* ... and migrations::generate.
FinishModel ==
    /\ site.adding # <<>> /\ Head(site.adding) \in site.mods
    /\ To([Generate(Head(site.adding), Here) EXCEPT !.site.adding = <<>>])
    /\ hint' = "migrate apply"

\* Killed, or models/mod.rs has lost its markers.
ModelInterrupted ==
    /\ site.adding # <<>>
    /\ site' = [site EXCEPT !.adding = <<>>]
    /\ UNCHANGED <<vars, hint>>

ApplyMigrations ==
    /\ InDirectory
    /\ \E q \in MigrateApply(Here) :
        /\ To(q)
        /\ hint' = CASE site.pending = <<>> \/ q.site.pending # <<>> -> NoHint
                     [] OTHER -> IF Dumped(q) = {} THEN "schema" ELSE "run"

CreateUser(role) ==
    /\ InDirectory
    /\ \E q \in UserCreate(Here, role) : To(q)
    /\ hint' = "run"

\* migrate_status.
MigrateStatus ==
    /\ InDirectory
    /\ To([Here EXCEPT !.site = Opened(@)])
    /\ hint' = NoHint

\* The tables that the first n steps of a plan leave.
TablesAfter(n, plan) ==
    FoldLeft(LAMBDA T, s : IF s.op = "rename_model" THEN (T \ {Slug[s.model]}) \cup {Slug[s.to]}
                           ELSE T,
             {u \in Tables : Selected(code)[u] # {}}, SubSeq(plan, 1, n))

\* SQL that is never accepted: a transaction in the migration's own, or a table
\* renamed to one that is there.
NeverAccepted(plan) ==
    \E i \in DOMAIN plan :
        \/ Destructive(plan[i])
        \/ plan[i].op = "rename_model" /\ Slug[plan[i].to] \in TablesAfter(i - 1, plan)

\* Everything a project is for (Workspace); schema_command, run and change
\* among it.  The migrations of a plan take the tables from the structs that
\* were to those that are.
Written ==
    IF applied' = applied THEN <<>>
    ELSE <<[op |-> "alter", before |-> Selected(code), after |-> Selected(code'),
            refused |-> NeverAccepted(Last(applied').plan)]>>

Work ==
    /\ site.tree = "whole" /\ site.adding = <<>>
    /\ Next
    /\ schema' # schema => "struct" \notin site.clash
    /\ site' = [IF server'.up THEN Opened(site) ELSE site EXCEPT !.pending = @ \o Written]
    /\ hint' = IF Written # <<>> /\ terminal' # terminal THEN "migrate apply" ELSE NoHint

ProjectInit ==
    /\ Init
    /\ day.apps # {} => schema = Missing
    /\ site = IF day.apps # {} THEN NoSite ELSE OldSite(code)
    /\ hint = NoHint

ProjectNext ==
    \/ Work
    \/ /\ day.apps # {}
       /\ \/ Scaffolding \/ InitKilled \/ StartOver
          \/ (\E a \in day.apps : StartModel(a))
          \/ RegisterModel \/ FinishModel \/ ModelInterrupted
          \/ ApplyMigrations \/ MigrateStatus
          \/ (\E role \in {"admin", "user"} : CreateUser(role))

ProjectSpec == ProjectInit /\ [][ProjectNext]_SiteVars

-----------------------------------------------------------------------------
(* What must hold. *)

ProjectTypeOK ==
    /\ TypeOK
    /\ site.tree \in Trees
    /\ site.made \subseteq site.mods /\ site.mods \subseteq site.dirs /\ site.dirs \subseteq Apps
    /\ site.clash \subseteq {"struct", "table"}
    /\ site.adding \in {<<>>} \cup {<<a>> : a \in Apps}
    /\ \A i \in DOMAIN site.pending : site.pending[i].op \in {"create", "alter"}
    /\ site.db \in {"none", "file", "core"} /\ site.admins \in 0..1
    /\ site.tables \in [Tables -> SUBSET Names]
    /\ hint \in Commands \cup {NoHint}

\* A struct is registered, and no migration makes its table: `rustio add
\* model` ended after models/mod.rs, and refuses to be run again.
NeverMigrated == site.mods \ site.made # {}

\* What the commands cannot repair: a scaffold or a model that was half
\* written, two directories for one struct or table, structs that no longer
\* compile, and SQL that is never accepted.
BeyondRepair ==
    \/ site.tree \in {"bare", "rootless"} \/ NeverMigrated \/ site.clash # {}
    \/ ~Compiles(code)
    \/ \E i \in DOMAIN site.pending : site.pending[i].op = "alter" /\ site.pending[i].refused

Findings(p) == {Doctor(p)[i].finding : i \in DOMAIN Doctor(p)}

\* What a developer is told to do next can be done, and helps: the command
\* named with the doctor's first finding removes that finding, and neither
\* `rustio` alone nor the hint of the last command names one that is refused
\* (doctor_command, default_action, the hints).
AdviceHelps ==
    ~BeyondRepair =>
        /\ Doctor(Here) # <<>> =>
            \E q \in After(Head(Doctor(Here)).fix, Here) :
                Head(Doctor(Here)).finding \notin Findings(q)
        /\ ~server.up => After(DefaultAction(Here), Here) # {}
        /\ ~server.up /\ hint # NoHint => After(hint, Here) \ {Here} # {}

\* "All checks pass" is true: then the server that is started selects only
\* columns the tables have, and somebody can sign in.  The doctor compares
\* the schema file, which may be older than the structs
\* (schema_matches_database, pending_migrations).
HealthyMeansServed ==
    Doctor(Here) = <<>> /\ ~NeverMigrated =>
        /\ site.admins > 0
        /\ \A u \in Tables \ {Slug[m] : m \in Core} :
                Selected(code)[u] \subseteq site.tables[u]
=============================================================================
