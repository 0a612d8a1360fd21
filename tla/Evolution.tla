----------------------------- MODULE Evolution -----------------------------
(***************************************************************************)
(* How a project evolves: a plan of typed steps is validated and simulated *)
(* (rustio-core/src/ai.rs, ai/executor.rs), its edits and migrations are   *)
(* written, the migrations run, and `rustio schema` dumps the models.      *)
(*                                                                         *)
(* Four descriptions of the models go through this and are changed at      *)
(* different times: rustio.schema.json, the structs in models.rs, the      *)
(* migrations not applied yet, and the tables of the database.             *)
(*                                                                         *)
(* Writing the files (CommitChanges) and applying a migration (Migrations) *)
(* are one step each here.  One models.rs holds one struct.                *)
(***************************************************************************)
EXTENDS Naturals, Sequences, SequencesExt, FiniteSets

CONSTANTS
    Models,       \* struct names
    TableOf,      \* fallback_table_name: the table of a struct of that name
    Names,        \* field names
    Types,        \* field types the plans use
    None,         \* no foreign key
    InitModels,   \* the models at the start, as `rustio add model` leaves them
    Forced,       \* `--force` is given: options.allow_destructive
    AlwaysDump,   \* nobody plans before the schema is dumped again
    MaxSteps,     \* bound: the steps of a plan
    MaxFiles      \* bound: the migrations written by all plans

Tables == {TableOf[m] : m \in Models}

\* A field of a struct or of the schema; `fk` is the model it refers to with
\* an on_delete policy.
Fields == [name : Names, ty : Types, null : BOOLEAN, fk : Models \cup {None}]

\* A column of a table; `fk` is what its REFERENCES clause names.
Columns == [name : Names, sql : {"INTEGER", "TEXT"}, null : BOOLEAN,
            fk : Tables \cup {None}]

\* What a migration's SQL does.
Migrations ==
         [op : {"add"}, table : Tables, column : Columns]
    \cup [op : {"rename_column"}, table : Tables, from : Names, to : Names]
    \cup [op : {"rename_table"}, table : Tables, to : Tables]
    \cup [op : {"recreate"}, table : Tables, columns : SUBSET Columns,
          filled : SUBSET Names, nested : BOOLEAN]

ASSUME ModelsAssumption == InitModels \in [Models -> SUBSET Fields]
ASSUME SwitchAssumption == {Forced, AlwaysDump} \subseteq BOOLEAN
ASSUME TypesAssumption == "i64" \in Types
ASSUME BoundsAssumption == {MaxSteps, MaxFiles} \subseteq Nat

\* A model has at least its id; one without fields does not exist.
NoModel == {}

VARIABLES
    schema,      \* rustio.schema.json: the fields of each model
    code,        \* models.rs: the fields of each struct
    pending,     \* migrations that are written and not applied, in order
    referenced,  \* tables some migration file names in a REFERENCES
    tables,      \* the database: the columns of each table
    planning,    \* an executor is at work, and has ...
    known,       \* ... the schema as review_plan sees it, ...
    relations,   \* ... with the relations added in this plan, ...
    shadow,      \* ... its own schema_shadow, ...
    source,      \* ... the models.rs files it has patched in memory, ...
    renamed,     \* ... the struct names it moved, ...
    sql,         \* ... and the migrations it will write
    written      \* how many migrations were written

project == <<schema, code, pending, referenced, tables, written>>
memory == <<known, relations, shadow, source, renamed, sql>>
vars == <<project, planning, memory>>

-----------------------------------------------------------------------------
\* Fields and columns.

SqlType(ty) == IF ty \in {"i32", "i64", "bool"} THEN "INTEGER" ELSE "TEXT"

Column(f) ==
    [name |-> f.name, sql |-> SqlType(f.ty), null |-> f.null,
     fk |-> IF f.fk = None THEN None ELSE TableOf[f.fk]]

NamesOf(F) == {f.name : f \in F}

\* The same field, but for its foreign key.
Alike(f, g) == f.name = g.name /\ f.ty = g.ty /\ f.null = g.null

\* cast_expression has an expression: the integers among each other, and
\* everything from and to String.
SafeCast(old, new) ==
    /\ old # new
    /\ {old, new} \subseteq {"i32", "i64", "bool"} \/ "String" \in {old, new}

\* from_admin: what the compiled models say.  The macro's relations carry no
\* on_delete policy, and `ai apply` writes none into models.rs.
Dump(c) == [m \in Models |-> {[f EXCEPT !.fk = None] : f \in c[m]}]

-----------------------------------------------------------------------------
\* Migrations, as SQLite runs them.

\* ... in the transaction apply_with opens: a nested BEGIN is refused.
Refused(m, t) ==
    \/ t[m.table] = {}
    \/ m.op = "add" /\ m.column.name \in NamesOf(t[m.table])
    \/ /\ m.op = "rename_column"
       /\ m.from \notin NamesOf(t[m.table]) \/ m.to \in NamesOf(t[m.table])
    \/ m.op = "rename_table" /\ t[m.to] # {}
    \/ /\ m.op = "recreate"
       /\ \/ m.nested
          \/ \E c \in m.columns :
              \/ c.name \notin NamesOf(t[m.table])
              \* A NULL that is copied into a NOT NULL column.
              \/ /\ ~c.null /\ c.name \notin m.filled
                 /\ \E d \in t[m.table] : d.name = c.name /\ d.null

\* ALTER TABLE RENAME rewrites the REFERENCES of other tables.
Run(m, t) ==
    CASE m.op = "add" ->
            [t EXCEPT ![m.table] = @ \cup {m.column}]
      [] m.op = "rename_column" ->
            [t EXCEPT ![m.table] =
                {IF c.name = m.from THEN [c EXCEPT !.name = m.to] ELSE c : c \in @}]
      [] m.op = "rename_table" ->
            [u \in Tables |->
                {IF c.fk = m.table THEN [c EXCEPT !.fk = m.to] ELSE c :
                    c \in IF u = m.table THEN {}
                          ELSE IF u = m.to THEN t[m.table] ELSE t[u]}]
      [] m.op = "recreate" ->
            [t EXCEPT ![m.table] = m.columns]

\* The table takes part in a foreign key of the database.
HasForeignKey(u, t) ==
    \/ \E c \in t[u] : c.fk # None
    \/ \E w \in Tables : \E c \in t[w] : c.fk = u

-----------------------------------------------------------------------------
\* The steps of a plan: review_plan's simulate_plan and validate_against on
\* `known`, then simulate_step on `shadow` and `source`; both shadows move on.

Simulating == planning /\ Len(sql) < MaxSteps /\ written + Len(sql) < MaxFiles

\* locate_model_file goes by the struct names on disk; after a rename in the
\* same plan it finds no file, or one that has not that struct any more.
Located(m) == code[m] # NoModel /\ m \notin renamed

\* The field is patched if the struct declares it as the schema says.
Patchable(m, f) == \E g \in source[m] : Alike(f, g)

Patch(F, f, g) == {IF Alike(f, h) THEN g ELSE h : h \in F}

Emit(m) == sql' = Append(sql, m)

\* Mutant: the executor's schema shadow misses the new field.
AddFieldUnseen(m, f) ==
    /\ Simulating
    /\ known[m] # NoModel
    /\ f.name \notin NamesOf(known[m])
    /\ Located(m)
    /\ f.name \notin NamesOf(source[m])
    /\ f.fk = None
    /\ source' = [source EXCEPT ![m] = @ \cup {f}]
    /\ Emit([op |-> "add", table |-> TableOf[m], column |-> Column(f)])
    /\ known' = [known EXCEPT ![m] = @ \cup {f}]
    /\ UNCHANGED <<project, planning, relations, shadow, renamed>>

AddField(m, f) ==
    /\ Simulating
    /\ known[m] # NoModel
    /\ f.name \notin NamesOf(known[m])
    /\ Located(m)
    /\ f.name \notin NamesOf(source[m])
    /\ f.fk = None
    /\ source' = [source EXCEPT ![m] = @ \cup {f}]
    /\ Emit([op |-> "add", table |-> TableOf[m], column |-> Column(f)])
    /\ known' = [known EXCEPT ![m] = @ \cup {f}]
    /\ shadow' = [shadow EXCEPT ![m] = @ \cup {f}]
    /\ UNCHANGED <<project, planning, relations, renamed>>

Renaming(F, a, b) == {IF f.name = a THEN [f EXCEPT !.name = b] ELSE f : f \in F}

\* Mutant: the executor's schema shadow misses the rename.
RenameFieldOnce(m, a, b) ==
    /\ Simulating
    /\ a \in NamesOf(known[m]) /\ a # "id"
    /\ b \notin NamesOf(known[m])
    /\ Located(m)
    /\ a \in NamesOf(source[m])
    /\ b \notin NamesOf(source[m])
    /\ source' = [source EXCEPT ![m] = Renaming(@, a, b)]
    /\ Emit([op |-> "rename_column", table |-> TableOf[m], from |-> a, to |-> b])
    /\ known' = [known EXCEPT ![m] = Renaming(@, a, b)]
    /\ UNCHANGED <<project, planning, relations, shadow, renamed>>

\* The id is refused: insert_values has no line for it.
RenameField(m, a, b) ==
    /\ Simulating
    /\ a \in NamesOf(known[m]) /\ a # "id"
    /\ b \notin NamesOf(known[m])
    /\ Located(m)
    /\ a \in NamesOf(source[m])
    /\ b \notin NamesOf(source[m])
    /\ source' = [source EXCEPT ![m] = Renaming(@, a, b)]
    /\ Emit([op |-> "rename_column", table |-> TableOf[m], from |-> a, to |-> b])
    /\ known' = [known EXCEPT ![m] = Renaming(@, a, b)]
    /\ shadow' = [shadow EXCEPT ![m] = Renaming(@, a, b)]
    /\ UNCHANGED <<project, planning, relations, renamed>>

\* generate_sqlite_recreate_table_migration: the columns are the schema's.
Recreate(m, F, filled, nested) ==
    [op |-> "recreate", table |-> TableOf[m],
     columns |-> {Column(f) : f \in F}, filled |-> filled, nested |-> nested]

\* Change the field f of model m to g by recreating its table.
ChangeField(m, f, g, filled) ==
    /\ f.name \in NamesOf(known[m])
    /\ f \in shadow[m]
    /\ Located(m)
    /\ TableOf[m] \notin referenced
    /\ Patchable(m, f)
    /\ source' = [source EXCEPT ![m] = Patch(@, f, [g EXCEPT !.fk = None])]
    /\ shadow' = [shadow EXCEPT ![m] = (@ \ {f}) \cup {g}]
    /\ known' = [known EXCEPT ![m] =
                    {IF h.name = g.name THEN [h EXCEPT !.ty = g.ty, !.null = g.null]
                     ELSE h : h \in @}]
    /\ Emit(Recreate(m, (shadow[m] \ {f}) \cup {g}, filled, FALSE))
    /\ UNCHANGED <<project, planning, relations, renamed>>

\* A line of insert_values changes when a String comes or goes: there is none
\* for the id.
ChangeFieldType(m, f, ty) ==
    /\ Simulating
    /\ SafeCast(f.ty, ty)
    /\ f.name = "id" => "String" \notin {f.ty, ty}
    /\ ChangeField(m, f, [f EXCEPT !.ty = ty], {})

\* Mutant: the NULLs of a column that becomes required are not replaced.
ChangeNullabilityOnly(m, f) ==
    /\ Simulating
    /\ ChangeField(m, f, [f EXCEPT !.null = ~@], {})

\* COALESCE gives a column that becomes required its default.
ChangeFieldNullability(m, f) ==
    /\ Simulating
    /\ ChangeField(m, f, [f EXCEPT !.null = ~@],
                   IF f.null THEN {f.name} ELSE {})

RenameModel(m, n) ==
    /\ Simulating
    /\ m # n /\ known[m] # NoModel /\ known[n] = NoModel
    /\ Located(m)
    /\ source[n] = NoModel
    /\ TableOf[m] \notin referenced
    /\ source' = [source EXCEPT ![n] = source[m], ![m] = NoModel]
    /\ known' = [known EXCEPT ![n] = known[m], ![m] = NoModel]
    /\ shadow' = [shadow EXCEPT ![n] = shadow[m], ![m] = NoModel]
    /\ renamed' = renamed \cup {m, n}
    /\ Emit([op |-> "rename_table", table |-> TableOf[m], to |-> TableOf[n]])
    /\ UNCHANGED <<project, planning, relations>>

\* A nullable i64 column; both shadows add it if they have none of that name.
Relate(m, n, via, parent) ==
    LET f == [name |-> via, ty |-> "i64", null |-> TRUE, fk |-> None]
    IN /\ Simulating
       /\ known[m] # NoModel /\ known[n] # NoModel
       /\ <<m, via>> \notin relations
       /\ Located(m)
       /\ via \notin NamesOf(source[m])
       /\ source' = [source EXCEPT ![m] = @ \cup {f}]
       /\ shadow' = [shadow EXCEPT ![m] =
                        IF via \in NamesOf(@) THEN @
                        ELSE @ \cup {[f EXCEPT !.fk = n]}]
       /\ known' = [known EXCEPT ![m] =
                        IF via \in NamesOf(@) THEN @ ELSE @ \cup {f}]
       /\ relations' = relations \cup {<<m, via>>}
       /\ Emit([op |-> "add", table |-> TableOf[m],
                column |-> [Column(f) EXCEPT !.fk = parent]])
       /\ UNCHANGED <<project, planning, renamed>>

\* Mutant: REFERENCES names the struct instead of its table.
RelateToStruct(m, n, via) == Relate(m, n, via, n)

AddRelation(m, n, via) == Relate(m, n, via, TableOf[n])

\* The FK-aware recreate; schema_shadow keeps the field.
DropField(m, f) ==
    /\ Forced
    /\ f \in shadow[m]
    /\ f.name # "id"
    /\ Located(m)
    /\ Patchable(m, f)
    /\ source' = [source EXCEPT ![m] = {g \in @ : ~Alike(f, g)}]
    /\ Emit(Recreate(m, {g \in shadow[m] : g.name # f.name}, {}, TRUE))
    /\ UNCHANGED <<project, planning, shadow, renamed>>

RemoveField(m, f) ==
    /\ Simulating
    /\ f.name \in NamesOf(known[m])
    /\ known' = [known EXCEPT ![m] = {g \in @ : g.name # f.name}]
    /\ UNCHANGED relations
    /\ DropField(m, f)

RemoveRelation(m, f) ==
    /\ Simulating
    /\ <<m, f.name>> \in relations
    /\ relations' = relations \ {<<m, f.name>>}
    /\ UNCHANGED known
    /\ DropField(m, f)

-----------------------------------------------------------------------------
\* Around the plan.

\* execute_plan_document reads the schema file and the project.
Load ==
    /\ ~planning
    /\ written < MaxFiles
    /\ AlwaysDump => schema = Dump(code)
    /\ planning' = TRUE
    /\ known' = schema /\ relations' = {} /\ shadow' = schema
    /\ source' = code /\ renamed' = {} /\ sql' = <<>>
    /\ UNCHANGED project

Forget ==
    /\ known' = [m \in Models |-> NoModel] /\ relations' = {}
    /\ shadow' = [m \in Models |-> NoModel]
    /\ source' = [m \in Models |-> NoModel] /\ renamed' = {} /\ sql' = <<>>

\* Some step is refused: nothing is written.
Refuse ==
    /\ planning
    /\ planning' = FALSE
    /\ Forget
    /\ UNCHANGED project

\* commit_changes writes all of it.
Commit ==
    /\ planning /\ sql # <<>>
    /\ code' = source
    /\ pending' = pending \o sql
    /\ referenced' = referenced \cup
            {sql[i].column.fk : i \in {j \in 1..Len(sql) :
                                        sql[j].op = "add" /\ sql[j].column.fk # None}}
    /\ written' = written + Len(sql)
    /\ planning' = FALSE
    /\ Forget
    /\ UNCHANGED <<schema, tables>>

\* `rustio migrate apply`, one file.
Migrate ==
    /\ pending # <<>>
    /\ ~Refused(Head(pending), tables)
    /\ tables' = Run(Head(pending), tables)
    /\ pending' = Tail(pending)
    /\ UNCHANGED <<schema, code, referenced, written, planning, memory>>

\* What a compiled model cannot be without: Model::id returns an i64.
Compiles(c) ==
    \A m \in Models : c[m] # NoModel =>
        \E f \in c[m] : f.name = "id" /\ f.ty = "i64" /\ ~f.null

\* `rustio schema`, which `migrate apply` runs too: it asks the compiled project.
DumpSchema ==
    /\ Compiles(code)
    /\ schema # Dump(code)
    /\ schema' = Dump(code)
    /\ UNCHANGED <<code, pending, referenced, tables, written, planning, memory>>

-----------------------------------------------------------------------------
Init ==
    /\ schema = InitModels
    /\ code = InitModels
    /\ pending = <<>>
    /\ referenced = {}
    /\ tables = [u \in Tables |->
                    {Column(f) : f \in UNION {InitModels[m] :
                                    m \in {n \in Models : TableOf[n] = u}}}]
    /\ planning = FALSE
    /\ known = [m \in Models |-> NoModel]
    /\ relations = {}
    /\ shadow = [m \in Models |-> NoModel]
    /\ source = [m \in Models |-> NoModel]
    /\ renamed = {}
    /\ sql = <<>>
    /\ written = 0

PlanStep ==
    \E m \in Models :
        \/ \E f \in Fields :
            \/ AddField(m, f) \/ RemoveField(m, f) \/ RemoveRelation(m, f)
            \/ ChangeFieldNullability(m, f)
            \/ \E ty \in Types : ChangeFieldType(m, f, ty)
        \/ \E a, b \in Names : RenameField(m, a, b)
        \/ \E n \in Models :
            \/ RenameModel(m, n)
            \/ \E via \in Names : AddRelation(m, n, via)

Next == Load \/ PlanStep \/ Refuse \/ Commit \/ Migrate \/ DumpSchema

Spec == Init /\ [][Next]_vars

-----------------------------------------------------------------------------
\* Properties.

Shapes == [Models -> SUBSET Fields]

\* Every variable keeps its shape.
TypeOK ==
    /\ {schema, code, known, shadow, source} \subseteq Shapes
    /\ pending \in Seq(Migrations)
    /\ referenced \subseteq Tables
    /\ tables \in [Tables -> SUBSET Columns]
    /\ planning \in BOOLEAN
    /\ relations \subseteq Models \X Names
    /\ renamed \subseteq Models
    /\ sql \in Seq(Migrations)
    /\ written \in Nat

\* What the database will be when the migrations in the list have run: there is
\* no such state if one of them is refused.
Outcomes(list) ==
    FoldLeft(LAMBDA T, m : {Run(m, t) : t \in {u \in T : ~Refused(m, u)}},
             {tables}, list)

ShapeOf(t) == [u \in Tables |-> {[c EXCEPT !.fk = None] : c \in t[u]}]
ShapeOfCode(c) ==
    [u \in Tables |->
        {[Column(f) EXCEPT !.fk = None] :
            f \in UNION {c[m] : m \in {n \in Models : TableOf[n] = u}}}]

\* A forced removal is among the migrations: its SQL is refused, now and
\* later (mig_forced_drop), and stops all that wait behind it.
Removal(list) == \E i \in DOMAIN list : list[i].op = "recreate" /\ list[i].nested

\* The migrations that wait, run in order, are all accepted and make of the
\* database exactly the tables the structs in models.rs select from.
MigrationsReachCode ==
    ~Removal(pending) =>
        \E t \in Outcomes(pending) : ShapeOf(t) = ShapeOfCode(code)

\* "The schema shadow tracks shape mutations across steps" (executor.rs:324):
\* at every step of a plan it agrees with the structs as patched so far.
ShadowIsSource ==
    planning /\ ~Removal(sql) => Dump(shadow) = Dump(source)

\* A migration that recreates a table for a changed field keeps the columns
\* the table has when it runs, whatever else was planned before it.
NothingDropped ==
    [][Migrate /\ Head(pending).op = "recreate" =>
        NamesOf(tables[Head(pending).table])
            \subseteq NamesOf(tables'[Head(pending).table])]_vars
=============================================================================
