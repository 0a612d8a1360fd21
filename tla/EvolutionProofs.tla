--------------------------- MODULE EvolutionProofs ---------------------------
(***************************************************************************)
(* Proofs about Evolution and ModelsFile: the migrations that wait for the *)
(* database lead it to the tables the structs select from, through states  *)
(* in which each of them is accepted, whatever plans are made and whenever *)
(* they are applied; and the text of an app's models says what the plans   *)
(* mean until a step takes one text for another.                           *)
(***************************************************************************)
EXTENDS PlansApplied, Induction, SequenceTheorems, TLAPS

Databases == [Tables -> SUBSET Columns]

\* A field or column without its foreign key.
Plain(x) == [x EXCEPT !.fk = None]
PlainOf(F) == {Plain(x) : x \in F}

\* The columns of a struct's table, without foreign keys.
ColumnsFor(F) == {Plain(Column(f)) : f \in F}

\* No two fields have one name.
Distinct(F) == \A f, g \in F : f.name = g.name => f = g
AllDistinct(c) == \A m \in Models : Distinct(c[m])

\* The database has the tables that the structs select from.
Fits(t, c) == \A m \in Models : PlainOf(t[TableOf[m]]) = ColumnsFor(c[m])

\* The database takes a migration, and loses no column to one that recreates a
\* table.
Takes(m, t) ==
    /\ ~Refused(m, t)
    /\ m.op = "recreate" => NamesOf(t[m.table]) \subseteq NamesOf(m.columns)

\* A migration that is never accepted.
Stops(m) == m.op = "recreate" /\ m.nested

\* The states the first k migrations of a list lead through.
Leads(it, k, list, t) ==
    /\ it[0] = t
    /\ \A i \in 1..k : Takes(list[i], it[i - 1]) /\ it[i] = Run(list[i], it[i - 1])

\* From t the list leads to a database that fits c, or to a migration that
\* stops it.
LeadsTo(list, t, c) ==
    \E k \in 0..Len(list) : \E it \in [0..k -> Databases] :
        /\ Leads(it, k, list, t)
        /\ IF k < Len(list) THEN Stops(list[k + 1]) ELSE Fits(it[k], c)

-----------------------------------------------------------------------------
\* Types.

LEMMA ColumnType ==
    ASSUME NEW f \in Fields PROVE Column(f) \in Columns
<1>1. f.fk = None \/ f.fk \in Models
  BY DEF Fields
<1>2. (IF f.fk = None THEN None ELSE TableOf[f.fk]) \in Tables \cup {None}
  BY <1>1 DEF Tables
<1>3. SqlType(f.ty) \in {"INTEGER", "TEXT"}
  BY DEF SqlType
<1>4. QED
  BY <1>2, <1>3 DEF Column, Columns, Fields

LEMMA PlainColumn ==
    ASSUME NEW c \in Columns
    PROVE  /\ Plain(c) = [name |-> c.name, sql |-> c.sql, null |-> c.null, fk |-> None]
           /\ Plain(c) \in Columns
BY DEF Plain, Columns

LEMMA PlainField ==
    ASSUME NEW f \in Fields
    PROVE  /\ Plain(f) = [name |-> f.name, ty |-> f.ty, null |-> f.null, fk |-> None]
           /\ Plain(f) \in Fields
BY DEF Plain, Fields

LEMMA PlainColumnOf ==
    ASSUME NEW f \in Fields
    PROVE  Plain(Column(f)) =
               [name |-> f.name, sql |-> SqlType(f.ty), null |-> f.null, fk |-> None]
BY DEF Plain, Column

\* The kinds of migrations.
LEMMA Kinds ==
    ASSUME NEW m \in Migrations
    PROVE  /\ m.table \in Tables
           /\ m.op \in {"add", "rename_column", "rename_table", "recreate"}
           /\ m.op = "add" => m.column \in Columns
           /\ m.op = "rename_column" => m.from \in Names /\ m.to \in Names
           /\ m.op = "rename_table" => m.to \in Tables
           /\ m.op = "recreate" => /\ m.columns \subseteq Columns
                                   /\ m.filled \subseteq Names /\ m.nested \in BOOLEAN
BY DEF Migrations

\* What a migration makes of a database is one.
LEMMA RunType ==
    ASSUME NEW m \in Migrations, NEW t \in Databases
    PROVE  Run(m, t) \in Databases
<1>1. CASE m.op = "add"
  BY <1>1, Kinds DEF Run, Databases
<1>2. CASE m.op = "rename_column"
  <2>1. ASSUME NEW c \in Columns PROVE [c EXCEPT !.name = m.to] \in Columns
    BY <1>2, Kinds DEF Columns
  <2>2. Run(m, t) = [t EXCEPT ![m.table] =
                {IF c.name = m.from THEN [c EXCEPT !.name = m.to] ELSE c : c \in @}]
    BY <1>2 DEF Run
  <2>3. {IF c.name = m.from THEN [c EXCEPT !.name = m.to] ELSE c : c \in t[m.table]}
            \subseteq Columns
    BY <2>1, Kinds DEF Databases
  <2>4. QED
    BY <2>2, <2>3, Kinds DEF Databases
<1>3. CASE m.op = "rename_table"
  <2>1. ASSUME NEW c \in Columns PROVE [c EXCEPT !.fk = m.to] \in Columns
    BY <1>3, Kinds DEF Columns
  <2>2. Run(m, t) = [u \in Tables |->
                {IF c.fk = m.table THEN [c EXCEPT !.fk = m.to] ELSE c :
                    c \in IF u = m.table THEN {}
                          ELSE IF u = m.to THEN t[m.table] ELSE t[u]}]
    BY <1>3 DEF Run
  <2>3. ASSUME NEW F \in SUBSET Columns
        PROVE  {IF c.fk = m.table THEN [c EXCEPT !.fk = m.to] ELSE c : c \in F}
                   \subseteq Columns
    BY <2>1
  <2>4. ASSUME NEW u \in Tables
        PROVE  (IF u = m.table THEN {} ELSE IF u = m.to THEN t[m.table] ELSE t[u])
                   \in SUBSET Columns
    BY Kinds DEF Databases
  <2>5. QED
    BY <2>2, <2>3, <2>4 DEF Databases
<1>4. CASE m.op = "recreate"
  BY <1>4, Kinds DEF Run, Databases
<1>5. QED
  BY <1>1, <1>2, <1>3, <1>4, Kinds

\* The fields of one model change to others.
LEMMA ShapeType ==
    ASSUME NEW c \in Shapes, NEW m \in Models, NEW F \in SUBSET Fields
    PROVE  [c EXCEPT ![m] = F] \in Shapes
BY DEF Shapes

LEMMA NoShape ==
    [m \in Models |-> NoModel] \in Shapes
BY DEF Shapes, NoModel

LEMMA DumpType ==
    ASSUME NEW c \in Shapes
    PROVE  Dump(c) \in Shapes
<1>1. ASSUME NEW m \in Models PROVE {[f EXCEPT !.fk = None] : f \in c[m]} \in SUBSET Fields
  BY DEF Shapes, Fields
<1>2. QED
  BY <1>1 DEF Dump, Shapes

LEMMA RenamingType ==
    ASSUME NEW F \in SUBSET Fields, NEW a \in Names, NEW b \in Names
    PROVE  Renaming(F, a, b) \in SUBSET Fields
<1>1. ASSUME NEW f \in Fields PROVE [f EXCEPT !.name = b] \in Fields
  BY DEF Fields
<1>2. QED
  BY <1>1 DEF Renaming

LEMMA PatchType ==
    ASSUME NEW F \in SUBSET Fields, NEW f, NEW g \in Fields
    PROVE  Patch(F, f, g) \in SUBSET Fields
BY DEF Patch

\* The field that takes the place of another.
LEMMA ChangedType ==
    ASSUME NEW f \in Fields
    PROVE  /\ \A ty \in Types : [f EXCEPT !.ty = ty] \in Fields
           /\ [f EXCEPT !.null = ~@] \in Fields
           /\ [f EXCEPT !.fk = None] \in Fields
           /\ \A n \in Models : [f EXCEPT !.fk = n] \in Fields
BY DEF Fields

\* The migrations that the steps write.
LEMMA AddType ==
    ASSUME NEW m \in Models, NEW c \in Columns
    PROVE  [op |-> "add", table |-> TableOf[m], column |-> c] \in Migrations
<1>1. TableOf[m] \in Tables
  BY DEF Tables
<1>2. QED
  BY <1>1 DEF Migrations

LEMMA RenameColumnType ==
    ASSUME NEW m \in Models, NEW a \in Names, NEW b \in Names
    PROVE  [op |-> "rename_column", table |-> TableOf[m], from |-> a, to |-> b]
               \in Migrations
<1>1. TableOf[m] \in Tables
  BY DEF Tables
<1>2. QED
  BY <1>1 DEF Migrations

LEMMA RenameTableType ==
    ASSUME NEW m \in Models, NEW n \in Models
    PROVE  [op |-> "rename_table", table |-> TableOf[m], to |-> TableOf[n]]
               \in Migrations
<1>1. TableOf[m] \in Tables /\ TableOf[n] \in Tables
  BY DEF Tables
<1>2. QED
  BY <1>1 DEF Migrations

LEMMA RecreateType ==
    ASSUME NEW m \in Models, NEW F \in SUBSET Fields, NEW filled \in SUBSET Names,
           NEW nested \in BOOLEAN
    PROVE  Recreate(m, F, filled, nested) \in Migrations
<1>1. TableOf[m] \in Tables
  BY DEF Tables
<1>2. {Column(f) : f \in F} \in SUBSET Columns
  BY ColumnType
<1>3. Recreate(m, F, filled, nested) \in
          [op : {"recreate"}, table : Tables, columns : SUBSET Columns,
           filled : SUBSET Names, nested : BOOLEAN]
  BY <1>1, <1>2 DEF Recreate
<1>4. QED
  BY <1>3 DEF Migrations

\* A step of a plan writes one migration.
LEMMA EmitType ==
    ASSUME sql \in Seq(Migrations), NEW m \in Migrations, Emit(m)
    PROVE  sql' \in Seq(Migrations)
BY DEF Emit

\* What the steps of a plan leave alone.
Around ==
    UNCHANGED <<schema, code, pending, referenced, tables, written, planning>>

\* The variables of an executor at work have their types.
MemoryOK ==
    /\ {known, shadow, source} \subseteq Shapes
    /\ relations \subseteq Models \X Names
    /\ renamed \subseteq Models
    /\ sql \in Seq(Migrations)

LEMMA TypeInit ==
    ASSUME Init
    PROVE  TypeOK
<1>1. InitModels \in Shapes
  BY ModelsAssumption DEF Shapes
<1>2. ASSUME NEW u \in Tables
      PROVE  {Column(f) : f \in UNION {InitModels[m] :
                                  m \in {n \in Models : TableOf[n] = u}}}
                 \in SUBSET Columns
  BY ColumnType, ModelsAssumption
<1>3. tables \in [Tables -> SUBSET Columns]
  BY <1>2 DEF Init
<1>4. /\ schema \in Shapes /\ code \in Shapes
      /\ known \in Shapes /\ shadow \in Shapes /\ source \in Shapes
  BY <1>1, NoShape DEF Init
<1>5. pending \in Seq(Migrations) /\ sql \in Seq(Migrations)
  BY DEF Init
<1>6. /\ referenced \subseteq Tables /\ relations \subseteq Models \X Names
      /\ renamed \subseteq Models /\ planning \in BOOLEAN /\ written \in Nat
  BY DEF Init
<1>7. QED
  BY <1>3, <1>4, <1>5, <1>6 DEF TypeOK

LEMMA AddFieldType ==
    ASSUME TypeOK, NEW m \in Models, NEW f \in Fields, AddField(m, f)
    PROVE  Around /\ MemoryOK'
<1>1. \A c \in Shapes : [c EXCEPT ![m] = @ \cup {f}] \in Shapes
  BY DEF Shapes
<1>2. sql' \in Seq(Migrations)
  BY EmitType, AddType, ColumnType DEF AddField, TypeOK
<1>3. QED
  BY <1>1, <1>2, ZenonT(40) DEF AddField, TypeOK, MemoryOK, Around, project

LEMMA RenameFieldType ==
    ASSUME TypeOK, NEW m \in Models, NEW a \in Names, NEW b \in Names,
           RenameField(m, a, b)
    PROVE  Around /\ MemoryOK'
<1>1. \A c \in Shapes : [c EXCEPT ![m] = Renaming(@, a, b)] \in Shapes
  BY RenamingType DEF Shapes
<1>2. sql' \in Seq(Migrations)
  BY EmitType, RenameColumnType DEF RenameField, TypeOK
<1>3. QED
  BY <1>1, <1>2 DEF RenameField, TypeOK, MemoryOK, Around, project

LEMMA ChangeFieldShapes ==
    ASSUME TypeOK, NEW m \in Models, NEW f \in Fields, NEW g \in Fields,
           NEW filled \in SUBSET Names, ChangeField(m, f, g, filled)
    PROVE  Around /\ MemoryOK'
<1>1. source' \in Shapes
  <2>1. [g EXCEPT !.fk = None] \in Fields
    BY ChangedType
  <2>2. Patch(source[m], f, [g EXCEPT !.fk = None]) \in SUBSET Fields
    BY <2>1, PatchType DEF TypeOK, Shapes
  <2>3. QED
    BY <2>2, ShapeType DEF ChangeField, TypeOK
<1>2. shadow' \in Shapes
  BY DEF ChangeField, TypeOK, Shapes
<1>3. known' \in Shapes
  <2>1. ASSUME NEW h \in Fields
        PROVE  [h EXCEPT !.ty = g.ty, !.null = g.null] \in Fields
    BY DEF Fields
  <2>2. {IF h.name = g.name THEN [h EXCEPT !.ty = g.ty, !.null = g.null] ELSE h :
            h \in known[m]} \in SUBSET Fields
    BY <2>1 DEF TypeOK, Shapes
  <2>3. QED
    BY <2>2, ShapeType DEF ChangeField, TypeOK
<1>4. sql' \in Seq(Migrations)
  <2>1. (shadow[m] \ {f}) \cup {g} \in SUBSET Fields
    BY DEF TypeOK, Shapes
  <2>2. Recreate(m, (shadow[m] \ {f}) \cup {g}, filled, FALSE) \in Migrations
    BY <2>1, RecreateType
  <2>3. QED
    BY <2>2, EmitType DEF ChangeField, TypeOK
<1>5. QED
  BY <1>1, <1>2, <1>3, <1>4 DEF ChangeField, TypeOK, MemoryOK, Around, project

LEMMA ChangeType ==
    ASSUME TypeOK, NEW m \in Models, NEW f \in Fields,
           \/ \E ty \in Types : ChangeFieldType(m, f, ty)
           \/ ChangeFieldNullability(m, f)
    PROVE  Around /\ MemoryOK'
<1>1. ASSUME NEW ty \in Types, ChangeFieldType(m, f, ty)
      PROVE  Around /\ MemoryOK'
  <2>1. [f EXCEPT !.ty = ty] \in Fields
    BY ChangedType
  <2>2. ChangeField(m, f, [f EXCEPT !.ty = ty], {})
    BY <1>1 DEF ChangeFieldType
  <2>3. QED
    BY <2>1, <2>2, ChangeFieldShapes
<1>2. ASSUME ChangeFieldNullability(m, f)
      PROVE  Around /\ MemoryOK'
  <2>1. (IF f.null THEN {f.name} ELSE {}) \in SUBSET Names
    BY DEF Fields
  <2>2. QED
    BY <1>2, <2>1, ChangedType, ChangeFieldShapes DEF ChangeFieldNullability
<1>3. QED
  BY <1>1, <1>2

LEMMA RenameModelType ==
    ASSUME TypeOK, NEW m \in Models, NEW n \in Models, RenameModel(m, n)
    PROVE  Around /\ MemoryOK'
<1>1. \A c \in Shapes : [c EXCEPT ![n] = c[m], ![m] = NoModel] \in Shapes
  BY DEF Shapes, NoModel
<1>2. sql' \in Seq(Migrations)
  BY EmitType, RenameTableType DEF RenameModel, TypeOK
<1>3. source' \in Shapes /\ shadow' \in Shapes /\ known' \in Shapes
  BY <1>1 DEF RenameModel, TypeOK
<1>4. renamed' \subseteq Models /\ relations' \subseteq Models \X Names
  BY DEF RenameModel, TypeOK
<1>5. Around
  BY DEF RenameModel, Around, project
<1>6. QED
  BY <1>2, <1>3, <1>4, <1>5 DEF MemoryOK

\* The field that a relation adds, and its column.
Reference(via) == [name |-> via, ty |-> "i64", null |-> TRUE, fk |-> None]

LEMMA ReferenceType ==
    ASSUME NEW via \in Names, NEW n \in Models
    PROVE  /\ Reference(via) \in Fields
           /\ [Column(Reference(via)) EXCEPT !.fk = TableOf[n]] \in Columns
<1>1. Reference(via) \in Fields
  BY TypesAssumption DEF Reference, Fields
<1>2. TableOf[n] \in Tables
  BY DEF Tables
<1>3. QED
  BY <1>1, <1>2, ColumnType DEF Columns

LEMMA AddRelationType ==
    ASSUME TypeOK, NEW m \in Models, NEW n \in Models, NEW via \in Names,
           AddRelation(m, n, via)
    PROVE  Around /\ MemoryOK'
<1>1. Reference(via) \in Fields /\ [Reference(via) EXCEPT !.fk = n] \in Fields
  BY ReferenceType, ChangedType
<1>2. source' = [source EXCEPT ![m] = @ \cup {Reference(via)}]
  BY DEF AddRelation, Relate, Reference
<1>3. shadow' = [shadow EXCEPT ![m] = IF via \in NamesOf(@) THEN @
                                      ELSE @ \cup {[Reference(via) EXCEPT !.fk = n]}]
  BY DEF AddRelation, Relate, Reference
<1>4. known' = [known EXCEPT ![m] = IF via \in NamesOf(@) THEN @
                                    ELSE @ \cup {Reference(via)}]
  BY DEF AddRelation, Relate, Reference
<1>5. {source', shadow', known'} \subseteq Shapes
  BY <1>1, <1>2, <1>3, <1>4 DEF TypeOK, Shapes
<1>6. sql' \in Seq(Migrations)
  <2>1. Emit([op |-> "add", table |-> TableOf[m],
              column |-> [Column(Reference(via)) EXCEPT !.fk = TableOf[n]]])
    BY DEF AddRelation, Relate, Reference
  <2>2. QED
    BY <2>1, EmitType, AddType, ReferenceType DEF TypeOK
<1>7. relations' = relations \cup {<<m, via>>} /\ Around /\ UNCHANGED renamed
  BY DEF AddRelation, Relate, Around, project
<1>8. QED
  BY <1>5, <1>6, <1>7 DEF TypeOK, MemoryOK

LEMMA DropType ==
    ASSUME TypeOK, NEW m \in Models, NEW f \in Fields,
           RemoveField(m, f) \/ RemoveRelation(m, f)
    PROVE  Around /\ MemoryOK'
<1>1. DropField(m, f)
  BY DEF RemoveField, RemoveRelation
<1>2. source' \in Shapes
  BY <1>1 DEF DropField, TypeOK, Shapes
<1>3. sql' \in Seq(Migrations)
  <2>1. {g \in shadow[m] : g.name # f.name} \in SUBSET Fields
    BY DEF TypeOK, Shapes
  <2>2. Recreate(m, {g \in shadow[m] : g.name # f.name}, {}, TRUE) \in Migrations
    BY <2>1, RecreateType
  <2>3. QED
    BY <1>1, <2>2, EmitType DEF DropField, TypeOK
<1>4. known' \in Shapes
  BY DEF RemoveField, RemoveRelation, TypeOK, Shapes
<1>5. relations' \subseteq Models \X Names
  BY DEF RemoveField, RemoveRelation, TypeOK
<1>6. QED
  BY <1>1, <1>2, <1>3, <1>4, <1>5 DEF DropField, TypeOK, MemoryOK, Around, project

\* The columns with a foreign key that a list of migrations adds.
LEMMA ReferencedType ==
    ASSUME NEW list \in Seq(Migrations)
    PROVE  {list[i].column.fk : i \in {j \in 1..Len(list) :
                        list[j].op = "add" /\ list[j].column.fk # None}} \subseteq Tables
<1> SUFFICES ASSUME NEW i \in 1..Len(list), list[i].op = "add", list[i].column.fk # None
             PROVE  list[i].column.fk \in Tables
  OBVIOUS
<1>1. list[i].column \in Columns
  BY Kinds
<1>2. QED
  BY <1>1 DEF Columns

LEMMA ForgetType ==
    ASSUME Forget
    PROVE  MemoryOK'
<1>1. known' \in Shapes /\ shadow' \in Shapes /\ source' \in Shapes
  BY NoShape DEF Forget
<1>2. /\ sql' \in Seq(Migrations)
      /\ relations' \subseteq Models \X Names /\ renamed' \subseteq Models
  BY DEF Forget
<1>3. QED
  BY <1>1, <1>2 DEF MemoryOK

LEMMA TypeStep ==
    ASSUME TypeOK, [Next]_vars
    PROVE  TypeOK'
<1>1. CASE UNCHANGED vars
  BY <1>1 DEF vars, project, memory, TypeOK
<1>2. CASE Load
  BY <1>2 DEF Load, TypeOK, project
<1>3. CASE PlanStep
  <2>1. Around /\ MemoryOK'
    BY <1>3, AddFieldType, RenameFieldType, ChangeType, RenameModelType,
       AddRelationType, DropType DEF PlanStep
  <2>2. QED
    BY <2>1 DEF TypeOK, MemoryOK, Around
<1>4. CASE Refuse
  BY <1>4, ForgetType DEF Refuse, TypeOK, MemoryOK, project
<1>5. CASE Commit
  <2>1. referenced' \subseteq Tables
    BY <1>5, ReferencedType DEF Commit, TypeOK
  <2>2. pending' \in Seq(Migrations)
    BY <1>5, ConcatProperties DEF Commit, TypeOK
  <2>3. written' \in Nat
    BY <1>5 DEF Commit, TypeOK
  <2>4. QED
    BY <1>5, <2>1, <2>2, <2>3, ForgetType DEF Commit, TypeOK, MemoryOK
<1>6. CASE Migrate
  <2>1. Head(pending) \in Migrations /\ Tail(pending) \in Seq(Migrations)
    BY <1>6, HeadTailProperties DEF Migrate, TypeOK
  <2>2. tables' \in [Tables -> SUBSET Columns]
    BY <1>6, <2>1, RunType DEF Migrate, TypeOK, Databases
  <2>3. QED
    BY <1>6, <2>1, <2>2 DEF Migrate, TypeOK, memory
<1>7. CASE DumpSchema
  BY <1>7, DumpType DEF DumpSchema, TypeOK, memory
<1>8. QED
  BY <1>1, <1>2, <1>3, <1>4, <1>5, <1>6, <1>7 DEF Next

\* Every variable keeps its shape.
THEOREM Typing == Spec => []TypeOK
<1>1. Init => TypeOK
  BY TypeInit
<1>2. TypeOK /\ [Next]_vars => TypeOK'
  BY TypeStep
<1>3. QED
  BY <1>1, <1>2, PTL DEF Spec

-----------------------------------------------------------------------------
\* Lists of migrations.

LEMMA LeadsToNone ==
    ASSUME NEW t \in Databases, NEW c, Fits(t, c)
    PROVE  LeadsTo(<<>>, t, c)
<1> DEFINE it == [i \in 0..0 |-> t]
<1>1. it \in [0..0 -> Databases] /\ it[0] = t
  OBVIOUS
<1>2. Leads(it, 0, <<>>, t)
  BY <1>1 DEF Leads
<1> HIDE DEF it
<1>3. Len(<<>>) = 0 /\ 0 \in 0..0
  OBVIOUS
<1>4. \E k \in 0..0 : \E g \in [0..k -> Databases] :
          Leads(g, k, <<>>, t) /\ (IF k < 0 THEN Stops(<<>>[k + 1]) ELSE Fits(g[k], c))
  BY <1>1, <1>2
<1>5. QED
  BY <1>3, <1>4 DEF LeadsTo

\* One more migration, behind one that is never accepted, or never accepted
\* itself, or accepted wherever the list leads.
LEMMA LeadsToNext ==
    ASSUME NEW list \in Seq(Migrations), NEW t \in Databases, NEW c, NEW d,
           NEW m \in Migrations, LeadsTo(list, t, c),
           ~Removal(list) /\ ~Stops(m) =>
               \A u \in Databases : Fits(u, c) => Takes(m, u) /\ Fits(Run(m, u), d)
    PROVE  LeadsTo(Append(list, m), t, d)
<1> DEFINE longer == Append(list, m)
<1>0. PICK k \in 0..Len(list) : \E it \in [0..k -> Databases] :
          /\ Leads(it, k, list, t)
          /\ IF k < Len(list) THEN Stops(list[k + 1]) ELSE Fits(it[k], c)
  BY DEF LeadsTo
<1>1. PICK it \in [0..k -> Databases] :
          /\ Leads(it, k, list, t)
          /\ IF k < Len(list) THEN Stops(list[k + 1]) ELSE Fits(it[k], c)
  BY <1>0
<1>2. /\ Len(list) \in Nat /\ Len(longer) = Len(list) + 1 /\ longer[Len(list) + 1] = m
      /\ \A i \in 1..Len(list) : longer[i] = list[i]
  OBVIOUS
<1> HIDE DEF longer
<1>3. CASE k < Len(list) \/ Stops(m)
  <2>1. k < Len(longer) /\ k \in 0..Len(longer)
    BY <1>2
  <2>2. Leads(it, k, longer, t)
    <3>1. \A i \in 1..k : longer[i] = list[i]
      BY <1>2
    <3>2. QED
      BY <1>1, <3>1 DEF Leads
  <2>3. Stops(longer[k + 1])
    <3>1. CASE k < Len(list)
      BY <1>1, <1>2, <3>1
    <3>2. CASE k = Len(list)
      BY <1>2, <1>3, <3>2
    <3>3. QED
      BY <1>2, <3>1, <3>2
  <2>4. LeadsTo(longer, t, d)
    BY <1>1, <2>1, <2>2, <2>3 DEF LeadsTo
  <2>5. QED
    BY <2>4 DEF longer
<1>4. CASE k = Len(list) /\ ~Stops(m)
  <2> DEFINE on == [i \in 0..(k + 1) |-> IF i <= k THEN it[i] ELSE Run(m, it[k])]
  <2>0. ~Removal(list)
    <3> SUFFICES ASSUME NEW i \in 1..k, Stops(list[i]) PROVE FALSE
      BY <1>4 DEF Removal, Stops
    <3>1. Takes(list[i], it[i - 1])
      BY <1>1 DEF Leads
    <3>2. QED
      BY <3>1 DEF Takes, Refused, Stops
  <2>1. it[k] \in Databases /\ Fits(it[k], c)
    BY <1>1, <1>2, <1>4
  <2>2. Takes(m, it[k]) /\ Fits(Run(m, it[k]), d) /\ Run(m, it[k]) \in Databases
    BY <1>4, <2>0, <2>1, RunType
  <2>3. on \in [0..(k + 1) -> Databases]
    BY <1>1, <2>2
  <2>4. on[0] = it[0] /\ on[k + 1] = Run(m, it[k]) /\ \A i \in 0..k : on[i] = it[i]
    BY <1>1
  <2> HIDE DEF on
  <2>5. ASSUME NEW i \in 1..(k + 1)
        PROVE  Takes(longer[i], on[i - 1]) /\ on[i] = Run(longer[i], on[i - 1])
    <3>1. CASE i <= k
      <4>0. i \in 1..Len(list) /\ i \in 0..k /\ i - 1 \in 0..k
        BY <1>2, <1>4, <3>1
      <4>1. longer[i] = list[i] /\ on[i] = it[i] /\ on[i - 1] = it[i - 1]
        BY <1>2, <2>4, <4>0
      <4>2. i \in 1..k
        BY <3>1
      <4>3. QED
        BY <1>1, <4>1, <4>2 DEF Leads
    <3>2. CASE i = k + 1
      <4>1. longer[i] = m /\ on[i - 1] = it[k] /\ on[i] = Run(m, it[k])
        BY <1>2, <1>4, <2>4, <3>2
      <4>2. QED
        BY <2>2, <4>1
    <3>3. QED
      BY <3>1, <3>2
  <2>6. Leads(on, k + 1, longer, t)
    BY <1>1, <2>4, <2>5 DEF Leads
  <2>7. k + 1 \in 0..Len(longer) /\ ~(k + 1 < Len(longer)) /\ Fits(on[k + 1], d)
    BY <1>2, <1>4, <2>2, <2>4
  <2>8. LeadsTo(longer, t, d)
    BY <2>3, <2>6, <2>7 DEF LeadsTo
  <2>9. QED
    BY <2>8 DEF longer
<1>5. QED
  BY <1>2, <1>3, <1>4

\* The first migration of a list is accepted, and the rest leads on.
LEMMA LeadsToRest ==
    ASSUME NEW list \in Seq(Migrations), NEW t \in Databases, NEW c,
           LeadsTo(list, t, c), list # <<>>, ~Refused(Head(list), t)
    PROVE  /\ Takes(Head(list), t)
           /\ LeadsTo(Tail(list), Run(Head(list), t), c)
<1> DEFINE rest == Tail(list)
<1>0. PICK k \in 0..Len(list) : \E it \in [0..k -> Databases] :
          /\ Leads(it, k, list, t)
          /\ IF k < Len(list) THEN Stops(list[k + 1]) ELSE Fits(it[k], c)
  BY DEF LeadsTo
<1>1. PICK it \in [0..k -> Databases] :
          /\ Leads(it, k, list, t)
          /\ IF k < Len(list) THEN Stops(list[k + 1]) ELSE Fits(it[k], c)
  BY <1>0
<1>2. /\ Len(list) \in Nat /\ Len(list) > 0 /\ Len(rest) = Len(list) - 1
      /\ Head(list) = list[1] /\ \A i \in 1..Len(rest) : rest[i] = list[i + 1]
  BY HeadTailProperties
<1> HIDE DEF rest
<1>3. k # 0
  <2>1. ~Stops(list[1])
    BY <1>2 DEF Stops, Refused
  <2>2. QED
    BY <1>1, <1>2, <2>1
<1>4. Takes(list[1], t) /\ it[1] = Run(list[1], t)
  <2>1. 1 \in 1..k /\ it[0] = t /\ 1 - 1 = 0
    BY <1>1, <1>3 DEF Leads
  <2>2. Takes(list[1], it[1 - 1]) /\ it[1] = Run(list[1], it[1 - 1])
    BY <1>1, <2>1 DEF Leads
  <2>3. QED
    BY <2>1, <2>2
<1> DEFINE on == [i \in 0..(k - 1) |-> it[i + 1]]
<1>5. k - 1 \in 0..Len(rest) /\ on \in [0..(k - 1) -> Databases]
  BY <1>1, <1>2, <1>3
<1>6. \A i \in 0..(k - 1) : on[i] = it[i + 1]
  OBVIOUS
<1> HIDE DEF on
<1>7. on[0] = it[1]
  BY <1>3, <1>6
<1>8. ASSUME NEW i \in 1..(k - 1)
      PROVE  Takes(rest[i], on[i - 1]) /\ on[i] = Run(rest[i], on[i - 1])
  <2>1. rest[i] = list[i + 1] /\ on[i] = it[i + 1] /\ on[i - 1] = it[i]
    BY <1>2, <1>6
  <2>2. i + 1 \in 1..k /\ i + 1 - 1 = i
    OBVIOUS
  <2>3. Takes(list[i + 1], it[i + 1 - 1]) /\ it[i + 1] = Run(list[i + 1], it[i + 1 - 1])
    BY <1>1, <2>2 DEF Leads
  <2>4. QED
    BY <2>1, <2>2, <2>3
<1>9. Leads(on, k - 1, rest, Run(list[1], t))
  BY <1>4, <1>7, <1>8 DEF Leads
<1>10. IF k - 1 < Len(rest) THEN Stops(rest[k - 1 + 1]) ELSE Fits(on[k - 1], c)
  <2>1. CASE k < Len(list)
    <3>1. k \in 1..Len(rest) /\ k - 1 + 1 = k
      BY <1>2, <1>3, <2>1
    <3>2. QED
      BY <1>1, <1>2, <2>1, <3>1
  <2>2. CASE k = Len(list)
    <3>1. on[k - 1] = it[k]
      BY <1>3, <1>6
    <3>2. QED
      BY <1>1, <1>2, <2>2, <3>1
  <2>3. QED
    BY <1>2, <2>1, <2>2
<1>11. LeadsTo(rest, Run(list[1], t), c)
  BY <1>5, <1>9, <1>10 DEF LeadsTo
<1>12. QED
  BY <1>2, <1>4, <1>11 DEF rest

-----------------------------------------------------------------------------
\* What the steps write is accepted by a database that fits the structs as
\* patched so far, and makes it fit them as they are patched then.

\* No two structs select from one table.
TablesDiffer == \A m, n \in Models : TableOf[m] = TableOf[n] => m = n

LEMMA FittingTable ==
    ASSUME NEW u \in Databases, NEW c \in Shapes, NEW m \in Models, Fits(u, c)
    PROVE  /\ TableOf[m] \in Tables
           /\ u[TableOf[m]] \in SUBSET Columns
           /\ \A d \in u[TableOf[m]] : \E f \in c[m] :
                  d.name = f.name /\ d.null = f.null /\ d.sql = SqlType(f.ty)
           /\ NamesOf(u[TableOf[m]]) = NamesOf(c[m])
           /\ u[TableOf[m]] = {} <=> c[m] = {}
<1>1. TableOf[m] \in Tables /\ u[TableOf[m]] \in SUBSET Columns /\ c[m] \in SUBSET Fields
  BY DEF Tables, Databases, Shapes
<1>2. PlainOf(u[TableOf[m]]) = ColumnsFor(c[m])
  BY DEF Fits
<1>3. ASSUME NEW d \in Columns, NEW f \in Fields, Plain(d) = Plain(Column(f))
      PROVE  d.name = f.name /\ d.null = f.null /\ d.sql = SqlType(f.ty)
  <2>1. [name |-> d.name, sql |-> d.sql, null |-> d.null, fk |-> None] =
            [name |-> f.name, sql |-> SqlType(f.ty), null |-> f.null, fk |-> None]
    BY <1>3, PlainColumn, PlainColumnOf
  <2>2. QED
    BY <2>1
<1>4. ASSUME NEW d \in u[TableOf[m]]
      PROVE  \E f \in c[m] : d.name = f.name /\ d.null = f.null /\ d.sql = SqlType(f.ty)
  <2>1. Plain(d) \in ColumnsFor(c[m])
    BY <1>2 DEF PlainOf
  <2>2. PICK f \in c[m] : Plain(d) = Plain(Column(f))
    BY <2>1 DEF ColumnsFor
  <2>3. QED
    BY <1>1, <1>3, <2>2
<1>5. ASSUME NEW f \in c[m]
      PROVE  \E d \in u[TableOf[m]] : d.name = f.name
  <2>1. Plain(Column(f)) \in PlainOf(u[TableOf[m]])
    BY <1>2 DEF ColumnsFor
  <2>2. PICK d \in u[TableOf[m]] : Plain(d) = Plain(Column(f))
    BY <2>1 DEF PlainOf
  <2>3. QED
    BY <1>1, <1>3, <2>2
<1>6. NamesOf(u[TableOf[m]]) = NamesOf(c[m])
  <2>1. NamesOf(u[TableOf[m]]) \subseteq NamesOf(c[m])
    BY <1>4 DEF NamesOf
  <2>2. NamesOf(c[m]) \subseteq NamesOf(u[TableOf[m]])
    BY <1>5 DEF NamesOf
  <2>3. QED
    BY <2>1, <2>2
<1>7. u[TableOf[m]] = {} <=> c[m] = {}
  BY <1>4, <1>5
<1>8. QED
  BY <1>1, <1>4, <1>6, <1>7

\* One table and its struct change together.
LEMMA FitsChanged ==
    ASSUME TablesDiffer, NEW u \in Databases, NEW c \in Shapes, NEW m \in Models,
           Fits(u, c), NEW F \in SUBSET Fields, NEW K \in SUBSET Columns,
           PlainOf(K) = ColumnsFor(F)
    PROVE  Fits([u EXCEPT ![TableOf[m]] = K], [c EXCEPT ![m] = F])
<1> DEFINE v == [u EXCEPT ![TableOf[m]] = K]
           e == [c EXCEPT ![m] = F]
<1>1. ASSUME NEW n \in Models
      PROVE  PlainOf(v[TableOf[n]]) = ColumnsFor(e[n])
  <2>1. TableOf[m] \in Tables /\ TableOf[n] \in Tables
    BY DEF Tables
  <2>2. CASE n = m
    BY <2>1, <2>2 DEF Databases, Shapes
  <2>3. CASE n # m
    <3>1. TableOf[n] # TableOf[m]
      BY <2>3 DEF TablesDiffer
    <3>2. v[TableOf[n]] = u[TableOf[n]] /\ e[n] = c[n]
      BY <2>1, <2>3, <3>1 DEF Databases, Shapes
    <3>3. QED
      BY <3>2 DEF Fits
  <2>4. QED
    BY <2>2, <2>3
<1>2. QED
  BY <1>1 DEF Fits

\* ALTER TABLE ADD COLUMN.
LEMMA AddFits ==
    ASSUME TablesDiffer, NEW u \in Databases, NEW c \in Shapes, NEW m \in Models,
           Fits(u, c), NEW f \in Fields, NEW d \in Columns, Plain(d) = Plain(Column(f)),
           c[m] # {}, f.name \notin NamesOf(c[m])
    PROVE  LET add == [op |-> "add", table |-> TableOf[m], column |-> d]
           IN  Takes(add, u) /\ Fits(Run(add, u), [c EXCEPT ![m] = @ \cup {f}])
<1> DEFINE add == [op |-> "add", table |-> TableOf[m], column |-> d]
<1>1. d.name = f.name
  <2>1. [name |-> d.name, sql |-> d.sql, null |-> d.null, fk |-> None] =
            [name |-> f.name, sql |-> SqlType(f.ty), null |-> f.null, fk |-> None]
    BY PlainColumn, PlainColumnOf
  <2>2. QED
    BY <2>1
<1>2. Takes(add, u)
  BY <1>1, FittingTable DEF Takes, Refused
<1>3. Run(add, u) = [u EXCEPT ![TableOf[m]] = u[TableOf[m]] \cup {d}]
  BY DEF Run
<1>4. PlainOf(u[TableOf[m]] \cup {d}) = ColumnsFor(c[m] \cup {f})
  <2>1. PlainOf(u[TableOf[m]] \cup {d}) = PlainOf(u[TableOf[m]]) \cup {Plain(d)}
    BY DEF PlainOf
  <2>2. ColumnsFor(c[m] \cup {f}) = ColumnsFor(c[m]) \cup {Plain(Column(f))}
    BY DEF ColumnsFor
  <2>3. QED
    BY <2>1, <2>2 DEF Fits
<1>5. Fits([u EXCEPT ![TableOf[m]] = u[TableOf[m]] \cup {d}],
           [c EXCEPT ![m] = c[m] \cup {f}])
  <2>1. u[TableOf[m]] \cup {d} \in SUBSET Columns /\ c[m] \cup {f} \in SUBSET Fields
    BY FittingTable DEF Shapes
  <2>2. QED
    BY <1>4, <2>1, FitsChanged
<1>6. [c EXCEPT ![m] = c[m] \cup {f}] = [c EXCEPT ![m] = @ \cup {f}]
  OBVIOUS
<1>7. QED
  BY <1>2, <1>3, <1>5, <1>6

\* ALTER TABLE RENAME COLUMN.
LEMMA RenameFits ==
    ASSUME TablesDiffer, NEW u \in Databases, NEW c \in Shapes, NEW m \in Models,
           Fits(u, c), NEW a \in Names, NEW b \in Names,
           a \in NamesOf(c[m]), b \notin NamesOf(c[m])
    PROVE  LET rename == [op |-> "rename_column", table |-> TableOf[m],
                          from |-> a, to |-> b]
           IN  /\ Takes(rename, u)
               /\ Fits(Run(rename, u), [c EXCEPT ![m] = Renaming(@, a, b)])
<1> DEFINE rename == [op |-> "rename_column", table |-> TableOf[m],
                      from |-> a, to |-> b]
           new(d) == IF d.name = a THEN [d EXCEPT !.name = b] ELSE d
           K == {new(d) : d \in u[TableOf[m]]}
           F == Renaming(c[m], a, b)
<1>1. Takes(rename, u)
  <2>1. c[m] # {}
    BY DEF NamesOf
  <2>2. QED
    BY <2>1, FittingTable DEF Takes, Refused
<1>2. Run(rename, u) = [u EXCEPT ![TableOf[m]] = K]
  BY DEF Run
<1>3. c[m] \in SUBSET Fields /\ F \in SUBSET Fields
  BY RenamingType DEF Shapes
<1>4. K \in SUBSET Columns
  <2>1. ASSUME NEW d \in Columns PROVE new(d) \in Columns
    BY DEF Columns
  <2>2. QED
    BY <2>1, FittingTable
<1>5. ASSUME NEW d \in Columns, NEW f \in Fields, Plain(d) = Plain(Column(f))
      PROVE  Plain(new(d)) = Plain(Column(new(f)))
  <2>1. [name |-> d.name, sql |-> d.sql, null |-> d.null, fk |-> None] =
            [name |-> f.name, sql |-> SqlType(f.ty), null |-> f.null, fk |-> None]
    BY <1>5, PlainColumn, PlainColumnOf
  <2>2. d.name = f.name /\ d.sql = SqlType(f.ty) /\ d.null = f.null
    BY <2>1
  <2>3. new(d) \in Columns /\ new(f) \in Fields
    BY DEF Columns, Fields
  <2>4. /\ new(d).name = (IF d.name = a THEN b ELSE d.name)
        /\ new(d).sql = d.sql /\ new(d).null = d.null
    BY DEF Columns
  <2>5. /\ new(f).name = (IF f.name = a THEN b ELSE f.name)
        /\ new(f).ty = f.ty /\ new(f).null = f.null
    BY DEF Fields
  <2> HIDE DEF new
  <2>6. Plain(new(d)) = [name |-> new(d).name, sql |-> new(d).sql,
                         null |-> new(d).null, fk |-> None]
    BY <2>3, PlainColumn
  <2>7. Plain(Column(new(f))) = [name |-> new(f).name, sql |-> SqlType(new(f).ty),
                                 null |-> new(f).null, fk |-> None]
    BY <2>3, PlainColumnOf
  <2>8. QED
    BY <2>2, <2>4, <2>5, <2>6, <2>7
<1>6. F = {new(f) : f \in c[m]}
  BY DEF Renaming
<1>7. PlainOf(K) = ColumnsFor(F)
  <2>1. PlainOf(u[TableOf[m]]) = ColumnsFor(c[m]) /\ u[TableOf[m]] \in SUBSET Columns
    BY FittingTable DEF Fits
  <2> HIDE DEF new
  <2>2. ASSUME NEW d \in u[TableOf[m]]
        PROVE  Plain(new(d)) \in ColumnsFor(F)
    <3>1. PICK f \in c[m] : Plain(d) = Plain(Column(f))
      BY <2>1 DEF PlainOf, ColumnsFor
    <3>2. new(f) \in F /\ Plain(new(d)) = Plain(Column(new(f)))
      BY <1>3, <1>5, <1>6, <2>1, <3>1
    <3>3. QED
      BY <3>2 DEF ColumnsFor
  <2>3. ASSUME NEW f \in c[m]
        PROVE  Plain(Column(new(f))) \in PlainOf(K)
    <3>1. PICK d \in u[TableOf[m]] : Plain(d) = Plain(Column(f))
      BY <2>1 DEF PlainOf, ColumnsFor
    <3>2. new(d) \in K /\ Plain(new(d)) = Plain(Column(new(f)))
      BY <1>3, <1>5, <2>1, <3>1
    <3>3. QED
      BY <3>2 DEF PlainOf
  <2>4. PlainOf(K) \subseteq ColumnsFor(F)
    BY <2>2 DEF PlainOf
  <2>5. ColumnsFor(F) \subseteq PlainOf(K)
    BY <1>6, <2>3 DEF ColumnsFor
  <2>6. QED
    BY <2>4, <2>5
<1> HIDE DEF K, F
<1>8. Fits([u EXCEPT ![TableOf[m]] = K], [c EXCEPT ![m] = F])
  BY <1>3, <1>4, <1>7, FitsChanged
<1>9. [c EXCEPT ![m] = F] = [c EXCEPT ![m] = Renaming(@, a, b)]
  BY DEF F
<1>10. QED
  BY <1>1, <1>2, <1>8, <1>9

\* ALTER TABLE RENAME.
LEMMA RenameTableFits ==
    ASSUME TablesDiffer, NEW u \in Databases, NEW c \in Shapes,
           NEW m \in Models, NEW n \in Models, m # n,
           Fits(u, c), c[m] # {}, c[n] = {}
    PROVE  LET rename == [op |-> "rename_table", table |-> TableOf[m], to |-> TableOf[n]]
           IN  /\ Takes(rename, u)
               /\ Fits(Run(rename, u), [c EXCEPT ![n] = c[m], ![m] = NoModel])
<1> DEFINE rename == [op |-> "rename_table", table |-> TableOf[m], to |-> TableOf[n]]
           from == TableOf[m]
           to == TableOf[n]
           new(d) == IF d.fk = from THEN [d EXCEPT !.fk = to] ELSE d
           old(w) == IF w = from THEN {} ELSE IF w = to THEN u[from] ELSE u[w]
           e == [c EXCEPT ![n] = c[m], ![m] = NoModel]
<1>1. from # to /\ from \in Tables /\ to \in Tables
  BY FittingTable DEF TablesDiffer
<1>2. u[from] # {} /\ u[to] = {}
  BY FittingTable
<1>3. Takes(rename, u)
  BY <1>2 DEF Takes, Refused
<1>4. Run(rename, u) = [w \in Tables |-> {new(d) : d \in old(w)}]
  BY DEF Run
<1>5. \A w \in Tables : old(w) \in SUBSET Columns
  BY <1>1 DEF Databases
<1>6. ASSUME NEW d \in Columns PROVE Plain(new(d)) = Plain(d)
  BY <1>1 DEF Plain, Columns
<1> HIDE DEF new
<1>7. ASSUME NEW K \in SUBSET Columns
      PROVE  PlainOf({new(d) : d \in K}) = PlainOf(K)
  <2>1. PlainOf({new(d) : d \in K}) = {Plain(new(d)) : d \in K}
    BY DEF PlainOf
  <2>2. {Plain(new(d)) : d \in K} = {Plain(d) : d \in K}
    BY <1>6
  <2>3. QED
    BY <2>1, <2>2 DEF PlainOf
<1>8. ASSUME NEW k \in Models
      PROVE  PlainOf(old(TableOf[k])) = ColumnsFor(e[k])
  <2>1. PlainOf({}) = {} /\ ColumnsFor({}) = {}
    BY DEF PlainOf, ColumnsFor
  <2>2. CASE k = m
    BY <2>1, <2>2 DEF Shapes, NoModel
  <2>3. CASE k = n
    BY <1>1, <2>3 DEF Shapes, NoModel, Fits
  <2>4. CASE k # m /\ k # n
    <3>1. TableOf[k] # from /\ TableOf[k] # to
      BY <2>4 DEF TablesDiffer
    <3>2. old(TableOf[k]) = u[TableOf[k]] /\ e[k] = c[k]
      BY <2>4, <3>1 DEF Shapes
    <3>3. QED
      BY <3>2 DEF Fits
  <2>5. QED
    BY <2>2, <2>3, <2>4
<1> HIDE DEF old, e
<1>9. ASSUME NEW k \in Models
      PROVE  PlainOf(Run(rename, u)[TableOf[k]]) = ColumnsFor(e[k])
  <2>1. TableOf[k] \in Tables
    BY DEF Tables
  <2>2. Run(rename, u)[TableOf[k]] = {new(d) : d \in old(TableOf[k])}
    BY <1>4, <2>1
  <2>3. QED
    BY <1>5, <1>7, <1>8, <2>1, <2>2
<1>10. Fits(Run(rename, u), e)
  BY <1>9 DEF Fits
<1>11. QED
  BY <1>3, <1>10 DEF e

\* Foreign keys are not part of what a table must fit.
LEMMA SameColumns ==
    ASSUME NEW F \in SUBSET Fields, NEW G \in SUBSET Fields, PlainOf(F) = PlainOf(G)
    PROVE  ColumnsFor(F) = ColumnsFor(G)
<1>1. ASSUME NEW A \in SUBSET Fields, NEW B \in SUBSET Fields,
             PlainOf(A) = PlainOf(B), NEW f \in A
      PROVE  Plain(Column(f)) \in ColumnsFor(B)
  <2>1. PICK g \in B : Plain(f) = Plain(g)
    BY <1>1 DEF PlainOf
  <2>2. [name |-> f.name, ty |-> f.ty, null |-> f.null, fk |-> None] =
            [name |-> g.name, ty |-> g.ty, null |-> g.null, fk |-> None]
    BY <2>1, PlainField
  <2>3. f.name = g.name /\ f.ty = g.ty /\ f.null = g.null
    BY <2>2
  <2>4. Plain(Column(f)) = Plain(Column(g))
    BY <2>3, PlainColumnOf
  <2>5. QED
    BY <2>4 DEF ColumnsFor
<1>2. ColumnsFor(F) \subseteq ColumnsFor(G)
  BY <1>1 DEF ColumnsFor
<1>3. ColumnsFor(G) \subseteq ColumnsFor(F)
  BY <1>1 DEF ColumnsFor
<1>4. QED
  BY <1>2, <1>3

LEMMA SameNames ==
    ASSUME NEW F \in SUBSET Fields, NEW G \in SUBSET Fields, PlainOf(F) = PlainOf(G)
    PROVE  /\ \A f \in F : \E g \in G : Alike(f, g)
           /\ NamesOf(F) = NamesOf(G)
<1>1. ASSUME NEW A \in SUBSET Fields, NEW B \in SUBSET Fields,
             PlainOf(A) = PlainOf(B), NEW f \in A
      PROVE  \E g \in B : Alike(f, g)
  <2>1. PICK g \in B : Plain(f) = Plain(g)
    BY <1>1 DEF PlainOf
  <2>2. [name |-> f.name, ty |-> f.ty, null |-> f.null, fk |-> None] =
            [name |-> g.name, ty |-> g.ty, null |-> g.null, fk |-> None]
    BY <2>1, PlainField
  <2>3. QED
    BY <2>2 DEF Alike
<1>2. ASSUME NEW A \in SUBSET Fields, NEW B \in SUBSET Fields, PlainOf(A) = PlainOf(B)
      PROVE  NamesOf(A) \subseteq NamesOf(B)
  <2>1. \A f \in A : \E g \in B : f.name = g.name
    BY <1>1, <1>2 DEF Alike
  <2>2. QED
    BY <2>1 DEF NamesOf
<1>3. NamesOf(F) \subseteq NamesOf(G) /\ NamesOf(G) \subseteq NamesOf(F)
  BY <1>2
<1>4. QED
  BY <1>1, <1>3

\* Fields that are alike differ in nothing but their foreign keys.
LEMMA AlikeIsPlain ==
    ASSUME NEW f \in Fields, NEW g \in Fields
    PROVE  Alike(f, g) <=> Plain(f) = Plain(g)
<1>1. /\ Plain(f) = [name |-> f.name, ty |-> f.ty, null |-> f.null, fk |-> None]
      /\ Plain(g) = [name |-> g.name, ty |-> g.ty, null |-> g.null, fk |-> None]
  BY PlainField
<1>2. QED
  BY <1>1 DEF Alike

\* The schema's field and the struct's are changed to the same.
LEMMA PatchIsPlain ==
    ASSUME NEW S \in SUBSET Fields, NEW F \in SUBSET Fields, PlainOf(S) = PlainOf(F),
           Distinct(S), NEW f \in S, NEW g \in Fields, g.name = f.name,
           \E h \in F : Alike(f, h)
    PROVE  PlainOf((S \ {f}) \cup {g}) = PlainOf(Patch(F, f, Plain(g)))
<1> DEFINE T == (S \ {f}) \cup {g}
           G == Patch(F, f, Plain(g))
<1>1. Plain(g) \in Fields /\ Plain(Plain(g)) = Plain(g)
  BY PlainField
<1>2. ASSUME NEW x \in T PROVE Plain(x) \in PlainOf(G)
  <2>1. CASE x = g
    <3>1. Plain(g) \in G
      BY DEF Patch
    <3>2. QED
      BY <1>1, <2>1, <3>1 DEF PlainOf
  <2>2. CASE x \in S \ {f}
    <3>1. PICK h \in F : Alike(x, h)
      BY <2>2, SameNames
    <3>2. ~Alike(f, h)
      BY <2>2, <3>1 DEF Alike, Distinct
    <3>3. h \in G
      BY <3>2 DEF Patch
    <3>4. Plain(x) = Plain(h)
      BY <2>2, <3>1, AlikeIsPlain
    <3>5. QED
      BY <3>3, <3>4 DEF PlainOf
  <2>3. QED
    BY <2>1, <2>2
<1>3. ASSUME NEW h \in F
      PROVE  Plain(IF Alike(f, h) THEN Plain(g) ELSE h) \in PlainOf(T)
  <2>1. CASE Alike(f, h)
    BY <1>1, <2>1 DEF PlainOf
  <2>2. CASE ~Alike(f, h)
    <3>1. PICK x \in S : Alike(h, x)
      BY SameNames
    <3>2. x # f
      BY <2>2, <3>1 DEF Alike
    <3>3. Plain(h) = Plain(x) /\ x \in T
      BY <3>1, <3>2, AlikeIsPlain
    <3>4. QED
      BY <2>2, <3>3 DEF PlainOf
  <2>3. QED
    BY <2>1, <2>2
<1>4. PlainOf(T) \subseteq PlainOf(G)
  BY <1>2 DEF PlainOf
<1>5. PlainOf(G) \subseteq PlainOf(T)
  BY <1>3 DEF PlainOf, Patch
<1>6. QED
  BY <1>4, <1>5

\* The new table is filled from the old one.
LEMMA RecreateFits ==
    ASSUME TablesDiffer, NEW u \in Databases, NEW c \in Shapes, NEW m \in Models,
           Fits(u, c), NEW S \in SUBSET Fields, PlainOf(S) = PlainOf(c[m]), Distinct(S),
           NEW f \in S, NEW g \in Fields, g.name = f.name, \E h \in c[m] : Alike(f, h),
           NEW filled \in SUBSET Names,
           ~g.null /\ g.name \notin filled => ~f.null
    PROVE  LET new == Recreate(m, (S \ {f}) \cup {g}, filled, FALSE)
           IN  /\ Takes(new, u)
               /\ Fits(Run(new, u), [c EXCEPT ![m] = Patch(@, f, Plain(g))])
<1> DEFINE T == (S \ {f}) \cup {g}
           new == Recreate(m, T, filled, FALSE)
           K == {Column(h) : h \in T}
           F == Patch(c[m], f, Plain(g))
<1>1. /\ new.op = "recreate" /\ new.table = TableOf[m] /\ new.columns = K
      /\ new.filled = filled /\ ~new.nested
  BY DEF Recreate
<1>2. c[m] \in SUBSET Fields /\ T \in SUBSET Fields /\ K \in SUBSET Columns
  BY ColumnType DEF Shapes
<1>3. NamesOf(T) = NamesOf(S) /\ NamesOf(S) = NamesOf(c[m])
  <2>1. NamesOf(T) = NamesOf(S)
    BY DEF NamesOf
  <2>2. QED
    BY <1>2, <2>1, SameNames
<1>4. NamesOf(K) = NamesOf(T)
  <2>1. \A h \in T : Column(h).name = h.name
    BY DEF Column
  <2>2. NamesOf(K) = {Column(h).name : h \in T}
    BY DEF NamesOf
  <2>3. QED
    BY <2>1, <2>2 DEF NamesOf
<1>5. NamesOf(u[TableOf[m]]) = NamesOf(K) /\ u[TableOf[m]] # {}
  BY <1>3, <1>4, FittingTable
<1>6. ASSUME NEW h \in T, NEW d \in u[TableOf[m]], d.name = h.name, d.null,
             ~h.null, h.name \notin filled
      PROVE  FALSE
  <2>1. PICK x \in c[m] : d.name = x.name /\ d.null = x.null
    BY FittingTable
  <2>2. PICK s \in S : Alike(x, s)
    BY <1>2, SameNames
  <2>3. s.name = h.name /\ s.null
    BY <1>6, <2>1, <2>2 DEF Alike
  <2>4. CASE h = g
    <3>1. s = f
      BY <2>3, <2>4 DEF Distinct
    <3>2. QED
      BY <1>6, <2>3, <2>4, <3>1
  <2>5. CASE h \in S
    <3>1. s = h
      BY <2>3, <2>5 DEF Distinct
    <3>2. QED
      BY <1>6, <2>3, <3>1
  <2>6. QED
    BY <2>4, <2>5
<1>7. ~Refused(new, u)
  <2>1. ASSUME NEW k \in K
        PROVE  /\ k.name \in NamesOf(u[TableOf[m]])
               /\ ~(/\ ~k.null /\ k.name \notin filled
                    /\ \E d \in u[TableOf[m]] : d.name = k.name /\ d.null)
    <3>1. PICK h \in T : k = Column(h)
      OBVIOUS
    <3>2. k.name = h.name /\ k.null = h.null
      BY <3>1 DEF Column
    <3>3. k.name \in NamesOf(u[TableOf[m]])
      BY <1>5 DEF NamesOf
    <3>4. QED
      BY <1>6, <3>2, <3>3
  <2> HIDE DEF new, K, T
  <2>2. QED
    BY <1>1, <1>5, <2>1 DEF Refused
<1>8. Takes(new, u)
  BY <1>1, <1>5, <1>7 DEF Takes
<1>9. Run(new, u) = [u EXCEPT ![TableOf[m]] = K]
  BY <1>1 DEF Run
<1>10. PlainOf(K) = ColumnsFor(F)
  <2>1. PlainOf(K) = ColumnsFor(T)
    BY DEF PlainOf, ColumnsFor
  <2>2. PlainOf(T) = PlainOf(F)
    BY <1>2, PatchIsPlain
  <2>3. F \in SUBSET Fields
    BY <1>2, PlainField, PatchType
  <2>4. QED
    BY <1>2, <2>1, <2>2, <2>3, SameColumns
<1>11. F \in SUBSET Fields
  BY <1>2, PlainField, PatchType
<1> HIDE DEF K, F
<1>12. Fits([u EXCEPT ![TableOf[m]] = K], [c EXCEPT ![m] = F])
  BY <1>2, <1>10, <1>11, FitsChanged
<1>13. [c EXCEPT ![m] = F] = [c EXCEPT ![m] = Patch(@, f, Plain(g))]
  BY DEF F
<1>14. QED
  BY <1>8, <1>9, <1>12, <1>13

-----------------------------------------------------------------------------
\* The invariant.

\* What waits leads to the structs; what waits and what a plan has written so
\* far leads to the structs as it has patched them; and the shadow the plan
\* works on says what they say, as long as the plan drops nothing.
Consistent ==
    /\ LeadsTo(pending, tables, code)
    /\ planning => LeadsTo(pending \o sql, tables, source)
    /\ AllDistinct(code) /\ AllDistinct(source)
    /\ planning /\ ~Removal(sql) =>
          /\ Dump(shadow) = Dump(source)
          /\ AllDistinct(shadow)
          /\ \A m \in Models \ renamed : code[m] # {} => source[m] # {}

\* A step of a plan writes the migration m and leaves what the invariant says.
Keeps(m) ==
    /\ Emit(m)
    /\ AllDistinct(source')
    /\ ~Removal(sql) /\ ~Stops(m) =>
          /\ \A u \in Databases :
                 Fits(u, source) => Takes(m, u) /\ Fits(Run(m, u), source')
          /\ Dump(shadow') = Dump(source')
          /\ AllDistinct(shadow')
          /\ \A k \in Models \ renamed' : code[k] # {} => source'[k] # {}

LEMMA RemovalNext ==
    ASSUME NEW list \in Seq(Migrations), NEW m \in Migrations
    PROVE  Removal(Append(list, m)) <=> Removal(list) \/ Stops(m)
<1> DEFINE longer == Append(list, m)
<1>1. /\ DOMAIN longer = 1..(Len(list) + 1) /\ DOMAIN list = 1..Len(list)
      /\ longer[Len(list) + 1] = m /\ Len(list) \in Nat
      /\ \A i \in 1..Len(list) : longer[i] = list[i]
  OBVIOUS
<1> HIDE DEF longer
<1>2. ASSUME NEW i \in DOMAIN longer, Stops(longer[i])
      PROVE  Removal(list) \/ Stops(m)
  <2>1. CASE i = Len(list) + 1
    BY <1>1, <1>2, <2>1
  <2>2. CASE i # Len(list) + 1
    <3>1. i \in DOMAIN list /\ longer[i] = list[i]
      BY <1>1, <2>2
    <3>2. QED
      BY <1>2, <3>1 DEF Removal, Stops
  <2>3. QED
    BY <2>1, <2>2
<1>3. ASSUME Removal(list) \/ Stops(m)
      PROVE  Removal(longer)
  <2>1. CASE Stops(m)
    <3>1. Len(list) + 1 \in DOMAIN longer
      BY <1>1
    <3>2. QED
      BY <1>1, <2>1, <3>1 DEF Removal, Stops
  <2>2. CASE Removal(list)
    <3>1. PICK i \in DOMAIN list : Stops(list[i])
      BY <2>2 DEF Removal, Stops
    <3>2. i \in DOMAIN longer /\ longer[i] = list[i]
      BY <1>1
    <3>3. QED
      BY <3>1, <3>2 DEF Removal, Stops
  <2>3. QED
    BY <1>3, <2>1, <2>2
<1>4. QED
  BY <1>2, <1>3 DEF Removal, Stops, longer

LEMMA RemovalBehind ==
    ASSUME NEW list \in Seq(Migrations), NEW more \in Seq(Migrations), Removal(more)
    PROVE  Removal(list \o more)
<1>1. PICK i \in DOMAIN more : Stops(more[i])
  BY DEF Removal, Stops
<1>2. /\ Len(list) + i \in DOMAIN (list \o more)
      /\ (list \o more)[Len(list) + i] = more[i]
  BY <1>1
<1>3. QED
  BY <1>1, <1>2 DEF Removal, Stops

LEMMA StepConsistent ==
    ASSUME TypeOK, Consistent, planning, Around, NEW m \in Migrations, Keeps(m)
    PROVE  Consistent'
<1>1. /\ pending \in Seq(Migrations) /\ sql \in Seq(Migrations)
      /\ tables \in Databases /\ sql' = Append(sql, m)
  BY DEF TypeOK, Keeps, Emit, Databases
<1>2. pending \o sql' = Append(pending \o sql, m) /\ pending \o sql \in Seq(Migrations)
  BY <1>1
<1>3. Removal(sql) => Removal(pending \o sql)
  BY <1>1, RemovalBehind
<1>4. LeadsTo(Append(pending \o sql, m), tables, source')
  <2>1. ~Removal(pending \o sql) /\ ~Stops(m) =>
            \A u \in Databases : Fits(u, source) => Takes(m, u) /\ Fits(Run(m, u), source')
    BY <1>3 DEF Keeps
  <2>2. LeadsTo(pending \o sql, tables, source)
    BY DEF Consistent
  <2>3. QED
    BY <1>1, <1>2, <2>1, <2>2, LeadsToNext
<1>5. /\ pending' = pending /\ tables' = tables /\ code' = code /\ planning' = planning
  BY DEF Around
<1>6. LeadsTo(pending, tables, code)' /\ LeadsTo(pending \o sql, tables, source)'
  <2>1. LeadsTo(pending', tables', code')
    BY <1>5 DEF Consistent
  <2>2. LeadsTo(pending' \o sql', tables', source')
    BY <1>2, <1>4, <1>5
  <2>3. QED
    BY <2>1, <2>2 DEF LeadsTo, Leads, Fits, Takes, Refused, Run, Stops
<1>7. ~Removal(sql') => ~Removal(sql) /\ ~Stops(m)
  BY <1>1, RemovalNext
<1>8. QED
  BY <1>5, <1>6, <1>7 DEF Consistent, Keeps

-----------------------------------------------------------------------------
\* The steps of a plan.

LEMMA DumpIsPlain ==
    ASSUME NEW c \in Shapes
    PROVE  Dump(c) = [m \in Models |-> PlainOf(c[m])]
BY DEF Dump, PlainOf, Plain

LEMMA SameDump ==
    ASSUME NEW c \in Shapes, NEW d \in Shapes
    PROVE  Dump(c) = Dump(d) <=> \A m \in Models : PlainOf(c[m]) = PlainOf(d[m])
<1>1. /\ Dump(c) = [m \in Models |-> PlainOf(c[m])]
      /\ Dump(d) = [m \in Models |-> PlainOf(d[m])]
  BY DumpIsPlain
<1>2. QED
  BY <1>1

\* Two descriptions of the models change alike.
LEMMA DumpChanged ==
    ASSUME NEW c \in Shapes, NEW d \in Shapes, Dump(c) = Dump(d), NEW m \in Models,
           NEW C \in Shapes, NEW D \in Shapes, PlainOf(C[m]) = PlainOf(D[m]),
           \A k \in Models \ {m} : C[k] = c[k] /\ D[k] = d[k]
    PROVE  Dump(C) = Dump(D)
<1>1. \A k \in Models : PlainOf(c[k]) = PlainOf(d[k])
  BY SameDump
<1>2. ASSUME NEW k \in Models PROVE PlainOf(C[k]) = PlainOf(D[k])
  <2>1. CASE k = m
    BY <2>1
  <2>2. CASE k # m
    BY <1>1, <2>2
  <2>3. QED
    BY <2>1, <2>2
<1>3. QED
  BY <1>2, SameDump

LEMMA DistinctChanged ==
    ASSUME NEW c \in Shapes, AllDistinct(c), NEW m \in Models, NEW F \in SUBSET Fields,
           Distinct(F)
    PROVE  AllDistinct([c EXCEPT ![m] = F])
BY DEF AllDistinct, Shapes

LEMMA DistinctMore ==
    ASSUME NEW F, Distinct(F), NEW f, f.name \notin NamesOf(F)
    PROVE  Distinct(F \cup {f})
BY DEF Distinct, NamesOf

LEMMA DistinctRenaming ==
    ASSUME NEW F \in SUBSET Fields, Distinct(F), NEW a \in Names, NEW b \in Names,
           b \notin NamesOf(F)
    PROVE  Distinct(Renaming(F, a, b))
<1>1. ASSUME NEW f \in F
      PROVE  (IF f.name = a THEN [f EXCEPT !.name = b] ELSE f).name =
                 (IF f.name = a THEN b ELSE f.name)
  BY DEF Fields
<1>2. ASSUME NEW f \in F, NEW g \in F,
             (IF f.name = a THEN b ELSE f.name) = (IF g.name = a THEN b ELSE g.name)
      PROVE  f = g
  <2>1. f.name # b /\ g.name # b
    BY DEF NamesOf
  <2>2. f.name = g.name
    BY <1>2, <2>1
  <2>3. QED
    BY <2>2 DEF Distinct
<1>3. QED
  BY <1>1, <1>2 DEF Renaming, Distinct

LEMMA DistinctPatch ==
    ASSUME NEW F \in SUBSET Fields, Distinct(F), NEW f, NEW g, g.name = f.name
    PROVE  Distinct(Patch(F, f, g))
<1>1. ASSUME NEW h \in F, NEW k \in F,
             (IF Alike(f, h) THEN g ELSE h).name = (IF Alike(f, k) THEN g ELSE k).name
      PROVE  h = k
  BY <1>1 DEF Alike, Distinct
<1>2. QED
  BY <1>1 DEF Patch, Distinct

\* A model that a plan goes on with is there, in the source and in the shadow.
LEMMA Working ==
    ASSUME TypeOK, Consistent, planning, ~Removal(sql), NEW m \in Models, Located(m)
    PROVE  /\ source[m] # {}
           /\ PlainOf(shadow[m]) = PlainOf(source[m])
           /\ NamesOf(shadow[m]) = NamesOf(source[m])
           /\ Distinct(shadow[m]) /\ Distinct(source[m])
<1>1. source \in Shapes /\ shadow \in Shapes
  BY DEF TypeOK
<1>2. source[m] # {}
  BY DEF Consistent, Located, NoModel
<1>3. PlainOf(shadow[m]) = PlainOf(source[m])
  <2>1. [k \in Models |-> PlainOf(shadow[k])] = [k \in Models |-> PlainOf(source[k])]
    BY <1>1, DumpIsPlain DEF Consistent
  <2>2. QED
    BY <2>1
<1>4. NamesOf(shadow[m]) = NamesOf(source[m])
  BY <1>1, <1>3, SameNames DEF Shapes
<1>5. QED
  BY <1>2, <1>3, <1>4 DEF Consistent, AllDistinct

\* The source gets the field f, the shadow the field g, the table the column d.
Adds(m, f, g, d) ==
    /\ planning /\ Located(m) /\ f.name \notin NamesOf(source[m])
    /\ Emit([op |-> "add", table |-> TableOf[m], column |-> d])
    /\ source' = [source EXCEPT ![m] = @ \cup {f}]
    /\ ~Removal(sql) => shadow' = [shadow EXCEPT ![m] = @ \cup {g}]
    /\ renamed' = renamed

LEMMA AddKeeps ==
    ASSUME TablesDiffer, TypeOK, Consistent, NEW m \in Models,
           NEW f \in Fields, NEW g \in Fields, Plain(g) = Plain(f),
           NEW d \in Columns, Plain(d) = Plain(Column(f)), Adds(m, f, g, d)
    PROVE  \E new \in Migrations : Keeps(new)
<1> DEFINE new == [op |-> "add", table |-> TableOf[m], column |-> d]
<1>0. /\ planning /\ Located(m) /\ f.name \notin NamesOf(source[m])
      /\ source' = [source EXCEPT ![m] = @ \cup {f}]
      /\ ~Removal(sql) => shadow' = [shadow EXCEPT ![m] = @ \cup {g}]
      /\ renamed' = renamed
  BY DEF Adds
<1>1. new \in Migrations /\ Emit(new)
  BY AddType DEF Adds
<1>2. source \in Shapes /\ shadow \in Shapes /\ source[m] \in SUBSET Fields
      /\ shadow[m] \in SUBSET Fields
  BY DEF TypeOK, Shapes
<1>3. AllDistinct(source')
  <2>1. Distinct(source[m] \cup {f})
    BY <1>0, DistinctMore DEF Consistent, AllDistinct
  <2>2. source[m] \cup {f} \in SUBSET Fields
    BY <1>2
  <2>3. QED
    BY <1>0, <1>2, <2>1, <2>2, DistinctChanged DEF Consistent
<1>4. ASSUME ~Removal(sql)
      PROVE  /\ \A u \in Databases :
                    Fits(u, source) => Takes(new, u) /\ Fits(Run(new, u), source')
             /\ Dump(shadow') = Dump(source')
             /\ AllDistinct(shadow')
             /\ \A k \in Models \ renamed' : code[k] # {} => source'[k] # {}
  <2>1. /\ source[m] # {} /\ PlainOf(shadow[m]) = PlainOf(source[m])
        /\ NamesOf(shadow[m]) = NamesOf(source[m])
        /\ Distinct(shadow[m]) /\ Distinct(source[m])
    BY <1>0, <1>4, Working
  <2>2. \A u \in Databases :
            Fits(u, source) => Takes(new, u) /\ Fits(Run(new, u), source')
    BY <1>0, <1>2, <2>1, AddFits
  <2>3. PlainOf(shadow[m] \cup {g}) = PlainOf(source[m] \cup {f})
    <3>1. PlainOf(shadow[m] \cup {g}) = PlainOf(shadow[m]) \cup {Plain(g)}
      BY DEF PlainOf
    <3>2. PlainOf(source[m] \cup {f}) = PlainOf(source[m]) \cup {Plain(f)}
      BY DEF PlainOf
    <3>3. QED
      BY <2>1, <3>1, <3>2
  <2>4. shadow[m] \cup {g} \in SUBSET Fields /\ source[m] \cup {f} \in SUBSET Fields
    BY <1>2
  <2>5. Dump(shadow') = Dump(source')
    <3>1. Dump(shadow) = Dump(source)
      BY <1>0, <1>4 DEF Consistent
    <3>2. /\ shadow' \in Shapes /\ source' \in Shapes
          /\ \A k \in Models \ {m} : shadow'[k] = shadow[k] /\ source'[k] = source[k]
      BY <1>0, <1>2, <1>4, <2>4 DEF Shapes
    <3>3. PlainOf(shadow'[m]) = PlainOf(source'[m])
      <4>1. shadow'[m] = shadow[m] \cup {g} /\ source'[m] = source[m] \cup {f}
        BY <1>0, <1>2, <1>4 DEF Shapes
      <4>2. QED
        BY <2>3, <4>1
    <3>4. QED
      BY <1>2, <3>1, <3>2, <3>3, DumpChanged
  <2>6. AllDistinct(shadow')
    <3>1. g.name = f.name
      BY AlikeIsPlain DEF Alike
    <3>2. Distinct(shadow[m] \cup {g})
      BY <1>0, <2>1, <3>1, DistinctMore
    <3>3. AllDistinct(shadow)
      BY <1>0, <1>4 DEF Consistent
    <3>4. AllDistinct([shadow EXCEPT ![m] = shadow[m] \cup {g}])
      BY <1>2, <2>4, <3>2, <3>3, DistinctChanged
    <3>5. QED
      BY <1>0, <1>4, <3>4
  <2>7. \A k \in Models \ renamed' : code[k] # {} => source'[k] # {}
    BY <1>0, <1>2, <1>4 DEF Consistent, Shapes
  <2>8. QED
    BY <2>2, <2>5, <2>6, <2>7
<1> HIDE DEF new
<1>5. Keeps(new)
  BY <1>1, <1>3, <1>4 DEF Keeps
<1>6. QED
  BY <1>1, <1>5

LEMMA AddFieldKeeps ==
    ASSUME TablesDiffer, TypeOK, Consistent, NEW m \in Models, NEW f \in Fields,
           AddField(m, f)
    PROVE  \E new \in Migrations : Keeps(new)
<1>1. Column(f) \in Columns
  BY ColumnType
<1>2. Adds(m, f, f, Column(f))
  BY DEF AddField, Simulating, Adds
<1>3. QED
  BY <1>1, <1>2, AddKeeps

LEMMA AddRelationKeeps ==
    ASSUME TablesDiffer, TypeOK, Consistent, NEW m \in Models, NEW n \in Models,
           NEW via \in Names, AddRelation(m, n, via)
    PROVE  \E new \in Migrations : Keeps(new)
<1> DEFINE f == Reference(via)
           g == [f EXCEPT !.fk = n]
           d == [Column(f) EXCEPT !.fk = TableOf[n]]
<1>1. f \in Fields /\ g \in Fields /\ d \in Columns /\ f.name = via
  BY ReferenceType, ChangedType DEF Reference
<1>2. Plain(g) = Plain(f)
  BY DEF Plain, Reference
<1>3. Plain(d) = Plain(Column(f))
  BY DEF Plain, Column
<1>4. /\ planning /\ Located(m) /\ via \notin NamesOf(source[m])
      /\ Emit([op |-> "add", table |-> TableOf[m], column |-> d])
      /\ source' = [source EXCEPT ![m] = @ \cup {f}]
      /\ shadow' = [shadow EXCEPT ![m] = IF via \in NamesOf(@) THEN @ ELSE @ \cup {g}]
      /\ renamed' = renamed
  BY DEF AddRelation, Relate, Reference, Simulating
<1>5. ASSUME ~Removal(sql)
      PROVE  shadow' = [shadow EXCEPT ![m] = @ \cup {g}]
  <2>1. via \notin NamesOf(shadow[m])
    BY <1>4, <1>5, Working
  <2>2. QED
    BY <1>4, <2>1
<1>6. Adds(m, f, g, d)
  BY <1>1, <1>4, <1>5 DEF Adds
<1> HIDE DEF f, g, d
<1>7. QED
  BY <1>1, <1>2, <1>3, <1>6, AddKeeps

LEMMA RenamingIsPlain ==
    ASSUME NEW F \in SUBSET Fields, NEW G \in SUBSET Fields, PlainOf(F) = PlainOf(G),
           NEW a \in Names, NEW b \in Names
    PROVE  PlainOf(Renaming(F, a, b)) = PlainOf(Renaming(G, a, b))
<1> DEFINE new(f) == IF f.name = a THEN [f EXCEPT !.name = b] ELSE f
<1>1. ASSUME NEW f \in Fields, NEW g \in Fields, Alike(f, g)
      PROVE  Plain(new(f)) = Plain(new(g))
  BY <1>1 DEF Alike, Plain, Fields
<1>2. ASSUME NEW A \in SUBSET Fields, NEW B \in SUBSET Fields, PlainOf(A) = PlainOf(B)
      PROVE  PlainOf(Renaming(A, a, b)) \subseteq PlainOf(Renaming(B, a, b))
  <2>0. Renaming(A, a, b) = {new(f) : f \in A} /\ Renaming(B, a, b) = {new(f) : f \in B}
    BY DEF Renaming
  <2> HIDE DEF new
  <2>1. ASSUME NEW f \in A
        PROVE  Plain(new(f)) \in PlainOf(Renaming(B, a, b))
    <3>1. PICK g \in B : Alike(f, g)
      BY <1>2, SameNames
    <3>2. Plain(new(f)) = Plain(new(g))
      BY <1>1, <3>1
    <3>3. QED
      BY <2>0, <3>2 DEF PlainOf
  <2>2. QED
    BY <2>0, <2>1 DEF PlainOf
<1>3. QED
  BY <1>2

LEMMA RenameFieldKeeps ==
    ASSUME TablesDiffer, TypeOK, Consistent, NEW m \in Models, NEW a \in Names,
           NEW b \in Names, RenameField(m, a, b)
    PROVE  \E new \in Migrations : Keeps(new)
<1> DEFINE new == [op |-> "rename_column", table |-> TableOf[m], from |-> a, to |-> b]
           F == Renaming(source[m], a, b)
           G == Renaming(shadow[m], a, b)
<1>1. new \in Migrations
  BY RenameColumnType
<1>2. /\ planning /\ Located(m) /\ a \in NamesOf(source[m]) /\ b \notin NamesOf(source[m])
      /\ Emit(new) /\ renamed' = renamed
      /\ source' = [source EXCEPT ![m] = F] /\ shadow' = [shadow EXCEPT ![m] = G]
  BY DEF RenameField, Simulating
<1>3. /\ source \in Shapes /\ shadow \in Shapes /\ source[m] \in SUBSET Fields
      /\ shadow[m] \in SUBSET Fields /\ F \in SUBSET Fields /\ G \in SUBSET Fields
  BY RenamingType DEF TypeOK, Shapes
<1>4. AllDistinct(source')
  <2>1. Distinct(F)
    BY <1>2, <1>3, DistinctRenaming DEF Consistent, AllDistinct
  <2>2. QED
    BY <1>2, <1>3, <2>1, DistinctChanged DEF Consistent
<1>5. ASSUME ~Removal(sql)
      PROVE  /\ \A u \in Databases :
                    Fits(u, source) => Takes(new, u) /\ Fits(Run(new, u), source')
             /\ Dump(shadow') = Dump(source')
             /\ AllDistinct(shadow')
             /\ \A k \in Models \ renamed' : code[k] # {} => source'[k] # {}
  <2>1. /\ source[m] # {} /\ PlainOf(shadow[m]) = PlainOf(source[m])
        /\ NamesOf(shadow[m]) = NamesOf(source[m])
        /\ Distinct(shadow[m]) /\ Distinct(source[m])
    BY <1>2, <1>5, Working
  <2>2. \A u \in Databases :
            Fits(u, source) => Takes(new, u) /\ Fits(Run(new, u), source')
    BY <1>2, <1>3, RenameFits
  <2>3. PlainOf(G) = PlainOf(F)
    BY <1>3, <2>1, RenamingIsPlain
  <2>4. Distinct(G)
    BY <1>2, <1>3, <2>1, DistinctRenaming
  <2>5. Dump(shadow) = Dump(source) /\ AllDistinct(shadow)
    BY <1>2, <1>5 DEF Consistent
  <2>6. F # {}
    BY <2>1 DEF Renaming
  <2> HIDE DEF F, G
  <2>7. Dump(shadow') = Dump(source')
    <3>1. /\ shadow' \in Shapes /\ source' \in Shapes
          /\ shadow'[m] = G /\ source'[m] = F
          /\ \A k \in Models \ {m} : shadow'[k] = shadow[k] /\ source'[k] = source[k]
      BY <1>2, <1>3 DEF Shapes
    <3>2. QED
      BY <1>3, <2>3, <2>5, <3>1, DumpChanged
  <2>8. AllDistinct(shadow')
    BY <1>2, <1>3, <2>4, <2>5, DistinctChanged
  <2>9. \A k \in Models \ renamed' : code[k] # {} => source'[k] # {}
    BY <1>2, <1>3, <1>5, <2>6 DEF Consistent, Shapes
  <2>10. QED
    BY <2>2, <2>7, <2>8, <2>9
<1> HIDE DEF new
<1>6. Keeps(new)
  BY <1>2, <1>4, <1>5 DEF Keeps
<1>7. QED
  BY <1>1, <1>6

\* A field f becomes g, in the shadow, in the source and in a new table.
LEMMA ChangeFieldKeeps ==
    ASSUME TablesDiffer, TypeOK, Consistent, planning, NEW m \in Models,
           NEW f \in Fields, NEW g \in Fields, g.name = f.name,
           NEW filled \in SUBSET Names, ~g.null /\ g.name \notin filled => ~f.null,
           ChangeField(m, f, g, filled)
    PROVE  \E new \in Migrations : Keeps(new)
<1> DEFINE T == (shadow[m] \ {f}) \cup {g}
           new == Recreate(m, T, filled, FALSE)
           F == Patch(source[m], f, Plain(g))
<1>1. /\ f \in shadow[m] /\ Located(m) /\ \E h \in source[m] : Alike(f, h)
      /\ Emit(new) /\ renamed' = renamed
      /\ source' = [source EXCEPT ![m] = F] /\ shadow' = [shadow EXCEPT ![m] = T]
  BY DEF ChangeField, Patchable, Plain
<1>2. /\ source \in Shapes /\ shadow \in Shapes /\ source[m] \in SUBSET Fields
      /\ shadow[m] \in SUBSET Fields /\ T \in SUBSET Fields
  BY DEF TypeOK, Shapes
<1>3. Plain(g) \in Fields /\ Plain(g).name = f.name
  BY PlainField
<1>4. F \in SUBSET Fields
  BY <1>2, <1>3, PatchType
<1>5. new \in Migrations
  BY <1>2, RecreateType
<1>6. AllDistinct(source')
  <2>1. Distinct(F)
    BY <1>2, <1>3, DistinctPatch DEF Consistent, AllDistinct
  <2>2. QED
    BY <1>1, <1>2, <1>4, <2>1, DistinctChanged DEF Consistent
<1>7. ASSUME ~Removal(sql)
      PROVE  /\ \A u \in Databases :
                    Fits(u, source) => Takes(new, u) /\ Fits(Run(new, u), source')
             /\ Dump(shadow') = Dump(source')
             /\ AllDistinct(shadow')
             /\ \A k \in Models \ renamed' : code[k] # {} => source'[k] # {}
  <2>1. /\ source[m] # {} /\ PlainOf(shadow[m]) = PlainOf(source[m])
        /\ Distinct(shadow[m])
    BY <1>1, <1>7, Working
  <2>2. \A u \in Databases :
            Fits(u, source) => Takes(new, u) /\ Fits(Run(new, u), source')
    BY <1>1, <1>2, <2>1, RecreateFits
  <2>3. PlainOf(T) = PlainOf(F)
    BY <1>1, <1>2, <2>1, PatchIsPlain
  <2>4. Distinct(T)
    BY <1>1, <2>1 DEF Distinct
  <2>5. Dump(shadow) = Dump(source) /\ AllDistinct(shadow)
    BY <1>7 DEF Consistent
  <2>6. F # {}
    BY <2>1 DEF Patch
  <2> HIDE DEF F, T
  <2>7. Dump(shadow') = Dump(source')
    <3>1. /\ shadow' \in Shapes /\ source' \in Shapes
          /\ shadow'[m] = T /\ source'[m] = F
          /\ \A k \in Models \ {m} : shadow'[k] = shadow[k] /\ source'[k] = source[k]
      BY <1>1, <1>2, <1>4 DEF Shapes
    <3>2. QED
      BY <1>2, <2>3, <2>5, <3>1, DumpChanged
  <2>8. AllDistinct(shadow')
    BY <1>1, <1>2, <2>4, <2>5, DistinctChanged
  <2>9. \A k \in Models \ renamed' : code[k] # {} => source'[k] # {}
    BY <1>1, <1>2, <1>7, <2>6 DEF Consistent, Shapes
  <2>10. QED
    BY <2>2, <2>7, <2>8, <2>9
<1> HIDE DEF new
<1>8. Keeps(new)
  BY <1>1, <1>6, <1>7 DEF Keeps
<1>9. QED
  BY <1>5, <1>8

LEMMA ChangeKeeps ==
    ASSUME TablesDiffer, TypeOK, Consistent, NEW m \in Models, NEW f \in Fields,
           \/ \E ty \in Types : ChangeFieldType(m, f, ty)
           \/ ChangeFieldNullability(m, f)
    PROVE  \E new \in Migrations : Keeps(new)
<1>1. ASSUME NEW ty \in Types, ChangeFieldType(m, f, ty)
      PROVE  \E new \in Migrations : Keeps(new)
  <2> DEFINE g == [f EXCEPT !.ty = ty]
  <2>1. g \in Fields /\ g.name = f.name /\ g.null = f.null
    BY DEF Fields
  <2>2. planning /\ ChangeField(m, f, g, {})
    BY <1>1 DEF ChangeFieldType, Simulating
  <2> HIDE DEF g
  <2>3. QED
    BY <2>1, <2>2, ChangeFieldKeeps
<1>2. ASSUME ChangeFieldNullability(m, f)
      PROVE  \E new \in Migrations : Keeps(new)
  <2> DEFINE g == [f EXCEPT !.null = ~@]
             filled == IF f.null THEN {f.name} ELSE {}
  <2>1. g \in Fields /\ g.name = f.name /\ filled \in SUBSET Names
    BY DEF Fields
  <2>2. ~g.null /\ g.name \notin filled => ~f.null
    BY <2>1
  <2>3. planning /\ ChangeField(m, f, g, filled)
    BY <1>2 DEF ChangeFieldNullability, Simulating
  <2> HIDE DEF g, filled
  <2>4. QED
    BY <2>1, <2>2, <2>3, ChangeFieldKeeps
<1>3. QED
  BY <1>1, <1>2

LEMMA RenameModelKeeps ==
    ASSUME TablesDiffer, TypeOK, Consistent, NEW m \in Models, NEW n \in Models,
           RenameModel(m, n)
    PROVE  \E new \in Migrations : Keeps(new)
<1> DEFINE new == [op |-> "rename_table", table |-> TableOf[m], to |-> TableOf[n]]
<1>1. new \in Migrations
  BY RenameTableType
<1>2. /\ planning /\ m # n /\ Located(m) /\ source[n] = {}
      /\ source' = [source EXCEPT ![n] = source[m], ![m] = NoModel]
      /\ shadow' = [shadow EXCEPT ![n] = shadow[m], ![m] = NoModel]
      /\ renamed' = renamed \cup {m, n} /\ Emit(new)
  BY DEF RenameModel, Simulating, NoModel
<1>3. source \in Shapes /\ shadow \in Shapes
  BY DEF TypeOK
<1>4. /\ source' \in Shapes /\ shadow' \in Shapes
      /\ source'[n] = source[m] /\ source'[m] = {}
      /\ shadow'[n] = shadow[m] /\ shadow'[m] = {}
      /\ \A k \in Models \ {m, n} : source'[k] = source[k] /\ shadow'[k] = shadow[k]
  BY <1>2, <1>3 DEF Shapes, NoModel
<1>5. AllDistinct(source')
  <2>1. \A k \in Models : source'[k] \in {source[m], source[k], {}}
    BY <1>4
  <2>2. QED
    BY <2>1 DEF Consistent, AllDistinct, Distinct
<1>6. ASSUME ~Removal(sql)
      PROVE  /\ \A u \in Databases :
                    Fits(u, source) => Takes(new, u) /\ Fits(Run(new, u), source')
             /\ Dump(shadow') = Dump(source')
             /\ AllDistinct(shadow')
             /\ \A k \in Models \ renamed' : code[k] # {} => source'[k] # {}
  <2>1. source[m] # {}
    BY <1>2, <1>6, Working
  <2>2. \A u \in Databases :
            Fits(u, source) => Takes(new, u) /\ Fits(Run(new, u), source')
    BY <1>2, <1>3, <2>1, RenameTableFits
  <2>3. \A k \in Models : PlainOf(shadow[k]) = PlainOf(source[k])
    BY <1>2, <1>3, <1>6, SameDump DEF Consistent
  <2>4. ASSUME NEW k \in Models PROVE PlainOf(shadow'[k]) = PlainOf(source'[k])
    <3>1. CASE k = m
      BY <1>4, <3>1
    <3>2. CASE k = n
      <4>1. shadow'[n] = shadow[m] /\ source'[n] = source[m]
        BY <1>4
      <4>2. QED
        BY <2>3, <3>2, <4>1
    <3>3. CASE k \notin {m, n}
      <4>1. shadow'[k] = shadow[k] /\ source'[k] = source[k]
        BY <1>4, <3>3
      <4>2. QED
        BY <2>3, <4>1
    <3>4. QED
      BY <3>1, <3>2, <3>3
  <2>5. Dump(shadow') = Dump(source')
    BY <1>4, <2>4, SameDump
  <2>6. AllDistinct(shadow')
    <3>1. \A k \in Models : shadow'[k] \in {shadow[m], shadow[k], {}}
      BY <1>4
    <3>2. AllDistinct(shadow)
      BY <1>2, <1>6 DEF Consistent
    <3>3. QED
      BY <3>1, <3>2 DEF AllDistinct, Distinct
  <2>7. \A k \in Models \ renamed' : code[k] # {} => source'[k] # {}
    BY <1>2, <1>4, <1>6 DEF Consistent
  <2>8. QED
    BY <2>2, <2>5, <2>6, <2>7
<1> HIDE DEF new
<1>7. Keeps(new)
  BY <1>2, <1>5, <1>6 DEF Keeps
<1>8. QED
  BY <1>1, <1>7

\* The table of a removed field is recreated in a transaction of its own.
LEMMA DropKeeps ==
    ASSUME TypeOK, Consistent, NEW m \in Models, NEW f \in Fields,
           RemoveField(m, f) \/ RemoveRelation(m, f)
    PROVE  \E new \in Migrations : Keeps(new)
<1> DEFINE new == Recreate(m, {g \in shadow[m] : g.name # f.name}, {}, TRUE)
<1>1. DropField(m, f)
  BY DEF RemoveField, RemoveRelation
<1>2. {g \in shadow[m] : g.name # f.name} \in SUBSET Fields
  BY DEF TypeOK, Shapes
<1>3. new \in Migrations
  BY <1>2, RecreateType
<1>4. Stops(new)
  BY DEF Stops, Recreate
<1>5. AllDistinct(source')
  <2>1. source' = [source EXCEPT ![m] = {g \in source[m] : ~Alike(f, g)}]
    BY <1>1 DEF DropField
  <2>2. /\ {g \in source[m] : ~Alike(f, g)} \in SUBSET Fields
        /\ Distinct({g \in source[m] : ~Alike(f, g)}) /\ source \in Shapes
    BY DEF TypeOK, Shapes, Consistent, AllDistinct, Distinct
  <2>3. QED
    BY <2>1, <2>2, DistinctChanged DEF Consistent
<1>6. Emit(new)
  BY <1>1 DEF DropField
<1> HIDE DEF new
<1>7. Keeps(new)
  BY <1>4, <1>5, <1>6 DEF Keeps
<1>8. QED
  BY <1>3, <1>7

-----------------------------------------------------------------------------
\* The invariant is kept.

\* What `rustio new` and `rustio add model` leave has no two fields of one name.
InitDistinct == AllDistinct(InitModels)

LEMMA ConsistentInit ==
    ASSUME TablesDiffer, InitDistinct, Init
    PROVE  Consistent
<1>1. TypeOK
  BY TypeInit
<1>2. ASSUME NEW m \in Models
      PROVE  tables[TableOf[m]] = {Column(f) : f \in InitModels[m]}
  <2>1. TableOf[m] \in Tables
    BY DEF Tables
  <2>2. {n \in Models : TableOf[n] = TableOf[m]} = {m}
    BY DEF TablesDiffer
  <2>3. tables[TableOf[m]] =
            {Column(f) : f \in UNION {InitModels[k] : k \in {m}}}
    BY <2>1, <2>2 DEF Init
  <2>4. QED
    BY <2>3
<1>3. ASSUME NEW m \in Models
      PROVE  PlainOf(tables[TableOf[m]]) = ColumnsFor(code[m])
  <2>1. code[m] = InitModels[m]
    BY DEF Init
  <2>2. PlainOf({Column(f) : f \in InitModels[m]}) = ColumnsFor(InitModels[m])
    BY DEF PlainOf, ColumnsFor
  <2>3. QED
    BY <1>2, <2>1, <2>2
<1>4. Fits(tables, code)
  BY <1>3 DEF Fits
<1>5. LeadsTo(pending, tables, code)
  <2>1. tables \in Databases /\ pending = <<>>
    BY <1>1 DEF TypeOK, Databases, Init
  <2>2. QED
    BY <1>4, <2>1, LeadsToNone
<1>6. AllDistinct(code) /\ AllDistinct(source) /\ ~planning
  BY DEF Init, InitDistinct, AllDistinct, Distinct, NoModel
<1>7. QED
  BY <1>5, <1>6 DEF Consistent

\* Plans are made when the schema has been dumped.
LEMMA LoadConsistent ==
    ASSUME AlwaysDump, TypeOK, Consistent, Load
    PROVE  Consistent'
<1>1. /\ pending' = pending /\ tables' = tables /\ code' = code /\ planning'
      /\ shadow' = Dump(code) /\ source' = code /\ renamed' = {} /\ sql' = <<>>
  BY DEF Load, project
<1>2. LeadsTo(pending, tables, code)' /\ LeadsTo(pending \o sql, tables, source)'
  <2>1. pending' \o sql' = pending
    BY <1>1 DEF TypeOK
  <2>2. LeadsTo(pending', tables', code') /\ LeadsTo(pending' \o sql', tables', source')
    BY <1>1, <2>1 DEF Consistent
  <2>3. QED
    BY <2>2 DEF LeadsTo, Leads, Fits, Takes, Refused, Run, Stops
<1>3. code \in Shapes /\ Dump(code) \in Shapes
  BY DumpType DEF TypeOK
<1>4. \A m \in Models : Dump(code)[m] = PlainOf(code[m])
  BY <1>3, DumpIsPlain
<1>5. Dump(Dump(code)) = Dump(code)
  <2>1. ASSUME NEW m \in Models
        PROVE  PlainOf(PlainOf(code[m])) = PlainOf(code[m])
    <3>1. ASSUME NEW f \in code[m] PROVE Plain(Plain(f)) = Plain(f)
      BY <1>3 DEF Plain, Shapes, Fields
    <3>2. QED
      BY <3>1 DEF PlainOf
  <2>2. \A m \in Models : PlainOf(Dump(code)[m]) = PlainOf(code[m])
    BY <1>4, <2>1
  <2>3. QED
    BY <1>3, <2>2, SameDump
<1>6. AllDistinct(Dump(code))
  <2>1. ASSUME NEW m \in Models
        PROVE  Distinct(PlainOf(code[m]))
    <3>1. Distinct(code[m]) /\ code[m] \in SUBSET Fields
      BY <1>3 DEF Consistent, AllDistinct, Shapes
    <3>2. \A f \in code[m] : Plain(f).name = f.name
      BY <3>1, PlainField
    <3>3. QED
      BY <3>1, <3>2 DEF Distinct, PlainOf
  <2>2. QED
    BY <1>4, <2>1 DEF AllDistinct
<1>7. QED
  BY <1>1, <1>2, <1>5, <1>6 DEF Consistent

LEMMA ForgetDistinct ==
    ASSUME Forget
    PROVE  AllDistinct(source')
BY DEF Forget, AllDistinct, Distinct, NoModel

LEMMA MigrateConsistent ==
    ASSUME TypeOK, Consistent, Migrate
    PROVE  Consistent' /\ Takes(Head(pending), tables)
<1>1. /\ pending # <<>> /\ ~Refused(Head(pending), tables)
      /\ tables' = Run(Head(pending), tables) /\ pending' = Tail(pending)
      /\ code' = code /\ planning' = planning
      /\ shadow' = shadow /\ source' = source /\ renamed' = renamed /\ sql' = sql
  BY DEF Migrate, memory
<1>2. pending \in Seq(Migrations) /\ sql \in Seq(Migrations) /\ tables \in Databases
  BY DEF TypeOK, Databases
<1>3. Takes(Head(pending), tables) /\ LeadsTo(pending', tables', code)
  BY <1>1, <1>2, LeadsToRest DEF Consistent
<1>4. ASSUME planning
      PROVE  LeadsTo(pending' \o sql, tables', source)
  <2>1. /\ pending \o sql \in Seq(Migrations) /\ pending \o sql # <<>>
        /\ Head(pending \o sql) = Head(pending)
        /\ Tail(pending \o sql) = Tail(pending) \o sql
    BY <1>1, <1>2
  <2>2. LeadsTo(pending \o sql, tables, source)
    BY <1>4 DEF Consistent
  <2>3. QED
    BY <1>1, <1>2, <2>1, <2>2, LeadsToRest
<1>5. LeadsTo(pending, tables, code)' /\ (planning => LeadsTo(pending \o sql, tables, source))'
  <2>1. LeadsTo(pending', tables', code')
    BY <1>1, <1>3
  <2>2. planning' => LeadsTo(pending' \o sql', tables', source')
    BY <1>1, <1>4
  <2>3. QED
    BY <2>1, <2>2 DEF LeadsTo, Leads, Fits, Takes, Refused, Run, Stops
<1>6. QED
  BY <1>1, <1>3, <1>5 DEF Consistent

LEMMA ConsistentStep ==
    ASSUME TablesDiffer, AlwaysDump, TypeOK, Consistent, [Next]_vars
    PROVE  Consistent'
<1>1. CASE UNCHANGED vars
  BY <1>1 DEF vars, project, memory, Consistent
<1>2. CASE Load
  BY <1>2, LoadConsistent
<1>3. CASE PlanStep
  <2>1. planning /\ Around
    <3>1. Around
      BY <1>3, AddFieldType, RenameFieldType, ChangeType, RenameModelType,
         AddRelationType, DropType DEF PlanStep
    <3>2. ASSUME NEW m \in Models, NEW f \in Fields
          PROVE  /\ AddField(m, f) => planning
                 /\ RemoveField(m, f) => planning
                 /\ RemoveRelation(m, f) => planning
                 /\ ChangeFieldNullability(m, f) => planning
                 /\ \A ty \in Types : ChangeFieldType(m, f, ty) => planning
      BY DEF AddField, RemoveField, RemoveRelation, ChangeFieldNullability,
         ChangeFieldType, Simulating
    <3>3. ASSUME NEW m \in Models
          PROVE  /\ \A a, b \in Names : RenameField(m, a, b) => planning
                 /\ \A n \in Models : RenameModel(m, n) => planning
                 /\ \A n \in Models : \A via \in Names :
                        AddRelation(m, n, via) => planning
      BY DEF RenameField, RenameModel, AddRelation, Relate, Simulating
    <3>4. planning
      BY <1>3, <3>2, <3>3 DEF PlanStep
    <3>5. QED
      BY <3>1, <3>4
  <2>2. \E new \in Migrations : Keeps(new)
    BY <1>3, AddFieldKeeps, RenameFieldKeeps, ChangeKeeps, RenameModelKeeps,
       AddRelationKeeps, DropKeeps DEF PlanStep
  <2>3. QED
    BY <2>1, <2>2, StepConsistent
<1>4. CASE Refuse
  <2>1. /\ pending' = pending /\ tables' = tables /\ code' = code /\ ~planning'
        /\ AllDistinct(source')
    BY <1>4, ForgetDistinct DEF Refuse, project
  <2>2. LeadsTo(pending', tables', code')
    BY <2>1 DEF Consistent
  <2>3. LeadsTo(pending, tables, code)'
    BY <2>2 DEF LeadsTo, Leads, Fits, Takes, Refused, Run, Stops
  <2>4. QED
    BY <2>1, <2>3 DEF Consistent
<1>5. CASE Commit
  <2>1. /\ pending' = pending \o sql /\ tables' = tables /\ code' = source
        /\ planning /\ ~planning' /\ AllDistinct(source')
    BY <1>5, ForgetDistinct DEF Commit
  <2>2. LeadsTo(pending', tables', code')
    BY <2>1 DEF Consistent
  <2>3. LeadsTo(pending, tables, code)'
    BY <2>2 DEF LeadsTo, Leads, Fits, Takes, Refused, Run, Stops
  <2>4. QED
    BY <2>1, <2>3 DEF Consistent
<1>6. CASE Migrate
  BY <1>6, MigrateConsistent
<1>7. CASE DumpSchema
  BY <1>7 DEF DumpSchema, memory, Consistent
<1>8. QED
  BY <1>1, <1>2, <1>3, <1>4, <1>5, <1>6, <1>7 DEF Next

THEOREM Consistency ==
    ASSUME TablesDiffer, InitDistinct, AlwaysDump
    PROVE  Spec => []Consistent
<1>1. Init => Consistent
  BY ConsistentInit
<1>2. TypeOK /\ Consistent /\ [Next]_vars => Consistent'
  BY ConsistentStep
<1>3. QED
  BY <1>1, <1>2, Typing, PTL DEF Spec

-----------------------------------------------------------------------------
\* What the run checks.

\* At every step of a plan the shadow that the executor works on agrees with
\* the structs as patched so far: what a later step finds in it is there.
THEOREM ShadowFollows ==
    ASSUME TablesDiffer, InitDistinct, AlwaysDump
    PROVE  Spec => []ShadowIsSource
<1>1. Consistent => ShadowIsSource
  BY DEF Consistent, ShadowIsSource
<1>2. QED
  BY <1>1, Consistency, PTL

\* A migration that recreates a table keeps every column the table has when it
\* runs, however many migrations of other plans have run before it.
THEOREM NothingIsDropped ==
    ASSUME TablesDiffer, InitDistinct, AlwaysDump
    PROVE  Spec => NothingDropped
<1>1. ASSUME TypeOK, Consistent, Migrate, Head(pending).op = "recreate"
      PROVE  NamesOf(tables[Head(pending).table])
                 \subseteq NamesOf(tables'[Head(pending).table])
  <2>1. Takes(Head(pending), tables)
    BY <1>1, MigrateConsistent
  <2>2. Head(pending) \in Migrations
    BY <1>1, HeadTailProperties DEF Migrate, TypeOK
  <2>3. tables' = [tables EXCEPT ![Head(pending).table] = Head(pending).columns]
    BY <1>1 DEF Migrate, Run
  <2>4. tables'[Head(pending).table] = Head(pending).columns
    BY <1>1, <2>2, <2>3, Kinds DEF TypeOK
  <2>5. QED
    BY <1>1, <2>1, <2>4 DEF Takes
<1>2. TypeOK /\ Consistent /\ [Next]_vars =>
          [Migrate /\ Head(pending).op = "recreate" =>
              NamesOf(tables[Head(pending).table])
                  \subseteq NamesOf(tables'[Head(pending).table])]_vars
  BY <1>1
<1>3. QED
  BY <1>2, Typing, Consistency, PTL DEF Spec, NothingDropped

\* A migration run on every state of a set that takes it.
RunOn(T, m) == {Run(m, t) : t \in {u \in T : ~Refused(m, u)}}

Running == [p \in (SUBSET Databases) \X Migrations |-> RunOn(p[1], p[2])]

LEMMA RunningType == Running \in [(SUBSET Databases) \X Migrations -> SUBSET Databases]
<1>1. ASSUME NEW T \in SUBSET Databases, NEW m \in Migrations
      PROVE  RunOn(T, m) \in SUBSET Databases
  BY RunType DEF RunOn
<1>2. QED
  BY <1>1 DEF Running

\* The fold over a list of migrations goes from the first to the last.
LEMMA OutcomesUnfold ==
    ASSUME TypeOK, NEW list \in Seq(Migrations)
    PROVE  \E g : /\ GoesOn(g, SUBSET Databases, Len(list), {tables}, Running, list)
                  /\ Outcomes(list) = g[1..Len(list)]
<1> DEFINE N == Len(list)
           Body(h) == [s \in SUBSET DOMAIN list |->
                         IF s = {} THEN {tables}
                         ELSE RunOn(h[s \ {Largest(s)}], list[Largest(s)])]
           all == CHOOSE h : h = Body(h)
<1>1. N \in Nat /\ DOMAIN list = 1..N /\ list \in [1..N -> Migrations]
  OBVIOUS
<1>2. {tables} \in SUBSET Databases
  BY DEF TypeOK, Databases
<1>3. PICK g \in [SUBSET (1..N) -> SUBSET Databases] :
          Folds(g, N, {tables}, Running, list)
  <2> HIDE DEF N
  <2>1. QED
    BY <1>1, <1>2, RunningType, FoldRecursion
<1>4. g = Body(g)
  <2>1. ASSUME NEW s \in SUBSET (1..N)
        PROVE  g[s] = IF s = {} THEN {tables}
                      ELSE RunOn(g[s \ {Largest(s)}], list[Largest(s)])
    <3>1. CASE s = {}
      BY <1>3, <3>1 DEF Folds
    <3>2. CASE s # {}
      <4>1. g[s] = Running[<<g[s \ {Largest(s)}], list[Largest(s)]>>]
        BY <1>3, <3>2 DEF Folds
      <4>2. g[s \ {Largest(s)}] \in SUBSET Databases
        BY <1>3
      <4>3. list[Largest(s)] \in Migrations
        BY <1>1, <3>2, LargestIsMember
      <4>4. QED
        BY <3>2, <4>1, <4>2, <4>3 DEF Running
    <3>3. QED
      BY <3>1, <3>2
  <2>2. QED
    BY <1>1, <1>3, <2>1
<1>5. all = Body(all)
  BY <1>4
<1>6. GoesOn(all, SUBSET Databases, N, {tables}, Running, list)
  <2> HIDE DEF all
  <2>1. all[{}] = {tables}
    BY <1>1, <1>5
  <2>2. ASSUME NEW s \in SUBSET (1..N), s # {},
               all[s \ {Largest(s)}] \in SUBSET Databases
        PROVE  all[s] = Running[<<all[s \ {Largest(s)}], list[Largest(s)]>>]
    <3>1. all[s] = RunOn(all[s \ {Largest(s)}], list[Largest(s)])
      BY <1>1, <1>5, <2>2
    <3>2. list[Largest(s)] \in Migrations
      BY <1>1, <2>2, LargestIsMember
    <3>3. QED
      BY <2>2, <3>1, <3>2 DEF Running
  <2>3. GoesBack(all, SUBSET Databases, N, {tables}, Running, list)
    BY <2>1, <2>2 DEF GoesBack
  <2> HIDE DEF N
  <2>4. QED
    BY <1>1, <1>2, <2>3, RunningType, FoldUnfolding
<1>7. Outcomes(list) = all[DOMAIN list]
  BY Zenon DEF Outcomes, FoldLeft, MapThenFoldSet, Max, Largest, RunOn
<1>8. QED
  BY <1>1, <1>6, <1>7

\* Every migration of the list is accepted, and leads to one state.
LEMMA OutcomesLed ==
    ASSUME TypeOK, NEW list \in Seq(Migrations), NEW it \in [0..Len(list) -> Databases],
           Leads(it, Len(list), list, tables)
    PROVE  Outcomes(list) = {it[Len(list)]}
<1> DEFINE N == Len(list)
<1>0. PICK g : /\ GoesOn(g, SUBSET Databases, N, {tables}, Running, list)
               /\ Outcomes(list) = g[1..N]
  BY OutcomesUnfold
<1>1. /\ \A n \in 0..N : g[1..n] \in SUBSET Databases
      /\ g[1..0] = {tables}
      /\ \A n \in 0..N : n < N => g[1..(n + 1)] = Running[<<g[1..n], list[n + 1]>>]
  BY <1>0 DEF GoesOn
<1>2. N \in Nat /\ \A n \in 1..N : list[n] \in Migrations
  OBVIOUS
<1> DEFINE T == {n \in 0..N : g[1..n] = {it[n]}}
<1> HIDE DEF N
<1>3. 0 \in T
  <2>1. it[0] = tables
    BY DEF Leads
  <2>2. QED
    BY <1>1, <1>2, <2>1
<1>4. ASSUME NEW n \in 0..N, n < N, n \in T PROVE n + 1 \in T
  <2>1. /\ n + 1 \in 1..N /\ n + 1 - 1 = n
        /\ g[1..(n + 1)] = Running[<<g[1..n], list[n + 1]>>]
        /\ g[1..n] = {it[n]} /\ g[1..n] \in SUBSET Databases
    BY <1>1, <1>2, <1>4
  <2>2. g[1..(n + 1)] = RunOn({it[n]}, list[n + 1])
    BY <1>2, <2>1 DEF Running
  <2>3. Takes(list[n + 1], it[n + 1 - 1]) /\ it[n + 1] = Run(list[n + 1], it[n + 1 - 1])
    BY <2>1 DEF Leads, N
  <2>4. ~Refused(list[n + 1], it[n]) /\ it[n + 1] = Run(list[n + 1], it[n])
    BY <2>1, <2>3 DEF Takes
  <2>5. RunOn({it[n]}, list[n + 1]) = {it[n + 1]}
    BY <2>4 DEF RunOn
  <2>6. n + 1 \in 0..N
    BY <1>2, <2>1
  <2>7. g[1..(n + 1)] = {it[n + 1]}
    BY <2>2, <2>5
  <2>8. QED
    BY <2>6, <2>7
<1> HIDE DEF T
<1>5. 0..N \subseteq T
  BY <1>2, <1>3, <1>4, IntervalInduction
<1>6. N \in T
  BY <1>2, <1>5
<1>7. QED
  BY <1>0, <1>6 DEF T, N

\* The migrations that wait, run in order, are all accepted and make of the
\* database exactly the tables the structs in models.rs select from, whatever
\* plans were made, in whatever order they were committed and applied.
THEOREM MigrationsReach ==
    ASSUME TablesDiffer, InitDistinct, AlwaysDump
    PROVE  Spec => []MigrationsReachCode
<1>1. ASSUME TypeOK, Consistent, ~Removal(pending)
      PROVE  \E t \in Outcomes(pending) : ShapeOf(t) = ShapeOfCode(code)
  <2>1. pending \in Seq(Migrations) /\ tables \in Databases /\ code \in Shapes
    BY <1>1 DEF TypeOK, Databases
  <2>2. PICK k \in 0..Len(pending) : \E it \in [0..k -> Databases] :
            /\ Leads(it, k, pending, tables)
            /\ IF k < Len(pending) THEN Stops(pending[k + 1]) ELSE Fits(it[k], code)
    BY <1>1 DEF Consistent, LeadsTo
  <2>3. k = Len(pending)
    <3>1. SUFFICES ASSUME k < Len(pending) PROVE FALSE
      BY <2>1
    <3>2. k + 1 \in DOMAIN pending /\ Stops(pending[k + 1])
      BY <2>1, <2>2, <3>1
    <3>3. QED
      BY <1>1, <3>2 DEF Removal, Stops
  <2>4. PICK it \in [0..Len(pending) -> Databases] :
            Leads(it, Len(pending), pending, tables) /\ Fits(it[Len(pending)], code)
    BY <2>1, <2>2, <2>3
  <2> DEFINE t == it[Len(pending)]
  <2>5. t \in Outcomes(pending)
    BY <1>1, <2>1, <2>4, OutcomesLed
  <2>6. ShapeOf(t) = ShapeOfCode(code)
    <3>1. ASSUME NEW u \in Tables
          PROVE  {[c EXCEPT !.fk = None] : c \in t[u]} =
                     {[Column(f) EXCEPT !.fk = None] :
                         f \in UNION {code[m] : m \in {n \in Models : TableOf[n] = u}}}
      <4>1. PICK m \in Models : u = TableOf[m]
        BY DEF Tables
      <4>2. {n \in Models : TableOf[n] = u} = {m}
        BY <4>1 DEF TablesDiffer
      <4>3. UNION {code[x] : x \in {n \in Models : TableOf[n] = u}} = code[m]
        BY <4>2
      <4>4. PlainOf(t[u]) = ColumnsFor(code[m])
        BY <2>4, <4>1 DEF Fits
      <4>5. QED
        BY <4>3, <4>4 DEF PlainOf, ColumnsFor, Plain
    <3>2. QED
      BY <3>1 DEF ShapeOf, ShapeOfCode
  <2>7. QED
    BY <2>5, <2>6
<1>2. TypeOK /\ Consistent => MigrationsReachCode
  BY <1>1 DEF MigrationsReachCode
<1>3. QED
  BY <1>2, Typing, Consistency, PTL

-----------------------------------------------------------------------------
\* The source of an app.

\* The first of some places of a list, or 0.
First(I) == IF I # {} THEN Min(I) ELSE 0

LEMMA FirstIs ==
    ASSUME NEW n \in Nat, NEW I, I \subseteq 1..n
    PROVE  /\ I = {} => First(I) = 0
           /\ I # {} => First(I) \in I /\ \A k \in I : First(I) <= k
<1>1. I \subseteq Nat
  OBVIOUS
<1>2. I # {} => \E m \in I : \A k \in I : m <= k
  BY <1>1, LeastMember
<1>3. QED
  BY <1>2 DEF First, Min

LEMMA FirstFound ==
    ASSUME NEW n \in Nat, NEW I, I \subseteq 1..n, NEW j \in I, \A k \in I : j <= k
    PROVE  First(I) = j
<1>1. First(I) \in I /\ First(I) <= j
  BY FirstIs
<1>2. j <= First(I) /\ j \in 1..n /\ First(I) \in 1..n
  BY <1>1
<1>3. QED
  BY <1>1, <1>2

LEMMA FunctionSeq ==
    ASSUME NEW S, NEW n \in Nat, NEW f \in [1..n -> S]
    PROVE  f \in Seq(S) /\ Len(f) = n /\ DOMAIN f = 1..n
OBVIOUS

LEMMA AtIsFirst ==
    ASSUME NEW s, NEW x
    PROVE  At(s, x) = First({i \in 1..Len(s) : s[i] = x})
BY DEF At, SelectInSeq, First

LEMMA AtIs ==
    ASSUME NEW S, NEW s \in Seq(S), NEW x
    PROVE  /\ At(s, x) = 0 <=> \A i \in DOMAIN s : s[i] # x
           /\ At(s, x) # 0 => At(s, x) \in DOMAIN s /\ s[At(s, x)] = x
<1> DEFINE I == {i \in 1..Len(s) : s[i] = x}
<1>1. Len(s) \in Nat /\ DOMAIN s = 1..Len(s)
  OBVIOUS
<1>2. I \subseteq 1..Len(s)
  OBVIOUS
<1>3. At(s, x) = First(I)
  BY AtIsFirst
<1>4. /\ I = {} => First(I) = 0
      /\ I # {} => First(I) \in I
  BY <1>1, <1>2, FirstIs
<1>5. QED
  BY <1>1, <1>3, <1>4

LEMMA AtFinds ==
    ASSUME NEW S, NEW s \in Seq(S), NEW j \in DOMAIN s, \A k \in DOMAIN s : s[k] = s[j] => k = j
    PROVE  At(s, s[j]) = j
BY AtIs

\* Where the k-th was before the i-th was removed.
Over(k, i) == IF k < i THEN k ELSE k + 1

LEMMA RemoveAtIs ==
    ASSUME NEW S, NEW s \in Seq(S), NEW i \in DOMAIN s
    PROVE  RemoveAt(s, i) = [k \in 1..(Len(s) - 1) |-> s[Over(k, i)]]
<1>1. i \in 1..Len(s) /\ Len(s) \in Nat
  OBVIOUS
<1>2. SubSeq(s, 1, i - 1) = [k \in 1..(i - 1) |-> s[k]]
  BY <1>1
<1>3. SubSeq(s, i + 1, Len(s)) = [k \in 1..(Len(s) - i) |-> s[k + i]]
  BY <1>1
<1>4. SubSeq(s, 1, i - 1) \in Seq(S) /\ SubSeq(s, i + 1, Len(s)) \in Seq(S)
  BY <1>1, SubSeqProperties
<1>5. Len(SubSeq(s, 1, i - 1)) = i - 1 /\ Len(SubSeq(s, i + 1, Len(s))) = Len(s) - i
  BY <1>1, <1>2, <1>3
<1> DEFINE a == SubSeq(s, 1, i - 1)
           b == SubSeq(s, i + 1, Len(s))
<1> HIDE DEF a, b
<1>6. /\ a \in Seq(S) /\ Len(a) = i - 1 /\ a = [k \in 1..(i - 1) |-> s[k]]
      /\ b \in Seq(S) /\ Len(b) = Len(s) - i /\ b = [k \in 1..(Len(s) - i) |-> s[k + i]]
  BY <1>2, <1>3, <1>4, <1>5 DEF a, b
<1>7. a \o b = [k \in 1..(Len(a) + Len(b)) |-> IF k <= Len(a) THEN a[k] ELSE b[k - Len(a)]]
  <2>1. a \in Seq(S) /\ b \in Seq(S)
    BY <1>6
  <2>2. /\ a \o b \in Seq(S) /\ Len(a \o b) = Len(a) + Len(b)
        /\ \A k \in 1..Len(a) + Len(b) :
              (a \o b)[k] = IF k <= Len(a) THEN a[k] ELSE b[k - Len(a)]
    BY <2>1, ConcatProperties, Zenon
  <2>3. a \o b \in [1..(Len(a) + Len(b)) -> S]
    BY <2>2, LenProperties
  <2>4. QED
    BY <2>2, <2>3
<1>8. Len(a) + Len(b) = Len(s) - 1
  BY <1>1, <1>6
<1>9. ASSUME NEW k \in 1..(Len(s) - 1)
      PROVE  (IF k <= Len(a) THEN a[k] ELSE b[k - Len(a)]) = s[Over(k, i)]
  <2>1. CASE k < i
    BY <1>1, <1>6, <2>1 DEF Over
  <2>2. CASE ~(k < i)
    <3>1. k - (i - 1) \in 1..(Len(s) - i) /\ k - (i - 1) + i = k + 1 /\ ~(k <= Len(a))
      BY <1>1, <1>6, <2>2
    <3>2. QED
      BY <1>6, <2>2, <3>1 DEF Over
  <2>3. QED
    BY <2>1, <2>2
<1>10. a \o b = [k \in 1..(Len(s) - 1) |-> s[Over(k, i)]]
  BY <1>7, <1>8, <1>9
<1>11. QED
  BY <1>10 DEF RemoveAt, a, b

LEMMA RemoveFirstIs ==
    ASSUME NEW S, NEW s \in Seq(S), NEW j \in DOMAIN s, \A k \in DOMAIN s : s[k] = s[j] => k = j
    PROVE  RemoveFirst(s, s[j]) = RemoveAt(s, j)
<1>1. \E i \in 1..Len(s) : s[i] = s[j]
  OBVIOUS
<1>2. RemoveFirst(s, s[j]) = RemoveAt(s, At(s, s[j]))
  BY <1>1 DEF RemoveFirst, At
<1>3. QED
  BY <1>2, AtFinds

-----------------------------------------------------------------------------
\* What a model's source says five times, for changes of its fields.

\* Where a field stands in insert_values when the id is the d-th.
Into(j, d) == IF j < d THEN j ELSE j - 1

LEMMA ListTypes ==
    ASSUME NEW fs \in Seq(SourceFields)
    PROVE  /\ Len(NameOf(fs)) = Len(fs) /\ DOMAIN NameOf(fs) = DOMAIN fs
           /\ NameOf(fs) \in Seq(Seq(Words))
           /\ Len(ReadsOf(fs)) = Len(fs) /\ DOMAIN ReadsOf(fs) = DOMAIN fs
           /\ ReadsOf(fs) \in Seq({ReadLine(f) : f \in SourceFields})
           /\ Len(WritesOf(fs)) = Len(fs) /\ DOMAIN WritesOf(fs) = DOMAIN fs
           /\ WritesOf(fs) \in Seq({WriteLine(f) : f \in SourceFields})
<1>1. DOMAIN fs = 1..Len(fs) /\ Len(fs) \in Nat /\ \A k \in 1..Len(fs) : fs[k] \in SourceFields
  OBVIOUS
<1>2. \A f \in SourceFields : f.name \in Seq(Words)
  BY DEF SourceFields
<1>3. NameOf(fs) \in [1..Len(fs) -> Seq(Words)]
  BY <1>1, <1>2 DEF NameOf
<1>4. ReadsOf(fs) \in [1..Len(fs) -> {ReadLine(f) : f \in SourceFields}]
  BY <1>1 DEF ReadsOf
<1>5. WritesOf(fs) \in [1..Len(fs) -> {WriteLine(f) : f \in SourceFields}]
  BY <1>1 DEF WritesOf
<1>6. QED
  BY <1>1, <1>3, <1>4, <1>5, FunctionSeq, Zenon

LEMMA Appending ==
    ASSUME NEW fs \in Seq(SourceFields), NEW f \in SourceFields
    PROVE  /\ NameOf(Append(fs, f)) = Append(NameOf(fs), f.name)
           /\ ReadsOf(Append(fs, f)) = Append(ReadsOf(fs), ReadLine(f))
           /\ WritesOf(Append(fs, f)) = Append(WritesOf(fs), WriteLine(f))
<1>1. DOMAIN fs = 1..Len(fs) /\ Len(fs) \in Nat
  OBVIOUS
<1>2. DOMAIN Append(fs, f) = 1..(Len(fs) + 1)
      /\ \A k \in 1..(Len(fs) + 1) : Append(fs, f)[k] = IF k <= Len(fs) THEN fs[k] ELSE f
  BY <1>1
<1>3. NameOf(Append(fs, f)) = Append(NameOf(fs), f.name)
  BY <1>1, <1>2, ListTypes DEF NameOf
<1>4. ReadsOf(Append(fs, f)) = Append(ReadsOf(fs), ReadLine(f))
  BY <1>1, <1>2, ListTypes DEF ReadsOf
<1>5. WritesOf(Append(fs, f)) = Append(WritesOf(fs), WriteLine(f))
  BY <1>1, <1>2, ListTypes DEF WritesOf
<1>6. QED
  BY <1>3, <1>4, <1>5

LEMMA Removing ==
    ASSUME NEW fs \in Seq(SourceFields), NEW j \in DOMAIN fs
    PROVE  /\ RemoveAt(fs, j) \in Seq(SourceFields) /\ Len(RemoveAt(fs, j)) = Len(fs) - 1
           /\ NameOf(RemoveAt(fs, j)) = RemoveAt(NameOf(fs), j)
           /\ ReadsOf(RemoveAt(fs, j)) = RemoveAt(ReadsOf(fs), j)
           /\ WritesOf(RemoveAt(fs, j)) = RemoveAt(WritesOf(fs), j)
<1>1. DOMAIN fs = 1..Len(fs) /\ Len(fs) \in Nat /\ j \in 1..Len(fs) /\ Len(fs) - 1 \in Nat
  OBVIOUS
<1> DEFINE n == Len(fs) - 1
<1>2. \A k \in 1..n : Over(k, j) \in 1..Len(fs)
  BY <1>1 DEF Over
<1>3. RemoveAt(fs, j) = [k \in 1..n |-> fs[Over(k, j)]]
  BY <1>1, RemoveAtIs
<1>4. RemoveAt(NameOf(fs), j) = [k \in 1..n |-> NameOf(fs)[Over(k, j)]]
  <2>1. /\ NameOf(fs) \in Seq(Seq(Words))
        /\ Len(NameOf(fs)) = Len(fs) /\ j \in DOMAIN NameOf(fs)
    BY <1>1, ListTypes
  <2>2. RemoveAt(NameOf(fs), j) = [k \in 1..(Len(NameOf(fs)) - 1) |-> NameOf(fs)[Over(k, j)]]
    BY <2>1, RemoveAtIs, Zenon
  <2>3. QED
    BY <2>1, <2>2, Zenon
<1>5. RemoveAt(ReadsOf(fs), j) = [k \in 1..n |-> ReadsOf(fs)[Over(k, j)]]
  <2>1. /\ ReadsOf(fs) \in Seq({ReadLine(f) : f \in SourceFields})
        /\ Len(ReadsOf(fs)) = Len(fs) /\ j \in DOMAIN ReadsOf(fs)
    BY <1>1, ListTypes
  <2>2. RemoveAt(ReadsOf(fs), j) = [k \in 1..(Len(ReadsOf(fs)) - 1) |-> ReadsOf(fs)[Over(k, j)]]
    BY <2>1, RemoveAtIs, Zenon
  <2>3. QED
    BY <2>1, <2>2, Zenon
<1>6. RemoveAt(WritesOf(fs), j) = [k \in 1..n |-> WritesOf(fs)[Over(k, j)]]
  <2>1. /\ WritesOf(fs) \in Seq({WriteLine(f) : f \in SourceFields})
        /\ Len(WritesOf(fs)) = Len(fs) /\ j \in DOMAIN WritesOf(fs)
    BY <1>1, ListTypes
  <2>2. RemoveAt(WritesOf(fs), j) = [k \in 1..(Len(WritesOf(fs)) - 1) |-> WritesOf(fs)[Over(k, j)]]
    BY <2>1, RemoveAtIs, Zenon
  <2>3. QED
    BY <2>1, <2>2, Zenon
<1>7. RemoveAt(fs, j) \in [1..n -> SourceFields]
  BY <1>1, <1>2, <1>3
<1>8. NameOf(RemoveAt(fs, j)) = RemoveAt(NameOf(fs), j)
  BY <1>1, <1>2, <1>3, <1>4 DEF NameOf
<1>9. ReadsOf(RemoveAt(fs, j)) = RemoveAt(ReadsOf(fs), j)
  BY <1>1, <1>2, <1>3, <1>5 DEF ReadsOf
<1>10. WritesOf(RemoveAt(fs, j)) = RemoveAt(WritesOf(fs), j)
  BY <1>1, <1>2, <1>3, <1>6 DEF WritesOf
<1>11. RemoveAt(fs, j) \in Seq(SourceFields) /\ Len(RemoveAt(fs, j)) = n
  BY <1>1, <1>7, FunctionSeq, Zenon
<1>12. QED
  BY <1>8, <1>9, <1>10, <1>11

\* The id is the d-th field, and no other field has its name.
IdAt(fs, d) ==
    /\ fs \in Seq(SourceFields) /\ d \in DOMAIN fs
    /\ \A k \in DOMAIN fs : fs[k].name = IdField.name <=> k = d

LEMMA SentIs ==
    ASSUME NEW fs, NEW d, IdAt(fs, d)
    PROVE  Sent(fs) = RemoveAt(fs, d)
<1> DEFINE I == {i \in 1..Len(fs) : fs[i].name = IdField.name}
<1>1. Len(fs) \in Nat /\ I \subseteq 1..Len(fs) /\ d \in I /\ I = {d} /\ \A k \in I : d <= k
  BY DEF IdAt
<1> HIDE DEF I
<1>2. First(I) = d
  BY <1>1, FirstFound, Zenon
<1> USE DEF I
<1>3. Sent(fs) = IF I # {} THEN RemoveAt(fs, First(I)) ELSE fs
  BY DEF Sent, RemoveFirstMatch, SelectInSeq, First
<1>4. QED
  BY <1>1, <1>2, <1>3

\* What insert_values has, in its order.
LEMMA SentHas ==
    ASSUME NEW fs, NEW d, IdAt(fs, d)
    PROVE  /\ Sent(fs) \in Seq(SourceFields) /\ Len(Sent(fs)) = Len(fs) - 1
           /\ DOMAIN Sent(fs) = 1..(Len(fs) - 1)
           /\ Sent(fs) = [k \in 1..(Len(fs) - 1) |-> fs[Over(k, d)]]
           /\ \A k \in 1..(Len(fs) - 1) :
                /\ Over(k, d) \in DOMAIN fs /\ Over(k, d) # d /\ Into(Over(k, d), d) = k
                /\ Sent(fs)[k] = fs[Over(k, d)]
           /\ \A j \in DOMAIN fs : j # d =>
                Into(j, d) \in 1..(Len(fs) - 1) /\ Over(Into(j, d), d) = j
<1>1. fs \in Seq(SourceFields) /\ d \in 1..Len(fs) /\ Len(fs) \in Nat /\ DOMAIN fs = 1..Len(fs)
  BY DEF IdAt
<1>2. Sent(fs) = RemoveAt(fs, d)
  BY SentIs
<1>3. Sent(fs) = [k \in 1..(Len(fs) - 1) |-> fs[Over(k, d)]]
  BY <1>1, <1>2, RemoveAtIs
<1>4. Sent(fs) \in Seq(SourceFields) /\ Len(Sent(fs)) = Len(fs) - 1
  BY <1>1, <1>2, Removing
<1>5. QED
  BY <1>1, <1>3, <1>4 DEF Over, Into

LEMMA SentAppend ==
    ASSUME NEW fs, NEW d, IdAt(fs, d), NEW f \in SourceFields, f.name # IdField.name
    PROVE  IdAt(Append(fs, f), d) /\ Sent(Append(fs, f)) = Append(Sent(fs), f)
<1>1. fs \in Seq(SourceFields) /\ d \in 1..Len(fs) /\ Len(fs) \in Nat /\ DOMAIN fs = 1..Len(fs)
  BY DEF IdAt
<1> DEFINE gs == Append(fs, f)
<1>2. /\ gs \in Seq(SourceFields) /\ Len(gs) = Len(fs) + 1 /\ DOMAIN gs = 1..(Len(fs) + 1)
      /\ \A k \in 1..(Len(fs) + 1) : gs[k] = IF k <= Len(fs) THEN fs[k] ELSE f
  BY <1>1
<1> HIDE DEF gs
<1>3. IdAt(gs, d)
  BY <1>1, <1>2 DEF IdAt
<1>4. Sent(gs) = [k \in 1..Len(fs) |-> gs[Over(k, d)]]
  BY <1>1, <1>2, <1>3, SentHas
<1>5. Sent(fs) \in Seq(SourceFields) /\ Len(Sent(fs)) = Len(fs) - 1
      /\ Sent(fs) = [k \in 1..(Len(fs) - 1) |-> fs[Over(k, d)]]
  BY SentHas
<1>6. Append(Sent(fs), f)
        = [k \in 1..Len(fs) |-> IF k <= Len(fs) - 1 THEN Sent(fs)[k] ELSE f]
  BY <1>1, <1>5
<1>7. ASSUME NEW k \in 1..Len(fs)
      PROVE  gs[Over(k, d)] = IF k <= Len(fs) - 1 THEN Sent(fs)[k] ELSE f
  BY <1>1, <1>2, <1>5 DEF Over
<1>8. Sent(gs) = Append(Sent(fs), f)
  BY <1>4, <1>6, <1>7
<1>9. QED
  BY <1>3, <1>8 DEF gs

LEMMA SentRemove ==
    ASSUME NEW fs, NEW d, IdAt(fs, d), NEW j \in DOMAIN fs, j # d
    PROVE  /\ IdAt(RemoveAt(fs, j), Into(d, j))
           /\ Sent(RemoveAt(fs, j)) = RemoveAt(Sent(fs), Into(j, d))
<1>1. /\ fs \in Seq(SourceFields) /\ d \in 1..Len(fs) /\ Len(fs) \in Nat /\ DOMAIN fs = 1..Len(fs)
      /\ j \in 1..Len(fs) /\ Len(fs) - 1 \in Nat /\ Len(fs) - 1 - 1 \in Nat
      /\ \A k \in 1..Len(fs) : fs[k].name = IdField.name <=> k = d
  BY DEF IdAt
<1> DEFINE gs == RemoveAt(fs, j)
<1>2. /\ gs \in Seq(SourceFields) /\ Len(gs) = Len(fs) - 1
      /\ gs = [k \in 1..(Len(fs) - 1) |-> fs[Over(k, j)]]
  BY <1>1, Removing, RemoveAtIs
<1> HIDE DEF gs
<1>3. DOMAIN gs = 1..(Len(fs) - 1) /\ Into(d, j) \in 1..(Len(fs) - 1)
      /\ \A k \in 1..(Len(fs) - 1) :
            Over(k, j) \in 1..Len(fs) /\ (Over(k, j) = d <=> k = Into(d, j))
  BY <1>1, <1>2 DEF Over, Into
<1>4. IdAt(gs, Into(d, j))
  BY <1>1, <1>2, <1>3 DEF IdAt
<1>5. Sent(gs) = [k \in 1..(Len(fs) - 1 - 1) |-> gs[Over(k, Into(d, j))]]
  <2>1. Sent(gs) = [k \in 1..(Len(gs) - 1) |-> gs[Over(k, Into(d, j))]]
    BY <1>4, SentHas
  <2>2. QED
    BY <1>2, <2>1, Zenon
<1>6. /\ Sent(fs) \in Seq(SourceFields) /\ Len(Sent(fs)) = Len(fs) - 1
      /\ Sent(fs) = [k \in 1..(Len(fs) - 1) |-> fs[Over(k, d)]]
      /\ Into(j, d) \in DOMAIN Sent(fs)
  <2>1. j \in DOMAIN fs
    BY <1>1
  <2>2. QED
    BY <2>1, SentHas
<1>7. RemoveAt(Sent(fs), Into(j, d))
        = [k \in 1..(Len(fs) - 1 - 1) |-> Sent(fs)[Over(k, Into(j, d))]]
  <2>1. RemoveAt(Sent(fs), Into(j, d))
          = [k \in 1..(Len(Sent(fs)) - 1) |-> Sent(fs)[Over(k, Into(j, d))]]
    <3> DEFINE s == Sent(fs)
               e == Into(j, d)
    <3>1. s \in Seq(SourceFields) /\ e \in DOMAIN s
      BY <1>6
    <3> HIDE DEF s, e
    <3>2. RemoveAt(s, e) = [k \in 1..(Len(s) - 1) |-> s[Over(k, e)]]
      BY <3>1, RemoveAtIs
    <3>3. QED
      BY <3>2 DEF s, e
  <2>2. QED
    BY <1>6, <2>1, Zenon
<1>8. ASSUME NEW k \in 1..(Len(fs) - 1 - 1)
      PROVE  gs[Over(k, Into(d, j))] = Sent(fs)[Over(k, Into(j, d))]
  <2>1. /\ Over(k, Into(d, j)) \in 1..(Len(fs) - 1) /\ Over(k, Into(j, d)) \in 1..(Len(fs) - 1)
        /\ Over(Over(k, Into(d, j)), j) = Over(Over(k, Into(j, d)), d)
    BY <1>1 DEF Over, Into
  <2>2. QED
    BY <1>2, <1>6, <2>1
<1>9. Sent(gs) = RemoveAt(Sent(fs), Into(j, d))
  BY <1>5, <1>7, <1>8
<1>10. QED
  BY <1>4, <1>9 DEF gs

\* A list with another j-th.
With(s, j, x) == [s EXCEPT ![j] = x]

LEMMA SentReplace ==
    ASSUME NEW fs, NEW d, IdAt(fs, d), NEW j \in DOMAIN fs, NEW g \in SourceFields,
           g.name = IdField.name <=> j = d
    PROVE  /\ IdAt(With(fs, j, g), d)
           /\ Sent(With(fs, j, g)) = IF j = d THEN Sent(fs) ELSE With(Sent(fs), Into(j, d), g)
<1>1. /\ fs \in Seq(SourceFields) /\ d \in 1..Len(fs) /\ Len(fs) \in Nat /\ DOMAIN fs = 1..Len(fs)
      /\ j \in 1..Len(fs)
      /\ \A k \in 1..Len(fs) : fs[k].name = IdField.name <=> k = d
  BY DEF IdAt
<1> DEFINE gs == With(fs, j, g)
<1>2. /\ gs \in Seq(SourceFields) /\ Len(gs) = Len(fs) /\ DOMAIN gs = 1..Len(fs)
      /\ \A k \in 1..Len(fs) : gs[k] = IF k = j THEN g ELSE fs[k]
  BY <1>1, ExceptSeq DEF With
<1> HIDE DEF gs
<1>3. IdAt(gs, d)
  BY <1>1, <1>2 DEF IdAt
<1>4. Sent(gs) = [k \in 1..(Len(fs) - 1) |-> gs[Over(k, d)]]
  BY <1>2, <1>3, SentHas
<1>5. /\ Sent(fs) = [k \in 1..(Len(fs) - 1) |-> fs[Over(k, d)]]
      /\ \A k \in 1..(Len(fs) - 1) :
            Over(k, d) \in 1..Len(fs) /\ Over(k, d) # d /\ Into(Over(k, d), d) = k
      /\ j # d => Over(Into(j, d), d) = j
  <2>1. /\ Sent(fs) = [k \in 1..(Len(fs) - 1) |-> fs[Over(k, d)]]
        /\ \A k \in 1..(Len(fs) - 1) :
              Over(k, d) \in DOMAIN fs /\ Over(k, d) # d /\ Into(Over(k, d), d) = k
    BY SentHas
  <2>2. j # d => Over(Into(j, d), d) = j
    BY SentHas
  <2>3. QED
    BY <1>1, <2>1, <2>2
<1>6. CASE j = d
  BY <1>2, <1>3, <1>4, <1>5, <1>6 DEF gs
<1>7. CASE j # d
  <2>1. \A k \in 1..(Len(fs) - 1) : Over(k, d) = j <=> k = Into(j, d)
    BY <1>5, <1>7
  <2>2. With(Sent(fs), Into(j, d), g)
          = [k \in 1..(Len(fs) - 1) |-> IF k = Into(j, d) THEN g ELSE fs[Over(k, d)]]
    BY <1>5 DEF With
  <2>3. Sent(gs) = [k \in 1..(Len(fs) - 1) |-> IF k = Into(j, d) THEN g ELSE fs[Over(k, d)]]
    BY <1>2, <1>4, <1>5, <2>1
  <2>4. QED
    BY <1>3, <1>7, <2>2, <2>3 DEF gs
<1>8. QED
  BY <1>6, <1>7

-----------------------------------------------------------------------------
\* What becomes of a model's source when the model changes.

LEMMA HasId ==
    ASSUME NEW m \in SourceModels, Declared(m)
    PROVE  \E d \in DOMAIN m.fields : IdAt(m.fields, d)
<1>1. m.fields \in Seq(SourceFields)
  BY DEF SourceModels
<1>2. PICK d \in DOMAIN m.fields : m.fields[d].name = IdField.name
  BY DEF Declared
<1>3. IdAt(m.fields, d)
  BY <1>1, <1>2 DEF Declared, IdAt
<1>4. QED
  BY <1>3

\* The parts of a model's source.
LEMMA SourceParts ==
    ASSUME NEW m
    PROVE  /\ Source(m).struct = m.name /\ Source(m).impl = m.name /\ Source(m).table = m.name
           /\ Source(m).fields = m.fields
           /\ Source(m).columns = NameOf(m.fields) /\ Source(m).inserted = NameOf(Sent(m.fields))
           /\ Source(m).reads = ReadsOf(m.fields) /\ Source(m).writes = WritesOf(Sent(m.fields))
BY DEF Source

LEMMA SourcesOfChanged ==
    ASSUME NEW models \in Seq(SourceModels), NEW i \in DOMAIN models, NEW m
    PROVE  SourcesOf([models EXCEPT ![i] = m]) = [SourcesOf(models) EXCEPT ![i] = Source(m)]
BY DEF SourcesOf

LEMMA SourcesHas ==
    ASSUME NEW models \in Seq(SourceModels)
    PROVE  /\ DOMAIN SourcesOf(models) = DOMAIN models /\ Len(SourcesOf(models)) = Len(models)
           /\ \A i \in DOMAIN models : SourcesOf(models)[i] = Source(models[i])
<1>1. DOMAIN SourcesOf(models) = 1..Len(models) /\ Len(models) \in Nat
  BY DEF SourcesOf
<1>2. SourcesOf(models) \in [1..Len(models) -> {Source(models[i]) : i \in DOMAIN models}]
  BY <1>1 DEF SourcesOf
<1>3. Len(SourcesOf(models)) = Len(models)
  BY <1>1, <1>2, FunctionSeq
<1>4. QED
  BY <1>1, <1>3 DEF SourcesOf

LEMMA BlockIs ==
    ASSUME NEW b, NEW s, NEW i, NEW t, NEW f, NEW c, NEW n, NEW r, NEW w,
           b \in [struct : {s}, impl : {i}, table : {t}, fields : {f}, columns : {c},
                  inserted : {n}, reads : {r}, writes : {w}]
    PROVE  b = [struct |-> s, impl |-> i, table |-> t, fields |-> f, columns |-> c,
                inserted |-> n, reads |-> r, writes |-> w]
OBVIOUS

\* Fields patched in all their places are the source of a model that has them.
LEMMA SourceBecomes ==
    ASSUME NEW m, NEW g, g.name = m.name
    PROVE  [Source(m) EXCEPT !.fields = g.fields, !.columns = NameOf(g.fields),
                             !.inserted = NameOf(Sent(g.fields)), !.reads = ReadsOf(g.fields),
                             !.writes = WritesOf(Sent(g.fields))] = Source(g)
<1> DEFINE b == Source(m)
           f == g.fields
           c == NameOf(f)
           n == NameOf(Sent(f))
           r == ReadsOf(f)
           w == WritesOf(Sent(f))
<1>1. b = [struct |-> m.name, impl |-> m.name, table |-> m.name,
           fields |-> m.fields, columns |-> NameOf(m.fields),
           inserted |-> NameOf(Sent(m.fields)),
           reads |-> ReadsOf(m.fields), writes |-> WritesOf(Sent(m.fields))]
  BY Zenon DEF Source
<1> HIDE DEF b, f, c, n, r, w
<1> DEFINE e == [b EXCEPT !.fields = f, !.columns = c, !.inserted = n, !.reads = r,
                          !.writes = w]
<1>2. e \in [struct : {m.name}, impl : {m.name}, table : {m.name}, fields : {f}, columns : {c},
             inserted : {n}, reads : {r}, writes : {w}]
  BY <1>1
<1> HIDE DEF e
<1>3. e = [struct |-> m.name, impl |-> m.name, table |-> m.name, fields |-> f, columns |-> c,
           inserted |-> n, reads |-> r, writes |-> w]
  BY <1>2, BlockIs, Zenon
<1>4. Source(g) = [struct |-> m.name, impl |-> m.name, table |-> m.name, fields |-> f,
                   columns |-> c, inserted |-> n, reads |-> r, writes |-> w]
  BY Zenon DEF Source, f, c, n, r, w
<1>5. QED
  BY <1>3, <1>4 DEF b, e, f, c, n, r, w

LEMMA SourcesBecome ==
    ASSUME NEW models \in Seq(SourceModels), NEW i \in DOMAIN models,
           NEW g, g.name = models[i].name
    PROVE  [SourcesOf(models) EXCEPT
                ![i].fields = g.fields, ![i].columns = NameOf(g.fields),
                ![i].inserted = NameOf(Sent(g.fields)), ![i].reads = ReadsOf(g.fields),
                ![i].writes = WritesOf(Sent(g.fields))]
               = SourcesOf([models EXCEPT ![i] = g])
<1> DEFINE src == SourcesOf(models)
           f == g.fields
           c == NameOf(f)
           n == NameOf(Sent(f))
           r == ReadsOf(f)
           w == WritesOf(Sent(f))
<1>1. i \in DOMAIN src /\ src[i] = Source(models[i])
  BY SourcesHas
<1> HIDE DEF src, f, c, n, r, w
<1> DEFINE a == [src EXCEPT ![i].fields = f, ![i].columns = c, ![i].inserted = n,
                            ![i].reads = r, ![i].writes = w]
           b == [src[i] EXCEPT !.fields = f, !.columns = c, !.inserted = n, !.reads = r,
                               !.writes = w]
<1>2. a = [x \in DOMAIN src |-> a[x]] /\ a[i] = b /\ \A x \in DOMAIN src : x # i => a[x] = src[x]
  BY <1>1
<1>3. b = Source(g)
  <2>1. b = [Source(models[i]) EXCEPT !.fields = g.fields, !.columns = NameOf(g.fields),
                             !.inserted = NameOf(Sent(g.fields)), !.reads = ReadsOf(g.fields),
                             !.writes = WritesOf(Sent(g.fields))]
    BY <1>1, Zenon DEF f, c, n, r, w
  <2> DEFINE m == models[i]
  <2>2. g.name = m.name
    OBVIOUS
  <2>3. b = [Source(m) EXCEPT !.fields = g.fields, !.columns = NameOf(g.fields),
                             !.inserted = NameOf(Sent(g.fields)), !.reads = ReadsOf(g.fields),
                             !.writes = WritesOf(Sent(g.fields))]
    BY <2>1
  <2> HIDE DEF b, m
  <2>4. QED
    BY <2>2, <2>3, SourceBecomes
<1> HIDE DEF a, b
<1>4. a = [src EXCEPT ![i] = Source(g)]
  BY <1>1, <1>2, <1>3
<1>5. QED
  BY <1>4, SourcesOfChanged DEF a, src, f, c, n, r, w

-----------------------------------------------------------------------------
\* The patchers find their place.

\* No two structs have one name, and the source says what is meant.
LEMMA StructFound ==
    ASSUME NEW models, WellFormed(models), NEW i \in DOMAIN models, NEW name, name = models[i].name
    PROVE  LET k == StructAt(SourcesOf(models), name) IN
           k # 0 => k = i /\ ImplAt(SourcesOf(models), name) = i
<1> DEFINE src == SourcesOf(models)
           I == {k \in 1..Len(src) : IsPrefix(name, src[k].struct)}
           J == {k \in 1..Len(src) : IsPrefix(name, src[k].impl)}
<1>1. /\ models \in Seq(SourceModels) /\ DOMAIN src = 1..Len(src) /\ DOMAIN src = DOMAIN models
      /\ Len(src) \in Nat
      /\ \A k \in 1..Len(src) : src[k].struct = models[k].name /\ src[k].impl = models[k].name
  BY SourcesHas, SourceParts DEF WellFormed
<1>2. I = J
  BY <1>1
<1>3. StructAt(src, name) = IF First(I) # 0 /\ src[First(I)].struct = name THEN First(I) ELSE 0
  BY DEF StructAt, SelectInSeq, First
<1>4. ImplAt(src, name) = First(J)
  BY DEF ImplAt, SelectInSeq, First
<1>5. I \subseteq 1..Len(src)
  OBVIOUS
<1>6. First(I) # 0 => First(I) \in I
  BY <1>1, <1>5, FirstIs
<1> HIDE DEF src, I, J
<1>7. ASSUME StructAt(src, name) # 0 PROVE StructAt(src, name) = i /\ ImplAt(src, name) = i
  <2>1. First(I) # 0 /\ src[First(I)].struct = name /\ StructAt(src, name) = First(I)
    BY <1>3, <1>7
  <2>2. First(I) \in DOMAIN models /\ models[First(I)].name = name
    BY <1>1, <1>5, <1>6, <2>1
  <2>3. First(I) = i
    BY <2>2 DEF WellFormed
  <2>4. QED
    BY <1>2, <1>4, <2>1, <2>3
<1>8. QED
  BY <1>7 DEF src

LEMMA AddedTo ==
    ASSUME NEW models, WellFormed(models), NEW i \in DOMAIN models, NEW f \in SourceFields,
           \A k \in DOMAIN models[i].fields : models[i].fields[k].name # f.name,
           AddTo(SourcesOf(models), models[i].name, f) # Unpatched
    PROVE  AddTo(SourcesOf(models), models[i].name, f)
               = SourcesOf([models EXCEPT ![i].fields = Append(@, f)])
<1> DEFINE src == SourcesOf(models)
           m == models[i]
           fs == m.fields
           g == [m EXCEPT !.fields = Append(@, f)]
<1>1. /\ models \in Seq(SourceModels) /\ m \in SourceModels /\ Declared(m)
      /\ DOMAIN src = 1..Len(src) /\ DOMAIN src = DOMAIN models /\ Len(src) \in Nat
      /\ src[i] = Source(m)
  BY SourcesHas DEF WellFormed
<1> HIDE DEF src
<1>2. ~(Len(src) > 1)
  BY DEF AddTo, src
<1>3. i = 1
  BY <1>1, <1>2
<1>4. AddTo(src, m.name, f)
        = [src EXCEPT ![1].fields = Append(@, f),
                      ![1].columns = Append(@, f.name), ![1].inserted = Append(@, f.name),
                      ![1].reads = Append(@, ReadLine(f)), ![1].writes = Append(@, WriteLine(f))]
  BY Zenon DEF AddTo, src
<1>5. PICK d \in DOMAIN fs : IdAt(fs, d)
  BY <1>1, HasId
<1>6. fs \in Seq(SourceFields) /\ Sent(fs) \in Seq(SourceFields) /\ f.name # IdField.name
  BY <1>5, SentHas DEF IdAt
<1>7. g.fields = Append(fs, f) /\ g.name = m.name
  BY <1>1 DEF SourceModels
<1>8. Sent(Append(fs, f)) = Append(Sent(fs), f)
  BY <1>5, <1>6, SentAppend
<1>9. /\ src[i].fields = fs /\ src[i].columns = NameOf(fs)
      /\ src[i].inserted = NameOf(Sent(fs)) /\ src[i].reads = ReadsOf(fs)
      /\ src[i].writes = WritesOf(Sent(fs))
  BY <1>1, SourceParts
<1>10. /\ NameOf(g.fields) = Append(src[i].columns, f.name)
       /\ ReadsOf(g.fields) = Append(src[i].reads, ReadLine(f))
       /\ NameOf(Sent(g.fields)) = Append(src[i].inserted, f.name)
       /\ WritesOf(Sent(g.fields)) = Append(src[i].writes, WriteLine(f))
  <2>1. /\ NameOf(Append(fs, f)) = Append(NameOf(fs), f.name)
        /\ ReadsOf(Append(fs, f)) = Append(ReadsOf(fs), ReadLine(f))
    BY <1>6, Appending
  <2>2. /\ NameOf(Append(Sent(fs), f)) = Append(NameOf(Sent(fs)), f.name)
        /\ WritesOf(Append(Sent(fs), f)) = Append(WritesOf(Sent(fs)), WriteLine(f))
    BY <1>6, Appending
  <2>3. QED
    BY <1>7, <1>8, <1>9, <2>1, <2>2, Zenon
<1>11. [src EXCEPT ![i].fields = Append(@, f),
                   ![i].columns = Append(@, f.name), ![i].inserted = Append(@, f.name),
                   ![i].reads = Append(@, ReadLine(f)), ![i].writes = Append(@, WriteLine(f))]
         = [src EXCEPT ![i].fields = Append(src[i].fields, f),
                   ![i].columns = Append(src[i].columns, f.name),
                   ![i].inserted = Append(src[i].inserted, f.name),
                   ![i].reads = Append(src[i].reads, ReadLine(f)),
                   ![i].writes = Append(src[i].writes, WriteLine(f))]
  BY <1>1
<1>12. [models EXCEPT ![i] = g] = [models EXCEPT ![i].fields = Append(@, f)]
  BY <1>1
<1> HIDE DEF g
<1>13. SourcesOf([models EXCEPT ![i] = g])
         = [src EXCEPT ![i].fields = g.fields, ![i].columns = NameOf(g.fields),
                       ![i].inserted = NameOf(Sent(g.fields)), ![i].reads = ReadsOf(g.fields),
                       ![i].writes = WritesOf(Sent(g.fields))]
  BY <1>1, <1>7, SourcesBecome DEF src
<1>14. SourcesOf([models EXCEPT ![i] = g]) = AddTo(src, m.name, f)
  BY <1>3, <1>4, <1>7, <1>9, <1>10, <1>11, <1>13
<1>15. QED
  BY <1>12, <1>14 DEF src

NamesDiffer(fs) == \A j, k \in DOMAIN fs : fs[j].name = fs[k].name => j = k

LEMMA SentDiffer ==
    ASSUME NEW fs, NEW d, IdAt(fs, d), NamesDiffer(fs)
    PROVE  NamesDiffer(Sent(fs))
<1>1. /\ DOMAIN Sent(fs) = 1..(Len(fs) - 1)
      /\ \A k \in 1..(Len(fs) - 1) : /\ Over(k, d) \in DOMAIN fs /\ Into(Over(k, d), d) = k
                                    /\ Sent(fs)[k] = fs[Over(k, d)]
  BY SentHas
<1>2. QED
  BY <1>1 DEF NamesDiffer

LEMMA LinesRemoved ==
    ASSUME NEW fs \in Seq(SourceFields), NamesDiffer(fs), NEW j \in DOMAIN fs
    PROVE  /\ RemoveFirst(fs, fs[j]) = RemoveAt(fs, j)
           /\ RemoveFirst(NameOf(fs), fs[j].name) = NameOf(RemoveAt(fs, j))
           /\ RemoveFirst(ReadsOf(fs), ReadLine(fs[j])) = ReadsOf(RemoveAt(fs, j))
           /\ RemoveFirst(WritesOf(fs), WriteLine(fs[j])) = WritesOf(RemoveAt(fs, j))
<1>1. RemoveFirst(fs, fs[j]) = RemoveAt(fs, j)
  BY RemoveFirstIs DEF NamesDiffer
<1>2. RemoveFirst(NameOf(fs), fs[j].name) = NameOf(RemoveAt(fs, j))
  <2>1. /\ NameOf(fs) \in Seq(Seq(Words)) /\ j \in DOMAIN NameOf(fs) /\ NameOf(fs)[j] = fs[j].name
        /\ \A k \in DOMAIN NameOf(fs) : NameOf(fs)[k] = NameOf(fs)[j] => k = j
    BY ListTypes DEF NameOf, NamesDiffer
  <2>2. RemoveFirst(NameOf(fs), NameOf(fs)[j]) = RemoveAt(NameOf(fs), j)
    BY <2>1, RemoveFirstIs
  <2>3. QED
    BY <2>1, <2>2, Removing
<1>3. RemoveFirst(ReadsOf(fs), ReadLine(fs[j])) = ReadsOf(RemoveAt(fs, j))
  <2>1. /\ j \in DOMAIN ReadsOf(fs) /\ ReadsOf(fs)[j] = ReadLine(fs[j])
        /\ \A k \in DOMAIN ReadsOf(fs) : ReadsOf(fs)[k] = ReadsOf(fs)[j] => k = j
    BY ListTypes DEF ReadsOf, ReadLine, NamesDiffer
  <2>2. RemoveFirst(ReadsOf(fs), ReadsOf(fs)[j]) = RemoveAt(ReadsOf(fs), j)
    BY <2>1, ListTypes, RemoveFirstIs
  <2>3. QED
    BY <2>1, <2>2, Removing
<1>4. RemoveFirst(WritesOf(fs), WriteLine(fs[j])) = WritesOf(RemoveAt(fs, j))
  <2>1. /\ j \in DOMAIN WritesOf(fs) /\ WritesOf(fs)[j] = WriteLine(fs[j])
        /\ \A k \in DOMAIN WritesOf(fs) : WritesOf(fs)[k] = WritesOf(fs)[j] => k = j
    BY ListTypes DEF WritesOf, WriteLine, NamesDiffer
  <2>2. RemoveFirst(WritesOf(fs), WritesOf(fs)[j]) = RemoveAt(WritesOf(fs), j)
    BY <2>1, ListTypes, RemoveFirstIs
  <2>3. QED
    BY <2>1, <2>2, Removing
<1>5. QED
  BY <1>1, <1>2, <1>3, <1>4

LEMMA RemovedFrom ==
    ASSUME NEW models, WellFormed(models), NEW i \in DOMAIN models,
           NEW j \in DOMAIN models[i].fields, models[i].fields[j].name # IdField.name,
           RemoveFrom(SourcesOf(models), models[i].name, models[i].fields[j]) # Unpatched
    PROVE  /\ RemoveFrom(SourcesOf(models), models[i].name, models[i].fields[j])
                = SourcesOf([models EXCEPT ![i].fields = RemoveFirst(@, models[i].fields[j])])
           /\ RemoveFirst(models[i].fields, models[i].fields[j]) = RemoveAt(models[i].fields, j)
<1> DEFINE src == SourcesOf(models)
           m == models[i]
           fs == m.fields
           f == fs[j]
           g == [m EXCEPT !.fields = RemoveFirst(@, f)]
<1>1. /\ models \in Seq(SourceModels) /\ m \in SourceModels /\ Declared(m)
      /\ DOMAIN src = 1..Len(src) /\ DOMAIN src = DOMAIN models /\ Len(src) \in Nat
      /\ src[i] = Source(m)
  BY SourcesHas DEF WellFormed
<1>2. StructAt(src, m.name) # 0
  BY DEF RemoveFrom
<1>3. StructAt(src, m.name) = i /\ ImplAt(src, m.name) = i
  BY <1>2, StructFound
<1>4. PICK d \in DOMAIN fs : IdAt(fs, d)
  BY <1>1, HasId
<1>5. /\ fs \in Seq(SourceFields) /\ Sent(fs) \in Seq(SourceFields)
      /\ NamesDiffer(fs) /\ NamesDiffer(Sent(fs)) /\ j # d /\ g.name = m.name
  <2>1. fs \in Seq(SourceFields) /\ NamesDiffer(fs) /\ j # d
    BY <1>1, <1>4 DEF IdAt, Declared, NamesDiffer
  <2>2. Sent(fs) \in Seq(SourceFields) /\ NamesDiffer(Sent(fs))
    BY <1>4, <2>1, SentHas, SentDiffer
  <2>3. g.name = m.name
    BY <1>1 DEF SourceModels
  <2>4. QED
    BY <2>1, <2>2, <2>3
<1>6. g.fields = RemoveAt(fs, j) /\ RemoveFirst(fs, f) = RemoveAt(fs, j)
  BY <1>1, <1>5, LinesRemoved DEF SourceModels
<1>7. /\ Into(j, d) \in DOMAIN Sent(fs) /\ Sent(fs)[Into(j, d)] = f
  BY <1>4, <1>5, SentHas
<1>8. Sent(RemoveAt(fs, j)) = RemoveAt(Sent(fs), Into(j, d))
  BY <1>4, <1>5, SentRemove
<1>9. /\ src[i].fields = fs /\ src[i].columns = NameOf(fs)
      /\ src[i].inserted = NameOf(Sent(fs)) /\ src[i].reads = ReadsOf(fs)
      /\ src[i].writes = WritesOf(Sent(fs))
  BY <1>1, SourceParts
<1> HIDE DEF src, g, f
<1>10. /\ g.fields = RemoveFirst(src[i].fields, f)
       /\ NameOf(g.fields) = RemoveFirst(src[i].columns, f.name)
       /\ ReadsOf(g.fields) = RemoveFirst(src[i].reads, ReadLine(f))
  BY <1>5, <1>6, <1>9, LinesRemoved DEF f
<1>11. /\ NameOf(Sent(g.fields)) = RemoveFirst(src[i].inserted, f.name)
       /\ WritesOf(Sent(g.fields)) = RemoveFirst(src[i].writes, WriteLine(f))
  <2> DEFINE ss == Sent(fs)
             p == Into(j, d)
  <2> HIDE DEF ss, p
  <2>1. /\ RemoveFirst(NameOf(ss), ss[p].name) = NameOf(RemoveAt(ss, p))
        /\ RemoveFirst(WritesOf(ss), WriteLine(ss[p])) = WritesOf(RemoveAt(ss, p))
    BY <1>5, <1>7, LinesRemoved DEF ss, p
  <2>2. QED
    BY <1>6, <1>7, <1>8, <1>9, <2>1 DEF ss, p
<1>12. RemoveFrom(src, m.name, f)
         = [src EXCEPT ![i].fields = RemoveFirst(@, f), ![i].columns = RemoveFirst(@, f.name),
                       ![i].inserted = RemoveFirst(@, f.name),
                       ![i].reads = RemoveFirst(@, ReadLine(f)),
                       ![i].writes = RemoveFirst(@, WriteLine(f))]
  BY <1>3, Zenon DEF RemoveFrom, src, f
<1>13. [src EXCEPT ![i].fields = RemoveFirst(@, f), ![i].columns = RemoveFirst(@, f.name),
                   ![i].inserted = RemoveFirst(@, f.name),
                   ![i].reads = RemoveFirst(@, ReadLine(f)),
                   ![i].writes = RemoveFirst(@, WriteLine(f))]
         = [src EXCEPT ![i].fields = RemoveFirst(src[i].fields, f),
                       ![i].columns = RemoveFirst(src[i].columns, f.name),
                       ![i].inserted = RemoveFirst(src[i].inserted, f.name),
                       ![i].reads = RemoveFirst(src[i].reads, ReadLine(f)),
                       ![i].writes = RemoveFirst(src[i].writes, WriteLine(f))]
  BY <1>1
<1>14. [models EXCEPT ![i] = g] = [models EXCEPT ![i].fields = RemoveFirst(@, f)]
  BY <1>1 DEF g
<1>15. SourcesOf([models EXCEPT ![i] = g])
         = [src EXCEPT ![i].fields = g.fields, ![i].columns = NameOf(g.fields),
                       ![i].inserted = NameOf(Sent(g.fields)), ![i].reads = ReadsOf(g.fields),
                       ![i].writes = WritesOf(Sent(g.fields))]
  BY <1>1, <1>5, SourcesBecome DEF src
<1>16. SourcesOf([models EXCEPT ![i] = g]) = RemoveFrom(src, m.name, f)
  BY <1>10, <1>11, <1>12, <1>13, <1>15
<1>17. QED
  BY <1>6, <1>14, <1>16 DEF src, f

LEMMA Replacing ==
    ASSUME NEW fs \in Seq(SourceFields), NEW j \in DOMAIN fs, NEW f \in SourceFields
    PROVE  /\ With(fs, j, f) \in Seq(SourceFields)
           /\ NameOf(With(fs, j, f)) = With(NameOf(fs), j, f.name)
           /\ ReadsOf(With(fs, j, f)) = With(ReadsOf(fs), j, ReadLine(f))
           /\ WritesOf(With(fs, j, f)) = With(WritesOf(fs), j, WriteLine(f))
<1>1. With(fs, j, f) \in Seq(SourceFields)
  BY ExceptSeq DEF With
<1>2. QED
  BY <1>1 DEF With, NameOf, ReadsOf, WritesOf

\* The order of the fields is that of insert_values.
LEMMA SameOrder ==
    ASSUME NEW fs, NEW d, IdAt(fs, d), NEW j \in DOMAIN fs, j # d
    PROVE  /\ \A k \in 1..(Len(fs) - 1) : k < Into(j, d) => Over(k, d) < j
           /\ \A k \in DOMAIN fs : k # d /\ k < j => Into(k, d) < Into(j, d)
BY DEF IdAt, Into, Over

Parts == {"struct", "impl", "table", "fields", "columns", "inserted", "reads", "writes"}

LEMMA SourceDomain == ASSUME NEW m PROVE DOMAIN Source(m) = Parts
BY DEF Source, Parts

\* What patch_models_for_rename_field makes of the sources of a file, and of
\* that of a model which is the first of its file.
Renamed(src, i, f, column, inserted, R, write, from, to) ==
    [src EXCEPT ![i].fields[f].name = to, ![1].columns[column] = to,
                ![1].inserted = Put(@, inserted, to), ![1].reads = R,
                ![1].writes[write].of = Beginning(@, from, to)]

Lines(writes, write, from, to) == [writes EXCEPT ![write].of = Beginning(@, from, to)]

RenamedBlock(b, f, column, inserted, R, write, from, to) ==
    [b EXCEPT !.fields = [b.fields EXCEPT ![f].name = to],
              !.columns = [b.columns EXCEPT ![column] = to],
              !.inserted = Put(b.inserted, inserted, to),
              !.reads = R,
              !.writes = Lines(b.writes, write, from, to)]

Leaves(src, r, i, f, column, inserted, R, write, from, to) ==
    /\ r[1].columns = [src[1].columns EXCEPT ![column] = to]
    /\ r[1].inserted = Put(src[1].inserted, inserted, to)
    /\ r[1].reads = R
    /\ r[1].writes = Lines(src[1].writes, write, from, to)
    /\ i = 1 => r = [src EXCEPT ![1] =
                       RenamedBlock(src[1], f, column, inserted, R, write, from, to)]

LEMMA RenamePatches ==
    ASSUME NEW src, 1 \in DOMAIN src, DOMAIN src[1] = Parts,
           NEW i \in DOMAIN src, DOMAIN src[i] = Parts,
           NEW f, NEW column, NEW inserted, NEW R, NEW write, NEW from, NEW to
    PROVE  Leaves(src, Renamed(src, i, f, column, inserted, R, write, from, to),
                  i, f, column, inserted, R, write, from, to)
<1> DEFINE X == [src[1].fields EXCEPT ![f].name = to]
           Y == [src[1].columns EXCEPT ![column] = to]
           I == Put(src[1].inserted, inserted, to)
           W == [src[1].writes EXCEPT ![write].of = Beginning(@, from, to)]
           a1 == [src EXCEPT ![i].fields[f].name = to]
           a2 == [a1 EXCEPT ![1].columns[column] = to]
           a3 == [a2 EXCEPT ![1].inserted = Put(src[1].inserted, inserted, to)]
           a4 == [a3 EXCEPT ![1].reads = R]
           a5 == [a4 EXCEPT ![1].writes[write].of
                                = Beginning(src[1].writes[write].of, from, to)]
<1>1. /\ DOMAIN a1 = DOMAIN src /\ DOMAIN a1[1] = Parts
      /\ a1[1].columns = src[1].columns /\ a1[1].inserted = src[1].inserted
      /\ a1[1].writes = src[1].writes
      /\ i = 1 => a1 = [src EXCEPT ![1] = [src[1] EXCEPT !.fields = X]]
  BY DEF Parts
<1> HIDE DEF a1, X
<1>2. /\ DOMAIN a2 = DOMAIN src /\ DOMAIN a2[1] = Parts
      /\ a2[1].columns = Y /\ a2[1].inserted = src[1].inserted /\ a2[1].writes = src[1].writes
      /\ a2 = [a1 EXCEPT ![1] = [a1[1] EXCEPT !.columns = Y]]
  BY <1>1 DEF Parts
<1> HIDE DEF a2, Y
<1>3. /\ DOMAIN a3 = DOMAIN src /\ DOMAIN a3[1] = Parts
      /\ a3[1].columns = Y /\ a3[1].inserted = I /\ a3[1].writes = src[1].writes
      /\ a3 = [a2 EXCEPT ![1] = [a2[1] EXCEPT !.inserted = I]]
  BY <1>2 DEF Parts
<1> HIDE DEF a3, I
<1>4. /\ DOMAIN a4 = DOMAIN src /\ DOMAIN a4[1] = Parts
      /\ a4[1].columns = Y /\ a4[1].inserted = I /\ a4[1].reads = R
      /\ a4[1].writes = src[1].writes
      /\ a4 = [a3 EXCEPT ![1] = [a3[1] EXCEPT !.reads = R]]
  BY <1>3 DEF Parts
<1> HIDE DEF a4
<1>5. /\ DOMAIN a5 = DOMAIN src /\ DOMAIN a5[1] = Parts
      /\ a5[1].columns = Y /\ a5[1].inserted = I /\ a5[1].reads = R /\ a5[1].writes = W
      /\ a5 = [a4 EXCEPT ![1] = [a4[1] EXCEPT !.writes = W]]
  BY <1>4 DEF Parts
<1> HIDE DEF a5, W
<1>6. ASSUME i = 1
      PROVE  a5 = [src EXCEPT ![1] = [src[1] EXCEPT !.fields = X, !.columns = Y, !.inserted = I,
                                                    !.reads = R, !.writes = W]]
  <2> DEFINE b1 == [src[1] EXCEPT !.fields = X]
             b2 == [b1 EXCEPT !.columns = Y]
             b3 == [b2 EXCEPT !.inserted = I]
             b4 == [b3 EXCEPT !.reads = R]
             b5 == [b4 EXCEPT !.writes = W]
  <2> HIDE DEF b1, b2, b3, b4, b5
  <2>1. a1 = [src EXCEPT ![1] = b1]
    BY <1>1, <1>6 DEF b1
  <2>2. a2 = [src EXCEPT ![1] = b2]
    BY <1>2, <2>1 DEF b2
  <2>3. a3 = [src EXCEPT ![1] = b3]
    BY <1>3, <2>2 DEF b3
  <2>4. a4 = [src EXCEPT ![1] = b4]
    BY <1>4, <2>3 DEF b4
  <2>5. a5 = [src EXCEPT ![1] = b5]
    BY <1>5, <2>4 DEF b5
  <2>6. QED
    BY <2>5, Zenon DEF b1, b2, b3, b4, b5
<1> DEFINE r == Renamed(src, i, f, column, inserted, R, write, from, to)
<1>7. r = a5
  BY Zenon DEF Renamed, a1, a2, a3, a4, a5
<1> HIDE DEF r
<1>8. /\ r[1].columns = Y /\ r[1].inserted = I /\ r[1].reads = R /\ r[1].writes = W
      /\ i = 1 => r = [src EXCEPT ![1] = [src[1] EXCEPT !.fields = X, !.columns = Y, !.inserted = I,
                                                       !.reads = R, !.writes = W]]
  BY <1>5, <1>6, <1>7, Zenon
<1>9. QED
  BY <1>8, Zenon DEF r, X, Y, I, W, Lines, RenamedBlock, Leaves

\* What RenameIn looks for, and the lines of from_row as it leaves them.
FieldFor(fields, from) == SelectInSeq(fields, LAMBDA g : g.name = from)
TargetFor(reads, from) == SelectInSeq(reads, LAMBDA l : IsSuffix(from, l.to))
KeyFor(reads, from) == SelectInSeq(reads, LAMBDA l : l.from = from)
WriteFor(writes, from) == SelectInSeq(writes, LAMBDA l : IsPrefix(from, l.of))
InsertedFor(inserted, from, to) == IF to \in ToSet(inserted) THEN 0 ELSE At(inserted, from)
ReadsAfter(reads, from, to) ==
    LET target == TargetFor(reads, from)
        key == KeyFor(reads, from)
        read == [reads EXCEPT ![target].to = Ending(@, from, to)]
    IN IF key = 0 THEN read ELSE [read EXCEPT ![key].from = to]

LEMMA RenameFinds ==
    ASSUME NEW src, NEW name, NEW from, NEW to, RenameIn(src, name, from, to) # Unpatched
    PROVE  StructAt(src, name) # 0 /\ At(src[1].columns, from) # 0
BY Zenon DEF RenameIn

LEMMA RenameMakes ==
    ASSUME NEW src, NEW name, NEW from, NEW to, RenameIn(src, name, from, to) # Unpatched,
           NEW i, StructAt(src, name) = i, NEW f, FieldFor(src[i].fields, from) = f
    PROVE  RenameIn(src, name, from, to)
                = Renamed(src, i, f, At(src[1].columns, from),
                          InsertedFor(src[1].inserted, from, to),
                          ReadsAfter(src[1].reads, from, to),
                          WriteFor(src[1].writes, from), from, to)
BY Zenon DEF RenameIn, Renamed, FieldFor, TargetFor, KeyFor, WriteFor, InsertedFor, ReadsAfter

\* A name is found in itself, and replaced.
LEMMA WholeName ==
    ASSUME NEW n \in Seq(Words), NEW to \in Seq(Words)
    PROVE  /\ IsPrefix(n, n) /\ IsSuffix(n, n)
           /\ Ending(n, n, to) = to /\ Beginning(n, n, to) = to
<1>1. Len(n) \in Nat /\ Len(n) <= Len(n)
  OBVIOUS
<1>2. Reverse(n) \in [1..Len(n) -> Words]
  BY <1>1 DEF Reverse
<1>3. Len(Reverse(n)) <= Len(Reverse(n))
  BY <1>1, <1>2, FunctionSeq
<1>4. IsPrefix(n, n) /\ IsSuffix(n, n)
  BY <1>1, <1>3 DEF IsPrefix, IsSuffix
<1>5. SubSeq(n, 1, Len(n) - Len(n)) = <<>>
  <2>1. Len(n) - Len(n) = 0 /\ 0 \in Int /\ 1 \in Int /\ 0 < 1
    BY <1>1
  <2>2. QED
    BY <2>1, SubSeqEmpty
<1>6. SubSeq(n, Len(n) + 1, Len(n)) = <<>>
  <2>1. Len(n) + 1 \in Int /\ Len(n) \in Int /\ Len(n) < Len(n) + 1
    BY <1>1
  <2>2. QED
    BY <2>1, SubSeqEmpty
<1>7. <<>> \o to = to /\ to \o <<>> = to
  BY ConcatEmptySeq
<1>8. QED
  BY <1>4, <1>5, <1>6, <1>7 DEF Ending, Beginning

\* What begins a word is that word, or nothing, which ends every name.
LEMMA PrefixOfWord ==
    ASSUME NEW n \in Seq(Words), NEW w \in Words, IsPrefix(n, <<w>>)
    PROVE  IsSuffix(n, <<w>>)
<1>1. Len(n) \in Nat /\ Len(<<w>>) = 1 /\ Len(n) <= 1 /\ <<w>> \in Seq(Words)
  BY DEF IsPrefix
<1>2. CASE Len(n) = 1
  <2>1. SubSeq(n, 1, 1) = SubSeq(<<w>>, 1, 1)
    BY <1>2 DEF IsPrefix
  <2>2. n[1] = w
    BY <1>1, <1>2, <2>1
  <2>3. n = <<w>>
    BY <1>1, <1>2, <2>2
  <2>4. QED
    BY <1>1, <2>3, WholeName
<1>3. CASE Len(n) = 0
  <2>1. Reverse(n) \in [1..0 -> Words] /\ Reverse(<<w>>) \in [1..1 -> Words]
    BY <1>1, <1>3 DEF Reverse
  <2>2. Len(Reverse(n)) = 0 /\ Len(Reverse(<<w>>)) = 1
    <3>1. 0 \in Nat /\ 1 \in Nat
      OBVIOUS
    <3>2. QED
      BY <2>1, <3>1, FunctionSeq, Zenon
  <2>3. SubSeq(Reverse(n), 1, 0) = <<>> /\ SubSeq(Reverse(<<w>>), 1, 0) = <<>>
    <3>1. 0 \in Int /\ 1 \in Int /\ 0 < 1
      OBVIOUS
    <3>2. QED
      BY <3>1, SubSeqEmpty
  <2>4. QED
    BY <2>2, <2>3 DEF IsSuffix, IsPrefix
<1>4. QED
  BY <1>1, <1>2, <1>3

LEMMA FieldType ==
    ASSUME NEW fs \in Seq(SourceFields), NEW j \in DOMAIN fs
    PROVE  /\ fs[j] \in SourceFields /\ fs[j].name \in Seq(Words)
           /\ DOMAIN fs = 1..Len(fs) /\ Len(fs) \in Nat /\ j \in 1..Len(fs)
<1>1. fs[j] \in SourceFields
  OBVIOUS
<1>2. \A f \in SourceFields : f.name \in Seq(Words)
  BY DEF SourceFields
<1>3. QED
  BY <1>1, <1>2

LEMMA ModelType ==
    ASSUME WellFormed(meant), NEW i \in DOMAIN meant
    PROVE  /\ meant \in Seq(SourceModels) /\ meant[i] \in SourceModels /\ Declared(meant[i])
           /\ meant[i].fields \in Seq(SourceFields) /\ NamesDiffer(meant[i].fields)
           /\ meant[i].name \in Seq(Words)
           /\ meant[i] = [name |-> meant[i].name, fields |-> meant[i].fields]
           /\ DOMAIN meant = 1..Len(meant) /\ Len(meant) \in Nat /\ i \in 1..Len(meant)
           /\ 1 \in DOMAIN meant
<1>1. meant \in Seq(SourceModels) /\ Declared(meant[i])
  BY DEF WellFormed
<1>2. meant[i] \in SourceModels
  BY <1>1
<1>3. meant[i].fields \in Seq(SourceFields) /\ meant[i].name \in Seq(Words)
      /\ meant[i] = [name |-> meant[i].name, fields |-> meant[i].fields]
  BY <1>2 DEF SourceModels
<1>4. NamesDiffer(meant[i].fields)
  BY <1>1 DEF Declared, NamesDiffer
<1>5. QED
  BY <1>1, <1>2, <1>3, <1>4

\* The models of a file, and their sources.
LEMMA FileHas ==
    ASSUME WellFormed(meant), NEW src, src = SourcesOf(meant), NEW i \in DOMAIN meant
    PROVE  /\ DOMAIN src = DOMAIN meant /\ src[i] = Source(meant[i]) /\ DOMAIN src[i] = Parts
           /\ src[i].fields = meant[i].fields /\ src[i].columns = NameOf(meant[i].fields)
           /\ src[i].inserted = NameOf(Sent(meant[i].fields))
           /\ src[i].reads = ReadsOf(meant[i].fields)
           /\ src[i].writes = WritesOf(Sent(meant[i].fields))
           /\ src[i].struct = meant[i].name
<1>1. DOMAIN src = DOMAIN meant /\ src[i] = Source(meant[i])
  BY ModelType, SourcesHas
<1>2. QED
  BY <1>1, SourceParts, SourceDomain

\* A field is found by its name, of which there is one.
LEMMA FieldFound ==
    ASSUME NEW fs \in Seq(SourceFields), NamesDiffer(fs), NEW j \in DOMAIN fs,
           NEW from, from = fs[j].name
    PROVE  FieldFor(fs, from) = j /\ At(NameOf(fs), from) = j
<1>1. /\ DOMAIN fs = 1..Len(fs) /\ Len(fs) \in Nat /\ j \in 1..Len(fs)
      /\ \A k \in 1..Len(fs) : fs[k].name = from => k = j
  BY FieldType DEF NamesDiffer
<1>2. FieldFor(fs, from) = j
  <2> DEFINE I == {k \in 1..Len(fs) : fs[k].name = from}
  <2>1. I \subseteq 1..Len(fs) /\ j \in I /\ \A k \in I : j <= k
    BY <1>1
  <2>2. FieldFor(fs, from) = First(I)
    BY DEF FieldFor, SelectInSeq, First
  <2> HIDE DEF I
  <2>3. QED
    BY <1>1, <2>1, <2>2, FirstFound
<1>3. At(NameOf(fs), from) = j
  <2> DEFINE ns == NameOf(fs)
  <2>1. ns \in Seq(Seq(Words)) /\ DOMAIN ns = DOMAIN fs /\ \A k \in DOMAIN fs : ns[k] = fs[k].name
    BY ListTypes DEF NameOf
  <2> HIDE DEF ns
  <2>2. j \in DOMAIN ns /\ ns[j] = from /\ \A k \in DOMAIN ns : ns[k] = ns[j] => k = j
    BY <1>1, <2>1
  <2>3. At(ns, ns[j]) = j
    BY <2>1, <2>2, AtFinds
  <2>4. QED
    BY <2>2, <2>3 DEF ns
<1>4. QED
  BY <1>2, <1>3

\* What the lines have of the fields.
LEMMA LinesHave ==
    ASSUME NEW fs \in Seq(SourceFields)
    PROVE  /\ Len(ReadsOf(fs)) = Len(fs) /\ Len(WritesOf(fs)) = Len(fs)
           /\ DOMAIN ReadsOf(fs) = 1..Len(fs) /\ DOMAIN WritesOf(fs) = 1..Len(fs)
           /\ \A k \in 1..Len(fs) :
                /\ ReadsOf(fs)[k] = ReadLine(fs[k]) /\ WritesOf(fs)[k] = WriteLine(fs[k])
                /\ ReadsOf(fs)[k].to = fs[k].name /\ ReadsOf(fs)[k].from = fs[k].name
                /\ ReadsOf(fs)[k].by = Accessor(fs[k]) /\ WritesOf(fs)[k].of = fs[k].name
<1>1. /\ Len(ReadsOf(fs)) = Len(fs) /\ Len(WritesOf(fs)) = Len(fs)
      /\ DOMAIN ReadsOf(fs) = 1..Len(fs) /\ DOMAIN WritesOf(fs) = 1..Len(fs)
      /\ DOMAIN fs = 1..Len(fs)
  <2>1. DOMAIN fs = 1..Len(fs)
    OBVIOUS
  <2>2. QED
    BY <2>1, ListTypes, Zenon
<1>2. \A k \in 1..Len(fs) : ReadsOf(fs)[k] = ReadLine(fs[k]) /\ WritesOf(fs)[k] = WriteLine(fs[k])
  BY <1>1 DEF ReadsOf, WritesOf
<1>3. QED
  BY <1>1, <1>2 DEF ReadLine, WriteLine

\* The lines of from_row that a rename finds: none is after the field's own.
LEMMA ReadFound ==
    ASSUME NEW fs \in Seq(SourceFields), NamesDiffer(fs), NEW j \in DOMAIN fs,
           NEW from, from = fs[j].name
    PROVE  /\ KeyFor(ReadsOf(fs), from) = j
           /\ TargetFor(ReadsOf(fs), from) \in 1..j
           /\ \A k \in 1..(j - 1) : IsSuffix(from, fs[k].name) =>
                TargetFor(ReadsOf(fs), from) <= k
           /\ (\A k \in 1..(j - 1) : ~IsSuffix(from, fs[k].name)) =>
                TargetFor(ReadsOf(fs), from) = j
<1> DEFINE n == Len(fs)
           rs == ReadsOf(fs)
           K == {k \in 1..n : rs[k].from = from}
           T == {k \in 1..n : IsSuffix(from, rs[k].to)}
<1>1. /\ n \in Nat /\ j \in 1..n /\ DOMAIN fs = 1..n
      /\ \A k \in 1..n : fs[k].name = from => k = j
  BY FieldType DEF NamesDiffer
<1>2. Len(rs) = n /\ \A k \in 1..n : rs[k].to = fs[k].name /\ rs[k].from = fs[k].name
  BY LinesHave
<1>3. IsSuffix(from, from)
  BY FieldType, WholeName
<1> HIDE DEF rs
<1>4. KeyFor(rs, from) = First(K) /\ TargetFor(rs, from) = First(T)
  BY <1>2 DEF KeyFor, TargetFor, SelectInSeq, First
<1>5. K \subseteq 1..n /\ j \in K /\ \A k \in K : j <= k
  BY <1>1, <1>2
<1>6. /\ T \subseteq 1..n /\ j \in T
      /\ \A k \in 1..(j - 1) : IsSuffix(from, fs[k].name) <=> k \in T
  BY <1>1, <1>2, <1>3
<1> HIDE DEF K, T
<1>7. First(K) = j
  BY <1>1, <1>5, FirstFound
<1>8. First(T) \in T /\ \A k \in T : First(T) <= k
  BY <1>1, <1>6, FirstIs
<1>9. First(T) \in 1..j
  BY <1>1, <1>6, <1>8
<1>10. QED
  BY <1>1, <1>4, <1>6, <1>7, <1>8, <1>9 DEF rs

\* The same of insert_values, where the id is not.
LEMMA WriteFound ==
    ASSUME NEW fs, NEW d, IdAt(fs, d), NamesDiffer(fs), NEW j \in DOMAIN fs, j # d,
           NEW from, from = fs[j].name
    PROVE  /\ At(NameOf(Sent(fs)), from) = Into(j, d)
           /\ WriteFor(WritesOf(Sent(fs)), from) \in 1..Into(j, d)
           /\ \A k \in 1..(j - 1) : k # d /\ IsPrefix(from, fs[k].name) =>
                WriteFor(WritesOf(Sent(fs)), from) < Into(j, d)
           /\ (\A k \in 1..(j - 1) : ~IsPrefix(from, fs[k].name)) =>
                WriteFor(WritesOf(Sent(fs)), from) = Into(j, d)
<1> DEFINE ss == Sent(fs)
           n == Len(fs) - 1
           p == Into(j, d)
           ws == WritesOf(ss)
           I == {k \in 1..n : IsPrefix(from, ws[k].of)}
<1>1. /\ fs \in Seq(SourceFields) /\ DOMAIN fs = 1..Len(fs) /\ Len(fs) \in Nat /\ j \in 1..Len(fs)
      /\ ss \in Seq(SourceFields) /\ Len(ss) = n /\ DOMAIN ss = 1..n
      /\ p \in 1..n /\ ss[p] = fs[j] /\ n \in Nat
  <2>1. fs \in Seq(SourceFields) /\ DOMAIN fs = 1..Len(fs) /\ Len(fs) \in Nat /\ j \in 1..Len(fs)
    BY DEF IdAt
  <2>2. ss \in Seq(SourceFields) /\ Len(ss) = n /\ DOMAIN ss = 1..n
    BY SentHas
  <2>3. p \in 1..n /\ Over(p, d) = j
    BY SentHas
  <2>4. ss[p] = fs[Over(p, d)]
    BY <2>3, SentHas
  <2>5. QED
    BY <2>1, <2>2, <2>3, <2>4
<1>2. \A k \in 1..n : /\ Over(k, d) \in DOMAIN fs /\ ss[k] = fs[Over(k, d)]
                      /\ k < p => Over(k, d) \in 1..(j - 1)
  <2>1. \A k \in 1..n : Over(k, d) \in DOMAIN fs /\ ss[k] = fs[Over(k, d)]
    BY SentHas
  <2>2. \A k \in 1..n : k < p => Over(k, d) < j
    BY SameOrder
  <2>3. QED
    BY <1>1, <2>1, <2>2
<1>3. \A k \in 1..(j - 1) : k # d => Into(k, d) \in 1..n /\ Into(k, d) < p /\ ss[Into(k, d)] = fs[k]
  <2>1. ASSUME NEW k \in 1..(j - 1), k # d
        PROVE  Into(k, d) \in 1..n /\ Into(k, d) < p /\ ss[Into(k, d)] = fs[k]
    <3>1. k \in DOMAIN fs /\ k < j
      BY <1>1, <2>1
    <3>2. Into(k, d) \in 1..n /\ Over(Into(k, d), d) = k
      BY <2>1, <3>1, SentHas
    <3>3. Into(k, d) < p
      BY <2>1, <3>1, SameOrder
    <3>4. QED
      BY <1>2, <3>2, <3>3
  <2>2. QED
    BY <2>1
<1>4. NamesDiffer(ss)
  BY SentDiffer
<1> HIDE DEF ss, n, p
<1>5. from = ss[p].name /\ p \in DOMAIN ss
  BY <1>1
<1>6. At(NameOf(ss), from) = p
  BY <1>1, <1>4, <1>5, FieldFound
<1>7. Len(ws) = n /\ \A k \in 1..n : ws[k].of = ss[k].name
  BY <1>1, LinesHave
<1>8. IsPrefix(from, from)
  BY <1>1, FieldType, WholeName
<1> HIDE DEF ws
<1>9. WriteFor(ws, from) = First(I)
  BY <1>7 DEF WriteFor, SelectInSeq, First
<1>10. /\ I \subseteq 1..n /\ p \in I
       /\ \A k \in 1..(j - 1) : k # d /\ IsPrefix(from, fs[k].name) => Into(k, d) \in I
       /\ \A k \in I : k < p => Over(k, d) \in 1..(j - 1) /\ IsPrefix(from, fs[Over(k, d)].name)
  BY <1>1, <1>2, <1>3, <1>5, <1>7, <1>8
<1> HIDE DEF I
<1>11. First(I) \in I /\ \A k \in I : First(I) <= k
  BY <1>1, <1>10, FirstIs
<1>12. First(I) \in 1..p /\ \A k \in 1..n : k < p /\ k \in I => First(I) < p
  <2>1. First(I) \in 1..n /\ First(I) <= p
    BY <1>10, <1>11
  <2>2. \A k \in 1..n : k < p /\ k \in I => First(I) <= k
    BY <1>11
  <2>3. QED
    BY <1>1, <2>1, <2>2
<1>13. First(I) # p => \E k \in 1..(j - 1) : IsPrefix(from, fs[k].name)
  BY <1>1, <1>10, <1>11, <1>12
<1>14. \A k \in 1..(j - 1) : k # d /\ IsPrefix(from, fs[k].name) => First(I) < p
  BY <1>3, <1>10, <1>12 DEF p
<1>15. QED
  BY <1>6, <1>9, <1>12, <1>13, <1>14 DEF ss, ws, p

-----------------------------------------------------------------------------
\* A rename.

LEMMA NamedFields ==
    ASSUME NEW i \in DOMAIN meant, NEW name
    PROVE  /\ Named(i, name) <=> \E k \in DOMAIN meant[i].fields : meant[i].fields[k].name = name
           /\ Shadowed(i, name) <=> \E k \in 1..(i - 1) : Named(k, name)
BY DEF Named, Shadowed, NameOf, ToSet

LEMMA OverlappedIs ==
    ASSUME WellFormed(meant), NEW i \in DOMAIN meant, NEW j \in DOMAIN meant[i].fields,
           NEW from, from = meant[i].fields[j].name
    PROVE  Overlapped(i, from) <=>
               \E k \in 1..(j - 1) : \/ IsSuffix(from, meant[i].fields[k].name)
                                    \/ IsPrefix(from, meant[i].fields[k].name)
<1>1. meant[i].fields \in Seq(SourceFields) /\ NamesDiffer(meant[i].fields)
  BY ModelType
<1> DEFINE fs == meant[i].fields
<1>2. At(NameOf(fs), from) = j
  <2> DEFINE x == fs
  <2>1. x \in Seq(SourceFields) /\ NamesDiffer(x) /\ j \in DOMAIN x /\ from = x[j].name
    BY <1>1
  <2> HIDE DEF x
  <2>2. At(NameOf(x), from) = j
    BY <2>1, FieldFound
  <2>3. QED
    BY <2>2 DEF x
<1>3. DOMAIN fs = 1..Len(fs) /\ Len(fs) \in Nat /\ j \in 1..Len(fs)
  BY <1>1, FieldType
<1>4. \A k \in 1..(j - 1) : NameOf(fs)[k] = fs[k].name
  BY <1>3 DEF NameOf
<1>5. QED
  BY <1>2, <1>4 DEF Overlapped

\* A rename that is patched finds the name in the first model of the file.
LEMMA RenameSite ==
    ASSUME WellFormed(meant), NEW i \in DOMAIN meant, NEW j \in DOMAIN meant[i].fields,
           NEW to, ~Named(i, to),
           NEW src, src = SourcesOf(meant), NEW from, from = meant[i].fields[j].name,
           RenameIn(src, meant[i].name, from, to) # Unpatched
    PROVE  /\ StructAt(src, meant[i].name) = i /\ FieldFor(src[i].fields, from) = j
           /\ to # from /\ Named(1, from)
           /\ At(src[1].columns, from) \in DOMAIN src[1].columns
           /\ src[1].columns[At(src[1].columns, from)] = from
<1>1. StructAt(src, meant[i].name) = i
  <2>1. StructAt(src, meant[i].name) # 0
    BY RenameFinds, Zenon
  <2>2. QED
    BY <2>1, StructFound
<1>2. to # from
  BY NamedFields
<1>3. FieldFor(src[i].fields, from) = j
  <2>1. src[i].fields = meant[i].fields
    BY FileHas
  <2>2. meant[i].fields \in Seq(SourceFields) /\ NamesDiffer(meant[i].fields)
    BY ModelType
  <2> DEFINE x == meant[i].fields
  <2>3. x \in Seq(SourceFields) /\ NamesDiffer(x) /\ j \in DOMAIN x /\ from = x[j].name
    BY <2>2
  <2> HIDE DEF x
  <2>4. FieldFor(x, from) = j
    BY <2>3, FieldFound
  <2>5. QED
    BY <2>1, <2>4 DEF x
<1>4. 1 \in DOMAIN meant
  BY ModelType
<1> DEFINE fs == meant[1].fields
<1>5. fs \in Seq(SourceFields) /\ src[1].columns = NameOf(fs)
  BY <1>4, ModelType, FileHas
<1>6. At(src[1].columns, from) # 0
  BY RenameFinds, Zenon
<1> HIDE DEF fs
<1>7. NameOf(fs) \in Seq(Seq(Words)) /\ DOMAIN NameOf(fs) = DOMAIN fs
  BY <1>5, ListTypes
<1>8. /\ At(src[1].columns, from) \in DOMAIN src[1].columns
      /\ src[1].columns[At(src[1].columns, from)] = from
  <2> DEFINE ns == NameOf(fs)
  <2>1. ns \in Seq(Seq(Words)) /\ At(ns, from) # 0
    BY <1>5, <1>6, <1>7
  <2> HIDE DEF ns
  <2>2. At(ns, from) \in DOMAIN ns /\ ns[At(ns, from)] = from
    BY <2>1, AtIs
  <2>3. QED
    BY <1>5, <2>2 DEF ns
<1>9. Named(1, from)
  <2> DEFINE k == At(src[1].columns, from)
  <2>1. k \in DOMAIN fs /\ fs[k].name = from
    BY <1>5, <1>7, <1>8 DEF NameOf
  <2> HIDE DEF k
  <2>2. QED
    BY <1>4, <2>1, NamedFields DEF fs
<1>10. QED
  BY <1>1, <1>2, <1>3, <1>8, <1>9

\* What a rename leaves: the source of the first model, patched.
LEMMA RenameLeaves ==
    ASSUME WellFormed(meant), NEW i \in DOMAIN meant, NEW j \in DOMAIN meant[i].fields,
           NEW to, ~Named(i, to),
           NEW src, src = SourcesOf(meant), NEW from, from = meant[i].fields[j].name,
           NEW r, r = RenameIn(src, meant[i].name, from, to), r # Unpatched,
           NEW column, column = At(src[1].columns, from),
           NEW inserted, inserted = InsertedFor(src[1].inserted, from, to),
           NEW write, write = WriteFor(src[1].writes, from),
           NEW R, R = ReadsAfter(src[1].reads, from, to)
    PROVE  Leaves(src, r, i, j, column, inserted, R, write, from, to)
<1>1. 1 \in DOMAIN src /\ DOMAIN src[1] = Parts /\ i \in DOMAIN src /\ DOMAIN src[i] = Parts
  BY ModelType, FileHas
<1>2. StructAt(src, meant[i].name) = i /\ FieldFor(src[i].fields, from) = j
  BY RenameSite
<1>3. r = Renamed(src, i, j, column, inserted, R, write, from, to)
  BY <1>2, RenameMakes
<1>4. Leaves(src, Renamed(src, i, j, column, inserted, R, write, from, to),
             i, j, column, inserted, R, write, from, to)
  BY <1>1, RenamePatches, Zenon
<1>5. QED
  BY <1>3, <1>4, Zenon

\* The field with another name.
Retitled(g, f, to) ==
    /\ g \in SourceFields /\ g.name = to
    /\ ReadLine(g) = [to |-> to, by |-> Accessor(f), from |-> to]
    /\ WriteLine(g) = [of |-> to, cloned |-> Cloned(f)]

LEMMA RetitledIs ==
    ASSUME NEW f \in SourceFields, NEW to \in Seq(Words)
    PROVE  Retitled([f EXCEPT !.name = to], f, to)
BY DEF Retitled, SourceFields, ReadLine, WriteLine, Accessor, Cloned

\* The lines of from_row when the name is found where it should be.
LEMMA ReadsRenamed ==
    ASSUME NEW fs \in Seq(SourceFields), NamesDiffer(fs), NEW j \in DOMAIN fs,
           NEW from, from = fs[j].name, NEW to \in Seq(Words),
           \A k \in 1..(j - 1) : ~IsSuffix(from, fs[k].name),
           NEW g, Retitled(g, fs[j], to)
    PROVE  ReadsAfter(ReadsOf(fs), from, to) = With(ReadsOf(fs), j, ReadLine(g))
<1>1. KeyFor(ReadsOf(fs), from) = j /\ TargetFor(ReadsOf(fs), from) = j /\ j # 0
  BY ReadFound, FieldType
<1>2. /\ DOMAIN ReadsOf(fs) = 1..Len(fs) /\ j \in 1..Len(fs)
      /\ ReadsOf(fs)[j] = [to |-> from, by |-> Accessor(fs[j]), from |-> from]
      /\ ReadsOf(fs)[j].to = from
  BY FieldType, LinesHave DEF ReadLine
<1>3. Ending(from, from, to) = to
  BY FieldType, WholeName
<1> DEFINE rs == ReadsOf(fs)
           read == [rs EXCEPT ![j].to = to]
<1> HIDE DEF rs
<1>4. ReadsAfter(rs, from, to) = [read EXCEPT ![j].from = to]
  BY <1>1, <1>2, <1>3 DEF ReadsAfter, rs
<1>5. ReadLine(g) = [to |-> to, by |-> Accessor(fs[j]), from |-> to]
  BY DEF Retitled
<1>6. [read EXCEPT ![j].from = to]
        = [rs EXCEPT ![j] = [to |-> to, by |-> Accessor(fs[j]), from |-> to]]
  <2> DEFINE a == Accessor(fs[j])
  <2>1. j \in DOMAIN rs /\ rs[j] = [to |-> from, by |-> a, from |-> from]
    BY <1>2 DEF rs
  <2> HIDE DEF a, read
  <2>2. [rs[j] EXCEPT !.to = to] = [to |-> to, by |-> a, from |-> from]
    BY <2>1
  <2>3. read = [rs EXCEPT ![j] = [to |-> to, by |-> a, from |-> from]]
    BY <2>1, <2>2 DEF read
  <2>4. j \in DOMAIN read /\ read[j] = [to |-> to, by |-> a, from |-> from]
    BY <2>1, <2>3
  <2>5. [read[j] EXCEPT !.from = to] = [to |-> to, by |-> a, from |-> to]
    BY <2>4
  <2>6. [read EXCEPT ![j].from = to] = [read EXCEPT ![j] = [to |-> to, by |-> a, from |-> to]]
    BY <2>4, <2>5
  <2>7. QED
    BY <2>3, <2>6 DEF a
<1>7. QED
  BY <1>4, <1>5, <1>6 DEF With, rs

\* Those of insert_values.
LEMMA WritesRenamed ==
    ASSUME NEW fs, NEW d, IdAt(fs, d), NamesDiffer(fs), NEW j \in DOMAIN fs, j # d,
           NEW from, from = fs[j].name, NEW to \in Seq(Words),
           \A k \in 1..(j - 1) : ~IsPrefix(from, fs[k].name),
           NEW g, Retitled(g, fs[j], to)
    PROVE  Lines(WritesOf(Sent(fs)), WriteFor(WritesOf(Sent(fs)), from), from, to)
               = With(WritesOf(Sent(fs)), Into(j, d), WriteLine(g))
<1> DEFINE ss == Sent(fs)
           p == Into(j, d)
<1>1. WriteFor(WritesOf(ss), from) = p
  BY WriteFound
<1>2. ss \in Seq(SourceFields) /\ p \in 1..Len(ss) /\ ss[p] = fs[j]
  BY SentHas
<1>3. fs \in Seq(SourceFields)
  BY DEF IdAt
<1>4. fs[j] \in SourceFields /\ from \in Seq(Words)
  BY <1>3, FieldType
<1> HIDE DEF ss, p
<1>5. /\ DOMAIN WritesOf(ss) = 1..Len(ss)
      /\ WritesOf(ss)[p] = [of |-> from, cloned |-> Cloned(fs[j])]
  BY <1>2, LinesHave DEF WriteLine
<1>6. Beginning(from, from, to) = to
  BY <1>4, WholeName
<1>7. WriteLine(g) = [of |-> to, cloned |-> Cloned(fs[j])]
  BY DEF Retitled
<1> DEFINE ws == WritesOf(ss)
<1>8. p \in DOMAIN ws /\ ws[p] = [of |-> from, cloned |-> Cloned(fs[j])]
  BY <1>2, <1>5
<1> HIDE DEF ws
<1>9. [ws EXCEPT ![p].of = Beginning(ws[p].of, from, to)]
        = [ws EXCEPT ![p] = [of |-> to, cloned |-> Cloned(fs[j])]]
  <2> DEFINE c == Cloned(fs[j])
  <2>1. p \in DOMAIN ws /\ ws[p] = [of |-> from, cloned |-> c]
    BY <1>8
  <2> HIDE DEF c
  <2>2. Beginning(ws[p].of, from, to) = to
    BY <1>6, <2>1
  <2>3. [ws[p] EXCEPT !.of = to] = [of |-> to, cloned |-> c]
    BY <2>1
  <2>4. [ws EXCEPT ![p].of = to] = [ws EXCEPT ![p] = [of |-> to, cloned |-> c]]
    BY <2>1, <2>3
  <2>5. QED
    BY <2>2, <2>4, Zenon DEF c
<1>10. QED
  BY <1>1, <1>7, <1>9, Zenon DEF Lines, With, ws, ss, p

\* The lists as a rename patches them are those of the renamed fields.
SameLists(fs, gs, from, to) ==
    /\ NameOf(gs) = [NameOf(fs) EXCEPT ![At(NameOf(fs), from)] = to]
    /\ NameOf(Sent(gs)) = Put(NameOf(Sent(fs)), InsertedFor(NameOf(Sent(fs)), from, to), to)
    /\ ReadsOf(gs) = ReadsAfter(ReadsOf(fs), from, to)
    /\ WritesOf(Sent(gs)) = Lines(WritesOf(Sent(fs)), WriteFor(WritesOf(Sent(fs)), from),
                                  from, to)

LEMMA ListsRenamed ==
    ASSUME NEW fs, NEW d, IdAt(fs, d), NamesDiffer(fs), NEW j \in DOMAIN fs, j # d,
           NEW from, from = fs[j].name, NEW to \in Seq(Words), \A k \in DOMAIN fs : fs[k].name # to,
           \A k \in 1..(j - 1) : ~IsSuffix(from, fs[k].name),
           \A k \in 1..(j - 1) : ~IsPrefix(from, fs[k].name),
           NEW g, Retitled(g, fs[j], to)
    PROVE  SameLists(fs, With(fs, j, g), from, to)
<1> DEFINE ss == Sent(fs)
           p == Into(j, d)
<1>1. fs \in Seq(SourceFields) /\ fs[d].name = IdField.name /\ d \in DOMAIN fs
  BY DEF IdAt
<1>2. g \in SourceFields /\ g.name = to
  BY DEF Retitled
<1>3. to # IdField.name
  BY <1>1
<1>4. /\ ss \in Seq(SourceFields) /\ p \in DOMAIN ss /\ p # 0
      /\ \A k \in DOMAIN ss : \E x \in DOMAIN fs : ss[k] = fs[x]
  <2>1. p \in 1..(Len(fs) - 1) /\ p # 0
    BY SentHas
  <2>2. /\ ss \in Seq(SourceFields) /\ DOMAIN ss = 1..(Len(fs) - 1)
        /\ \A k \in 1..(Len(fs) - 1) : Over(k, d) \in DOMAIN fs /\ ss[k] = fs[Over(k, d)]
    BY SentHas
  <2>3. QED
    BY <2>1, <2>2
<1>5. Sent(With(fs, j, g)) = With(ss, p, g)
  <2>1. g.name = IdField.name <=> j = d
    BY <1>2, <1>3
  <2>2. QED
    BY <1>2, <2>1, SentReplace
<1>6. At(NameOf(fs), from) = j
  BY <1>1, FieldFound
<1>7. At(NameOf(ss), from) = p
  BY WriteFound
<1> HIDE DEF ss, p
<1>8. InsertedFor(NameOf(ss), from, to) = p
  <2>1. to \notin ToSet(NameOf(ss))
    BY <1>4 DEF ToSet, NameOf
  <2>2. QED
    BY <1>7, <2>1 DEF InsertedFor
<1>9. /\ NameOf(With(fs, j, g)) = With(NameOf(fs), j, to)
      /\ ReadsOf(With(fs, j, g)) = With(ReadsOf(fs), j, ReadLine(g))
  BY <1>1, <1>2, Replacing
<1>10. ReadsAfter(ReadsOf(fs), from, to) = With(ReadsOf(fs), j, ReadLine(g))
  BY <1>1, ReadsRenamed
<1>11. /\ NameOf(With(ss, p, g)) = With(NameOf(ss), p, to)
       /\ WritesOf(With(ss, p, g)) = With(WritesOf(ss), p, WriteLine(g))
  BY <1>2, <1>4, Replacing
<1>12. Lines(WritesOf(ss), WriteFor(WritesOf(ss), from), from, to)
         = With(WritesOf(ss), p, WriteLine(g))
  BY WritesRenamed DEF ss, p
<1>13. Put(NameOf(ss), InsertedFor(NameOf(ss), from, to), to) = With(NameOf(ss), p, to)
  BY <1>4, <1>8 DEF Put, With
<1>14. QED
  BY <1>5, <1>6, <1>9, <1>10, <1>11, <1>12, <1>13, Zenon DEF SameLists, With, ss

\* Nothing else of the file is changed, and the model says its new name in all
\* its places.
LEMMA RenamedIn ==
    ASSUME WellFormed(meant), NEW i \in DOMAIN meant, NEW j \in DOMAIN meant[i].fields,
           NEW to \in Seq(Words), ~Named(i, to),
           NEW from, from = meant[i].fields[j].name,
           RenameIn(SourcesOf(meant), meant[i].name, from, to) # Unpatched,
           ~Shadowed(i, from), ~Overlapped(i, from), from # IdField.name
    PROVE  RenameIn(SourcesOf(meant), meant[i].name, from, to)
               = SourcesOf([meant EXCEPT ![i].fields[j].name = to])
<1> DEFINE src == SourcesOf(meant)
           fs == meant[i].fields
           r == RenameIn(src, meant[i].name, from, to)
           g == [fs[j] EXCEPT !.name = to]
           gs == With(fs, j, g)
           m == [meant[i] EXCEPT !.fields = With(@, j, g)]
           column == At(src[1].columns, from)
           inserted == InsertedFor(src[1].inserted, from, to)
           write == WriteFor(src[1].writes, from)
           R == ReadsAfter(src[1].reads, from, to)
<1>1. /\ meant \in Seq(SourceModels) /\ meant[i] \in SourceModels /\ Declared(meant[i])
      /\ fs \in Seq(SourceFields) /\ NamesDiffer(fs)
      /\ DOMAIN meant = 1..Len(meant) /\ i \in 1..Len(meant)
  BY ModelType
<1>2. to # from /\ Named(1, from)
  BY RenameSite
<1>3. i = 1
  <2>1. i > 1 => Shadowed(i, from)
    BY <1>1, <1>2 DEF Shadowed
  <2>2. QED
    BY <1>1, <2>1
<1>4. /\ src[1] = Source(meant[i]) /\ 1 \in DOMAIN src
      /\ src[1].fields = fs /\ src[1].columns = NameOf(fs)
      /\ src[1].inserted = NameOf(Sent(fs))
      /\ src[1].reads = ReadsOf(fs) /\ src[1].writes = WritesOf(Sent(fs))
  BY <1>3, FileHas
<1>5. Leaves(src, r, 1, j, column, inserted, R, write, from, to)
  BY <1>3, RenameLeaves, Zenon
<1>6. PICK d \in DOMAIN fs : IdAt(fs, d)
  BY <1>1, HasId
<1>7. j # d
  BY <1>6 DEF IdAt
<1>8. \A k \in 1..(j - 1) : ~IsSuffix(from, fs[k].name) /\ ~IsPrefix(from, fs[k].name)
  BY OverlappedIs
<1>9. m.name = meant[i].name /\ m.fields = gs
  BY <1>1
<1>10. /\ [meant EXCEPT ![i].fields[j].name = to] = [meant EXCEPT ![i] = m]
       /\ [fs EXCEPT ![j].name = to] = gs
  BY Zenon DEF With
<1>11. \A k \in DOMAIN fs : fs[k].name # to
  BY NamedFields
<1>12. SameLists(fs, gs, from, to)
  <2> DEFINE x == fs
  <2>1. /\ IdAt(x, d) /\ NamesDiffer(x) /\ j \in DOMAIN x /\ j # d /\ from = x[j].name
        /\ \A k \in DOMAIN x : x[k].name # to
        /\ \A k \in 1..(j - 1) : ~IsSuffix(from, x[k].name)
        /\ \A k \in 1..(j - 1) : ~IsPrefix(from, x[k].name)
    BY <1>1, <1>6, <1>7, <1>8, <1>11, Zenon
  <2>2. Retitled(g, x[j], to)
    BY <1>1, RetitledIs
  <2> HIDE DEF x, g
  <2>3. SameLists(x, With(x, j, g), from, to)
    BY <2>1, <2>2, ListsRenamed
  <2>4. QED
    BY <2>3, Zenon DEF x
<1> HIDE DEF src, r, g, gs, m, column, inserted, write, R
<1>13. /\ NameOf(gs) = [src[1].columns EXCEPT ![column] = to]
       /\ ReadsOf(gs) = R
       /\ NameOf(Sent(gs)) = Put(src[1].inserted, inserted, to)
       /\ WritesOf(Sent(gs)) = Lines(src[1].writes, write, from, to)
  BY <1>4, <1>12, Zenon DEF SameLists, column, inserted, write, R
<1>14. RenamedBlock(src[1], j, column, inserted, R, write, from, to)
         = [Source(meant[i]) EXCEPT
              !.fields = m.fields, !.columns = NameOf(m.fields),
              !.inserted = NameOf(Sent(m.fields)), !.reads = ReadsOf(m.fields),
              !.writes = WritesOf(Sent(m.fields))]
  BY <1>4, <1>9, <1>10, <1>13, Zenon DEF RenamedBlock
<1>15. RenamedBlock(src[1], j, column, inserted, R, write, from, to) = Source(m)
  <2> DEFINE n == meant[i]
  <2>1. m.name = n.name
    BY <1>9
  <2> HIDE DEF n
  <2>2. [Source(n) EXCEPT
              !.fields = m.fields, !.columns = NameOf(m.fields),
              !.inserted = NameOf(Sent(m.fields)), !.reads = ReadsOf(m.fields),
              !.writes = WritesOf(Sent(m.fields))] = Source(m)
    BY <2>1, SourceBecomes
  <2>3. QED
    BY <1>14, <2>2 DEF n
<1>16. r = [src EXCEPT ![1] = Source(m)]
  BY <1>5, <1>15, Zenon DEF Leaves
<1>17. SourcesOf([meant EXCEPT ![i] = m]) = [src EXCEPT ![i] = Source(m)]
  BY <1>1, SourcesOfChanged DEF src
<1>18. QED
  BY <1>3, <1>10, <1>16, <1>17 DEF r, src

\* A list of fields without an id is written whole.
LEMMA SentNone ==
    ASSUME NEW fs \in Seq(SourceFields), \A k \in DOMAIN fs : fs[k].name # IdField.name
    PROVE  Sent(fs) = fs
<1>1. {i \in 1..Len(fs) : fs[i].name = IdField.name} = {}
  OBVIOUS
<1>2. QED
  BY <1>1 DEF Sent, RemoveFirstMatch, SelectInSeq

\* The lists as a rename patches them when it finds another text first.
LEMMA ListsMistaken ==
    ASSUME NEW fs, NEW d, IdAt(fs, d), NamesDiffer(fs), NEW j \in DOMAIN fs,
           NEW from, from = fs[j].name, NEW to \in Seq(Words), \A k \in DOMAIN fs : fs[k].name # to,
           \/ j = d
           \/ \E k \in 1..(j - 1) : IsSuffix(from, fs[k].name) \/ IsPrefix(from, fs[k].name),
           NEW g, Retitled(g, fs[j], to)
    PROVE  ~SameLists(fs, With(fs, j, g), from, to)
<1> DEFINE ss == Sent(fs)
           p == Into(j, d)
<1>1. /\ fs \in Seq(SourceFields) /\ fs[d].name = IdField.name /\ d \in DOMAIN fs
      /\ DOMAIN fs = 1..Len(fs) /\ Len(fs) \in Nat /\ j \in 1..Len(fs)
  BY DEF IdAt
<1>2. g \in SourceFields /\ g.name = to
  BY DEF Retitled
<1>3. to # IdField.name
  BY <1>1
<1>4. from \in Seq(Words) /\ to # from
  BY <1>1, FieldType
<1>5. CASE j = d
  <2> DEFINE gs == With(fs, j, g)
             ns == NameOf(ss)
  <2>1. gs \in Seq(SourceFields)
    BY <1>1, <1>2, Replacing
  <2>2. DOMAIN gs = 1..Len(fs) /\ \A k \in DOMAIN gs : gs[k].name # IdField.name
    BY <1>1, <1>2, <1>3, <1>5 DEF With, IdAt
  <2> HIDE DEF gs
  <2>3. Sent(gs) = gs
    BY <2>1, <2>2, SentNone
  <2>4. DOMAIN NameOf(gs) = 1..Len(fs)
    BY <2>1, <2>2, ListTypes
  <2>5. ss \in Seq(SourceFields) /\ DOMAIN ss = 1..(Len(fs) - 1)
    BY SentHas
  <2> HIDE DEF ss
  <2>6. DOMAIN ns = 1..(Len(fs) - 1)
    BY <2>5, ListTypes
  <2> HIDE DEF ns
  <2>7. \A q : DOMAIN Put(ns, q, to) = 1..(Len(fs) - 1)
    BY <2>6 DEF Put
  <2>8. 1..Len(fs) # 1..(Len(fs) - 1)
    <3>1. Len(fs) \in 1..Len(fs) /\ Len(fs) \notin 1..(Len(fs) - 1)
      BY <1>1
    <3>2. QED
      BY <3>1, Zenon
  <2>9. NameOf(Sent(gs)) # Put(ns, InsertedFor(ns, from, to), to)
    BY <2>3, <2>4, <2>7, <2>8
  <2>10. QED
    BY <2>9 DEF SameLists, gs, ns, ss
<1>6. CASE \E k \in 1..(j - 1) : IsSuffix(from, fs[k].name)
  <2> DEFINE rs == ReadsOf(fs)
             t == TargetFor(rs, from)
             R == ReadsAfter(rs, from, to)
  <2>1. PICK k \in 1..(j - 1) : IsSuffix(from, fs[k].name)
    BY <1>6
  <2>2. KeyFor(rs, from) = j /\ t <= k /\ t \in 1..j
    BY <1>1, <2>1, ReadFound
  <2>3. t # j /\ j # 0
    BY <1>1, <2>1, <2>2
  <2>4. j \in DOMAIN rs /\ rs[j] = [to |-> from, by |-> Accessor(fs[j]), from |-> from]
    BY <1>1, LinesHave DEF ReadLine
  <2>5. ReadsOf(With(fs, j, g)) = With(rs, j, ReadLine(g))
    BY <1>1, <1>2, Replacing
  <2> HIDE DEF rs, t
  <2>6. R = [[rs EXCEPT ![t].to = Ending(@, from, to)] EXCEPT ![j].from = to]
    BY <2>2, <2>3, Zenon DEF ReadsAfter, t
  <2>7. R[j].to = from
    BY <2>3, <2>4, <2>6
  <2> HIDE DEF R
  <2>8. ReadLine(g).to = to
    BY <1>2 DEF ReadLine
  <2>9. With(rs, j, ReadLine(g))[j].to = to
    BY <2>4, <2>8 DEF With
  <2>10. ReadsOf(With(fs, j, g)) # R
    BY <1>4, <2>5, <2>7, <2>9
  <2>11. QED
    BY <2>10 DEF SameLists, R, rs
<1>7. CASE j # d /\ \E k \in 1..(j - 1) : k # d /\ IsPrefix(from, fs[k].name)
  <2> DEFINE ws == WritesOf(ss)
             w == WriteFor(ws, from)
             L == Lines(ws, w, from, to)
  <2>1. w < p /\ w \in 1..p
    BY <1>7, WriteFound
  <2>2. ss \in Seq(SourceFields) /\ p \in 1..Len(ss) /\ p \in DOMAIN ss /\ ss[p] = fs[j]
    BY <1>7, SentHas
  <2>3. Sent(With(fs, j, g)) = With(ss, p, g)
    <3>1. g.name = IdField.name <=> j = d
      BY <1>2, <1>3, <1>7
    <3>2. QED
      BY <1>2, <1>7, <3>1, SentReplace
  <2> HIDE DEF ss, p
  <2>4. WritesOf(With(ss, p, g)) = With(ws, p, WriteLine(g))
    BY <1>2, <2>2, Replacing
  <2>5. p \in DOMAIN ws /\ ws[p].of = from
    BY <2>2, LinesHave
  <2> HIDE DEF ws, w
  <2>6. L[p].of = from
    BY <2>1, <2>5 DEF Lines
  <2> HIDE DEF L
  <2>7. WriteLine(g).of = to
    BY <1>2 DEF WriteLine
  <2>8. With(ws, p, WriteLine(g))[p].of = to
    BY <2>5, <2>7 DEF With
  <2>9. WritesOf(Sent(With(fs, j, g))) # L
    BY <1>4, <2>3, <2>4, <2>6, <2>8
  <2>10. QED
    BY <2>9 DEF SameLists, L, w, ws, ss
<1>8. CASE \E k \in 1..(j - 1) : k = d /\ IsPrefix(from, fs[k].name)
  <2>1. d \in 1..(j - 1) /\ IsPrefix(from, fs[d].name)
    BY <1>8
  <2>2. fs[d].name = <<"id">>
    BY <1>1 DEF IdField
  <2>3. IsSuffix(from, fs[d].name)
    BY <1>4, <2>1, <2>2, PrefixOfWord, FilesAssumption
  <2>4. QED
    BY <1>6, <2>1, <2>3
<1>9. QED
  BY <1>5, <1>6, <1>7, <1>8

\* A rename that finds another text first patches that: a place still says the
\* old name, or another model's says the new one.
LEMMA RenamedWrong ==
    ASSUME WellFormed(meant), NEW i \in DOMAIN meant, NEW j \in DOMAIN meant[i].fields,
           NEW to \in Seq(Words), ~Named(i, to),
           NEW from, from = meant[i].fields[j].name,
           RenameIn(SourcesOf(meant), meant[i].name, from, to) # Unpatched,
           Shadowed(i, from) \/ Overlapped(i, from) \/ from = IdField.name
    PROVE  RenameIn(SourcesOf(meant), meant[i].name, from, to)
               # SourcesOf([meant EXCEPT ![i].fields[j].name = to])
<1> DEFINE src == SourcesOf(meant)
           fs == meant[i].fields
           r == RenameIn(src, meant[i].name, from, to)
           g == [fs[j] EXCEPT !.name = to]
           gs == With(fs, j, g)
           m == [meant[i] EXCEPT !.fields = With(@, j, g)]
           column == At(src[1].columns, from)
           inserted == InsertedFor(src[1].inserted, from, to)
           write == WriteFor(src[1].writes, from)
           R == ReadsAfter(src[1].reads, from, to)
<1>1. /\ meant \in Seq(SourceModels) /\ meant[i] \in SourceModels /\ Declared(meant[i])
      /\ fs \in Seq(SourceFields) /\ NamesDiffer(fs)
      /\ DOMAIN meant = 1..Len(meant) /\ i \in 1..Len(meant) /\ 1 \in DOMAIN meant
  BY ModelType
<1>2. /\ to # from /\ Named(1, from) /\ column \in DOMAIN src[1].columns
      /\ src[1].columns[column] = from
  BY RenameSite
<1>3. /\ DOMAIN src = DOMAIN meant /\ src[1].columns = NameOf(meant[1].fields)
      /\ src[1].inserted = NameOf(Sent(meant[1].fields))
      /\ src[1].reads = ReadsOf(meant[1].fields)
      /\ src[1].writes = WritesOf(Sent(meant[1].fields))
  BY <1>1, FileHas
<1>4. Leaves(src, r, i, j, column, inserted, R, write, from, to)
  BY RenameLeaves, Zenon
<1>5. m.name = meant[i].name /\ m.fields = gs
  BY <1>1
<1>6. [meant EXCEPT ![i].fields[j].name = to] = [meant EXCEPT ![i] = m]
  BY Zenon DEF With
<1>7. SourcesOf([meant EXCEPT ![i] = m]) = [src EXCEPT ![i] = Source(m)]
  BY <1>1, SourcesOfChanged
<1>8. CASE i # 1
  <2> HIDE DEF src, r, m, column, inserted, write, R
  <2>1. r[1].columns[column] = to
    BY <1>2, <1>4 DEF Leaves
  <2>2. [src EXCEPT ![i] = Source(m)][1] = src[1]
    BY <1>1, <1>3, <1>8
  <2>3. [src EXCEPT ![i] = Source(m)][1].columns[column] = from
    BY <1>2, <2>2
  <2>4. r # [src EXCEPT ![i] = Source(m)]
    BY <1>2, <2>1, <2>3
  <2>5. QED
    BY <1>6, <1>7, <2>4 DEF r, src
<1>9. CASE i = 1
  <2>1. PICK d \in DOMAIN fs : IdAt(fs, d)
    BY <1>1, HasId
  <2>2. from = IdField.name => j = d
    BY <2>1 DEF IdAt
  <2>3. ~Shadowed(i, from)
    BY <1>9 DEF Shadowed
  <2>4. \/ j = d
        \/ \E k \in 1..(j - 1) : IsSuffix(from, fs[k].name) \/ IsPrefix(from, fs[k].name)
    BY <2>2, <2>3, OverlappedIs
  <2>5. \A k \in DOMAIN fs : fs[k].name # to
    BY NamedFields
  <2>6. ~SameLists(fs, gs, from, to)
    <3> DEFINE x == fs
    <3>1. /\ IdAt(x, d) /\ NamesDiffer(x) /\ j \in DOMAIN x /\ from = x[j].name
          /\ \A k \in DOMAIN x : x[k].name # to
          /\ \/ j = d
             \/ \E k \in 1..(j - 1) : IsSuffix(from, x[k].name) \/ IsPrefix(from, x[k].name)
      BY <1>1, <2>1, <2>4, <2>5, Zenon
    <3>2. Retitled(g, x[j], to)
      BY <1>1, RetitledIs
    <3> HIDE DEF x, g
    <3>3. ~SameLists(x, With(x, j, g), from, to)
      BY <3>1, <3>2, ListsMistaken
    <3>4. QED
      BY <3>3, Zenon DEF x
  <2> HIDE DEF src, r, g, gs, m, column, inserted, write, R
  <2>7. [src EXCEPT ![i] = Source(m)][1] = Source(m)
    BY <1>1, <1>3, <1>9
  <2>8. ASSUME r = [src EXCEPT ![i] = Source(m)] PROVE FALSE
    <3>1. r[1] = Source(m)
      BY <2>7, <2>8
    <3>2. /\ r[1].columns = NameOf(gs) /\ r[1].inserted = NameOf(Sent(gs))
          /\ r[1].reads = ReadsOf(gs) /\ r[1].writes = WritesOf(Sent(gs))
      BY <1>5, <3>1, SourceParts
    <3>3. SameLists(fs, gs, from, to)
      BY <1>3, <1>4, <1>9, <3>2, Zenon
        DEF SameLists, Leaves, column, inserted, write, R
    <3>4. QED
      BY <2>6, <3>3
  <2>9. QED
    BY <1>6, <1>7, <2>8 DEF r, src
<1>10. QED
  BY <1>8, <1>9

-----------------------------------------------------------------------------
\* A change of a field's type, or of whether it may be null.

\* What ChangeIn looks for and leaves in from_row and in insert_values.
LineFor(reads, f) ==
    SelectInSeq(reads, LAMBDA l : IsSuffix(f.name, l.to) /\ l.by = Accessor(f) /\ l.from = f.name)
ByLine(reads, read, g) == [reads EXCEPT ![read].by = Accessor(g)]
WritesAfter(writes, f, g) ==
    IF Cloned(f) # Cloned(g) THEN With(writes, At(writes, WriteLine(f)), WriteLine(g)) ELSE writes

Changed(src, i, field, g, read, W) ==
    [src EXCEPT ![i].fields[field] = g, ![1].reads[read].by = Accessor(g), ![1].writes = W]

LEMMA ChangeFinds ==
    ASSUME NEW src, NEW name, NEW f, NEW g, ChangeIn(src, name, f, g) # Unpatched
    PROVE  /\ StructAt(src, name) # 0 /\ LineFor(src[1].reads, f) # 0
           /\ Cloned(f) # Cloned(g) => At(src[1].writes, WriteLine(f)) # 0
BY Zenon DEF ChangeIn, LineFor

LEMMA ChangeMakes ==
    ASSUME NEW src, NEW name, NEW f, NEW g, ChangeIn(src, name, f, g) # Unpatched,
           NEW i, StructAt(src, name) = i, NEW j, At(src[i].fields, f) = j
    PROVE  ChangeIn(src, name, f, g)
               = Changed(src, i, j, g, LineFor(src[1].reads, f), WritesAfter(src[1].writes, f, g))
BY Zenon DEF ChangeIn, LineFor, Changed, WritesAfter, With

ChangedBlock(b, field, g, read, W) ==
    [b EXCEPT !.fields = With(b.fields, field, g), !.reads = ByLine(b.reads, read, g),
              !.writes = W]

ChangeLeft(src, r, i, field, g, read, W) ==
    /\ r[1].reads = ByLine(src[1].reads, read, g) /\ r[1].writes = W
    /\ i = 1 => r = [src EXCEPT ![1] = ChangedBlock(src[1], field, g, read, W)]

LEMMA ChangePatches ==
    ASSUME NEW src, 1 \in DOMAIN src, DOMAIN src[1] = Parts,
           NEW i \in DOMAIN src, DOMAIN src[i] = Parts, NEW field, NEW g, NEW read, NEW W
    PROVE  ChangeLeft(src, Changed(src, i, field, g, read, W), i, field, g, read, W)
<1> DEFINE X == With(src[1].fields, field, g)
           R == ByLine(src[1].reads, read, g)
           a1 == [src EXCEPT ![i].fields[field] = g]
           a2 == [a1 EXCEPT ![1].reads[read].by = Accessor(g)]
           a3 == [a2 EXCEPT ![1].writes = W]
<1>1. /\ DOMAIN a1 = DOMAIN src /\ DOMAIN a1[1] = Parts
      /\ a1[1].reads = src[1].reads /\ a1[1].writes = src[1].writes
      /\ i = 1 => a1 = [src EXCEPT ![1] = [src[1] EXCEPT !.fields = X]]
  BY DEF Parts, With
<1> HIDE DEF a1, X
<1>2. /\ DOMAIN a2 = DOMAIN src /\ DOMAIN a2[1] = Parts
      /\ a2[1].reads = R /\ a2[1].writes = src[1].writes
      /\ a2 = [a1 EXCEPT ![1] = [a1[1] EXCEPT !.reads = R]]
  BY <1>1 DEF Parts, ByLine
<1> HIDE DEF a2, R
<1>3. /\ DOMAIN a3 = DOMAIN src /\ DOMAIN a3[1] = Parts
      /\ a3[1].reads = R /\ a3[1].writes = W
      /\ a3 = [a2 EXCEPT ![1] = [a2[1] EXCEPT !.writes = W]]
  BY <1>2 DEF Parts
<1> HIDE DEF a3
<1>4. ASSUME i = 1
      PROVE  a3 = [src EXCEPT ![1] = [src[1] EXCEPT !.fields = X, !.reads = R, !.writes = W]]
  <2> DEFINE b1 == [src[1] EXCEPT !.fields = X]
             b2 == [b1 EXCEPT !.reads = R]
             b3 == [b2 EXCEPT !.writes = W]
  <2> HIDE DEF b1, b2, b3
  <2>1. a1 = [src EXCEPT ![1] = b1]
    BY <1>1, <1>4 DEF b1
  <2>2. a2 = [src EXCEPT ![1] = b2]
    BY <1>2, <2>1 DEF b2
  <2>3. a3 = [src EXCEPT ![1] = b3]
    BY <1>3, <2>2 DEF b3
  <2>4. QED
    BY <2>3, Zenon DEF b1, b2, b3
<1> DEFINE r == Changed(src, i, field, g, read, W)
<1>5. r = a3
  BY Zenon DEF Changed, a1, a2, a3
<1> HIDE DEF r
<1>6. /\ r[1].reads = R /\ r[1].writes = W
      /\ i = 1 => r = [src EXCEPT ![1] = [src[1] EXCEPT !.fields = X, !.reads = R, !.writes = W]]
  BY <1>3, <1>4, <1>5, Zenon
<1>7. QED
  BY <1>6, Zenon DEF r, X, R, ChangeLeft, ChangedBlock

\* Fields whose names are the same.
LEMMA SourceChanges ==
    ASSUME NEW m, NEW g, g.name = m.name, NameOf(g.fields) = NameOf(m.fields),
           NameOf(Sent(g.fields)) = NameOf(Sent(m.fields))
    PROVE  [Source(m) EXCEPT !.fields = g.fields, !.reads = ReadsOf(g.fields),
                             !.writes = WritesOf(Sent(g.fields))] = Source(g)
<1> DEFINE b == Source(m)
           f == g.fields
           c == NameOf(f)
           n == NameOf(Sent(f))
           r == ReadsOf(f)
           w == WritesOf(Sent(f))
<1>1. b = [struct |-> m.name, impl |-> m.name, table |-> m.name,
           fields |-> m.fields, columns |-> c, inserted |-> n,
           reads |-> ReadsOf(m.fields), writes |-> WritesOf(Sent(m.fields))]
  BY Zenon DEF Source
<1> HIDE DEF b, f, c, n, r, w
<1> DEFINE e == [b EXCEPT !.fields = f, !.reads = r, !.writes = w]
<1>2. e \in [struct : {m.name}, impl : {m.name}, table : {m.name}, fields : {f}, columns : {c},
             inserted : {n}, reads : {r}, writes : {w}]
  BY <1>1
<1> HIDE DEF e
<1>3. e = [struct |-> m.name, impl |-> m.name, table |-> m.name, fields |-> f, columns |-> c,
           inserted |-> n, reads |-> r, writes |-> w]
  BY <1>2, BlockIs, Zenon
<1>4. Source(g) = [struct |-> m.name, impl |-> m.name, table |-> m.name, fields |-> f,
                   columns |-> c, inserted |-> n, reads |-> r, writes |-> w]
  BY Zenon DEF Source, f, c, n, r, w
<1>5. QED
  BY <1>3, <1>4 DEF b, e, f, c, n, r, w

\* The line of from_row that is found is the field's own.
LEMMA LineFound ==
    ASSUME NEW fs \in Seq(SourceFields), NEW f, LineFor(ReadsOf(fs), f) # 0
    PROVE  /\ LineFor(ReadsOf(fs), f) \in DOMAIN fs
           /\ fs[LineFor(ReadsOf(fs), f)].name = f.name
           /\ ReadsOf(fs)[LineFor(ReadsOf(fs), f)].by = Accessor(f)
<1> DEFINE rs == ReadsOf(fs)
           I == {k \in 1..Len(rs) : IsSuffix(f.name, rs[k].to) /\ rs[k].by = Accessor(f)
                                    /\ rs[k].from = f.name}
<1>1. Len(rs) \in Nat /\ Len(rs) = Len(fs) /\ DOMAIN fs = 1..Len(fs)
  <2>1. Len(fs) \in Nat /\ DOMAIN fs = 1..Len(fs)
    OBVIOUS
  <2>2. QED
    BY <2>1, LinesHave
<1>2. \A k \in 1..Len(fs) : rs[k].from = fs[k].name
  BY LinesHave
<1> HIDE DEF rs
<1>3. LineFor(rs, f) = First(I)
  BY DEF LineFor, SelectInSeq, First
<1>4. I \subseteq 1..Len(rs)
  OBVIOUS
<1>5. First(I) # 0 => First(I) \in I
  <2> HIDE DEF I
  <2>1. QED
    BY <1>1, <1>4, FirstIs
<1>6. First(I) \in I
  BY <1>3, <1>5 DEF rs
<1> DEFINE k == First(I)
<1>7. k \in 1..Len(rs) /\ rs[k].by = Accessor(f) /\ rs[k].from = f.name
  BY <1>6
<1> HIDE DEF k
<1>8. k \in DOMAIN fs /\ fs[k].name = f.name /\ rs[k].by = Accessor(f)
  BY <1>1, <1>2, <1>7
<1>9. QED
  BY <1>3, <1>8 DEF k, rs

LEMMA WithItself ==
    ASSUME NEW S, NEW s \in Seq(S), NEW j \in DOMAIN s, NEW x, s[j] = x
    PROVE  With(s, j, x) = s
BY DEF With

\* The lists as the change patches them are those of the changed fields.
SameAfter(fs, gs, f, g) ==
    /\ NameOf(gs) = NameOf(fs) /\ NameOf(Sent(gs)) = NameOf(Sent(fs))
    /\ ReadsOf(gs) = ByLine(ReadsOf(fs), LineFor(ReadsOf(fs), f), g)
    /\ WritesOf(Sent(gs)) = WritesAfter(WritesOf(Sent(fs)), f, g)

LEMMA ListsChanged ==
    ASSUME NEW fs, NEW d, IdAt(fs, d), NamesDiffer(fs), NEW j \in DOMAIN fs,
           NEW f, f = fs[j], NEW g \in SourceFields, g.name = f.name,
           LineFor(ReadsOf(fs), f) # 0,
           Cloned(f) # Cloned(g) => At(WritesOf(Sent(fs)), WriteLine(f)) # 0
    PROVE  SameAfter(fs, With(fs, j, g), f, g)
<1> DEFINE ss == Sent(fs)
           p == Into(j, d)
<1>1. /\ fs \in Seq(SourceFields) /\ d \in DOMAIN fs /\ DOMAIN fs = 1..Len(fs)
      /\ Len(fs) \in Nat /\ j \in 1..Len(fs)
      /\ \A k \in DOMAIN fs : fs[k].name = IdField.name <=> k = d
  BY DEF IdAt
<1>2. g.name = IdField.name <=> j = d
  BY <1>1
<1>3. /\ NameOf(fs) \in Seq(Seq(Words)) /\ j \in DOMAIN NameOf(fs) /\ NameOf(fs)[j] = g.name
  BY <1>1, ListTypes DEF NameOf
<1>4. NameOf(With(fs, j, g)) = NameOf(fs)
  <2>1. NameOf(With(fs, j, g)) = With(NameOf(fs), j, g.name)
    BY <1>1, Replacing
  <2>2. QED
    BY <1>3, <2>1, WithItself
<1>5. ReadsOf(With(fs, j, g)) = ByLine(ReadsOf(fs), LineFor(ReadsOf(fs), f), g)
  <2> DEFINE rs == ReadsOf(fs)
             k == LineFor(rs, f)
  <2>1. k \in DOMAIN fs /\ fs[k].name = f.name
    BY <1>1, LineFound
  <2>2. k = j
    BY <1>1, <2>1 DEF NamesDiffer
  <2>3. j \in DOMAIN rs /\ rs[j] = [to |-> f.name, by |-> Accessor(f), from |-> f.name]
    BY <1>1, LinesHave DEF ReadLine
  <2>4. ReadLine(g) = [to |-> f.name, by |-> Accessor(g), from |-> f.name]
    BY DEF ReadLine
  <2> HIDE DEF rs, k
  <2>5. [rs[j] EXCEPT !.by = Accessor(g)] = ReadLine(g)
    BY <2>3, <2>4
  <2>6. ByLine(rs, j, g) = With(rs, j, ReadLine(g))
    BY <2>3, <2>5 DEF ByLine, With
  <2>7. ReadsOf(With(fs, j, g)) = With(ReadsOf(fs), j, ReadLine(g))
    BY <1>1, Replacing
  <2>8. QED
    BY <2>2, <2>6, <2>7 DEF rs, k
<1>6. CASE j = d
  <2>1. Sent(With(fs, j, g)) = ss
    BY <1>2, <1>6, SentReplace
  <2>2. /\ DOMAIN ss = 1..(Len(fs) - 1) /\ ss \in Seq(SourceFields)
        /\ \A k \in 1..(Len(fs) - 1) : Over(k, d) \in DOMAIN fs /\ Over(k, d) # d
                                       /\ ss[k] = fs[Over(k, d)]
    BY SentHas
  <2>3. \A k \in DOMAIN ss : ss[k].name # f.name
    BY <1>1, <1>6, <2>2
  <2> HIDE DEF ss
  <2>4. /\ WritesOf(ss) \in Seq({WriteLine(h) : h \in SourceFields})
        /\ \A k \in DOMAIN WritesOf(ss) : WritesOf(ss)[k] # WriteLine(f)
    <3>1. /\ WritesOf(ss) \in Seq({WriteLine(h) : h \in SourceFields})
          /\ DOMAIN WritesOf(ss) = DOMAIN ss
      BY <2>2, ListTypes
    <3>2. \A k \in DOMAIN ss : WritesOf(ss)[k].of = ss[k].name
      BY DEF WritesOf, WriteLine
    <3>3. WriteLine(f).of = f.name
      BY DEF WriteLine
    <3>4. QED
      BY <2>3, <3>1, <3>2, <3>3
  <2>5. At(WritesOf(ss), WriteLine(f)) = 0
    BY <2>4, AtIs
  <2>6. Cloned(f) = Cloned(g)
    BY <2>5 DEF ss
  <2>7. QED
    BY <1>4, <1>5, <2>1, <2>6, Zenon DEF SameAfter, WritesAfter, ss
<1>7. CASE j # d
  <2>1. Sent(With(fs, j, g)) = With(ss, p, g)
    BY <1>2, <1>7, SentReplace
  <2>2. ss \in Seq(SourceFields) /\ p \in DOMAIN ss /\ ss[p] = f
    BY <1>7, SentHas
  <2>3. NamesDiffer(ss)
    BY SentDiffer
  <2> HIDE DEF ss, p
  <2>4. /\ NameOf(With(ss, p, g)) = With(NameOf(ss), p, g.name)
        /\ WritesOf(With(ss, p, g)) = With(WritesOf(ss), p, WriteLine(g))
    BY <2>2, Replacing
  <2>5. NameOf(ss) \in Seq(Seq(Words)) /\ p \in DOMAIN NameOf(ss) /\ NameOf(ss)[p] = g.name
    BY <2>2, ListTypes DEF NameOf
  <2>6. NameOf(With(ss, p, g)) = NameOf(ss)
    BY <2>4, <2>5, WithItself
  <2>7. /\ WritesOf(ss) \in Seq({WriteLine(h) : h \in SourceFields}) /\ p \in DOMAIN WritesOf(ss)
        /\ WritesOf(ss)[p] = WriteLine(f)
        /\ \A k \in DOMAIN WritesOf(ss) : WritesOf(ss)[k] = WriteLine(f) => k = p
    <3>1. /\ WritesOf(ss) \in Seq({WriteLine(h) : h \in SourceFields})
          /\ DOMAIN WritesOf(ss) = DOMAIN ss
      BY <2>2, ListTypes
    <3>2. \A k \in DOMAIN ss : WritesOf(ss)[k] = WriteLine(ss[k])
      BY DEF WritesOf
    <3>3. \A h \in {f} \cup SourceFields : WriteLine(h).of = h.name
      BY DEF WriteLine
    <3>4. \A k \in DOMAIN ss : ss[k] \in SourceFields
      BY <2>2
    <3>5. ASSUME NEW k \in DOMAIN ss, WritesOf(ss)[k] = WriteLine(f) PROVE k = p
      <4>1. ss[k].name = ss[p].name
        BY <2>2, <3>2, <3>3, <3>4, <3>5
      <4>2. QED
        BY <2>2, <2>3, <4>1 DEF NamesDiffer
    <3>6. QED
      BY <2>2, <3>1, <3>2, <3>5
  <2>8. WritesOf(With(ss, p, g)) = WritesAfter(WritesOf(ss), f, g)
    <3>1. CASE Cloned(f) # Cloned(g)
      <4> DEFINE ws == WritesOf(ss)
      <4>1. /\ ws \in Seq({WriteLine(h) : h \in SourceFields}) /\ p \in DOMAIN ws
            /\ \A k \in DOMAIN ws : ws[k] = ws[p] => k = p
        BY <2>7
      <4> HIDE DEF ws
      <4>2. At(ws, ws[p]) = p
        BY <4>1, AtFinds
      <4>3. QED
        BY <2>4, <2>7, <3>1, <4>2 DEF WritesAfter, ws
    <3>2. CASE Cloned(f) = Cloned(g)
      <4>1. WritesOf(ss)[p] = WriteLine(g)
        BY <2>7, <3>2 DEF WriteLine
      <4>2. With(WritesOf(ss), p, WriteLine(g)) = WritesOf(ss)
        BY <2>7, <4>1, WithItself
      <4>3. QED
        BY <2>4, <3>2, <4>2 DEF WritesAfter
    <3>3. QED
      BY <3>1, <3>2
  <2>9. QED
    BY <1>4, <1>5, <2>1, <2>6, <2>8, Zenon DEF SameAfter, ss
<1>8. QED
  BY <1>6, <1>7

\* A change that is patched finds the field in the first model of the file.
LEMMA ChangeSite ==
    ASSUME WellFormed(meant), NEW i \in DOMAIN meant, NEW j \in DOMAIN meant[i].fields,
           NEW src, src = SourcesOf(meant), NEW f, f = meant[i].fields[j], NEW g,
           NEW r, r = ChangeIn(src, meant[i].name, f, g), r # Unpatched,
           NEW read, read = LineFor(src[1].reads, f),
           NEW W, W = WritesAfter(src[1].writes, f, g)
    PROVE  /\ ChangeLeft(src, r, i, j, g, read, W)
           /\ Named(1, f.name) /\ read \in DOMAIN src[1].reads
           /\ src[1].reads[read].by = Accessor(f)
<1>1. StructAt(src, meant[i].name) = i
  <2>1. StructAt(src, meant[i].name) # 0
    BY ChangeFinds, Zenon
  <2>2. QED
    BY <2>1, StructFound
<1>2. /\ meant[i].fields \in Seq(SourceFields) /\ NamesDiffer(meant[i].fields)
      /\ 1 \in DOMAIN meant
  BY ModelType
<1>3. At(src[i].fields, f) = j
  <2> DEFINE x == meant[i].fields
  <2>1. src[i].fields = x
    BY FileHas
  <2>2. x \in Seq(SourceFields) /\ j \in DOMAIN x /\ x[j] = f
        /\ \A k \in DOMAIN x : x[k] = x[j] => k = j
    BY <1>2 DEF NamesDiffer
  <2> HIDE DEF x
  <2>3. At(x, x[j]) = j
    BY <2>2, AtFinds
  <2>4. QED
    BY <2>1, <2>2, <2>3
<1>4. 1 \in DOMAIN src /\ DOMAIN src[1] = Parts /\ i \in DOMAIN src /\ DOMAIN src[i] = Parts
  BY <1>2, FileHas
<1>5. r = Changed(src, i, j, g, read, W)
  BY <1>1, <1>3, ChangeMakes
<1>6. ChangeLeft(src, Changed(src, i, j, g, read, W), i, j, g, read, W)
  BY <1>4, ChangePatches, Zenon
<1>7. read # 0
  BY ChangeFinds, Zenon
<1> DEFINE fs == meant[1].fields
<1>8. fs \in Seq(SourceFields) /\ src[1].reads = ReadsOf(fs)
  BY <1>2, ModelType, FileHas
<1> HIDE DEF fs
<1>9. read \in DOMAIN fs /\ fs[read].name = f.name /\ ReadsOf(fs)[read].by = Accessor(f)
  BY <1>7, <1>8, LineFound
<1>10. Named(1, f.name)
  BY <1>2, <1>9, NamedFields DEF fs
<1>11. DOMAIN ReadsOf(fs) = DOMAIN fs
  BY <1>8, ListTypes
<1>12. QED
  BY <1>5, <1>6, <1>8, <1>9, <1>10, <1>11, Zenon

\* The field is changed in all its places, and nothing else.
LEMMA ChangedIn ==
    ASSUME WellFormed(meant), NEW i \in DOMAIN meant, NEW j \in DOMAIN meant[i].fields,
           NEW f, f = meant[i].fields[j], NEW g \in SourceFields, g.name = f.name,
           ChangeIn(SourcesOf(meant), meant[i].name, f, g) # Unpatched, ~Shadowed(i, f.name)
    PROVE  ChangeIn(SourcesOf(meant), meant[i].name, f, g)
               = SourcesOf([meant EXCEPT ![i].fields[j] = g])
<1> DEFINE src == SourcesOf(meant)
           fs == meant[i].fields
           r == ChangeIn(src, meant[i].name, f, g)
           gs == With(fs, j, g)
           m == [meant[i] EXCEPT !.fields = With(@, j, g)]
           read == LineFor(src[1].reads, f)
           W == WritesAfter(src[1].writes, f, g)
<1>1. /\ meant \in Seq(SourceModels) /\ meant[i] \in SourceModels /\ Declared(meant[i])
      /\ fs \in Seq(SourceFields) /\ NamesDiffer(fs)
      /\ DOMAIN meant = 1..Len(meant) /\ i \in 1..Len(meant)
  BY ModelType
<1>2. ChangeLeft(src, r, i, j, g, read, W) /\ Named(1, f.name)
  BY ChangeSite
<1>3. i = 1
  <2>1. i > 1 => Shadowed(i, f.name)
    BY <1>1, <1>2 DEF Shadowed
  <2>2. QED
    BY <1>1, <2>1
<1>4. /\ src[1] = Source(meant[i]) /\ src[1].fields = fs
      /\ src[1].reads = ReadsOf(fs) /\ src[1].writes = WritesOf(Sent(fs))
  BY <1>3, FileHas
<1>5. PICK d \in DOMAIN fs : IdAt(fs, d)
  BY <1>1, HasId
<1>6. m.name = meant[i].name /\ m.fields = gs
  BY <1>1
<1>7. [meant EXCEPT ![i].fields[j] = g] = [meant EXCEPT ![i] = m]
  BY Zenon DEF With
<1>8. LineFor(ReadsOf(fs), f) # 0
      /\ (Cloned(f) # Cloned(g) => At(WritesOf(Sent(fs)), WriteLine(f)) # 0)
  BY <1>4, ChangeFinds
<1>9. SameAfter(fs, gs, f, g)
  <2> DEFINE x == fs
  <2>1. /\ IdAt(x, d) /\ NamesDiffer(x) /\ j \in DOMAIN x /\ f = x[j]
        /\ LineFor(ReadsOf(x), f) # 0
        /\ Cloned(f) # Cloned(g) => At(WritesOf(Sent(x)), WriteLine(f)) # 0
    BY <1>1, <1>5, <1>8, Zenon
  <2> HIDE DEF x
  <2>2. SameAfter(x, With(x, j, g), f, g)
    BY <2>1, ListsChanged
  <2>3. QED
    BY <2>2, Zenon DEF x
<1> HIDE DEF src, r, gs, m, read, W
<1>10. /\ ReadsOf(gs) = ByLine(src[1].reads, read, g) /\ WritesOf(Sent(gs)) = W
       /\ NameOf(gs) = NameOf(fs) /\ NameOf(Sent(gs)) = NameOf(Sent(fs))
  BY <1>4, <1>9, Zenon DEF SameAfter, read, W
<1>11. ChangedBlock(src[1], j, g, read, W)
         = [Source(meant[i]) EXCEPT !.fields = m.fields, !.reads = ReadsOf(m.fields),
                                    !.writes = WritesOf(Sent(m.fields))]
  BY <1>4, <1>6, <1>10, Zenon DEF ChangedBlock, gs
<1>12. ChangedBlock(src[1], j, g, read, W) = Source(m)
  <2> DEFINE n == meant[i]
  <2>1. /\ m.name = n.name /\ NameOf(m.fields) = NameOf(n.fields)
        /\ NameOf(Sent(m.fields)) = NameOf(Sent(n.fields))
    BY <1>6, <1>10
  <2> HIDE DEF n
  <2>2. [Source(n) EXCEPT !.fields = m.fields, !.reads = ReadsOf(m.fields),
                          !.writes = WritesOf(Sent(m.fields))] = Source(m)
    BY <2>1, SourceChanges
  <2>3. QED
    BY <1>11, <2>2 DEF n
<1>13. r = [src EXCEPT ![1] = Source(m)]
  BY <1>2, <1>3, <1>12, Zenon DEF ChangeLeft
<1>14. SourcesOf([meant EXCEPT ![i] = m]) = [src EXCEPT ![i] = Source(m)]
  BY <1>1, SourcesOfChanged DEF src
<1>15. QED
  BY <1>3, <1>7, <1>13, <1>14 DEF r, src

\* A change of a field that the first model has too patches that one.
LEMMA ChangedWrong ==
    ASSUME WellFormed(meant), NEW i \in DOMAIN meant, NEW j \in DOMAIN meant[i].fields,
           NEW f, f = meant[i].fields[j], NEW g, Accessor(g) # Accessor(f),
           ChangeIn(SourcesOf(meant), meant[i].name, f, g) # Unpatched, Shadowed(i, f.name)
    PROVE  ChangeIn(SourcesOf(meant), meant[i].name, f, g)
               # SourcesOf([meant EXCEPT ![i].fields[j] = g])
<1> DEFINE src == SourcesOf(meant)
           r == ChangeIn(src, meant[i].name, f, g)
           m == [meant[i] EXCEPT !.fields = With(@, j, g)]
           read == LineFor(src[1].reads, f)
           W == WritesAfter(src[1].writes, f, g)
<1>1. /\ meant \in Seq(SourceModels) /\ DOMAIN meant = 1..Len(meant) /\ i \in 1..Len(meant)
      /\ 1 \in DOMAIN meant
  BY ModelType
<1>2. /\ ChangeLeft(src, r, i, j, g, read, W) /\ read \in DOMAIN src[1].reads
      /\ src[1].reads[read].by = Accessor(f)
  BY ChangeSite
<1>3. DOMAIN src = DOMAIN meant /\ src[1].reads = ReadsOf(meant[1].fields)
  BY <1>1, FileHas
<1>4. i # 1
  BY <1>1 DEF Shadowed
<1>5. [meant EXCEPT ![i].fields[j] = g] = [meant EXCEPT ![i] = m]
  BY Zenon DEF With
<1>6. SourcesOf([meant EXCEPT ![i] = m]) = [src EXCEPT ![i] = Source(m)]
  BY <1>1, SourcesOfChanged
<1>7. src[1].reads[read].by # Accessor(g) /\ read \in DOMAIN ReadsOf(meant[1].fields)
  BY <1>2, <1>3
<1>8. "by" \in DOMAIN src[1].reads[read]
  <2>1. meant[1].fields \in Seq(SourceFields)
    BY <1>1, ModelType
  <2>2. src[1].reads[read] = ReadLine(meant[1].fields[read])
    BY <1>3, <1>7, <2>1, ListTypes DEF ReadsOf
  <2>3. QED
    BY <2>2 DEF ReadLine
<1> HIDE DEF src, r, m, read, W
<1>9. r[1].reads[read].by = Accessor(g)
  BY <1>2, <1>8 DEF ChangeLeft, ByLine
<1>10. [src EXCEPT ![i] = Source(m)][1] = src[1]
  BY <1>1, <1>3, <1>4
<1>11. r # [src EXCEPT ![i] = Source(m)]
  BY <1>7, <1>9, <1>10
<1>12. QED
  BY <1>5, <1>6, <1>11 DEF r, src

-----------------------------------------------------------------------------
\* A rename of a struct.

\* The first struct and the first impl whose names begin with the old name are
\* at one place, at most the struct's own.
FirstNamed(src, from) == SelectInSeq(src, LAMBDA b : IsPrefix(from, b.struct))

LEMMA StructSite ==
    ASSUME WellFormed(meant), NEW i \in DOMAIN meant,
           NEW src, src = SourcesOf(meant), NEW from, from = meant[i].name
    PROVE  /\ FirstNamed(src, from) \in 1..i /\ FirstNamed(src, from) \in DOMAIN src
           /\ ImplAt(src, from) = FirstNamed(src, from)
           /\ (\E x \in 1..(i - 1) : IsPrefix(from, meant[x].name)) <=> FirstNamed(src, from) # i
<1> DEFINE I == {k \in 1..Len(src) : IsPrefix(from, src[k].struct)}
           J == {k \in 1..Len(src) : IsPrefix(from, src[k].impl)}
<1>1. /\ meant \in Seq(SourceModels) /\ Len(src) \in Nat /\ DOMAIN src = 1..Len(src)
      /\ DOMAIN src = DOMAIN meant /\ i \in 1..Len(src)
      /\ \A k \in 1..Len(src) : src[k].struct = meant[k].name /\ src[k].impl = meant[k].name
  BY SourcesHas, SourceParts DEF WellFormed
<1>2. IsPrefix(from, from)
  BY ModelType, WholeName
<1>3. /\ I = J /\ i \in I /\ I \subseteq 1..Len(src)
      /\ \A k \in 1..(i - 1) : IsPrefix(from, meant[k].name) <=> k \in I
  BY <1>1, <1>2
<1>4. ImplAt(src, from) = First(J)
  BY DEF ImplAt, SelectInSeq, First
<1>5. FirstNamed(src, from) = First(I)
  BY DEF FirstNamed, SelectInSeq, First
<1> HIDE DEF I, J
<1>6. First(I) \in I /\ \A k \in I : First(I) <= k
  BY <1>1, <1>3, FirstIs
<1>7. First(I) \in 1..i /\ First(I) \in 1..Len(src)
  BY <1>1, <1>3, <1>6
<1>8. (\E x \in 1..(i - 1) : IsPrefix(from, meant[x].name)) <=> First(I) # i
  BY <1>1, <1>3, <1>6, <1>7
<1>9. QED
  BY <1>1, <1>3, <1>4, <1>5, <1>7, <1>8

Titled(src, k, s, t, to) == [src EXCEPT ![k].struct = s, ![k].impl = t, ![k].table = to]

LEMMA StructMakes ==
    ASSUME NEW src, NEW from, NEW to, RenameStruct(src, from, to) # Unpatched,
           NEW k, FirstNamed(src, from) = k, ImplAt(src, from) = k
    PROVE  RenameStruct(src, from, to)
               = Titled(src, k, Beginning(src[k].struct, from, to),
                        Beginning(src[k].impl, from, to), to)
BY Zenon DEF RenameStruct, FirstNamed, Titled

Entitled(b, s, t, to) == [b EXCEPT !.struct = s, !.impl = t, !.table = to]

LEMMA TitledIs ==
    ASSUME NEW src, NEW k \in DOMAIN src, DOMAIN src[k] = Parts, NEW s, NEW t, NEW to
    PROVE  /\ Titled(src, k, s, t, to)
                = With(src, k, Entitled(src[k], s, t, to))
           /\ \A x \in DOMAIN src : x # k => Titled(src, k, s, t, to)[x] = src[x]
<1> DEFINE b == Entitled(src[k], s, t, to)
           a == Titled(src, k, s, t, to)
<1>1. /\ a = [x \in DOMAIN src |-> a[x]] /\ a[k] = b
      /\ \A x \in DOMAIN src : x # k => a[x] = src[x]
  BY DEF Titled, Entitled, Parts
<1> HIDE DEF a, b
<1>2. a = With(src, k, b)
  BY <1>1 DEF With
<1>3. QED
  BY <1>1, <1>2 DEF a, b

LEMMA SourceTitled ==
    ASSUME NEW m, NEW g, g.fields = m.fields
    PROVE  Entitled(Source(m), g.name, g.name, g.name) = Source(g)
<1> DEFINE b == Source(m)
           to == g.name
           f == g.fields
           c == NameOf(f)
           n == NameOf(Sent(f))
           r == ReadsOf(f)
           w == WritesOf(Sent(f))
<1>1. b = [struct |-> m.name, impl |-> m.name, table |-> m.name,
           fields |-> f, columns |-> c, inserted |-> n, reads |-> r, writes |-> w]
  BY Zenon DEF Source
<1> HIDE DEF b, to, f, c, n, r, w
<1> DEFINE e == Entitled(b, to, to, to)
<1>2. e \in [struct : {to}, impl : {to}, table : {to}, fields : {f}, columns : {c},
             inserted : {n}, reads : {r}, writes : {w}]
  BY <1>1 DEF Entitled
<1> HIDE DEF e
<1>3. e = [struct |-> to, impl |-> to, table |-> to, fields |-> f, columns |-> c,
           inserted |-> n, reads |-> r, writes |-> w]
  BY <1>2, BlockIs, Zenon
<1>4. Source(g) = [struct |-> to, impl |-> to, table |-> to, fields |-> f,
                   columns |-> c, inserted |-> n, reads |-> r, writes |-> w]
  BY Zenon DEF Source, to, f, c, n, r, w
<1>5. QED
  BY <1>3, <1>4 DEF b, e, to, f, c, n, r, w

\* The struct that is renamed is the one that was meant, exactly if no name
\* before it begins with its own.
LEMMA StructRenamed ==
    ASSUME WellFormed(meant), NEW i \in DOMAIN meant, NEW from, from = meant[i].name,
           NEW to \in Seq(Words), to # from,
           RenameStruct(SourcesOf(meant), from, to) # Unpatched
    PROVE  RenameStruct(SourcesOf(meant), from, to) = SourcesOf([meant EXCEPT ![i].name = to])
               <=> ~\E k \in 1..(i - 1) : IsPrefix(from, meant[k].name)
<1> DEFINE src == SourcesOf(meant)
           r == RenameStruct(src, from, to)
           m == [meant[i] EXCEPT !.name = to]
           k == FirstNamed(src, from)
<1>1. /\ meant \in Seq(SourceModels) /\ from \in Seq(Words) /\ i \in 1..Len(meant)
      /\ meant[i] = [name |-> meant[i].name, fields |-> meant[i].fields]
  BY ModelType
<1>2. /\ k \in 1..i /\ k \in DOMAIN src /\ ImplAt(src, from) = k
      /\ (\E x \in 1..(i - 1) : IsPrefix(from, meant[x].name)) <=> k # i
  BY StructSite
<1>3. r = Titled(src, k, Beginning(src[k].struct, from, to), Beginning(src[k].impl, from, to), to)
  BY <1>2, StructMakes, Zenon
<1>4. m.name = to /\ m.fields = meant[i].fields
  BY <1>1
<1>5. [meant EXCEPT ![i].name = to] = [meant EXCEPT ![i] = m]
  BY Zenon
<1>6. SourcesOf([meant EXCEPT ![i] = m]) = With(src, i, Source(m))
  BY <1>1, SourcesOfChanged DEF With
<1>7. /\ DOMAIN src = DOMAIN meant /\ src[i] = Source(meant[i]) /\ src[i].struct = from
      /\ src[i].impl = from /\ DOMAIN src[i] = Parts
  BY FileHas, SourceParts
<1>8. DOMAIN src[k] = Parts
  BY <1>2, <1>7, FileHas
<1> HIDE DEF src, r, m, k
<1>9. CASE k = i
  <2>1. Beginning(from, from, to) = to
    BY <1>1, WholeName
  <2>2. r = Titled(src, i, to, to, to)
    BY <1>3, <1>7, <1>9, <2>1
  <2>3. r = With(src, i, Entitled(src[i], to, to, to))
    <3>1. i \in DOMAIN src
      BY <1>7
    <3>2. Titled(src, i, to, to, to)
            = With(src, i, Entitled(src[i], to, to, to))
      BY <1>7, <3>1, TitledIs
    <3>3. QED
      BY <2>2, <3>2, Zenon
  <2>4. Entitled(src[i], to, to, to) = Source(m)
    <3> DEFINE n == meant[i]
    <3>1. m.fields = n.fields /\ src[i] = Source(n)
      BY <1>4, <1>7
    <3> HIDE DEF n
    <3>2. Entitled(Source(n), m.name, m.name, m.name) = Source(m)
      BY <3>1, SourceTitled
    <3>3. QED
      BY <1>4, <3>1, <3>2
  <2>5. r = With(src, i, Source(m))
    BY <2>3, <2>4
  <2>6. QED
    BY <1>2, <1>5, <1>6, <1>9, <2>5 DEF r, src
<1>10. CASE k # i
  <2>1. r[i] = src[i]
    <3> DEFINE s == Beginning(src[k].struct, from, to)
               t == Beginning(src[k].impl, from, to)
    <3> HIDE DEF s, t
    <3>1. \A x \in DOMAIN src : x # k => Titled(src, k, s, t, to)[x] = src[x]
      BY <1>2, <1>8, TitledIs
    <3>2. i \in DOMAIN src
      BY <1>7
    <3>3. QED
      BY <1>3, <1>10, <3>1, <3>2, Zenon DEF s, t
  <2>2. r[i].struct = from
    BY <1>7, <2>1
  <2>3. With(src, i, Source(m))[i].struct = to
    BY <1>4, <1>7, SourceParts DEF With
  <2>4. r # With(src, i, Source(m))
    BY <2>2, <2>3
  <2>5. QED
    BY <1>2, <1>5, <1>6, <1>10, <2>4 DEF r, src
<1>11. QED
  BY <1>9, <1>10

-----------------------------------------------------------------------------
\* What a step leaves of the file.

\* The source says what is meant.
Says ==
    /\ work.models = SourcesOf(meant) /\ (HasTimes(meant) => work.chrono)
    /\ work.admin = StructsOf(work.models)

\* As long as no step was mistaken; and then the admin as patched does not have
\* fewer names than on the disk.
FileInv ==
    /\ DOMAIN work = {"models", "chrono", "admin"} /\ work.chrono \in BOOLEAN
    /\ mistaken \in BOOLEAN
    /\ mistaken => ~Says
    /\ ~mistaken => /\ WellFormed(meant) /\ Says
                    /\ work.admin \subseteq disk.admin => work.admin = disk.admin

LEMMA FileInvMeans == FileInv => SourceIsMeant
BY DEF FileInv, Says, SourceIsMeant

LEMMA StructsAre ==
    ASSUME NEW models, WellFormed(models)
    PROVE  StructsOf(SourcesOf(models)) = {models[i].name : i \in DOMAIN models}
<1>1. /\ DOMAIN SourcesOf(models) = DOMAIN models
      /\ \A i \in DOMAIN models : SourcesOf(models)[i].struct = models[i].name
  BY SourcesHas, SourceParts DEF WellFormed
<1>2. QED
  BY <1>1 DEF StructsOf

HasTime(fs) == \E j \in DOMAIN fs : fs[j].ty = "DateTime"

LEMMA TimesAre ==
    ASSUME NEW models
    PROVE  HasTimes(models) <=> \E i \in DOMAIN models : HasTime(models[i].fields)
BY DEF HasTimes, HasTime

\* Another model in place of one.
LEMMA ModelChanged ==
    ASSUME WellFormed(meant), NEW i \in DOMAIN meant, NEW m \in SourceModels, Declared(m),
           \A k \in DOMAIN meant : meant[k].name = m.name => k = i
    PROVE  WellFormed(With(meant, i, m))
<1> DEFINE w == With(meant, i, m)
<1>1. /\ meant \in Seq(SourceModels)
      /\ \A k, n \in DOMAIN meant : meant[k].name = meant[n].name => k = n
      /\ \A k \in DOMAIN meant : Declared(meant[k])
  BY DEF WellFormed
<1>2. w \in Seq(SourceModels)
  BY <1>1, ExceptSeq DEF With
<1>3. DOMAIN w = DOMAIN meant /\ \A k \in DOMAIN meant : w[k] = IF k = i THEN m ELSE meant[k]
  BY DEF With
<1> HIDE DEF w
<1>4. \A k, n \in DOMAIN w : w[k].name = w[n].name => k = n
  BY <1>1, <1>3
<1>5. \A k \in DOMAIN w : Declared(w[k])
  BY <1>1, <1>3
<1>6. QED
  BY <1>2, <1>4, <1>5 DEF WellFormed, w

LEMMA ModelKept ==
    ASSUME WellFormed(meant), NEW i \in DOMAIN meant, NEW m \in SourceModels, Declared(m),
           m.name = meant[i].name,
           NEW times \in BOOLEAN, HasTime(m.fields) => HasTime(meant[i].fields) \/ times
    PROVE  /\ WellFormed(With(meant, i, m))
           /\ HasTimes(With(meant, i, m)) => HasTimes(meant) \/ times
           /\ StructsOf(SourcesOf(With(meant, i, m))) = StructsOf(SourcesOf(meant))
<1> DEFINE w == With(meant, i, m)
<1>1. \A k \in DOMAIN meant : meant[k].name = m.name => k = i
  BY DEF WellFormed
<1>2. WellFormed(w)
  BY <1>1, ModelChanged
<1>3. DOMAIN w = DOMAIN meant /\ \A k \in DOMAIN meant : w[k] = IF k = i THEN m ELSE meant[k]
  BY DEF With
<1> HIDE DEF w
<1>4. HasTimes(w) => HasTimes(meant) \/ times
  <2>1. ASSUME NEW k \in DOMAIN w, HasTime(w[k].fields) PROVE HasTimes(meant) \/ times
    BY <1>3, <2>1, TimesAre
  <2>2. QED
    BY <2>1, TimesAre
<1>5. \A k \in DOMAIN meant : w[k].name = meant[k].name
  BY <1>3
<1>6. {w[k].name : k \in DOMAIN w} = {meant[k].name : k \in DOMAIN meant}
  BY <1>3, <1>5
<1>7. StructsOf(SourcesOf(w)) = StructsOf(SourcesOf(meant))
  BY <1>2, <1>6, StructsAre
<1>8. QED
  BY <1>2, <1>4, <1>7 DEF w

\* A step that patches what it means, in a model of the same name.
LEMMA PatchedRight ==
    ASSUME FileInv, ~mistaken, NEW i \in DOMAIN meant, NEW m \in SourceModels, Declared(m),
           m.name = meant[i].name,
           NEW times \in BOOLEAN, HasTime(m.fields) => HasTime(meant[i].fields) \/ times,
           NEW src, src = SourcesOf(With(meant, i, m)),
           Patched(src, With(meant, i, m), times), mistaken' = FALSE
    PROVE  FileInv'
<1> DEFINE w == With(meant, i, m)
<1>1. WellFormed(meant) /\ Says /\ DOMAIN work = {"models", "chrono", "admin"}
      /\ work.chrono \in BOOLEAN /\ (work.admin \subseteq disk.admin => work.admin = disk.admin)
  BY DEF FileInv
<1>2. /\ WellFormed(w) /\ (HasTimes(w) => HasTimes(meant) \/ times)
      /\ StructsOf(SourcesOf(w)) = StructsOf(SourcesOf(meant))
  BY <1>1, ModelKept, Zenon
<1> HIDE DEF w
<1>3. /\ meant' = w /\ work' = [work EXCEPT !.models = src, !.chrono = work.chrono \/ times]
      /\ disk' = disk
  BY DEF Patched, w
<1>4. /\ DOMAIN work' = {"models", "chrono", "admin"} /\ work'.models = src
      /\ work'.admin = work.admin /\ work'.chrono = (work.chrono \/ times)
  BY <1>1, <1>3
<1>5. work'.models = SourcesOf(w)
  BY <1>4 DEF w
<1>6. HasTimes(w) => work'.chrono
  BY <1>1, <1>2, <1>4 DEF Says
<1>7. work'.admin = StructsOf(work'.models)
  BY <1>1, <1>2, <1>4, <1>5 DEF Says
<1>8. Says'
  BY <1>3, <1>5, <1>6, <1>7, Zenon DEF Says
<1>9. WellFormed(meant)'
  BY <1>2, <1>3, Zenon
<1>10. QED
  BY <1>1, <1>3, <1>4, <1>8, <1>9 DEF FileInv

\* A step that patches something else is mistaken.
LEMMA PatchedWrong ==
    ASSUME FileInv, NEW src, NEW wanted, NEW times \in BOOLEAN, Patched(src, wanted, times),
           src # SourcesOf(wanted), mistaken' = TRUE
    PROVE  FileInv'
<1>1. DOMAIN work = {"models", "chrono", "admin"} /\ work.chrono \in BOOLEAN
  BY DEF FileInv
<1>2. meant' = wanted /\ work' = [work EXCEPT !.models = src, !.chrono = work.chrono \/ times]
  BY DEF Patched
<1>3. /\ DOMAIN work' = {"models", "chrono", "admin"} /\ work'.models = src
      /\ work'.chrono = (work.chrono \/ times)
  BY <1>1, <1>2
<1>4. work'.models # SourcesOf(wanted)
  BY <1>3
<1>5. ~Says'
  BY <1>2, <1>4, Zenon DEF Says
<1>6. QED
  BY <1>1, <1>3, <1>5 DEF FileInv

\* Before a step.
LEMMA BeforeStep ==
    ASSUME FileInv, MorePatches
    PROVE  /\ ~mistaken /\ WellFormed(meant) /\ Says /\ work.models = SourcesOf(meant)
BY DEF FileInv, MorePatches, Says

LEMMA FieldAdded ==
    ASSUME FileInv, NEW i \in DOMAIN meant, NEW f \in SourceFields, PatchAddField(i, f)
    PROVE  FileInv'
<1> DEFINE m == [meant[i] EXCEPT !.fields = Append(@, f)]
           fs == meant[i].fields
           times == f.ty = "DateTime"
<1>1. ~mistaken /\ WellFormed(meant) /\ work.models = SourcesOf(meant)
  BY BeforeStep DEF PatchAddField
<1>2. /\ meant[i] = [name |-> meant[i].name, fields |-> fs] /\ fs \in Seq(SourceFields)
      /\ meant[i].name \in Seq(Words) /\ Declared(meant[i])
  BY <1>1, ModelType
<1>3. \A k \in DOMAIN fs : fs[k].name # f.name
  BY NamedFields DEF PatchAddField
<1>4. m.name = meant[i].name /\ m.fields = Append(fs, f)
  BY <1>2
<1>5. m \in SourceModels
  BY <1>2 DEF SourceModels
<1>6. /\ DOMAIN Append(fs, f) = 1..(Len(fs) + 1) /\ DOMAIN fs = 1..Len(fs) /\ Len(fs) \in Nat
      /\ \A k \in 1..(Len(fs) + 1) : Append(fs, f)[k] = IF k <= Len(fs) THEN fs[k] ELSE f
  BY <1>2
<1>7. Declared(m)
  <2>1. \A j, k \in DOMAIN fs : fs[j].name = fs[k].name => j = k
    BY <1>2 DEF Declared
  <2>2. \A j, k \in DOMAIN m.fields : m.fields[j].name = m.fields[k].name => j = k
    BY <1>3, <1>4, <1>6, <2>1
  <2>3. \E k \in DOMAIN m.fields : m.fields[k].name = IdField.name
    <3>1. PICK k \in DOMAIN fs : fs[k].name = IdField.name
      BY <1>2 DEF Declared
    <3>2. k \in DOMAIN m.fields /\ m.fields[k] = fs[k]
      BY <1>4, <1>6
    <3>3. QED
      BY <3>1, <3>2
  <2>4. QED
    BY <2>2, <2>3 DEF Declared
<1>8. HasTime(m.fields) => HasTime(fs) \/ times
  BY <1>4, <1>6 DEF HasTime
<1>9. /\ Patched(AddTo(work.models, meant[i].name, f),
                 [meant EXCEPT ![i].fields = Append(@, f)], times)
      /\ mistaken' = FALSE
  BY <1>1 DEF PatchAddField, FileInv
<1>10. [meant EXCEPT ![i].fields = Append(@, f)] = With(meant, i, m)
  BY Zenon DEF With
<1>11. AddTo(SourcesOf(meant), meant[i].name, f) # Unpatched
  BY <1>1, <1>9 DEF Patched
<1>12. AddTo(SourcesOf(meant), meant[i].name, f)
           = SourcesOf([meant EXCEPT ![i].fields = Append(@, f)])
  BY <1>1, <1>3, <1>11, AddedTo, ZenonT(40)
<1> DEFINE src == AddTo(SourcesOf(meant), meant[i].name, f)
<1>13. src = SourcesOf(With(meant, i, m)) /\ Patched(src, With(meant, i, m), times)
  BY <1>1, <1>9, <1>10, <1>12, Zenon
<1>14. times \in BOOLEAN
  OBVIOUS
<1> HIDE DEF m, times, src
<1>15. QED
  BY <1>1, <1>4, <1>5, <1>7, <1>8, <1>9, <1>13, <1>14, PatchedRight

LEMMA FieldRemoved ==
    ASSUME FileInv, NEW i \in DOMAIN meant, NEW j \in DOMAIN meant[i].fields,
           PatchRemoveField(i, j)
    PROVE  FileInv'
<1> DEFINE fs == meant[i].fields
           f == fs[j]
           m == [meant[i] EXCEPT !.fields = RemoveFirst(@, f)]
<1>1. ~mistaken /\ WellFormed(meant) /\ work.models = SourcesOf(meant) /\ f.name # IdField.name
  BY BeforeStep DEF PatchRemoveField
<1>2. /\ meant[i] = [name |-> meant[i].name, fields |-> fs] /\ fs \in Seq(SourceFields)
      /\ meant[i].name \in Seq(Words) /\ Declared(meant[i])
  BY <1>1, ModelType
<1>3. /\ Patched(RemoveFrom(work.models, meant[i].name, f),
                 [meant EXCEPT ![i].fields = RemoveFirst(@, f)], FALSE)
      /\ mistaken' = FALSE
  BY <1>1 DEF PatchRemoveField, FileInv
<1>4. RemoveFrom(SourcesOf(meant), meant[i].name, f) # Unpatched
  BY <1>1, <1>3 DEF Patched
<1>5. /\ RemoveFrom(SourcesOf(meant), meant[i].name, f)
            = SourcesOf([meant EXCEPT ![i].fields = RemoveFirst(@, f)])
      /\ RemoveFirst(fs, f) = RemoveAt(fs, j)
  BY <1>1, <1>4, RemovedFrom, Zenon
<1>6. m.name = meant[i].name /\ m.fields = RemoveAt(fs, j)
  BY <1>2, <1>5
<1>7. /\ RemoveAt(fs, j) \in Seq(SourceFields) /\ Len(RemoveAt(fs, j)) = Len(fs) - 1
      /\ RemoveAt(fs, j) = [k \in 1..(Len(fs) - 1) |-> fs[Over(k, j)]]
      /\ DOMAIN fs = 1..Len(fs) /\ Len(fs) \in Nat /\ j \in 1..Len(fs)
  BY <1>2, Removing, RemoveAtIs, FieldType
<1> DEFINE gs == RemoveAt(fs, j)
<1> HIDE DEF gs
<1>8. /\ gs \in Seq(SourceFields) /\ DOMAIN gs = 1..(Len(fs) - 1)
      /\ \A k \in 1..(Len(fs) - 1) : Over(k, j) \in DOMAIN fs /\ gs[k] = fs[Over(k, j)]
      /\ \A k, n \in 1..(Len(fs) - 1) : Over(k, j) = Over(n, j) => k = n
      /\ \A k \in DOMAIN fs : k # j => Into(k, j) \in 1..(Len(fs) - 1) /\ Over(Into(k, j), j) = k
  BY <1>7 DEF gs, Over, Into
<1>9. m \in SourceModels /\ m.fields = gs
  BY <1>2, <1>6, <1>8 DEF SourceModels, gs
<1>10. Declared(m)
  <2>1. \A k, n \in DOMAIN fs : fs[k].name = fs[n].name => k = n
    BY <1>2 DEF Declared
  <2>2. \A k, n \in DOMAIN gs : gs[k].name = gs[n].name => k = n
    BY <1>8, <2>1
  <2>3. \E k \in DOMAIN gs : gs[k].name = IdField.name
    <3>1. PICK k \in DOMAIN fs : fs[k].name = IdField.name
      BY <1>2 DEF Declared
    <3>2. k # j
      BY <1>1, <3>1
    <3>3. Into(k, j) \in DOMAIN gs /\ gs[Into(k, j)] = fs[k]
      BY <1>8, <3>2
    <3>4. QED
      BY <3>1, <3>3
  <2>4. QED
    BY <1>9, <2>2, <2>3 DEF Declared
<1>11. HasTime(m.fields) => HasTime(fs) \/ FALSE
  BY <1>8, <1>9 DEF HasTime
<1>12. [meant EXCEPT ![i].fields = RemoveFirst(@, f)] = With(meant, i, m)
  BY Zenon DEF With
<1> DEFINE src == RemoveFrom(SourcesOf(meant), meant[i].name, f)
<1>13. src = SourcesOf(With(meant, i, m)) /\ Patched(src, With(meant, i, m), FALSE)
  BY <1>1, <1>3, <1>5, <1>12, Zenon
<1> HIDE DEF m, src
<1>14. QED
  BY <1>1, <1>3, <1>6, <1>9, <1>10, <1>11, <1>13, PatchedRight

\* Another field in place of one.
LEMMA FieldReplaced ==
    ASSUME WellFormed(meant), NEW i \in DOMAIN meant, NEW j \in DOMAIN meant[i].fields,
           NEW g \in SourceFields, NEW m, m = [meant[i] EXCEPT !.fields = With(@, j, g)],
           \A k \in DOMAIN meant[i].fields : meant[i].fields[k].name = g.name => k = j,
           g.name = IdField.name <=> meant[i].fields[j].name = IdField.name
    PROVE  /\ m \in SourceModels /\ Declared(m) /\ m.name = meant[i].name
           /\ HasTime(m.fields) => \/ HasTime(meant[i].fields)
                                  \/ (g.ty = "DateTime" /\ meant[i].fields[j].ty # "DateTime")
<1> DEFINE fs == meant[i].fields
           gs == With(fs, j, g)
<1>1. /\ meant[i] = [name |-> meant[i].name, fields |-> fs] /\ fs \in Seq(SourceFields)
      /\ meant[i].name \in Seq(Words) /\ Declared(meant[i])
  BY ModelType
<1>2. m.name = meant[i].name /\ m.fields = gs /\ m = [name |-> meant[i].name, fields |-> gs]
  BY <1>1
<1>3. gs \in Seq(SourceFields)
  BY <1>1, Replacing
<1>4. DOMAIN gs = DOMAIN fs /\ \A k \in DOMAIN fs : gs[k] = IF k = j THEN g ELSE fs[k]
  BY DEF With
<1> HIDE DEF gs
<1>5. m \in SourceModels
  BY <1>1, <1>2, <1>3 DEF SourceModels
<1>6. \A k, n \in DOMAIN fs : fs[k].name = fs[n].name => k = n
  BY <1>1 DEF Declared
<1>7. \A k, n \in DOMAIN gs : gs[k].name = gs[n].name => k = n
  BY <1>4, <1>6
<1>8. \E k \in DOMAIN gs : gs[k].name = IdField.name
  <2>1. PICK k \in DOMAIN fs : fs[k].name = IdField.name
    BY <1>1 DEF Declared
  <2>2. gs[k].name = IdField.name
    BY <1>4, <2>1
  <2>3. QED
    BY <1>4, <2>2
<1>9. Declared(m)
  BY <1>2, <1>7, <1>8 DEF Declared
<1>10. ASSUME HasTime(m.fields), ~HasTime(fs) PROVE g.ty = "DateTime" /\ fs[j].ty # "DateTime"
  <2>1. PICK k \in DOMAIN gs : gs[k].ty = "DateTime"
    BY <1>2, <1>10 DEF HasTime
  <2>2. \A n \in DOMAIN fs : fs[n].ty # "DateTime"
    BY <1>10 DEF HasTime
  <2>3. k = j
    BY <1>4, <2>1, <2>2
  <2>4. QED
    BY <1>4, <2>1, <2>2, <2>3
<1>11. HasTime(m.fields) => HasTime(fs) \/ (g.ty = "DateTime" /\ fs[j].ty # "DateTime")
  BY <1>10, Zenon
<1>12. QED
  BY <1>2, <1>5, <1>9, <1>11, Zenon

LEMMA FieldRenamed ==
    ASSUME FileInv, NEW i \in DOMAIN meant, NEW j \in DOMAIN meant[i].fields,
           NEW to \in Seq(Words), PatchRenameField(i, j, to)
    PROVE  FileInv'
<1> DEFINE fs == meant[i].fields
           f == fs[j]
           from == f.name
           g == [f EXCEPT !.name = to]
           m == [meant[i] EXCEPT !.fields = With(@, j, g)]
           src == RenameIn(SourcesOf(meant), meant[i].name, from, to)
           wanted == [meant EXCEPT ![i].fields[j].name = to]
           wrong == Shadowed(i, from) \/ Overlapped(i, from) \/ from = IdField.name
<1>1. ~mistaken /\ WellFormed(meant) /\ work.models = SourcesOf(meant) /\ ~Named(i, to)
  BY BeforeStep DEF PatchRenameField
<1>2. Patched(src, wanted, FALSE) /\ mistaken' = wrong
  BY <1>1 DEF PatchRenameField
<1>3. src # Unpatched
  BY <1>2 DEF Patched
<1>4. CASE wrong
  <2>1. src # SourcesOf(wanted)
    BY <1>1, <1>3, <1>4, RenamedWrong, Zenon
  <2> HIDE DEF src, wanted, wrong
  <2>2. FALSE \in BOOLEAN /\ mistaken' = TRUE
    BY <1>2, <1>4
  <2>3. QED
    BY <1>2, <2>1, <2>2, PatchedWrong, Zenon
<1>5. CASE ~wrong
  <2>1. src = SourcesOf(wanted)
    BY <1>1, <1>3, <1>5, RenamedIn, Zenon
  <2>2. /\ fs \in Seq(SourceFields) /\ f \in SourceFields /\ Declared(meant[i])
        /\ \A k \in DOMAIN fs : fs[k].name # to
    BY <1>1, ModelType, FieldType, NamedFields
  <2>3. g \in SourceFields /\ g.name = to /\ g.ty = f.ty
    BY <2>2 DEF SourceFields
  <2>4. from # IdField.name /\ to # IdField.name
    BY <1>5, <2>2 DEF Declared
  <2>5. wanted = With(meant, i, m)
    BY Zenon DEF With
  <2>6. /\ \A k \in DOMAIN fs : fs[k].name = g.name => k = j
        /\ g.name = IdField.name <=> from = IdField.name
    BY <2>2, <2>3, <2>4
  <2>7. FALSE \in BOOLEAN /\ mistaken' = FALSE
    BY <1>2, <1>5
  <2> HIDE DEF g
  <2>8. /\ m \in SourceModels /\ Declared(m) /\ m.name = meant[i].name
        /\ HasTime(m.fields) => HasTime(fs) \/ (g.ty = "DateTime" /\ f.ty # "DateTime")
    BY <1>1, <2>3, <2>6, FieldReplaced, Zenon
  <2>9. src = SourcesOf(With(meant, i, m)) /\ Patched(src, With(meant, i, m), FALSE)
    BY <1>2, <2>1, <2>5, Zenon
  <2> HIDE DEF m, src
  <2>10. HasTime(m.fields) => HasTime(fs) \/ FALSE
    BY <2>3, <2>8
  <2>11. QED
    BY <1>1, <2>7, <2>8, <2>9, <2>10, PatchedRight, Zenon
<1>6. QED
  BY <1>4, <1>5

LEMMA FieldChanged ==
    ASSUME FileInv, NEW i \in DOMAIN meant, NEW j \in DOMAIN meant[i].fields,
           NEW g \in SourceFields, PatchChangeField(i, j, g)
    PROVE  FileInv'
<1> DEFINE fs == meant[i].fields
           f == fs[j]
           m == [meant[i] EXCEPT !.fields = With(@, j, g)]
           src == ChangeIn(SourcesOf(meant), meant[i].name, f, g)
           wanted == [meant EXCEPT ![i].fields[j] = g]
           times == g.ty = "DateTime" /\ f.ty # "DateTime"
<1>1. /\ ~mistaken /\ WellFormed(meant) /\ work.models = SourcesOf(meant) /\ g.name = f.name
      /\ g.null # f.null \/ g.ty # f.ty
  BY BeforeStep DEF PatchChangeField
<1>2. Patched(src, wanted, times) /\ mistaken' = Shadowed(i, f.name)
  BY <1>1 DEF PatchChangeField
<1>3. src # Unpatched /\ times \in BOOLEAN
  BY <1>2 DEF Patched
<1>4. CASE Shadowed(i, f.name)
  <2>1. Accessor(g) # Accessor(f)
    BY <1>1 DEF Accessor
  <2>2. src # SourcesOf(wanted)
    BY <1>1, <1>3, <1>4, <2>1, ChangedWrong, Zenon
  <2>3. mistaken' = TRUE
    BY <1>2, <1>4 DEF Shadowed
  <2> HIDE DEF src, wanted, times
  <2>4. QED
    BY <1>2, <1>3, <2>2, <2>3, PatchedWrong, Zenon
<1>5. CASE ~Shadowed(i, f.name)
  <2>1. src = SourcesOf(wanted)
    BY <1>1, <1>3, <1>5, ChangedIn, Zenon
  <2>2. \A k \in DOMAIN fs : fs[k].name = g.name => k = j
    BY <1>1, ModelType DEF Declared
  <2>3. g.name = IdField.name <=> f.name = IdField.name
    BY <1>1
  <2>4. wanted = With(meant, i, m)
    BY Zenon DEF With
  <2>5. mistaken' = FALSE
    BY <1>2, <1>5 DEF Shadowed
  <2>6. /\ m \in SourceModels /\ Declared(m) /\ m.name = meant[i].name
        /\ HasTime(m.fields) => HasTime(fs) \/ (g.ty = "DateTime" /\ f.ty # "DateTime")
    BY <1>1, <2>2, <2>3, FieldReplaced, Zenon
  <2>7. src = SourcesOf(With(meant, i, m)) /\ Patched(src, With(meant, i, m), times)
    BY <1>2, <2>1, <2>4, Zenon
  <2>8. HasTime(m.fields) => HasTime(fs) \/ times
    BY <2>6
  <2> HIDE DEF m, src, times
  <2>9. QED
    BY <1>1, <1>3, <2>5, <2>6, <2>7, <2>8, PatchedRight, Zenon
<1>6. QED
  BY <1>4, <1>5

LEMMA StructRetitled ==
    ASSUME FileInv, NEW i \in DOMAIN meant, NEW to \in Seq(Words), PatchRenameModel(i, to)
    PROVE  FileInv'
<1> DEFINE from == meant[i].name
           structs == StructsOf(SourcesOf(meant))
           m == [meant[i] EXCEPT !.name = to]
           w == With(meant, i, m)
           src == RenameStruct(SourcesOf(meant), from, to)
           names == Registered(disk.admin, from, to)
           earlier == \E k \in 1..(i - 1) : IsPrefix(from, meant[k].name)
<1>1. /\ ~mistaken /\ WellFormed(meant) /\ Says /\ work.models = SourcesOf(meant)
      /\ work.admin = structs /\ (HasTimes(meant) => work.chrono)
  BY BeforeStep DEF PatchRenameModel, Says
<1>2. /\ DOMAIN work = {"models", "chrono", "admin"} /\ work.chrono \in BOOLEAN
      /\ work.admin \subseteq disk.admin => work.admin = disk.admin
  BY <1>1 DEF FileInv
<1>3. to \notin structs /\ from \in disk.admin /\ src # Unpatched
  BY <1>1 DEF PatchRenameModel
<1>4. /\ work' = [work EXCEPT !.models = src, !.admin = names]
      /\ mistaken' = (work.admin # disk.admin \/ earlier)
  BY <1>1, Zenon DEF PatchRenameModel
<1>5. meant' = w
  <2>1. meant' = [meant EXCEPT ![i].name = to]
    BY Zenon DEF PatchRenameModel
  <2>2. [meant EXCEPT ![i].name = to] = w
    BY Zenon DEF With
  <2>3. QED
    BY <2>1, <2>2, Zenon
<1>6. structs = {meant[k].name : k \in DOMAIN meant}
  BY <1>1, StructsAre, Zenon
<1>7. to # from /\ from \in structs
  BY <1>3, <1>6
<1>8. /\ meant[i] = [name |-> from, fields |-> meant[i].fields] /\ Declared(meant[i])
      /\ meant[i].fields \in Seq(SourceFields)
  BY <1>1, ModelType
<1>9. m.name = to /\ m.fields = meant[i].fields /\ m \in SourceModels /\ Declared(m)
  BY <1>8 DEF SourceModels, Declared
<1>10. \A k \in DOMAIN meant : meant[k].name = m.name => k = i
  BY <1>3, <1>6, <1>9
<1>11. \A k, n \in DOMAIN meant : meant[k].name = meant[n].name => k = n
  BY <1>1 DEF WellFormed
<1>12. src = SourcesOf(w) <=> ~earlier
  <2>1. src = SourcesOf([meant EXCEPT ![i].name = to]) <=> ~earlier
    BY <1>1, <1>3, <1>7, StructRenamed, Zenon
  <2>2. [meant EXCEPT ![i].name = to] = w
    BY Zenon DEF With
  <2> HIDE DEF w, src, earlier
  <2>3. QED
    BY <2>1, <2>2
<1> HIDE DEF m
<1>13. WellFormed(w)
  BY <1>1, <1>9, <1>10, ModelChanged, Zenon
<1>14. DOMAIN w = DOMAIN meant /\ \A k \in DOMAIN meant : w[k] = IF k = i THEN m ELSE meant[k]
  BY DEF With
<1> HIDE DEF w
<1>15. HasTimes(w) => HasTimes(meant)
  <2>1. \A k \in DOMAIN meant : w[k].fields = meant[k].fields
    BY <1>9, <1>14
  <2>2. QED
    BY <1>14, <2>1 DEF HasTimes
<1>16. StructsOf(SourcesOf(w)) = (structs \ {from}) \cup {to}
  <2>1. StructsOf(SourcesOf(w)) = {w[k].name : k \in DOMAIN w}
    BY <1>13, StructsAre, Zenon
  <2>2. \A k \in DOMAIN meant : w[k].name = IF k = i THEN to ELSE meant[k].name
    BY <1>9, <1>14
  <2>3. {w[k].name : k \in DOMAIN w} = (structs \ {from}) \cup {to}
    BY <1>6, <1>11, <1>14, <2>2
  <2>4. QED
    BY <2>1, <2>3
<1>17. names = (disk.admin \ {from}) \cup {to}
  BY DEF Registered
<1> HIDE DEF src, structs, names, earlier
<1>18. /\ DOMAIN work' = {"models", "chrono", "admin"} /\ work'.models = src
       /\ work'.admin = names /\ work'.chrono = work.chrono
  BY <1>2, <1>4
<1>19. disk' = disk
  BY DEF PatchRenameModel
<1>20. CASE work.admin = disk.admin /\ ~earlier
  <2>1. work'.models = SourcesOf(w) /\ work'.admin = StructsOf(work'.models)
    BY <1>1, <1>12, <1>16, <1>17, <1>18, <1>20
  <2>2. HasTimes(w) => work'.chrono
    BY <1>1, <1>15, <1>18
  <2>3. Says'
    BY <1>5, <2>1, <2>2, Zenon DEF Says
  <2>4. ~(work'.admin \subseteq disk'.admin)
    BY <1>1, <1>3, <1>17, <1>18, <1>19, <1>20
  <2>5. WellFormed(meant)'
    BY <1>5, <1>13, Zenon
  <2>6. mistaken' = FALSE
    BY <1>4, <1>20
  <2>7. QED
    BY <1>2, <1>18, <2>3, <2>4, <2>5, <2>6 DEF FileInv
<1>21. CASE earlier \/ work.admin # disk.admin
  <2>1. mistaken' = TRUE
    BY <1>4, <1>21
  <2>2. ~Says'
    <3>1. SUFFICES ASSUME Says' PROVE FALSE
      BY Zenon
    <3>2. src = SourcesOf(w) /\ work'.admin = StructsOf(work'.models)
      BY <1>5, <1>18, <3>1, Zenon DEF Says
    <3>3. (disk.admin \ {from}) \cup {to} = (structs \ {from}) \cup {to}
      BY <1>16, <1>17, <1>18, <3>2
    <3>4. structs \subseteq disk.admin
      BY <1>3, <3>3
    <3>5. ~earlier /\ work.admin = disk.admin
      BY <1>1, <1>2, <1>12, <3>2, <3>4
    <3>6. QED
      BY <1>21, <3>5
  <2>3. QED
    BY <1>2, <1>18, <2>1, <2>2 DEF FileInv
<1>22. QED
  BY <1>20, <1>21

LEMMA AppCommitted ==
    ASSUME FileInv, CommitApp
    PROVE  FileInv'
<1>1. disk' = work /\ work' = work /\ meant' = meant /\ mistaken' = mistaken
  BY DEF CommitApp
<1>2. Says' <=> Says
  BY <1>1 DEF Says
<1>3. WellFormed(meant)' <=> WellFormed(meant)
  BY <1>1
<1>4. QED
  BY <1>1, <1>2, <1>3, Zenon DEF FileInv

LEMMA FilesKept == ASSUME FileInv, UNCHANGED fileVars PROVE FileInv'
<1>1. disk' = disk /\ work' = work /\ meant' = meant /\ mistaken' = mistaken
  BY DEF fileVars
<1>2. Says' <=> Says
  BY <1>1 DEF Says
<1>3. WellFormed(meant)' <=> WellFormed(meant)
  BY <1>1
<1>4. QED
  BY <1>1, <1>2, <1>3, Zenon DEF FileInv

LEMMA FilesAtFirst == ASSUME NoApp \/ FileInit PROVE FileInv
<1>1. WellFormed(<<>>)
  BY DEF WellFormed
<1>2. /\ WellFormed(meant)
      /\ disk = App(meant) /\ work = disk /\ mistaken = FALSE
  BY <1>1, FilesAssumption DEF NoApp, FileInit
<1>3. /\ DOMAIN App(meant) = {"models", "chrono", "admin"}
      /\ App(meant).models = SourcesOf(meant) /\ App(meant).chrono = HasTimes(meant)
      /\ App(meant).admin = {meant[i].name : i \in DOMAIN meant}
  BY DEF App
<1>4. HasTimes(meant) \in BOOLEAN
  BY DEF HasTimes
<1>5. work.admin = StructsOf(work.models)
  BY <1>2, <1>3, StructsAre
<1>6. Says
  BY <1>2, <1>3, <1>5 DEF Says
<1>7. QED
  BY <1>2, <1>3, <1>4, <1>6 DEF FileInv

LEMMA FilesStep == ASSUME FileInv, FileNext PROVE FileInv'
<1>1. CASE CommitApp
  BY <1>1, AppCommitted
<1>2. ASSUME NEW i \in DOMAIN meant,
             \/ \E n \in NewNames, ty \in RustTypes, null \in BOOLEAN :
                  PatchAddField(i, [name |-> n, ty |-> ty, null |-> null])
             \/ \E j \in DOMAIN meant[i].fields :
                  \/ PatchRemoveField(i, j)
                  \/ \E n \in NewNames : PatchRenameField(i, j, n)
                  \/ \E ty \in RustTypes, null \in BOOLEAN :
                       PatchChangeField(i, j, [meant[i].fields[j] EXCEPT !.ty = ty, !.null = null])
             \/ \E n \in NewStructs : PatchRenameModel(i, n)
      PROVE  FileInv'
  <2>1. ASSUME NEW n \in NewNames, NEW ty \in RustTypes, NEW null \in BOOLEAN,
               PatchAddField(i, [name |-> n, ty |-> ty, null |-> null])
        PROVE  FileInv'
    <3>1. [name |-> n, ty |-> ty, null |-> null] \in SourceFields
      BY FilesAssumption DEF SourceFields
    <3>2. QED
      BY <2>1, <3>1, FieldAdded, Zenon
  <2>2. ASSUME NEW j \in DOMAIN meant[i].fields, PatchRemoveField(i, j)
        PROVE  FileInv'
    BY <2>2, FieldRemoved
  <2>3. ASSUME NEW j \in DOMAIN meant[i].fields, NEW n \in NewNames, PatchRenameField(i, j, n)
        PROVE  FileInv'
    <3>1. n \in Seq(Words)
      BY FilesAssumption
    <3>2. QED
      BY <2>3, <3>1, FieldRenamed
  <2>4. ASSUME NEW j \in DOMAIN meant[i].fields, NEW ty \in RustTypes, NEW null \in BOOLEAN,
               PatchChangeField(i, j, [meant[i].fields[j] EXCEPT !.ty = ty, !.null = null])
        PROVE  FileInv'
    <3> DEFINE g == [meant[i].fields[j] EXCEPT !.ty = ty, !.null = null]
    <3>1. WellFormed(meant)
      BY <2>4, BeforeStep DEF PatchChangeField
    <3>2. meant[i].fields[j] \in SourceFields
      BY <3>1, ModelType, FieldType
    <3>3. g \in SourceFields
      BY <3>2 DEF SourceFields
    <3>4. PatchChangeField(i, j, g)
      BY <2>4
    <3> HIDE DEF g
    <3>5. QED
      BY <3>3, <3>4, FieldChanged
  <2>5. ASSUME NEW n \in NewStructs, PatchRenameModel(i, n)
        PROVE  FileInv'
    <3>1. n \in Seq(Words)
      BY FilesAssumption
    <3>2. QED
      BY <2>5, <3>1, StructRetitled
  <2>6. QED
    BY <1>2, <2>1, <2>2, <2>3, <2>4, <2>5, Zenon
<1>3. QED
  BY <1>1, <1>2, Zenon DEF FileNext

\* The text of models.rs and admin.rs says what the plans mean in every place
\* where it says it, as long as no step looked for a text that is there twice,
\* and every such step leaves a place where it does not: whatever the models of
\* the app, the names of their fields and the plans that patch them.
THEOREM SourceMeant == PlansSpec => []FileInv
<1>1. PlansInit => FileInv
  BY FilesAtFirst DEF PlansInit
<1>2. FileInv /\ [PlansNext]_<<vars, fileVars>> => FileInv'
  <2>1. ASSUME FileInv, [PlansNext]_<<vars, fileVars>>
        PROVE  UNCHANGED fileVars \/ FileNext
    BY <2>1 DEF PlansNext
  <2>2. QED
    BY <2>1, FilesKept, FilesStep
<1>3. QED
  BY <1>1, <1>2, PTL DEF PlansSpec

\* A plan patches as Evolution says, whichever of the two is looked at.
LEMMA PlansEvolve == PlansSpec => Spec
<1>1. PlansInit => Init
  BY DEF PlansInit
<1>2. [PlansNext]_<<vars, fileVars>> => [Next]_vars
  BY DEF PlansNext
<1>3. QED
  BY <1>1, <1>2, PTL DEF PlansSpec, Spec

\* At every step of a plan the shadows agree with the source as patched so far,
\* and the source with what the plan means, for any models, names and types.
THEOREM PlansAgreed ==
    ASSUME TablesDiffer, InitDistinct, AlwaysDump
    PROVE  PlansSpec => []PlansAgree
<1>1. Spec => []ShadowIsSource
  BY ShadowFollows
<1>2. FileInv => SourceIsMeant
  BY FileInvMeans
<1>3. ShadowIsSource /\ SourceIsMeant => PlansAgree
  BY DEF PlansAgree
<1>4. QED
  BY <1>1, <1>2, <1>3, PlansEvolve, SourceMeant, PTL
=============================================================================
