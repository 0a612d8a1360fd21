---------------------------- MODULE GeneratedSql ----------------------------
(***************************************************************************)
(* The SQL `rustio ai apply` and `rustio migrate add-fks` write, as what   *)
(* each statement needs, adds and drops (rustio-core/src/ai/executor.rs).  *)
(* A table is an object, and so is each of its columns.                    *)
(***************************************************************************)
LOCAL INSTANCE Sequences

Table(t) == <<t>>
Column(t, c) == <<t, c>>
Columns(t, cs) == {Column(t, c) : c \in cs}
Whole(t, cs) == {Table(t)} \cup Columns(t, cs)

Sql(needs, adds, drops) ==
    [op |-> "sql", needs |-> needs, adds |-> adds, drops |-> drops]
Noop == [op |-> "noop", needs |-> {}, adds |-> {}, drops |-> {}]
Begin == [op |-> "begin", needs |-> {}, adds |-> {}, drops |-> {}]

\* CREATE TABLE, as `rustio add model` writes it.
CreateTableSql(t, cs) == <<Sql({}, Whole(t, cs), {})>>

\* ALTER TABLE t ADD COLUMN c.
AddFieldSql(t, c) == <<Sql({Table(t)}, {Column(t, c)}, {})>>

\* PRAGMA foreign_keys = ON; ALTER TABLE t ADD COLUMN c REFERENCES p(id).
AddFkColumnSql(t, c) == <<Noop, Sql({Table(t)}, {Column(t, c)}, {})>>

\* ALTER TABLE t RENAME COLUMN c TO d.
RenameFieldSql(t, c, d) ==
    <<Sql({Column(t, c)}, {Column(t, d)}, {Column(t, c)})>>

\* Create t__new with the columns `to`, copy `from`, drop t (whose columns
\* are `old`), rename back.  The copy reads every column of `from` by name.
RecreateBody(t, new, from, to, old) ==
    <<Sql({}, Whole(new, to), {}),
      Sql(Whole(new, to) \cup Whole(t, from), {}, {}),
      Sql({Table(t)}, {}, Whole(t, old)),
      Sql({Table(new)}, Whole(t, to), Whole(new, to))>>

\* change_field_type and change_field_nullability.
RecreateSql(t, new, from, to, old) == RecreateBody(t, new, from, to, old)

\* remove_field, remove_relation and add-fks: the same between PRAGMA
\* foreign_keys = OFF; BEGIN; and COMMIT; PRAGMA foreign_keys = ON;
FkAwareRecreateSql(t, new, from, to, old) ==
    <<Noop, Begin>> \o RecreateBody(t, new, from, to, old) \o <<Begin, Noop>>
=============================================================================
