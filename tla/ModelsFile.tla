----------------------------- MODULE ModelsFile -----------------------------
(***************************************************************************)
(* How a plan changes the Rust source of an app (rustio-core/src/ai/       *)
(* executor.rs): models.rs, which may declare several models, and          *)
(* admin.rs, which registers them.                                         *)
(*                                                                         *)
(* A model is a struct and an `impl Model` that says it four times more:   *)
(* COLUMNS, INSERT_COLUMNS, the lines of from_row and those of             *)
(* insert_values.  Each patcher looks for a text and replaces the first    *)
(* one it finds, in the struct, in the impl, or in the whole file.         *)
(*                                                                         *)
(* A name is the sequence of its words, so that one name can end or begin  *)
(* with another as its text does (`name:` is found in `first_name:`).      *)
(***************************************************************************)
EXTENDS Naturals, Sequences, SequencesExt, FiniteSets

CONSTANTS
    Words,        \* what names are made of
    NewNames,     \* the field names that plans introduce
    NewStructs,   \* the struct names that plans introduce
    RustTypes,    \* field types the plans use
    FirstApps,    \* the models of the app at the start: name and fields of each
    PatchesOfPlan,   \* bound: the steps of a plan that change this app
    MaxPatches       \* bound: the steps of all plans

VARIABLES
    meant,     \* the app's models as the plan would have them
    disk,      \* the app's files
    work,      \* the same as the plan's steps have patched them in memory
    patches,   \* how many steps there were, and in the plan at work
    mistaken   \* history: a step looked for a text that is there twice

fileVars == <<meant, disk, work, patches, mistaken>>

-----------------------------------------------------------------------------
\* Models, and the source that says them.

IdField == [name |-> <<"id">>, ty |-> "i64", null |-> FALSE]
NameOf(s) == [i \in DOMAIN s |-> s[i].name]

SourceFields == [name : Seq(Words), ty : RustTypes, null : BOOLEAN]
SourceModels == [name : Seq(Words), fields : Seq(SourceFields)]

\* What rustc accepts: structs of different names with fields of different
\* names, and Model asks for an id.
Declared(m) ==
    /\ \A j, k \in DOMAIN m.fields : m.fields[j].name = m.fields[k].name => j = k
    /\ \E j \in DOMAIN m.fields : m.fields[j].name = IdField.name

WellFormed(models) ==
    /\ models \in Seq(SourceModels)
    /\ \A i, k \in DOMAIN models : models[i].name = models[k].name => i = k
    /\ \A i \in DOMAIN models : Declared(models[i])

ASSUME FilesAssumption ==
    /\ "id" \in Words
    /\ NewNames \subseteq Seq(Words)
    /\ NewStructs \subseteq Seq(Words)
    /\ \A app \in FirstApps : WellFormed(app)

\* What is read of a field: row.get_<type>, row.get_optional_<type>.
Accessor(f) == <<f.ty, f.null>>

\* A String is cloned into insert_values, everything else copied.
Cloned(f) == f.ty = "String"

ReadLine(f) == [to |-> f.name, by |-> Accessor(f), from |-> f.name]
WriteLine(f) == [of |-> f.name, cloned |-> Cloned(f)]

ReadsOf(fields) == [i \in DOMAIN fields |-> ReadLine(fields[i])]
WritesOf(fields) == [i \in DOMAIN fields |-> WriteLine(fields[i])]

\* The database fills in the id.
Sent(fields) == RemoveFirstMatch(fields, LAMBDA f : f.name = IdField.name)

\* MODEL_MODELS_RS: the source of a model.
Source(m) ==
    [struct |-> m.name, impl |-> m.name, table |-> m.name, fields |-> m.fields,
     columns |-> NameOf(m.fields), inserted |-> NameOf(Sent(m.fields)),
     reads |-> ReadsOf(m.fields), writes |-> WritesOf(Sent(m.fields))]

SourcesOf(models) == [i \in DOMAIN models |-> Source(models[i])]

HasTimes(models) ==
    \E i \in DOMAIN models : \E j \in DOMAIN models[i].fields :
        models[i].fields[j].ty = "DateTime"

StructsOf(models) == {models[i].struct : i \in DOMAIN models}

App(models) ==
    [models |-> SourcesOf(models), chrono |-> HasTimes(models),
     admin |-> {models[i].name : i \in DOMAIN models}]

-----------------------------------------------------------------------------
\* The patchers: the patched models, or Unpatched.

Unpatched == <<>>

\* find_struct_block: the first `pub struct` whose text begins with the name
\* must be that struct.
StructAt(src, name) ==
    LET i == SelectInSeq(src, LAMBDA b : IsPrefix(name, b.struct))
    IN IF i # 0 /\ src[i].struct = name THEN i ELSE 0

\* The first `impl Model for` whose text begins with the name.
ImplAt(src, name) == SelectInSeq(src, LAMBDA b : IsPrefix(name, b.impl))

At(s, x) == SelectInSeq(s, LAMBDA y : y = x)
Put(s, i, x) == IF i = 0 THEN s ELSE [s EXCEPT ![i] = x]

\* patch_models_for_add_field: the struct's field goes into the struct, the
\* rest into the first impl of the file, which must be the only one.
AddTo(src, name, f) ==
    IF \/ StructAt(src, name) = 0
       \/ f.name \in ToSet(src[1].columns) \cup ToSet(src[1].inserted)
       \/ Len(src) > 1
    THEN Unpatched
    ELSE [src EXCEPT ![1].fields = Append(@, f),
                     ![1].columns = Append(@, f.name), ![1].inserted = Append(@, f.name),
                     ![1].reads = Append(@, ReadLine(f)), ![1].writes = Append(@, WriteLine(f))]

\* Mutant: COLUMNS is looked for in the whole file.
RemoveFromFirst(src, name, f) ==
    LET i == StructAt(src, name)
        j == ImplAt(src, name)
    IN IF i = 0 \/ j = 0 THEN Unpatched
       ELSE IF \/ At(src[i].fields, f) = 0 \/ At(src[1].columns, f.name) = 0
               \/ At(src[j].reads, ReadLine(f)) = 0 \/ At(src[j].writes, WriteLine(f)) = 0
         THEN Unpatched
         ELSE [src EXCEPT ![i].fields = RemoveFirst(@, f), ![1].columns = RemoveFirst(@, f.name),
                          ![j].inserted = RemoveFirst(@, f.name),
                          ![j].reads = RemoveFirst(@, ReadLine(f)),
                          ![j].writes = RemoveFirst(@, WriteLine(f))]

\* patch_models_for_remove_field: everything in the struct and in its impl.
RemoveFrom(src, name, f) ==
    LET i == StructAt(src, name)
        j == ImplAt(src, name)
    IN IF i = 0 \/ j = 0 THEN Unpatched
       ELSE IF \/ At(src[i].fields, f) = 0 \/ At(src[j].columns, f.name) = 0
               \/ At(src[j].reads, ReadLine(f)) = 0 \/ At(src[j].writes, WriteLine(f)) = 0
         THEN Unpatched
         ELSE [src EXCEPT ![i].fields = RemoveFirst(@, f), ![j].columns = RemoveFirst(@, f.name),
                          ![j].inserted = RemoveFirst(@, f.name),
                          ![j].reads = RemoveFirst(@, ReadLine(f)),
                          ![j].writes = RemoveFirst(@, WriteLine(f))]

\* A name whose text ends, or begins, with another's gets that part replaced.
Ending(name, from, to) == SubSeq(name, 1, Len(name) - Len(from)) \o to
Beginning(name, from, to) == to \o SubSeq(name, Len(from) + 1, Len(name))

\* patch_models_for_rename_field: in the struct; and in the first impl of the
\* file, in from_row the first line that has `<from>:`, and the first that has
\* `"<from>"`; in insert_values the first that has `self.<from>`.
RenameIn(src, name, from, to) ==
    LET i == StructAt(src, name)
        f == SelectInSeq(src[i].fields, LAMBDA g : g.name = from)
        column == At(src[1].columns, from)
        inserted == IF to \in ToSet(src[1].inserted) THEN 0 ELSE At(src[1].inserted, from)
        target == SelectInSeq(src[1].reads, LAMBDA l : IsSuffix(from, l.to))
        key == SelectInSeq(src[1].reads, LAMBDA l : l.from = from)
        write == SelectInSeq(src[1].writes, LAMBDA l : IsPrefix(from, l.of))
        read == [src[1].reads EXCEPT ![target].to = Ending(@, from, to)]
    IN IF i = 0 THEN Unpatched
       ELSE IF 0 \in {f, column, target, write} \/ to \in ToSet(src[1].columns) THEN Unpatched
       ELSE [src EXCEPT ![i].fields[f].name = to,
                        ![1].columns[column] = to,
                        ![1].inserted = Put(@, inserted, to),
                        ![1].reads = IF key = 0 THEN read ELSE [read EXCEPT ![key].from = to],
                        ![1].writes[write].of = Beginning(@, from, to)]

\* patch_models_for_change_field_type, .._nullability: in the struct; and in
\* the first impl of the file the line of from_row, and that of insert_values
\* if the field is cloned now and was not, or the other way round.
ChangeIn(src, name, f, g) ==
    LET i == StructAt(src, name)
        field == At(src[i].fields, f)
        read == SelectInSeq(src[1].reads, LAMBDA l :
                    IsSuffix(f.name, l.to) /\ l.by = Accessor(f) /\ l.from = f.name)
        write == At(src[1].writes, WriteLine(f))
    IN IF i = 0 THEN Unpatched
       ELSE IF \/ 0 \in {field, read}
               \/ Cloned(f) # Cloned(g) /\ write = 0 THEN Unpatched
       ELSE [src EXCEPT ![i].fields[field] = g,
                        ![1].reads[read].by = Accessor(g),
                        ![1].writes = IF Cloned(f) # Cloned(g) THEN [@ EXCEPT ![write] = WriteLine(g)]
                                      ELSE @]

\* find_table_for_struct, patch_models_for_rename_model: the first struct and
\* the first impl whose names begin with the old one, and the TABLE of that impl.
RenameStruct(src, from, to) ==
    LET i == SelectInSeq(src, LAMBDA b : IsPrefix(from, b.struct))
        j == ImplAt(src, from)
    IN IF i = 0 \/ j = 0 THEN Unpatched
       ELSE [src EXCEPT ![i].struct = Beginning(@, from, to),
                        ![j].impl = Beginning(@, from, to), ![j].table = to]

\* patch_admin_for_rename_model: the call that registers the old name, which
\* apply_rename_model asks for, registers the new one.
Registered(admin, from, to) == (admin \ {from}) \cup {to}

-----------------------------------------------------------------------------
\* The steps of a plan.

NoPatches == [plan |-> 0, all |-> 0]
MorePatches == patches.plan < PatchesOfPlan /\ patches.all < MaxPatches /\ ~mistaken

\* locate_model_file goes by the structs on disk, find_struct_block by those
\* that were patched.
InFile(i) == meant[i].name \in StructsOf(disk.models)

Patched(src, wanted, times) ==
    /\ src # Unpatched
    /\ meant' = wanted
    /\ work' = [work EXCEPT !.models = src, !.chrono = @ \/ times]
    /\ patches' = [plan |-> patches.plan + 1, all |-> patches.all + 1]
    /\ UNCHANGED disk

Named(i, name) == name \in ToSet(NameOf(meant[i].fields))

\* Another model before it in the file has a text the patchers look for.
Shadowed(i, name) == \E k \in 1..(i - 1) : Named(k, name)

\* A field of its own before it has: `<name>:` at its end, or `self.<name>`
\* at its beginning.
Overlapped(i, name) ==
    LET names == NameOf(meant[i].fields) IN
    \E k \in 1..(At(names, name) - 1) : IsSuffix(name, names[k]) \/ IsPrefix(name, names[k])

\* apply_add_field; apply_add_relation patches as for an i64 that may be null.
PatchAddField(i, f) ==
    /\ MorePatches /\ InFile(i)
    /\ ~Named(i, f.name)
    /\ Patched(AddTo(work.models, meant[i].name, f),
               [meant EXCEPT ![i].fields = Append(@, f)], f.ty = "DateTime")
    /\ UNCHANGED mistaken

\* apply_remove_field, apply_remove_relation.
PatchRemoveField(i, j) ==
    LET f == meant[i].fields[j] IN
    /\ MorePatches /\ InFile(i)
    /\ f.name # IdField.name
    /\ Patched(RemoveFrom(work.models, meant[i].name, f),
               [meant EXCEPT ![i].fields = RemoveFirst(@, f)], FALSE)
    /\ UNCHANGED mistaken

\* apply_rename_field.  insert_values has no `self.id`, but a longer name that
\* begins with it is taken for it.
PatchRenameField(i, j, to) ==
    LET f == meant[i].fields[j] IN
    /\ MorePatches /\ InFile(i)
    /\ ~Named(i, to)
    /\ Patched(RenameIn(work.models, meant[i].name, f.name, to),
               [meant EXCEPT ![i].fields[j].name = to], FALSE)
    /\ mistaken' = (\/ Shadowed(i, f.name) \/ Overlapped(i, f.name)
                    \/ f.name = IdField.name)

\* apply_change_field_type, apply_change_field_nullability.
PatchChangeField(i, j, g) ==
    LET f == meant[i].fields[j] IN
    /\ MorePatches /\ InFile(i)
    /\ g.name = f.name
    /\ \/ g.ty = f.ty /\ g.null # f.null
       \/ g.ty # f.ty /\ g.null = f.null /\ "String" \in {f.ty, g.ty}
    /\ Patched(ChangeIn(work.models, meant[i].name, f, g),
               [meant EXCEPT ![i].fields[j] = g], g.ty = "DateTime" /\ f.ty # "DateTime")
    /\ mistaken' = Shadowed(i, f.name)

\* apply_rename_model.  admin.rs is read from the disk, whatever an earlier
\* step has planned for it.
PatchRenameModel(i, to) ==
    LET from == meant[i].name IN
    /\ MorePatches /\ InFile(i)
    /\ to \notin StructsOf(work.models) /\ from \in StructsOf(work.models)
    /\ from \in disk.admin
    /\ LET src == RenameStruct(work.models, from, to) IN
       /\ src # Unpatched
       /\ work' = [work EXCEPT !.models = src, !.admin = Registered(disk.admin, from, to)]
    /\ meant' = [meant EXCEPT ![i].name = to]
    /\ patches' = [plan |-> patches.plan + 1, all |-> patches.all + 1]
    /\ mistaken' = (\/ work.admin # disk.admin
                    \/ \E k \in 1..(i - 1) : IsPrefix(from, meant[k].name))
    /\ UNCHANGED disk

\* commit_changes writes the files; `rustio schema` takes the models from them.
CommitApp ==
    /\ work # disk
    /\ disk' = work
    /\ patches' = [patches EXCEPT !.plan = 0]
    /\ UNCHANGED <<meant, work, mistaken>>

\* No app is looked at: Evolution alone is.
NoApp ==
    /\ meant = <<>>
    /\ disk = App(meant)
    /\ work = disk
    /\ patches = NoPatches
    /\ mistaken = FALSE

FileInit ==
    /\ meant \in FirstApps
    /\ disk = App(meant)
    /\ work = disk
    /\ patches = NoPatches
    /\ mistaken = FALSE

FileNext ==
    \/ \E i \in DOMAIN meant :
        \/ \E n \in NewNames, ty \in RustTypes, null \in BOOLEAN :
            PatchAddField(i, [name |-> n, ty |-> ty, null |-> null])
        \/ \E j \in DOMAIN meant[i].fields :
            \/ PatchRemoveField(i, j)
            \/ \E n \in NewNames : PatchRenameField(i, j, n)
            \/ \E ty \in RustTypes, null \in BOOLEAN :
                PatchChangeField(i, j, [meant[i].fields[j] EXCEPT !.ty = ty, !.null = null])
        \/ \E n \in NewStructs : PatchRenameModel(i, n)
    \/ CommitApp

-----------------------------------------------------------------------------
\* The source says in all its places what the plans mean -- the structs, their
\* columns, what is read and what is written, the tables, the imports, and who
\* is registered -- exactly as long as no step looked for a text that is there
\* twice ("multiple models per file are first-class", CHANGELOG.md:2088).
SourceIsMeant ==
    ~mistaken <=>
        /\ work.models = SourcesOf(meant)
        /\ HasTimes(meant) => work.chrono
        /\ work.admin = StructsOf(work.models)
=============================================================================
