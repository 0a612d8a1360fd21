----------------------------- MODULE ViewSpecs -----------------------------
(***************************************************************************)
(* The view of one model: which of its fields a list shows, in which role, *)
(* order and language (rustio-core/src/viewspec.rs), and how the editor of *)
(* the admin changes it (admin/layout.rs).  Operators only; Views keeps    *)
(* the saved file.                                                         *)
(*                                                                         *)
(* A field is known by its name.  What the deriving rules look at -- the   *)
(* shape of the name and the type -- is its kind.  A label is the pair of  *)
(* what it names and its language: no property depends on its text.        *)
(***************************************************************************)
EXTENDS Requests, Naturals, Sequences, SequencesExt, FiniteSets

CONSTANTS
    Columns,     \* the model's fields in declared order: name and kind
    Declared,    \* fields for which the cached schema declares a relation
    Rank         \* the alphabetical order of the names

Kinds == {"id", "secret", "opaque", "moment", "status", "flag", "contact",
          "headline", "text", "relation", "number"}
Roles == {"title", "subtitle", "badge", "timestamp", "meta", "hidden"}
Layouts == {"table", "list", "cards", "compact"}
Sources == {Columns[i].name : i \in DOMAIN Columns}

ASSUME ColumnsAssumption ==
    /\ Columns \in Seq([name : STRING, kind : Kinds])
    /\ Columns # <<>>
    /\ \A i, j \in DOMAIN Columns : Columns[i].name = Columns[j].name => i = j
    /\ Declared \subseteq Sources
    /\ Rank \in [Sources -> Nat]

NoMerge == <<>>

\* The elements of a list that are in a set.  (This and the next are recursive
\* functions, with sets for their conditions, so that there can be lemmas about
\* them.)
Among(list, S) ==
    LET kept[n \in 0..Len(list)] ==
            IF n = 0 THEN <<>>
            ELSE IF list[n] \in S THEN Append(kept[n - 1], list[n]) ELSE kept[n - 1]
    IN kept[Len(list)]

\* A list in an order, a set of pairs: each is placed before those it is to precede.
Placed(done, x, Before) ==
    LET later == {y \in ToSet(done) : <<x, y>> \in Before}
    IN Among(done, ToSet(done) \ later) \o <<x>> \o Among(done, later)
Arranged(list, Before) ==
    LET done[n \in 0..Len(list)] ==
            IF n = 0 THEN <<>> ELSE Placed(done[n - 1], list[n], Before)
    IN done[Len(list)]

-----------------------------------------------------------------------------
\* The derived view.

Names(cs) == [i \in DOMAIN cs |-> cs[i].name]
OfKind(k) == Among(Columns, {c \in ToSet(Columns) : c.kind = k})

\* pick_identity_sources: the title and, with relations only, the subtitle.
Identity ==
    LET related == Among(OfKind("relation"), {c \in ToSet(Columns) : c.name \in Declared})
    IN IF OfKind("headline") # <<>> THEN <<Head(OfKind("headline")).name>>
       ELSE IF OfKind("text") # <<>> THEN <<Head(OfKind("text")).name>>
       ELSE Names(SubSeq(related, 1, IF Len(related) < 2 THEN Len(related) ELSE 2))

\* classify_view_field: the role of a field, by descending precedence.
Classify(c) ==
    CASE c.kind \in {"secret", "opaque", "id"} -> "hidden"
      [] c.kind = "moment" -> "timestamp"
      [] c.kind \in {"status", "flag"} -> "badge"
      [] c.kind = "contact" -> "subtitle"
      [] OTHER -> IF Len(Identity) > 0 /\ c.name = Identity[1] THEN "title"
                  ELSE IF Len(Identity) > 1 /\ c.name = Identity[2] THEN "subtitle"
                  ELSE "meta"

\* from_schema_model.
Derived ==
    [layout |-> "list",
     fields |-> [i \in DOMAIN Columns |->
                    [source |-> Columns[i].name, role |-> Classify(Columns[i]),
                     merge |-> NoMerge, filterable |-> Columns[i].kind = "status"]],
     filters |-> {Columns[i].name : i \in {j \in DOMAIN Columns :
                                              Columns[j].kind = "status"}},
     language |-> "en", labels |-> {}, values |-> {}]

-----------------------------------------------------------------------------
\* What a view says.

FieldSpecs(v) == ToSet(v.fields)
SourcesOf(v) == {f.source : f \in FieldSpecs(v)}
FiltersOf(fields) == {f.source : f \in {g \in ToSet(fields) : g.filterable}}

\* ViewSpec::validate.
Valid(v) ==
    /\ v.fields # <<>>
    /\ \A i, j \in DOMAIN v.fields :
        v.fields[i].source = v.fields[j].source => i = j
    /\ \A f \in FieldSpecs(v) : f.merge # NoMerge => Len(f.merge) >= 2
    /\ v.filters \subseteq FiltersOf(v.fields)
    /\ {l[1] : l \in v.labels \cup v.values} \subseteq SourcesOf(v)

Places(f) == IF f.merge = NoMerge THEN <<f.source>> ELSE f.merge

\* Each field of the model is in one place, and there is no other.
Covers(v) ==
    /\ UNION {ToSet(Places(f)) : f \in FieldSpecs(v)} = Sources
    /\ \A i, j \in DOMAIN v.fields :
        LET here == Places(v.fields[i])
            there == Places(v.fields[j])
        IN \A k \in DOMAIN here, l \in DOMAIN there : here[k] = there[l] => i = j /\ k = l

\* A view of the model, whose merges begin with the field they are merged into.
Complete(v) ==
    /\ DOMAIN v = {"layout", "fields", "filters", "language", "labels", "values"}
    /\ v.layout \in Layouts
    /\ v.fields \in Seq([source : Sources, role : Roles, merge : Seq(Sources),
                         filterable : BOOLEAN])
    /\ \A f \in FieldSpecs(v) : f.merge # NoMerge => f.merge[1] = f.source
    /\ Covers(v)

RolesFor(layout) ==
    CASE layout \in {"table", "cards"} -> Roles \ {"hidden"}
      [] layout = "list" -> {"title", "subtitle", "badge", "timestamp"}
      [] layout = "compact" -> {"title", "badge"}

\* select_specs: never an empty row, unless everything is hidden.
Selected(v, layout) ==
    LET chosen == Among(v.fields, {f \in FieldSpecs(v) : f.role \in RolesFor(layout)})
        visible == Among(v.fields, {f \in FieldSpecs(v) : f.role # "hidden"})
    IN IF chosen # <<>> \/ visible = <<>> THEN chosen ELSE <<Head(visible)>>

\* render_cell: a merged cell carries every source of the merge.
CellSources(f) == IF f.merge = NoMerge THEN {f.source} ELSE ToSet(f.merge)

\* view_columns: a cell whose anchor is no field of the model is skipped.
Shown(v, layout) ==
    UNION {CellSources(f) : f \in {g \in ToSet(Selected(v, layout)) :
                                      g.source \in Sources}}

\* resolve_effective_layout: the query, else the saved view, else a table.
EffectiveLayout(query, saved) ==
    IF query \in Layouts THEN query
    ELSE IF saved # <<>> THEN saved[1].layout ELSE "table"

-----------------------------------------------------------------------------
\* The editor.  A form gives roles, positions and merge targets to some
\* fields, checks boxes, and names the parts it submits.

EditForm(form) ==
    /\ DOMAIN form.role \subseteq Sources /\ DOMAIN form.order \subseteq Sources
    /\ \A s \in DOMAIN form.role : form.role[s] \in Roles \cup {"unknown"}
    /\ \A s \in DOMAIN form.order : form.order[s] \in Nat
    /\ DOMAIN form.into \subseteq Sources /\ form.filterable \subseteq Sources
    /\ form.label \subseteq Sources /\ form.value \subseteq Sources
    /\ form.offered \subseteq Sources
    /\ form.sent \subseteq {"merge", "filters", "labels", "values"}
    /\ form.makeDefault \in BOOLEAN

Given(f, x, otherwise) == IF x \in DOMAIN f THEN f[x] ELSE otherwise

\* One row of the editor: a field as it is, with what the form says of it.
Entry(u, i, form) ==
    LET role == Given(form.role, u.source, u.role)
    IN [source |-> u.source, role |-> role, merge |-> u.merge,
        order |-> Given(form.order, u.source, i - 1), pos |-> i,
        filterable |-> IF "filters" \in form.sent
                         THEN u.source \in form.filterable /\ role # "hidden"
                         ELSE u.filterable]

Entries(us, form) == [i \in DOMAIN us |-> Entry(us[i], i, form)]

\* A role that is none of the six rejects the form.
Garbage(us, form) == \E i \in DOMAIN us : Entry(us[i], i, form).role \notin Roles

\* By the orders given; the earlier position goes first.
InOrder(es) == Arranged(es, {p \in ToSet(es) \X ToSet(es) : p[1].order < p[2].order})

FieldsOf(es) ==
    [i \in DOMAIN es |-> [source |-> es[i].source, role |-> es[i].role,
                          merge |-> es[i].merge, filterable |-> es[i].filterable]]

\* build_edited_spec_no_merge: merges are left as they are.
Rearranged(v, form) ==
    LET fields == FieldsOf(InOrder(Entries(v.fields, form)))
    IN [v EXCEPT !.fields = fields,
                 !.filters = IF "filters" \in form.sent THEN FiltersOf(fields) ELSE @]

Alone(name) == [source |-> name, role |-> "meta", merge |-> NoMerge, filterable |-> FALSE]

\* Mutant: the members of a merge are forgotten.
UniverseFlat(v) == v.fields

\* Every field: those on their own, and after each the members merged into it
\* that were not met before.
WithMembers(us, f) ==
    LET met == {u.source : u \in ToSet(us)} \cup {f.source}
        members == Among(f.merge, ToSet(f.merge) \ met)
    IN us \o <<f>> \o [j \in DOMAIN members |-> Alone(members[j])]
Universe(v) ==
    LET us[n \in 0..Len(v.fields)] ==
            IF n = 0 THEN <<>> ELSE WithMembers(us[n - 1], v.fields[n])
    IN us[Len(v.fields)]

Target(e, form) == Given(form.into, e.source, None)

\* Mutant: what is hidden can be merged.
JoinsHidden(e, es, form) ==
    /\ Target(e, form) \notin {None, e.source}
    /\ \E i \in DOMAIN es : /\ es[i].source = Target(e, form)
                            /\ Target(es[i], form) = None

\* A row is merged away if neither it nor its target is hidden and the target
\* is not merged away itself.
Joins(e, es, form) ==
    /\ e.role # "hidden"
    /\ Target(e, form) \notin {None, e.source}
    /\ \E i \in DOMAIN es : /\ es[i].source = Target(e, form)
                            /\ Target(es[i], form) = None
                            /\ es[i].role # "hidden"

\* The merge of an anchor: itself, then its members by position and name.
MergeOf(e, es, form) ==
    LET joining == {m \in ToSet(es) : Joins(m, es, form) /\ Target(m, form) = e.source}
        members == Arranged(Among(es, joining),
            {p \in joining \X joining :
                \/ p[1].order < p[2].order
                \/ p[1].order = p[2].order /\ Rank[p[1].source] < Rank[p[2].source]})
    IN IF members = <<>> THEN NoMerge
       ELSE <<e.source>> \o [i \in DOMAIN members |-> members[i].source]

\* build_edited_spec_with_merge.
Merged(v, form) ==
    LET es == Entries(Universe(v), form)
        kept == Among(es, {e \in ToSet(es) : ~Joins(e, es, form)})
        fields == FieldsOf(InOrder(
            [i \in DOMAIN kept |-> [kept[i] EXCEPT !.merge = MergeOf(kept[i], es, form)]]))
    IN [v EXCEPT !.fields = fields, !.filters = FiltersOf(fields)]

\* In `lang`, exactly the given ones of the offered fields are labelled.
Relabel(labels, offered, given, lang) ==
    {l \in labels : l[2] # lang \/ l[1] \notin offered}
        \cup {<<s, lang>> : s \in offered \cap given}

\* apply_label_edits and apply_value_label_edits, which also drop the labels
\* of what is no field any more.
Labelled(v, form) ==
    LET lang == IF form.language = None THEN v.language ELSE form.language
        live == SourcesOf(v)
        labels == IF "labels" \in form.sent
                    THEN Relabel(v.labels, live, form.label, lang) ELSE v.labels
        values == IF "values" \in form.sent
                    THEN Relabel(v.values, live \cap form.offered, form.value, lang)
                    ELSE v.values
    IN [v EXCEPT !.language = IF form.makeDefault THEN lang ELSE @,
                 !.labels = {l \in labels : l[1] \in live},
                 !.values = {l \in values : l[1] \in live}]

\* build_edited_spec, of a form that is not rejected.
Edited(v, form) ==
    Labelled(IF "merge" \in form.sent THEN Merged(v, form) ELSE Rearranged(v, form), form)

Rejected(v, form) ==
    Garbage(IF "merge" \in form.sent THEN Universe(v) ELSE v.fields, form)
=============================================================================
