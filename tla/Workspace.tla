----------------------------- MODULE Workspace -----------------------------
(***************************************************************************)
(* A project while people change it with `rustio ai` and `rustio change`   *)
(* in terminals, and with the suggestions of its running admin             *)
(* (rustio-cli/src/main.rs, admin.rs, admin/suggestions.rs,                *)
(* admin/schema_cache.rs, ai/executor.rs).                                 *)
(*                                                                         *)
(* Everybody looks at the project at one time and changes it at another:   *)
(* a terminal waits for a yes, a browser shows a page, the server keeps    *)
(* the schema in a cache and the context for as long as it runs.           *)
(*                                                                         *)
(* Writing the files of a plan is one step here: CommitChanges has its     *)
(* steps, Evolution its migrations and tables.                             *)
(***************************************************************************)
EXTENDS Planner

CONSTANTS
    Terminals, Admins,
    Days,           \* bound: the structs, who is at work, what they may ask for
    CoreFields,     \* the fields of the framework's models
    Garbled,        \* ... and a file that does not parse
    Missing,        \* no rustio.schema.json
    Unread,         \* not loaded by the server yet
    MaxApplied,     \* bound: plans that are applied
    MaxSettings     \* bound: how often the context is edited

\* A struct has one field of a name.
OneOfEachName(F) == \A f, g \in F : f.name = g.name => f = g

\* Who works, the sentences said to `rustio change` and to `rustio ai plan
\* --save`, the plans in files written by hand, and what rustio.context.json
\* may hold.
ASSUME DaysAssumption == \A d \in Days :
    /\ d.terminals \subseteq Terminals /\ d.admins \subseteq Admins
    /\ d.sentences \subseteq Sentences /\ d.saves \subseteq Sentences
    /\ d.documents \subseteq Seq(Steps) /\ d.contexts \subseteq Contexts
    /\ d.code \in Shapes /\ \A m \in Models : OneOfEachName(d.code[m])
ASSUME MissingAssumption == Missing \notin Shapes
ASSUME CoreFieldsAssumption == CoreFields \subseteq Fields
ASSUME BoundsAssumption == MaxApplied \in Nat /\ MaxSettings \in Nat

VARIABLES
    day,        \* one of Days
    code,       \* models.rs: the fields of each struct
    schema,     \* rustio.schema.json
    context,    \* rustio.context.json
    referenced, \* tables some migration names in a REFERENCES
    saved,      \* the plan in the file of `rustio ai plan --save`, if any
    server,     \* the admin: what it was compiled with, and what it has read
    terminal,   \* what each terminal waits for
    admin,      \* the page each administrator is at, or the request under way
    applied,    \* the plans that were written, with what was shown before
    edits       \* how often the context was edited

vars ==
    <<day, code, schema, context, referenced, saved, server, terminal, admin, applied, edits>>
project == <<day, code, schema, context, referenced, saved>>

\* from_admin: the structs, and the models of the framework.
Dump(c) == [m \in Models |-> IF m \in Core THEN CoreFields ELSE c[m]]

\* Model::id returns an i64.
Compiles(c) ==
    \A m \in Models : c[m] # NoModel =>
        \E f \in c[m] : f.name = "id" /\ f.ty = "i64" /\ ~f.null

-----------------------------------------------------------------------------
\* plan_execution: the dry run of a plan on the project as it is on disk.

SafeCast(old, new) ==
    /\ old # new
    /\ {old, new} \subseteq {"i32", "i64", "bool"} \/ "String" \in {old, new}

\* locate_model_file goes by the structs on disk, not by a rename in the plan.
Located(m, d) == code[m] # NoModel /\ m \notin d.renamed

\* The schema's fields that the struct declares just so.
Matching(m, n, d) == {f \in d.shadow[m] \cap d.source[m] : f.name = n}

\* Mutant: the struct is not looked at.
InsertBlindly(m, f, g, d) ==
    {[d EXCEPT !.source[m] = @ \cup {f}, !.shadow[m] = @ \cup {g}] :
        x \in {y \in {m} : Located(y, d)}}

\* apply_add_field, and the shadow's new field g.
Insert(m, f, g, d) ==
    {[d EXCEPT !.source[m] = @ \cup {f}, !.shadow[m] = @ \cup {g}] :
        x \in {y \in {m} : Located(y, d) /\ f.name \notin NamesOf(d.source[y])}}

\* A field that changes its type or nullability: its table is recreated.
Replace(m, f, g, d) ==
    {[d EXCEPT !.source[m] = (@ \ {f}) \cup {g}, !.shadow[m] = (@ \ {f}) \cup {g}] :
        x \in {y \in {m} : Located(y, d) /\ Slug[y] \notin referenced}}

\* The shadow keeps the field.
Drop(m, n, d) ==
    {[d EXCEPT !.source[m] = @ \ {f}] : f \in {g \in Matching(m, n, d) :
                                                n # "id" /\ Located(m, d)}}

Renaming(F, n, to) == Edit(F, n, LAMBDA f : [f EXCEPT !.name = to])

\* simulate_step and apply_schema_shadow: the dry runs that go on, at most
\* one; `force` is allow_destructive.
SimulateStep(s, d, force) ==
    CASE s.op = "add_field" -> Insert(s.model, s.field, s.field, d)
      [] s.op = "add_relation" ->
            IF s.kind = "belongs_to" /\ ~s.required
            THEN Insert(s.model, ForeignKey(s), ForeignKey(s),
                        [d EXCEPT !.referenced = @ \cup {Slug[s.to]}])
            ELSE {}
      [] s.op = "rename_field" ->
            {[d EXCEPT !.source[s.model] = Renaming(@, s.name, s.to),
                       !.shadow[s.model] = Renaming(@, s.name, s.to)] :
                x \in {y \in {s} : /\ Located(y.model, d)
                                   /\ y.name \in NamesOf(d.source[y.model]) \ {"id"}
                                   /\ y.to \notin NamesOf(d.source[y.model])}}
      [] s.op = "change_type" ->
            UNION {Replace(s.model, f, [f EXCEPT !.ty = s.ty], d) :
                f \in {g \in Matching(s.model, s.name, d) :
                        /\ SafeCast(g.ty, s.ty)
                        /\ g.name = "id" => "String" \notin {g.ty, s.ty}}}
      [] s.op = "change_null" ->
            UNION {Replace(s.model, f, [f EXCEPT !.null = s.null], d) :
                f \in {g \in Matching(s.model, s.name, d) : g.null # s.null}}
      [] s.op = "rename_model" ->
            {[d EXCEPT !.source[s.to] = d.source[s.model], !.source[s.model] = NoModel,
                       !.shadow[s.to] = d.shadow[s.model], !.shadow[s.model] = NoModel,
                       !.renamed = @ \cup {s.model, s.to}] :
                x \in {y \in {s} : /\ Located(y.model, d)
                                   /\ d.source[y.to] = NoModel
                                   /\ Slug[y.model] \notin referenced}}
      [] s.op \in {"remove_field", "remove_relation"} ->
            IF force THEN Drop(s.model, s.name, d) ELSE {}
      [] OTHER -> {}

\* The dry runs of a plan the gates let through: review, Critical risk,
\* developer-only steps, and the policy for personal data.
PlanExecution(plan, c, force) ==
    LET pii == PiiFields(c)
        start == [source |-> code, shadow |-> schema, renamed |-> {},
                  referenced |-> referenced]
    IN IF /\ schema # Missing
          /\ Review(plan, schema, pii).valid
          /\ Review(plan, schema, pii).risk < Critical
          /\ \A s \in Range(plan) : ~DeveloperOnly(s) /\ ~TouchesPii(s, pii)
       THEN FoldLeft(LAMBDA D, s : UNION {SimulateStep(s, d, force) : d \in D},
                     {start}, plan)
       ELSE {}

\* execute_plan_document: the schema and the project are read again, and all
\* files are written.  `shown` is what the one who said yes has seen.
Execute(plan, c, force, shown) ==
    \E d \in PlanExecution(plan, c, force) :
        /\ Len(applied) < MaxApplied
        /\ code' = d.source
        /\ referenced' = d.referenced
        /\ applied' = Append(applied,
                [plan |-> plan, context |-> c, force |-> force, shown |-> shown,
                 risk |-> Review(plan, schema, PiiFields(c)).risk])
        /\ UNCHANGED <<day, schema, context, saved>>

Refused(plan, c, force) == PlanExecution(plan, c, force) = {}

-----------------------------------------------------------------------------
\* The terminal.

Idle == [at |-> "idle"]

\* What somebody sees of a plan: its steps, the risk and the warnings.
Seen(plan, c) ==
    [plan |-> plan, risk |-> Review(plan, schema, PiiFields(c)).risk,
     warnings |-> Warnings(plan, PiiFields(c), RequiredFields(c))]

\* A terminal that waits for a yes to a plan it has shown.
Asking(plan, c, force) ==
    [at |-> "confirm", context |-> c, force |-> force, shown |-> Seen(plan, c)]

\* `rustio ai plan --save`: the plan of a sentence is kept for later.
AiPlan(w) ==
    /\ schema # Missing /\ context # Garbled
    /\ \E plan \in GeneratePlan(w, schema, context) : saved' = {plan}
    /\ UNCHANGED <<day, code, schema, context, referenced, server, terminal, admin, applied, edits>>

\* `rustio ai apply`: the review and a dry run are shown.
AiApply(t, plan, force) ==
    /\ terminal[t] = Idle
    /\ schema # Missing /\ context # Garbled
    /\ ~Refused(plan, context, force)
    /\ terminal' = [terminal EXCEPT ![t] = Asking(plan, context, force)]
    /\ UNCHANGED <<project, server, admin, applied, edits>>

\* `rustio change`: a sentence is planned, and its steps are shown.
Change(t, w) ==
    /\ terminal[t] = Idle
    /\ schema # Missing /\ context # Garbled
    /\ \E plan \in GeneratePlan(w, schema, context) :
        terminal' = [terminal EXCEPT ![t] = Asking(plan, context, FALSE)]
    /\ UNCHANGED <<project, server, admin, applied, edits>>

\* The answer is yes.
Confirm(t) ==
    /\ terminal[t].at = "confirm"
    /\ LET a == terminal[t] IN Execute(a.shown.plan, a.context, a.force, a.shown)
    /\ terminal' = [terminal EXCEPT ![t] = Idle]
    /\ UNCHANGED <<server, admin, edits>>

\* The answer is no, or the executor refuses.
Leave(t) ==
    /\ terminal[t].at = "confirm"
    /\ terminal' = [terminal EXCEPT ![t] = Idle]
    /\ UNCHANGED <<project, server, admin, applied, edits>>

\* `rustio schema`, which `migrate apply` runs too.
DumpSchema ==
    /\ Compiles(code)
    /\ schema # Dump(code)
    /\ schema' = Dump(code)
    /\ UNCHANGED <<day, code, context, referenced, saved, server, terminal, admin, applied, edits>>

EditContext ==
    /\ edits < MaxSettings
    /\ edits' = edits + 1
    /\ context' \in (day.contexts \cup {Garbled}) \ {context}
    /\ UNCHANGED <<day, code, schema, referenced, saved, server, terminal, admin, applied>>

-----------------------------------------------------------------------------
\* The server.

Down == [up |-> FALSE]

\* `rustio run` builds and starts it; the cache and the context are read when
\* they are first needed.
Start ==
    /\ day.serves
    /\ ~server.up /\ Compiles(code)
    /\ server' = [up |-> TRUE, compiled |-> Dump(code), cache |-> Unread, context |-> Unread]
    /\ UNCHANGED <<project, terminal, admin, applied, edits>>

\* Pages stay in the browsers, requests under way are gone.
Stop ==
    /\ server.up
    /\ server' = Down
    /\ admin' = [a \in Admins |->
                    CASE admin[a].at = "planned" -> [admin[a].page EXCEPT !.at = "page"]
                      [] admin[a].at = "reading" -> Idle
                      [] OTHER -> admin[a]]
    /\ UNCHANGED <<project, terminal, applied, edits>>

\* context_global and schema_cache::snapshot, loaded now if never before.
Loaded ==
    [server EXCEPT
        !.context = IF @ # Unread THEN @
                    ELSE IF context = Garbled THEN NoContext ELSE context,
        !.cache = IF @ = Unread THEN schema ELSE @]

\* entries_effective: the cached schema, or what was compiled.
Entries(srv) == IF srv.cache = Missing THEN srv.compiled ELSE srv.cache

\* derive_suggestions_from_entries: the fields of the industry that a model
\* with some of them lacks.
DeriveSuggestions(srv) ==
    LET required == RequiredFields(srv.context)
        adopts == {m \in Models \ Core : NamesOf(Entries(srv)[m]) \cap required # {}}
    IN UNION {{[slug |-> Slug[m], field |-> n] :
                n \in required \ NamesOf(Entries(srv)[m])} : m \in adopts}

\* Mutant: the URL alone is believed.
FindByUrl(srv, g) == {g}

\* find_suggestion_from_entries: nothing for an URL no dashboard would show.
FindSuggestion(srv, g) == {g} \cap DeriveSuggestions(srv)

\* run_planner, with the suggestion's prompt: it reads the schema file.
RunPlanner(srv, g) ==
    IF schema = Missing THEN {}
    ELSE GeneratePlan([form |-> "add", field |-> g.field, as |-> None,
                       optional |-> FALSE, model |-> g.slug], schema, srv.context)

\* GET /admin/suggestions/:admin/:field, a page that offers to apply.
OpenReview(a, g) ==
    /\ server.up
    /\ admin[a].at \in {"idle", "page"}
    /\ server' = Loaded
    /\ \E plan \in UNION {RunPlanner(Loaded, h) : h \in FindSuggestion(Loaded, g)} :
        LET review == Review(plan, schema, PiiFields(Loaded.context))
        IN /\ review.valid /\ review.risk < Critical
           /\ admin' = [admin EXCEPT ![a] =
                [at |-> "page", suggestion |-> g, shown |-> Seen(plan, Loaded.context)]]
    /\ UNCHANGED <<project, terminal, applied, edits>>

\* POST of that page: the suggestion is derived and planned once more ...
PostApply(a) ==
    /\ server.up
    /\ admin[a].at = "page"
    /\ server' = Loaded
    /\ \E plan \in UNION {RunPlanner(Loaded, h) :
                            h \in FindSuggestion(Loaded, admin[a].suggestion)} :
        /\ Validates(plan, schema)
        /\ ClassifyRisk(plan, schema, TRUE, PiiFields(Loaded.context)) < Critical
        /\ admin' = [admin EXCEPT ![a] =
                        [at |-> "planned", plan |-> plan, page |-> @]]
    /\ UNCHANGED <<project, terminal, applied, edits>>

\* ... and executed, after which the cache is refreshed,
FinishApply(a) ==
    /\ admin[a].at = "planned"
    /\ Execute(admin[a].plan, server.context, FALSE, admin[a].page.shown)
    /\ server' = [server EXCEPT !.cache = schema]
    /\ admin' = [admin EXCEPT ![a] = Idle]
    /\ UNCHANGED <<terminal, edits>>

\* ... or refused, and the page shown again.
RefuseApply(a) ==
    /\ admin[a].at = "planned"
    /\ Refused(admin[a].plan, server.context, FALSE)
    /\ admin' = [admin EXCEPT ![a] = Idle]
    /\ UNCHANGED <<project, server, terminal, applied, edits>>

\* POST /admin/schema/reload: the file is read before the cache is locked.
ReadSchema(a) ==
    /\ server.up /\ schema # Missing
    /\ admin[a].at \in {"idle", "page"}
    /\ admin' = [admin EXCEPT ![a] = [at |-> "reading", shape |-> schema]]
    /\ UNCHANGED <<project, server, terminal, applied, edits>>

StoreSchema(a) ==
    /\ admin[a].at = "reading"
    /\ server' = [Loaded EXCEPT !.context = server.context, !.cache = admin[a].shape]
    /\ admin' = [admin EXCEPT ![a] = Idle]
    /\ UNCHANGED <<project, terminal, applied, edits>>

-----------------------------------------------------------------------------
Init ==
    /\ day \in Days
    /\ code = day.code
    /\ schema \in {Missing, Dump(day.code)}
    /\ context \in day.contexts
    /\ referenced = {}
    /\ saved = {}
    /\ server = Down
    /\ terminal = [t \in Terminals |-> Idle]
    /\ admin = [a \in Admins |-> Idle]
    /\ applied = <<>>
    /\ edits = 0

InTerminal(t) ==
    \/ \E plan \in day.documents \cup saved, force \in BOOLEAN : AiApply(t, plan, force)
    \/ \E w \in day.saves : AiPlan(w)
    \/ \E w \in day.sentences : Change(t, w)
    \/ Confirm(t) \/ Leave(t)

InBrowser(a) ==
    \/ \E m \in Models, n \in Names : OpenReview(a, [slug |-> Slug[m], field |-> n])
    \/ PostApply(a) \/ FinishApply(a) \/ RefuseApply(a)
    \/ ReadSchema(a) \/ StoreSchema(a)

Next ==
    \/ \E t \in day.terminals : InTerminal(t)
    \/ \E a \in day.admins : InBrowser(a)
    \/ DumpSchema \/ EditContext \/ Start \/ Stop

Spec == Init /\ [][Next]_vars

-----------------------------------------------------------------------------
(* What must hold. *)

\* Everything that is shown, kept or written has its type: in particular the
\* planner makes only steps of valid types (infer_field_type,
\* normalise_type_hint).
TypeOK ==
    /\ code \in Shapes
    /\ schema \in Shapes \cup {Missing}
    /\ context \in Contexts \cup {Garbled}
    /\ saved \subseteq Seq(Steps)
    /\ referenced \subseteq {Slug[m] : m \in Models}
    /\ server.up =>
        /\ server.compiled \in Shapes
        /\ server.cache \in Shapes \cup {Missing, Unread}
        /\ server.context \in Contexts \cup {Unread}
    /\ \A t \in Terminals : terminal[t] # Idle =>
        terminal[t].shown.plan \in Seq(Steps) /\ terminal[t].context \in Contexts
    /\ \A a \in Admins :
        /\ admin[a].at = "page" => admin[a].shown.plan \in Seq(Steps)
        /\ admin[a].at = "planned" => admin[a].plan \in Seq(Steps)
    /\ \A i \in DOMAIN applied : applied[i].plan \in Seq(Steps)
    /\ edits \in 0..MaxSettings

\* Two steps that an operator cannot tell apart: the model may have got
\* another name since, as long as it is found at the same URL.
SameStep(s, shown) == [s EXCEPT !.model = shown.model] = shown
                      /\ Slug[s.model] = Slug[shown.model]

\* What is written is what was shown to the one who said yes, and no riskier,
\* although the server plans the suggestion once more on its POST and the
\* executor reads the project once more: nothing Critical is written, and
\* nothing is removed unless --force was given (suggestion_apply_response,
\* change_command, ai_apply_command, plan_execution).
AppliedAsShown ==
    \A e \in Range(applied) :
        /\ Len(e.plan) = Len(e.shown.plan)
        /\ \A i \in DOMAIN e.plan : SameStep(e.plan[i], e.shown.plan[i])
        /\ e.risk <= e.shown.risk
        /\ e.risk < Critical
        /\ (\E s \in Range(e.plan) : Destructive(s)) => e.force

\* The struct a plan makes of a struct: itself, or what it is renamed to.
Successors(m, plan) ==
    LET renames == {s \in Range(plan) : s.op = "rename_model" /\ s.model = m}
    IN IF renames = {} THEN {m} ELSE {s.to : s \in renames}

\* A plan that is written keeps every field of personal data, with its name
\* and its type, of every struct, whatever its steps do one after the other
\* (policy_violation_for, classify_risk).
PiiOf(F, c) == {<<f.name, f.ty>> : f \in {g \in F : g.name \in PiiFields(c)}}

KeepsPii(e) ==
    \A m \in Models : code[m] # NoModel =>
        \A n \in Successors(m, e.plan) :
            PiiOf(code[m], e.context) \subseteq PiiOf(code'[n], e.context)

PiiStays == [][applied' # applied => KeepsPii(Last(applied'))]_vars

\* Whoever says yes has seen a warning of what the plan takes from a struct: a
\* model or a field that goes or is renamed, a type or an optional value that
\* changes, a field that its industry expects; and nothing is written that they
\* were warned of as personal data.  The warnings are made of the steps; what the
\* structs lose depends on what the steps find in them, one after the other and
\* after the yes (warnings_for; "the part a user has to see before saying yes",
\* change_command).  After a rename, names no longer tell which field it was.
Removed(f, e) ==
    {"field removed"} \cup IF f.name \in RequiredFields(e.context)
                           THEN {"convention removed"} ELSE {}

Changed(f, g) ==
    (IF g.ty # f.ty THEN {"type changed", "table rewritten"} ELSE {})
    \cup IF f.null /\ ~g.null THEN {"field required", "table rewritten"} ELSE {}

\* A field of the name that is there afterwards is the field that was, or
\* another one, after that was removed.
Announced(f, F, e) ==
    \/ "field renamed" \in e.shown.warnings
    \/ Removed(f, e) \subseteq e.shown.warnings
    \/ \E g \in F : g.name = f.name /\ Changed(f, g) \subseteq e.shown.warnings

Warned(e) ==
    /\ "personal data" \notin e.shown.warnings
    /\ \A m \in Models : code[m] # NoModel =>
        \A n \in Successors(m, e.plan) :
            /\ n # m => "model renamed" \in e.shown.warnings
            /\ \A f \in code[m] : Announced(f, code'[n], e)

LossesWarned == [][applied' # applied => Warned(Last(applied'))]_vars

NothingLostUnseen == PiiStays /\ LossesWarned

\* A plan of one step is not written twice in a row: a second POST, another
\* terminal, a schema file or a cache that is behind the code do not repeat
\* it (apply_add_field and the patches compare with the source).
AppliedOnce ==
    \A i \in 1..(Len(applied) - 1) :
        Len(applied[i].plan) = 1 => applied[i].plan # applied[i + 1].plan

\* Whatever is said, a planner's plan passes the review that follows, is not
\* Critical except for personal data, and leaves the framework's models alone
\* (generate_plan against review_plan: two shadows of the schema, and three
\* ideas of what is allowed).
PlannedIsAllowed ==
    schema # Missing /\ context # Garbled =>
        \A w \in day.sentences \cup day.saves : \A plan \in GeneratePlan(w, schema, context) :
            LET review == Review(plan, schema, PiiFields(context))
            IN /\ review.valid
               /\ review.risk = Critical =>
                    \E s \in Range(plan) : TouchesPii(s, PiiFields(context))
               /\ \A s \in Range(plan) : s.model \notin Core
=============================================================================
