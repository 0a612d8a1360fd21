------------------------------- MODULE Plans -------------------------------
(***************************************************************************)
(* Plans of typed steps and their review (rustio-core/src/ai.rs,           *)
(* ai/review.rs): which plan is valid for a schema, what it is meant to do *)
(* to it, and how risky it is.  Nothing here is executed.                  *)
(***************************************************************************)
EXTENDS Naturals, Sequences, SequencesExt, FiniteSets

CONSTANTS
    Models,     \* model names
    Core,       \* the models of the framework itself
    Names,      \* field names
    Types       \* VALID_TYPE_NAMES

ASSUME CoreAssumption == Core \subseteq Models

Fields == [name : Names, ty : Types, null : BOOLEAN]

NamesOf(F) == {f.name : f \in F}

\* The fields of each model; a model that does not exist has none.
NoModel == {}
Shapes == [Models -> SUBSET Fields]

\* The schema a plan is validated on: its file records no relations, `via`
\* are the ones the plan has added.
AsSchema(shape) == [fields |-> shape, via |-> {}]

Policies == {"restrict", "cascade", "set_null"}

Steps ==
         [op : {"add_field"}, model : Models, field : Fields]
    \cup [op : {"remove_field", "remove_relation"}, model : Models, name : Names]
    \cup [op : {"rename_field"}, model : Models, name : Names, to : Names]
    \cup [op : {"rename_model"}, model : Models, to : Models]
    \cup [op : {"change_type"}, model : Models, name : Names, ty : Types]
    \cup [op : {"change_null"}, model : Models, name : Names, null : BOOLEAN]
    \cup [op : {"add_relation"}, model : Models, name : Names, to : Models,
          kind : {"belongs_to", "has_many"}, required : BOOLEAN,
          on_delete : Policies]
    \cup [op : {"add_model"}, model : Models, fields : SUBSET Fields]
    \cup [op : {"remove_model"}, model : Models]
    \cup [op : {"update_admin"}, model : Models, name : Names]
    \cup [op : {"create_migration"}]

DeveloperOnly(s) == s.op = "create_migration"

-----------------------------------------------------------------------------
\* Validation.

\* validate_primitive, as far as typed steps can be wrong.
WellFormed(s) ==
    /\ s.op = "rename_field" => s.name # s.to
    /\ s.op = "rename_model" => s.model # s.to
    /\ s.op = "add_model" =>
        \A f, g \in s.fields : f.name = g.name => f = g

Exists(m, S) == S.fields[m] # NoModel
Has(m, n, S) == n \in NamesOf(S.fields[m])

\* validate_against.
Applies(s, S) ==
    /\ s.op # "add_model" => Exists(s.model, S)
    /\ CASE s.op = "add_model" -> ~Exists(s.model, S)
         [] s.op = "rename_model" -> ~Exists(s.to, S)
         [] s.op = "add_field" -> ~Has(s.model, s.field.name, S)
         [] s.op = "rename_field" -> /\ Has(s.model, s.name, S)
                                     /\ ~Has(s.model, s.to, S)
         [] s.op = "add_relation" -> /\ Exists(s.to, S)
                                     /\ <<s.model, s.name>> \notin S.via
         [] s.op = "remove_relation" -> <<s.model, s.name>> \in S.via
         [] s.op = "remove_model" -> TRUE
         [] OTHER -> Has(s.model, s.name, S)

Edit(F, n, Change(_)) == {IF f.name = n THEN Change(f) ELSE f : f \in F}

\* The column of a belongs_to relation.
ForeignKey(s) == [name |-> s.name, ty |-> "i64", null |-> ~s.required]

\* The fields of the step's model after it.
Edited(s, F, withColumn) ==
    CASE s.op = "add_model" -> s.fields
      [] s.op = "remove_model" -> NoModel
      [] s.op = "rename_model" -> NoModel
      [] s.op = "add_field" -> F \cup {s.field}
      [] s.op = "remove_field" -> {f \in F : f.name # s.name}
      [] s.op = "rename_field" ->
            Edit(F, s.name, LAMBDA f : [f EXCEPT !.name = s.to])
      [] s.op = "change_type" ->
            Edit(F, s.name, LAMBDA f : [f EXCEPT !.ty = s.ty])
      [] s.op = "change_null" ->
            Edit(F, s.name, LAMBDA f : [f EXCEPT !.null = s.null])
      [] s.op = "add_relation" ->
            IF withColumn /\ s.kind = "belongs_to" /\ s.name \notin NamesOf(F)
            THEN F \cup {ForeignKey(s)} ELSE F
      [] OTHER -> F

\* apply_shadow of the plan (no column for a relation), and
\* apply_shadow_for_review of the review (with the column).
Shadow(s, S, withColumn) ==
    [fields |->
        LET moved == [S.fields EXCEPT ![s.model] = Edited(s, @, withColumn)]
        IN IF s.op = "rename_model"
           THEN [moved EXCEPT ![s.to] = S.fields[s.model]] ELSE moved,
     via |->
        CASE s.op = "add_relation" -> S.via \cup {<<s.model, s.name>>}
          [] s.op = "remove_relation" -> S.via \ {<<s.model, s.name>>}
          [] s.op = "rename_model" ->
                {<<IF r[1] = s.model THEN s.to ELSE r[1], r[2]>> : r \in S.via}
          [] s.op = "remove_model" -> {r \in S.via : r[1] # s.model}
          [] OTHER -> S.via]

\* The schemas that remain after the step: none if it is refused.
Advance(s, S, withColumn) ==
    IF ~DeveloperOnly(s) /\ WellFormed(s) /\ Applies(s, S)
    THEN {Shadow(s, S, withColumn)} ELSE {}

Simulated(plan, shape, withColumn) ==
    FoldLeft(LAMBDA A, s : UNION {Advance(s, S, withColumn) : S \in A},
             {AsSchema(shape)}, plan)

\* Plan::validate, which the planner and build_plan_document run ...
Validates(plan, shape) == Simulated(plan, shape, FALSE) # {}

\* ... and simulate_plan, which review_plan runs.
ReviewedValid(plan, shape) == Simulated(plan, shape, TRUE) # {}

-----------------------------------------------------------------------------
\* Risk.

Low == 0
Medium == 1
High == 2
Critical == 3
Levels == Low..Critical

PerStepRisk(s) ==
    CASE s.op \in {"add_field", "add_model", "update_admin"} -> Low
      [] s.op = "add_relation" ->
            IF s.required /\ s.on_delete = "cascade" THEN High
            ELSE IF s.required \/ s.on_delete = "cascade" THEN Medium ELSE Low
      [] s.op = "change_null" -> IF s.null THEN Low ELSE High
      [] s.op \in {"rename_field", "rename_model", "change_type"} -> Medium
      [] s.op \in {"remove_field", "remove_model", "remove_relation"} -> High
      [] s.op = "create_migration" -> Critical

TouchesCore(s, shape) ==
    /\ s.op \notin {"add_model", "create_migration"}
    /\ s.model \in Core /\ shape[s.model] # NoModel

\* What classify_risk calls Critical and policy_violation_for refuses: the
\* personal field goes, or changes its name or its type.
TouchesPii(s, pii) ==
    s.op \in {"remove_field", "rename_field", "change_type"} /\ s.name \in pii

Destructive(s) == s.op \in {"remove_field", "remove_model", "remove_relation"}

\* classify_risk, with compute_impact.
ClassifyRisk(plan, shape, valid, pii) ==
    LET steps == Range(plan)
        mixed == /\ \E s \in steps : s.op = "add_field"
                 /\ \E s \in steps : s.op = "remove_field"
    IN IF \/ ~valid
          \/ \E s \in steps : \/ TouchesCore(s, shape)
                              \/ DeveloperOnly(s)
                              \/ TouchesPii(s, pii)
       THEN Critical
       ELSE Max({PerStepRisk(s) : s \in steps} \cup {Low}
                    \cup (IF mixed THEN {High} ELSE {}))

\* Mutant: the field that becomes optional is reported, not the other.
RewritesOptional(s) == s.op = "change_type" \/ (s.op = "change_null" /\ s.null)

\* "This operation rewrites the entire table" (so does making a field optional,
\* which is not said).
Rewrites(s) == s.op = "change_type" \/ (s.op = "change_null" /\ ~s.null)

\* warnings_for: what the review says of a step that takes something away.
\* (What it says of relations, of several steps and of developers' steps can
\* be seen in the plan itself.)
StepWarnings(s, pii, conventions) ==
    {w \in {"field removed", "model removed", "model renamed", "field renamed",
            "field required", "type changed", "table rewritten", "personal data",
            "convention removed"} :
        CASE w = "field removed" -> s.op = "remove_field"
          [] w = "model removed" -> s.op = "remove_model"
          [] w = "model renamed" -> s.op = "rename_model"
          [] w = "field renamed" -> s.op = "rename_field"
          [] w = "field required" -> s.op = "change_null" /\ ~s.null
          [] w = "type changed" -> s.op = "change_type"
          [] w = "table rewritten" -> Rewrites(s)
          [] w = "personal data" -> TouchesPii(s, pii)
          [] w = "convention removed" -> s.op = "remove_field" /\ s.name \in conventions}

Warnings(plan, pii, conventions) ==
    UNION {StepWarnings(s, pii, conventions) : s \in Range(plan)}

\* review_plan: what an operator is shown before saying yes.
Review(plan, shape, pii) ==
    LET valid == ReviewedValid(plan, shape)
    IN [valid |-> valid, risk |-> ClassifyRisk(plan, shape, valid, pii)]
=============================================================================
