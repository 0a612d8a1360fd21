------------------------------ MODULE Planner ------------------------------
(***************************************************************************)
(* From a sentence to a plan of one step (rustio-core/src/ai/planner.rs,   *)
(* ai/industry.rs).  A sentence is what its words say: which form it has,  *)
(* the field, the hint for the model, and the modifiers.                   *)
(*                                                                         *)
(* Every parser yields the steps it makes of a sentence: one, or none      *)
(* where the code returns an error.                                        *)
(***************************************************************************)
EXTENDS Plans

CONSTANTS
    Hints,      \* what a sentence calls a model, singular and plural taken as one
    Slug,       \* the hint that a model's name, table and admin_name all match
    ViaOf,      \* <target>_id, of each model
    Heuristic,  \* infer_field_type: what the name alone suggests
    None        \* a part that is not there

\* The names a program gives its models have a hint and a column each; every
\* name suggests a type, and that of the Swedish identity number is the default
\* one, String, in every country.
ASSUME NamingAssumption ==
    /\ Slug \in [Models -> Hints] /\ ViaOf \in [Models -> Names]
    /\ Heuristic \in [Names -> Types]
    /\ "personnummer" \in Names => Heuristic["personnummer"] = "String"
ASSUME TypesAssumption == {"i32", "i64", "String", "bool", "DateTime"} \subseteq Types

Industries == {"housing", "healthcare", "banking", "other"}

\* rustio.context.json; no file is a context that says nothing.
Contexts ==
    [country : {"SE", "NO", "US", "DE", "other", None}, region : {"EU", "other", None},
     industry : Industries \cup {None}, compliance : SUBSET {"GDPR"}]

NoContext ==
    [country |-> None, region |-> None, industry |-> None, compliance |-> {}]

\* What `as <type>`, or a word like "datetime" in the phrase, says.
TypeWord == [integer |-> "i32", bigint |-> "i64", text |-> "String",
             boolean |-> "bool", timestamp |-> "DateTime"]

Sentences ==
         [form : {"add"}, field : Names, as : DOMAIN TypeWord \cup {"decimal", None},
          optional : BOOLEAN, model : Hints]
    \cup [form : {"rename"}, field : Names, to : Names, model : Hints]
    \cup [form : {"rename model"}, model : Hints, to : Models]
    \cup [form : {"remove"}, field : Names, model : Hints]
    \cup [form : {"change"}, field : Names, as : DOMAIN TypeWord \cup {"decimal"},
          model : Hints]
    \cup [form : {"make"}, field : Names, optional : BOOLEAN, model : Hints]
    \cup [form : {"link"}, model : Hints, to : Hints, required : BOOLEAN,
          on_delete : Policies]
    \cup [form : {"sql", "add model", "remove model", "other"}]

-----------------------------------------------------------------------------
\* The context.

\* The member states among the countries above.
MemberStates == {"SE", "DE"}

EffectiveRegion(c) ==
    IF c.region # None THEN c.region
    ELSE IF c.country \in MemberStates THEN "EU" ELSE None

RequiresGdpr(c) == "GDPR" \in c.compliance \/ EffectiveRegion(c) = "EU"

PiiFields(c) ==
    (CASE c.country = "SE" -> {"personnummer"}
       [] c.country = "NO" -> {"fodselsnummer"}
       [] c.country = "US" -> {"ssn"}
       [] OTHER -> {})
    \cup IF RequiresGdpr(c) THEN {"email", "phone", "address", "date_of_birth"} ELSE {}

\* industry_schema_for.
RequiredFields(c) ==
    CASE c.industry = "housing" -> {"personnummer", "queue_start_date", "annual_income"}
      [] c.industry = "healthcare" -> {"patient_id", "created_at"}
      [] c.industry = "banking" -> {"account_number", "currency", "balance"}
      [] OTHER -> {}

\* Names the country's or the industry's rules take for an identifier, which is a
\* text.  Those that only end in _patient_id are left out.
IsIdentifier(name, c) ==
    \/ c.country = "SE" /\ name \in {"personnummer", "personal_number", "personal_id", "pnr"}
    \/ c.country = "NO" /\ name \in {"fodselsnummer", "personal_number", "personal_id"}
    \/ c.industry = "healthcare" /\ name \in
        {"patient_id", "patient", "medical_record_number", "mrn"}
    \/ c.industry = "banking" /\ name \in {"account_number", "iban", "bic"}

\* These rules, then those for amounts, then the name itself.
GuessedType(name, c) ==
    CASE IsIdentifier(name, c) -> "String"
      [] c.industry = "banking" /\ name \in {"balance", "amount"} -> "i64"
      [] OTHER -> Heuristic[name]

\* Mutant: the word is taken for the type.
WordAsType(name, as, c) ==
    IF as = None THEN {GuessedType(name, c)}
    ELSE IF as \in DOMAIN TypeWord THEN {as} ELSE {}

\* infer_field_type, with normalise_type_hint: none for an unknown type word.
InferFieldType(name, as, c) ==
    IF as = None THEN {GuessedType(name, c)}
    ELSE IF as \in DOMAIN TypeWord THEN {TypeWord[as]} ELSE {}

-----------------------------------------------------------------------------
\* The parsers.

\* The model the hint means; none if several, or none, match.
ResolveModel(hint, shape) ==
    LET matches == {m \in Models : shape[m] # NoModel /\ hint = Slug[m]}
    IN IF Cardinality(matches) = 1 THEN matches ELSE {}

\* ... and is no model of the framework's.
Target(hint, shape) == ResolveModel(hint, shape) \ Core

With(hint, field, shape) == {m \in Target(hint, shape) : field \in NamesOf(shape[m])}

\* What the sentence says of its being optional counts, however its type was found.
TryAddField(w, shape, c) ==
    {[op |-> "add_field", model |-> x[1],
      field |-> [name |-> w.field, ty |-> x[2], null |-> w.optional]] :
        x \in (Target(w.model, shape) \ With(w.model, w.field, shape))
                \X InferFieldType(w.field, w.as, c)}

TryRenameField(w, shape) ==
    {[op |-> "rename_field", model |-> m, name |-> w.field, to |-> w.to] :
        m \in With(w.model, w.field, shape) \ With(w.model, w.to, shape)}

TryRenameModel(w, shape) ==
    {[op |-> "rename_model", model |-> m, to |-> w.to] :
        m \in {n \in Target(w.model, shape) : shape[w.to] = NoModel}}

TryRemoveField(w, shape) ==
    {[op |-> "remove_field", model |-> m, name |-> w.field] :
        m \in With(w.model, w.field, shape)}

TryChangeType(w, shape, c) ==
    {[op |-> "change_type", model |-> x[1], name |-> w.field, ty |-> x[2]] :
        x \in With(w.model, w.field, shape) \X InferFieldType(w.field, w.as, c)}

\* Mutant: the models of the framework are not protected.
TryChangeAnyNullability(w, shape) ==
    {[op |-> "change_null", model |-> m, name |-> w.field, null |-> w.optional] :
        m \in {n \in ResolveModel(w.model, shape) : w.field \in NamesOf(shape[n])}}

TryChangeNullability(w, shape) ==
    {[op |-> "change_null", model |-> m, name |-> w.field, null |-> w.optional] :
        m \in With(w.model, w.field, shape)}

TryAddRelation(w, shape) ==
    {[op |-> "add_relation", model |-> x[1], name |-> ViaOf[x[2]], to |-> x[2],
      kind |-> "belongs_to", required |-> w.required, on_delete |-> w.on_delete] :
        x \in {y \in Target(w.model, shape) \X Target(w.to, shape) :
                ViaOf[y[2]] \notin NamesOf(shape[y[1]])}}

\* PARSERS; SQL, and whole models, are refused before any of them or by one.
StepsOf(w, shape, c) ==
    CASE w.form = "add" -> TryAddField(w, shape, c)
      [] w.form = "rename" -> TryRenameField(w, shape)
      [] w.form = "rename model" -> TryRenameModel(w, shape)
      [] w.form = "remove" -> TryRemoveField(w, shape)
      [] w.form = "change" -> TryChangeType(w, shape, c)
      [] w.form = "make" -> TryChangeNullability(w, shape)
      [] w.form = "link" -> TryAddRelation(w, shape)
      [] OTHER -> {}

\* generate_plan: the plans made of the sentence, at most one.
GeneratePlan(w, shape, c) ==
    {plan \in {<<s>> : s \in StepsOf(w, shape, c)} : Validates(plan, shape)}
=============================================================================
