---------------------------- MODULE MCWorkspace ----------------------------
(***************************************************************************)
(* A housing project with two models of its own, three contexts it may     *)
(* have, and what people ask of it.                                        *)
(***************************************************************************)
EXTENDS Journey

CONSTANTS a1, a2, t1, t2

MCModels == {"Applicant", "Applicants", "Visit", "User"}
MCCore == {"User"}
MCHints == {"applicants", "visits", "users"}
MCSlug == [m \in MCModels |->
    CASE m = "Visit" -> "visits" [] m = "User" -> "users" [] OTHER -> "applicants"]
MCViaOf == [m \in MCModels |->
    CASE m = "Visit" -> "visit_id" [] m = "User" -> "user_id"
      [] m = "Applicants" -> "applicants_id" [] OTHER -> "applicant_id"]

MCNames == {"id", "personnummer", "annual_income", "queue_start_date", "patient_id",
            "created_at", "email", "title", "pnr", "is_open",
            "visit_id", "user_id", "applicant_id", "applicants_id"}
MCTypes == {"i32", "i64", "String", "bool", "DateTime"}
MCHeuristic == [n \in MCNames |->
    CASE n = "annual_income" -> "i64"
      [] n \in {"queue_start_date", "created_at"} -> "DateTime"
      [] n \in {"patient_id", "visit_id", "user_id", "applicant_id", "applicants_id"} -> "i32"
      [] n = "is_open" -> "bool"
      [] OTHER -> "String"]

Field(n, t, o) == [name |-> n, ty |-> t, null |-> o]
Id == Field("id", "i64", FALSE)

MCCoreFields == {Id, Field("email", "String", FALSE)}
MCFirstCode == [m \in MCModels |->
    CASE m = "Applicant" -> {Id, Field("personnummer", "String", FALSE),
                             Field("annual_income", "i64", FALSE)}
      [] m = "Visit" -> {Id, Field("created_at", "DateTime", FALSE)}
      [] OTHER -> NoModel]

Housing(c) == [NoContext EXCEPT !.country = c, !.industry = "housing"]

Add(n, t, o, m) == [op |-> "add_field", model |-> m, field |-> Field(n, t, o)]
Rename(n, k, m) == [op |-> "rename_field", model |-> m, name |-> n, to |-> k]
Without(n, m) == [op |-> "remove_field", model |-> m, name |-> n]
Relate(m, k, kind, required, policy) ==
    [op |-> "add_relation", model |-> m, name |-> MCViaOf[k], to |-> k,
     kind |-> kind, required |-> required, on_delete |-> policy]

MCDocuments == {
    <<Rename("personnummer", "pnr", "Applicant")>>,
    <<Rename("annual_income", "title", "Applicant"),
      Rename("title", "annual_income", "Applicant")>>,
    <<Relate("Visit", "Applicant", "belongs_to", FALSE, "set_null"),
      Rename("applicant_id", "patient_id", "Visit")>>,
    <<Add("title", "String", TRUE, "Visit"), Without("created_at", "Visit")>>,
    <<Without("annual_income", "Applicant")>>,
    <<[op |-> "create_migration"]>>}

\* A field that makes place for another of its name, a model that does, and an
\* id that Model::id cannot return.
MCReplacing == {
    <<[op |-> "change_type", model |-> "Visit", name |-> "id", ty |-> "i32"]>>,
    <<Without("annual_income", "Applicant"), Add("annual_income", "String", FALSE, "Applicant")>>,
    <<[op |-> "rename_model", model |-> "Applicant", to |-> "Applicants"],
      [op |-> "rename_model", model |-> "Visit", to |-> "Applicant"]>>}

MCSentence == {
    [form |-> "add", field |-> "patient_id", as |-> "integer", optional |-> TRUE, model |-> "visits"],
    [form |-> "add", field |-> "title", as |-> "decimal", optional |-> FALSE, model |-> "visits"],
    [form |-> "rename", field |-> "personnummer", to |-> "pnr", model |-> "applicants"],
    [form |-> "rename model", model |-> "applicants", to |-> "Applicants"],
    [form |-> "remove", field |-> "created_at", model |-> "visits"],
    [form |-> "change", field |-> "annual_income", as |-> "text", model |-> "applicants"],
    [form |-> "make", field |-> "email", optional |-> TRUE, model |-> "users"],
    [form |-> "make", field |-> "annual_income", optional |-> TRUE, model |-> "applicants"],
    [form |-> "make", field |-> "annual_income", optional |-> FALSE, model |-> "applicants"],
    [form |-> "link", model |-> "visits", to |-> "applicants", required |-> FALSE,
     on_delete |-> "restrict"],
    [form |-> "sql"]}


Sv == Housing("SE")
Care == [NoContext EXCEPT !.industry = "healthcare"]
Day == [terminals |-> {}, admins |-> {}, sentences |-> {}, saves |-> {}, documents |-> {},
        contexts |-> {Sv, Care}, code |-> MCFirstCode, serves |-> FALSE, apps |-> {}]

MCApps == {"visit", "visits", "applicant"}
MCStructOf == [a \in MCApps |-> IF a = "applicant" THEN "Applicant" ELSE "Visit"]
MCScaffold == {Id, Field("title", "String", FALSE)}
Fresh == [Day EXCEPT !.code = [m \in MCModels |-> NoModel], !.contexts = {NoContext},
                     !.serves = TRUE]

\* One terminal and everything it can be asked, now or in a saved plan; two terminals that get the
\* same file; plans that replace what they remove; two browsers; a browser and a terminal; and three
\* empty directories: for two names that make one struct, for two structs and a plan, and for a model
\* that is renamed before another takes its new name or its new table.
MCDays == {
    [Day EXCEPT !.terminals = {t1}, !.sentences = MCSentence, !.documents = MCDocuments],
    [Day EXCEPT !.terminals = {t1, t2}, !.documents = MCDocuments, !.contexts = {NoContext}],
    [Day EXCEPT !.terminals = {t1}, !.saves = MCSentence],
    [Day EXCEPT !.terminals = {t1}, !.documents = MCReplacing, !.sentences = {
        [form |-> "add", field |-> "pnr", as |-> None, optional |-> TRUE, model |-> "applicants"]}],
    [Day EXCEPT !.admins = {a1, a2}, !.serves = TRUE],
    [Day EXCEPT !.admins = {a1}, !.serves = TRUE, !.terminals = {t1}, !.sentences = {
        [form |-> "add", field |-> "patient_id", as |-> None, optional |-> FALSE,
         model |-> "visits"],
        [form |-> "rename", field |-> "created_at", to |-> "patient_id", model |-> "visits"],
        [form |-> "rename model", model |-> "applicants", to |-> "Applicants"]}],
    [Fresh EXCEPT !.apps = {"visit", "visits"}],
    [Fresh EXCEPT !.apps = {"visit", "applicant"}, !.terminals = {t1}, !.sentences = {
        [form |-> "add", field |-> "is_open", as |-> None, optional |-> FALSE,
         model |-> "visits"]}],
    [Fresh EXCEPT !.apps = {"visit", "applicant"}, !.terminals = {t1}, !.sentences = {
        [form |-> "rename", field |-> "title", to |-> "pnr", model |-> "applicants"]} \cup
        {[form |-> "rename model", model |-> "visits", to |-> m] : m \in {"Applicant", "Applicants"}}]}

Symmetric == Permutations(Admins) \cup Permutations(Terminals)
=============================================================================
