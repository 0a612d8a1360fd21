------------------------------- MODULE Forms -------------------------------
(***************************************************************************)
(* The forms for a row: from what is stored to what the page shows, to     *)
(* what a browser sends, to what is stored again.  One model of a project, *)
(* whose fields are of every kind the derive macro knows.                  *)
(*                                                                         *)
(* Two kinds of form write it: those drawn from templates (/new, /edit),   *)
(* which store the texts a browser sends; and the older one (/create),     *)
(* which parses them into the model's struct.                              *)
(*                                                                         *)
(* A cell is "null", "blank" (the empty text), or a value.  A browser      *)
(* empties what an input cannot hold and joins the lines of a text.        *)
(***************************************************************************)
EXTENDS Requests, Naturals, Sequences, SequencesExt, FiniteSets, FiniteSetsExt

CONSTANTS
    Fields,        \* the fields but the id: name to kind and whether optional
    OptionCap,     \* RELATION_FILTER_DROPDOWN_CAP: options of a drop-down
    FirstEvents,   \* the rows there may be at the start, each with its id
    Targets,       \* the rows the relation may refer to, in order of their labels
    MaxEvents      \* bound: rows

InputKinds == {"string", "i32", "bool", "datetime", "relation"}
Kind(n) == Fields[n].kind
Nullable(n) == Fields[n].nullable
FieldNames == DOMAIN Fields

ASSUME FormsAssumption ==
    /\ \A n \in FieldNames : Kind(n) \in InputKinds /\ Nullable(n) \in BOOLEAN
    /\ OptionCap \in Nat \ {0}

AllTargets == ToSet(Targets)
EmptyText == "blank"

\* Row::get_*: what a field of the model's struct can be read from.
Decodes(n, cell) ==
    CASE Kind(n) = "string" -> cell # "null" \/ Nullable(n)
      [] Kind(n) = "relation" -> cell \in AllTargets \/ (cell = "null" /\ Nullable(n))
      [] OTHER -> cell \notin {EmptyText, "wide"} /\ (cell # "null" \/ Nullable(n))

\* The rows at the start were written by the project's own code, from the
\* model's struct; a number is not a text with a meaning of its own.
ASSUME EventsAssumption ==
    /\ AllTargets \cap {EmptyText, "null", "error", "wide", "minute"} = {}
    /\ \A e \in FirstEvents : DOMAIN e = FieldNames
    /\ \A e \in FirstEvents : \A n \in FieldNames :
        /\ Decodes(n, e[n]) /\ e[n] # "error"
        /\ Kind(n) = "bool" => e[n] \in {"true", "false", "null"}

VARIABLES
    events,     \* the rows by id: their cells, and which kind of form wrote them
    targets,    \* the table the relation refers to
    tabs        \* each browser: the page it shows, and what becomes of it

formVars == <<events, targets, tabs>>

EmptyForm == [n \in FieldNames |-> IF Kind(n) = "bool" THEN "false" ELSE EmptyText]
NoTab == [page |-> "none", phase |-> "none", id |-> 0, read |-> EmptyForm,
          control |-> EmptyForm, options |-> {}, touched |-> {}, token |-> TRUE]
Resting == {"none", "open", "saved", "missing", "refused"}
Filling(r) == tabs[r].phase \notin Resting

FormsInit ==
    /\ events \in {[i \in {1} |-> [cells |-> e, via |-> "code"]] : e \in FirstEvents}
    /\ targets = AllTargets
    /\ tabs = [r \in Requests |-> NoTab]

-----------------------------------------------------------------------------
\* From a row to a page.

\* row_to_map: NULL is shown as an empty text.
RowText(cell) == IF cell = "null" THEN EmptyText ELSE cell

\* The first rows of the target, in the order of their labels.
FirstOf(S) ==
    {t \in S : \E i \in DOMAIN Targets :
        Targets[i] = t /\ Cardinality({j \in 1..(i - 1) : Targets[j] \in S}) < OptionCap}

\* render_field_control, and what a browser makes of it: a drop-down that does
\* not offer the value stands on "choose"; with no options it is a number
\* input.  A datetime-local input holds no text with a time zone, as the ORM
\* writes it; an input of type text holds one line.
Control(n, text, options) ==
    CASE Kind(n) = "relation" -> IF options # {} /\ text \notin options THEN EmptyText ELSE text
      [] Kind(n) = "bool" -> IF text = "true" THEN "true" ELSE "false"
      [] Kind(n) = "datetime" -> IF text = "instant" THEN EmptyText ELSE text
      [] OTHER -> IF text = "lines" THEN "joined" ELSE text

\* fetch_form_relation_options: too many options make it a number input.
LegacyOptions(S) == IF Cardinality(S) > OptionCap THEN {} ELSE S

\* What a user may set a control to.
Inputs(n, options) ==
    CASE Kind(n) = "relation" -> {EmptyText} \cup (IF options # {} THEN options ELSE AllTargets)
      [] Kind(n) = "bool" -> {"true", "false"}
      [] Kind(n) = "datetime" -> {EmptyText, "minute"}
      [] Kind(n) = "i32" -> {EmptyText, "new", "wide"}
      [] OTHER -> {EmptyText, "new"}

-----------------------------------------------------------------------------
\* From a page to a row.

\* The values a browser sends under the name of a control.  A templated
\* checkbox has a hidden input of the same name before it.
Sent(n, value) ==
    IF Kind(n) # "bool" THEN <<value>>
    ELSE IF value = "true" THEN <<"false", "true">> ELSE <<"false">>

LegacySent(n, value) ==
    IF Kind(n) # "bool" THEN <<value>>
    ELSE IF value = "true" THEN <<"true">> ELSE <<>>

\* Mutant: the first value of a name counts.
GetFirst(values) == IF values = <<>> THEN EmptyText ELSE Head(values)

\* FormData::parse, get: of several values of a name the last one counts.
Get(values) == IF values = <<>> THEN EmptyText ELSE Last(values)

\* build_mutation_data: every field but the id, as the text that was sent.
MutationData(control) == [n \in FieldNames |-> Get(Sent(n, control[n]))]

\* Mutant: an optional field that was left empty keeps the empty text.
ParseKeepingBlank(n, value) ==
    CASE value = EmptyText /\ Kind(n) = "bool" -> IF Nullable(n) THEN "null" ELSE "false"
      [] value = EmptyText /\ Kind(n) # "bool" -> IF Nullable(n) THEN EmptyText ELSE "error"
      [] value = "wide" -> "error"
      [] value = "minute" -> "instant"
      [] OTHER -> value

\* from_form_assignment, nullable_assignment: an optional field that was left
\* empty is NULL, a required one an error; an integer must fit its type; a
\* box that is not checked is NULL if it may be.
Parse(n, value) ==
    CASE value = EmptyText /\ Kind(n) = "bool" -> IF Nullable(n) THEN "null" ELSE "false"
      [] value = EmptyText /\ Kind(n) # "bool" -> IF Nullable(n) THEN "null" ELSE "error"
      [] value = "wide" -> "error"
      [] value = "minute" -> "instant"
      [] OTHER -> value

FromForm(control) == [n \in FieldNames |-> Parse(n, Get(LegacySent(n, control[n])))]

\* The foreign key of the relation: the empty text refers to no row.
Admitted(cells) ==
    \A n \in FieldNames : Kind(n) = "relation" => cells[n] \in targets \cup {"null"}

-----------------------------------------------------------------------------
\* Opening a form.

Turn(r, tab) == tabs' = [tabs EXCEPT ![r] = tab] /\ UNCHANGED <<events, targets>>

\* admin_model_form_get: a row that is not there has no form.
OpenEdit(r, id) ==
    Turn(r, [NoTab EXCEPT !.page = "edit", !.id = id,
             !.phase = IF id \in DOMAIN events THEN "prefill" ELSE "missing"])

OpenNew(r) == Turn(r, [NoTab EXCEPT !.page = "new", !.phase = "options"])
OpenLegacy(r) == Turn(r, [NoTab EXCEPT !.page = "legacy", !.phase = "options"])

\* form_render: the row is read,
Prefill(r) ==
    /\ tabs[r].phase = "prefill"
    /\ Turn(r, [tabs[r] EXCEPT !.phase = "options", !.read = events[tabs[r].id].cells])

\* then the options (enrich_fields_for_form, fk_options), and the page drawn.
Draw(r) ==
    LET tab == tabs[r]
        options == IF tab.page = "legacy" THEN LegacyOptions(targets) ELSE FirstOf(targets)
    IN
    /\ tab.phase = "options"
    /\ Turn(r, [tab EXCEPT
          !.phase = "open", !.options = options, !.touched = {},
          !.control = IF tab.page = "edit"
                        THEN [n \in FieldNames |-> Control(n, RowText(tab.read[n]), options)]
                        ELSE EmptyForm])

-----------------------------------------------------------------------------
\* Submitting it.

\* The user changes some controls,
Set(control, edits) ==
    [n \in FieldNames |-> IF n \in DOMAIN edits THEN edits[n] ELSE control[n]]

\* and sends the form of the page.
Submit(r, page, edits, token) ==
    LET tab == tabs[r]
        control == Set(tab.control, edits)
    IN
    /\ tab.page = page /\ tab.phase = "open"
    /\ \A n \in DOMAIN edits : edits[n] \in Inputs(n, tab.options)
    /\ Turn(r, [tab EXCEPT
          !.phase = IF page = "edit" THEN "exists" ELSE IF ~token THEN "refused"
                    ELSE IF page = "legacy" /\ \E n \in FieldNames :
                              FromForm(control)[n] = "error"
                      THEN "refused" ELSE "insert",
          !.control = control, !.touched = DOMAIN edits, !.token = token])

\* admin_model_update_post.
StillThere(r) ==
    LET tab == tabs[r] IN
    /\ tab.phase = "exists"
    /\ Turn(r, [tab EXCEPT !.phase =
          IF tab.id \notin DOMAIN events THEN "missing"
          ELSE IF tab.token THEN "update" ELSE "refused"])

UpdateEvent(r) ==
    LET tab == tabs[r]
        cells == MutationData(tab.control)
    IN
    /\ tab.phase = "update"
    /\ Admitted(cells)
    /\ events' = [events EXCEPT ![tab.id] = [cells |-> cells, via |-> "form"]]
    /\ tabs' = [tabs EXCEPT ![r].phase = "saved"]
    /\ UNCHANGED targets

\* What the database refuses is drawn again from the row, without the input.
RedrawEdit(r) ==
    /\ tabs[r].phase = "update"
    /\ ~Admitted(MutationData(tabs[r].control))
    /\ Turn(r, [tabs[r] EXCEPT !.phase = "prefill"])

Cells(tab) ==
    IF tab.page = "legacy" THEN FromForm(tab.control) ELSE MutationData(tab.control)

\* insert_record; Model::create.
InsertEvent(r) ==
    LET tab == tabs[r]
        id == Cardinality(DOMAIN events) + 1
    IN
    /\ tab.phase = "insert"
    /\ id <= MaxEvents
    /\ Admitted(Cells(tab))
    /\ events' = [i \in DOMAIN events \cup {id} |->
          IF i = id THEN [cells |-> Cells(tab),
                          via |-> IF tab.page = "legacy" THEN "code" ELSE "form"]
          ELSE events[i]]
    /\ tabs' = [tabs EXCEPT ![r].phase = "saved"]
    /\ UNCHANGED targets

\* The templated form is drawn again, the older one fails.
RedrawNew(r) ==
    LET tab == tabs[r] IN
    /\ tab.phase = "insert"
    /\ ~Admitted(Cells(tab))
    /\ Turn(r, [tab EXCEPT !.phase = IF tab.page = "legacy" THEN "refused" ELSE "options"])

\* A row that none refers to is deleted from the target.
TargetGone(t) ==
    /\ t \in targets
    /\ \A i \in DOMAIN events, n \in FieldNames : events[i].cells[n] # t
    /\ targets' = targets \ {t}
    /\ UNCHANGED <<events, tabs>>

FormStep(r) ==
    \/ Prefill(r) \/ Draw(r) \/ StillThere(r)
    \/ UpdateEvent(r) \/ RedrawEdit(r) \/ InsertEvent(r) \/ RedrawNew(r)

\* The server stops: what was under way is lost, with the page.
FormsCrash ==
    /\ tabs' = [r \in Requests |-> IF Filling(r) THEN NoTab ELSE tabs[r]]
    /\ UNCHANGED <<events, targets>>

-----------------------------------------------------------------------------
\* The types of the variables.
FormsTypeOK ==
    /\ DOMAIN events = 1..Cardinality(DOMAIN events)
    /\ \A i \in DOMAIN events : DOMAIN events[i].cells = FieldNames
    /\ targets \subseteq AllTargets
    /\ \A r \in Requests : tabs[r].phase \in
          Resting \cup {"prefill", "options", "exists", "update", "insert"}

\* What a templated form cannot show as it is, and so does not keep: NULL, a
\* time as the ORM writes it, a text of several lines.
CannotShow(n, cell) ==
    /\ Kind(n) # "relation"
    /\ cell \in {"null", "instant", "lines"}

\* Saving an edit writes back, in the fields its author left alone, what was
\* stored when the page was drawn, but for the values that the page cannot
\* show.  A relation is never one of these: one that is not on offer is not
\* replaced by another or by none, the edit is refused instead.
EditKeepsTheRest ==
    [][\A r \in Requests :
        tabs[r].phase = "update" /\ tabs'[r].phase = "saved" =>
          \A n \in FieldNames \ tabs[r].touched :
            \/ events'[tabs[r].id].cells[n] = tabs[r].read[n]
            \/ CannotShow(n, tabs[r].read[n])]_formVars

\* The project's own code can read the rows that the admin wrote: those of
\* the older form all of them; those of the templated ones but for an
\* integer or a time that was left empty, and an integer beyond its type,
\* which are stored as they come.
RowsFit ==
    \A i \in DOMAIN events, n \in FieldNames :
        LET cell == events[i].cells[n] IN
        \/ Decodes(n, cell)
        \/ /\ events[i].via = "form"
           /\ Kind(n) \in {"i32", "datetime"}
           /\ cell \in {EmptyText, "wide"}
=============================================================================
