--------------------------- MODULE MCPlansApplied ---------------------------
\* Small instances of PlansApplied for TLC: the models of MCEvolution, and the
\* text of four apps.
EXTENDS MCEvolution, PlansApplied

Field(name, ty, null) == [name |-> name, ty |-> ty, null |-> null]
ModelOf(name, fields) == [name |-> name, fields |-> <<IdField>> \o fields]

\* One model whose field names end and begin with one another; one with a name
\* that begins with `id`; and two models in one file with a field of the same
\* name, the second of them with a struct name that begins the first's, or not.
MCFirstApps ==
    { <<ModelOf(<<"Guest">>, << Field(<<"first", "name">>, "String", FALSE),
                                Field(<<"name">>, "String", FALSE),
                                Field(<<"name", "ar">>, "String", TRUE) >>)>>,
      <<ModelOf(<<"Guest">>, << Field(<<"id", "card">>, "String", FALSE) >>)>>,
      <<ModelOf(<<"Room", "Type">>, << Field(<<"name">>, "String", FALSE) >>),
        ModelOf(<<"Room">>, << Field(<<"name">>, "String", FALSE),
                               Field(<<"floor">>, "i64", FALSE) >>)>>,
      <<ModelOf(<<"Room">>, << Field(<<"name">>, "String", FALSE) >>),
        ModelOf(<<"Guest">>, << Field(<<"name">>, "String", FALSE),
                                Field(<<"floor">>, "i64", TRUE) >>)>> }

MCWords == {"id", "first", "name", "ar", "card", "floor", "title",
            "Guest", "Room", "Type", "Suite", "Desk"}
MCNewNames == {<<"title">>, <<"name">>}
MCNewStructs == {<<"Suite">>, <<"Desk">>}
=============================================================================
