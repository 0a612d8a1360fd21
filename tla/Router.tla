------------------------------- MODULE Router -------------------------------
(***************************************************************************)
(* Dispatch of a request to a handler (rustio-core/src/router.rs) and the  *)
(* routes of a site in their order of registration (admin.rs, defaults.rs).*)
(*                                                                         *)
(* A path is the sequence of its non-empty segments.  A pattern is a path  *)
(* some of whose segments are parameters.  A handler is known by a name;   *)
(* the legacy handlers of a model by the pair of a name and its slug.      *)
(***************************************************************************)
EXTENDS Naturals, Sequences, SequencesExt, FiniteSets, FiniteSetsExt

CONSTANT Models     \* the slugs of the registered models, in order

Params == {":model", ":id", ":admin", ":field"}
Methods == {"GET", "POST"}

\* Router::route: one entry of the table.
Route(method, segments, handler) ==
    [method |-> method, segments |-> segments, handler |-> handler]

\* match_segments.
Matches(pattern, path) ==
    /\ Len(pattern) = Len(path)
    /\ \A i \in DOMAIN pattern : pattern[i] \in Params \/ pattern[i] = path[i]

\* has_route: patterns are compared as they are written.
HasRoute(routes, method, segments) ==
    \E i \in DOMAIN routes : routes[i].method = method /\ routes[i].segments = segments

\* Mutant: the first route of the path answers, whatever its method.
DispatchByPath(routes, method, path) ==
    LET matching == {i \in DOMAIN routes : Matches(routes[i].segments, path)}
    IN IF matching = {} THEN "not_found"
       ELSE IF routes[Min(matching)].method = method THEN routes[Min(matching)].handler
       ELSE "method_not_allowed"

\* Router::dispatch: the first route of the path with the method.
Dispatch(routes, method, path) ==
    LET matching == {i \in DOMAIN routes : Matches(routes[i].segments, path)}
        found == {i \in matching : routes[i].method = method}
    IN IF found # {} THEN routes[Min(found)].handler
       ELSE IF matching # {} THEN "method_not_allowed" ELSE "not_found"

-----------------------------------------------------------------------------
\* The routes of Admin::register.

FixedRoutes == <<
    Route("GET", <<"admin", "assets", "favicon.svg">>, "asset"),
    Route("GET", <<"admin", "static", "admin.css">>, "asset"),
    Route("GET", <<"admin">>, "dashboard"),
    Route("POST", <<"admin", "login">>, "login"),
    Route("GET", <<"admin", "login">>, "login_page"),
    Route("POST", <<"admin", "logout">>, "logout"),
    Route("POST", <<"admin", "sessions", "clear">>, "clear_sessions"),
    Route("GET", <<"admin", "logout">>, "logout_page"),
    Route("POST", <<"admin", "language">>, "language"),
    Route("GET", <<"admin", "password_change">>, "password_page"),
    Route("POST", <<"admin", "password_change">>, "password_change"),
    Route("GET", <<"admin", "password_change", "done">>, "password_done"),
    Route("GET", <<"admin", "profile">>, "profile"),
    Route("GET", <<"admin", "actions">>, "actions"),
    Route("GET", <<"admin", "suggestions", ":admin", ":field">>, "suggestion_review"),
    Route("POST", <<"admin", "suggestions", ":admin", ":field">>, "suggestion_apply"),
    Route("POST", <<"admin", "schema", "reload">>, "schema_reload")>>

GenericRoutes == <<
    Route("GET", <<"admin", ":model">>, "index"),
    Route("GET", <<"admin", ":model", "new">>, "form"),
    Route("GET", <<"admin", ":model", ":id", "edit">>, "edit_form"),
    Route("POST", <<"admin", ":model", "new">>, "create"),
    Route("POST", <<"admin", ":model", ":id", "edit">>, "update"),
    Route("POST", <<"admin", ":model", ":id", "delete">>, "delete"),
    Route("POST", <<"admin", ":model", "layout">>, "layout"),
    Route("GET", <<"admin", ":model", "view">>, "view_editor"),
    Route("POST", <<"admin", ":model", "view">>, "view")>>

\* mount_model: what a model registers for itself, after the generic routes.
ModelRoutes(slug) == <<
    Route("GET", <<"admin", slug>>, "legacy_index"),
    Route("GET", <<"admin", slug, "create">>, "legacy_form"),
    Route("POST", <<"admin", slug, "create">>, "legacy_create"),
    Route("GET", <<"admin", slug, ":id", "edit">>, "legacy_edit_form"),
    Route("POST", <<"admin", slug, ":id", "edit">>, "legacy_update"),
    Route("GET", <<"admin", slug, ":id", "delete">>, "legacy_delete_page"),
    Route("POST", <<"admin", slug, ":id", "delete">>, "legacy_delete"),
    Route("GET", <<"admin", slug, ":id", "history">>, "history"),
    Route("POST", <<"admin", slug, "bulk_action">>, "bulk")>>

AdminRoutes ==
    FixedRoutes \o GenericRoutes
        \o FlattenSeq([i \in DOMAIN Models |-> ModelRoutes(Models[i])])

\* with_defaults: the pages a project has not claimed.
WithDefaults(routes) ==
    LET home == IF HasRoute(routes, "GET", <<>>) THEN <<>>
                ELSE <<Route("GET", <<>>, "homepage")>>
        docs == IF HasRoute(routes, "GET", <<"docs">>) THEN <<>>
                ELSE <<Route("GET", <<"docs">>, "docs")>>
    IN routes \o home \o docs

SiteRoutes == WithDefaults(AdminRoutes)

-----------------------------------------------------------------------------
\* The links and forms of the pages, as requests -- method and path -- and the
\* handler each was made for.  "id" stands for the id of a row.  A page spells
\* the slug of a model as pluralize(singular_name), which gives it back.

ListLinks(slug) == {
    <<"GET", <<"admin", slug>>, "index">>,
    <<"GET", <<"admin", slug, "view">>, "view_editor">>,
    <<"POST", <<"admin", slug, "view">>, "view">>,
    <<"POST", <<"admin", slug, "layout">>, "layout">>,
    <<"GET", <<"admin", slug, "new">>, "form">>,
    <<"POST", <<"admin", slug, "new">>, "create">>,
    <<"GET", <<"admin", slug, "id", "edit">>, "edit_form">>,
    <<"POST", <<"admin", slug, "id", "edit">>, "update">>,
    <<"POST", <<"admin", slug, "id", "delete">>, "delete">>}

ModelLinks(slug) == {
    <<"GET", <<"admin", slug, "id", "history">>, "history">>,
    <<"GET", <<"admin", slug, "id", "delete">>, "legacy_delete_page">>,
    <<"POST", <<"admin", slug, "bulk_action">>, "bulk">>,
    <<"POST", <<"admin", slug, "create">>, "legacy_create">>}

ChromeLinks == {
    <<"GET", <<>>, "homepage">>,
    <<"GET", <<"admin">>, "dashboard">>,
    <<"GET", <<"admin", "profile">>, "profile">>,
    <<"GET", <<"admin", "actions">>, "actions">>,
    <<"POST", <<"admin", "language">>, "language">>,
    <<"GET", <<"admin", "password_change">>, "password_page">>,
    <<"POST", <<"admin", "password_change">>, "password_change">>,
    <<"GET", <<"admin", "logout">>, "logout_page">>,
    <<"POST", <<"admin", "logout">>, "logout">>,
    <<"POST", <<"admin", "login">>, "login">>,
    <<"POST", <<"admin", "sessions", "clear">>, "clear_sessions">>,
    <<"GET", <<"admin", "suggestions", "posts", "author_id">>, "suggestion_review">>,
    <<"POST", <<"admin", "suggestions", "posts", "author_id">>, "suggestion_apply">>}

Links ==
    ChromeLinks \cup ListLinks("users")
        \cup UNION {ListLinks(m) \cup ModelLinks(m) : m \in ToSet(Models)}
=============================================================================
