---------------------------- MODULE MCAdminSite ----------------------------
(***************************************************************************)
(* A small site: two authors, two posts, two admins, and what they send.   *)
(***************************************************************************)
EXTENDS AdminSite

CONSTANTS r1, r2, i1, i2, i3, i4, Staff

MCColumns == <<
    [name |-> "id", kind |-> "id"], [name |-> "title", kind |-> "headline"],
    [name |-> "author_id", kind |-> "relation"], [name |-> "status", kind |-> "status"],
    [name |-> "api_key", kind |-> "secret"]>>
MCRank == [s \in Sources |->
    CASE s = "api_key" -> 1 [] s = "author_id" -> 2 [] s = "id" -> 3
      [] s = "status" -> 4 [] s = "title" -> 5]
MCModels == <<"authors", "posts", "events">>
MCHandWritten ==
    {[Derived EXCEPT !.layout = "compact", !.fields[3].filterable = TRUE,
                     !.filters = @ \cup {"author_id"}],
     [Derived EXCEPT !.fields = SubSeq(@, 1, 4), !.fields[2].role = "hidden",
                     !.fields[2].merge = <<"title", "api_key">>]}
FewRows == [users |-> [i \in 1..2 |-> Admin],
            authors |-> [i \in {1} |-> Empty],
            posts |-> [i \in 1..2 |-> IF i = 1 THEN 1 ELSE None]]

\* Three pages of posts, in another order by their authors than by their ids; two
\* of them of the first author, and those with the word.
ManyRows == [FewRows EXCEPT !.authors = [i \in 1..2 |-> Empty],
                            !.posts = <<2, None, 1, 1, 1>>]
MCFirstRows == {FewRows, ManyRows}
MCWorded == {3, 4, 5}
MCTierOf == (Admin :> "SuperAdmin") @@ (Staff :> "Editor")

\* An event: a field of each kind, the relation and the flag optional; the
\* second row is one that the project's code wrote with all it could.
MCFields ==
    [note |-> [kind |-> "string", nullable |-> TRUE],
     seats |-> [kind |-> "i32", nullable |-> TRUE],
     booked |-> [kind |-> "bool", nullable |-> TRUE],
     starts |-> [kind |-> "datetime", nullable |-> FALSE],
     venue |-> [kind |-> "relation", nullable |-> TRUE]]
MCTargets == <<"hall", "yard">>
Unfilled ==
    [note |-> "null", seats |-> "null", booked |-> "null", starts |-> "instant",
     venue |-> "null"]
Lined ==
    [note |-> "lines", seats |-> "old", booked |-> "true", starts |-> "minute",
     venue |-> "hall"]
Yarded ==
    [note |-> "old", seats |-> "old", booked |-> "false", starts |-> "instant",
     venue |-> "yard"]
MCEvents == {Unfilled, Lined, Yarded}

NoForm == [role |-> <<>>, order |-> <<>>, into |-> <<>>, filterable |-> {}, sent |-> {},
           label |-> {}, value |-> {}, offered |-> {}, language |-> None, makeDefault |-> FALSE]

MCForms == {
    [NoForm EXCEPT !.into = [x \in {"author_id"} |-> "title"], !.sent = {"merge"}],
    [NoForm EXCEPT !.into = [x \in {"api_key", "status"} |-> "title"],
                   !.sent = {"merge", "filters"}],
    [NoForm EXCEPT !.role = [x \in {"api_key"} |-> "meta"], !.sent = {"merge"}],
    [NoForm EXCEPT !.role = [x \in {"author_id"} |-> "hidden"],
                   !.order = [x \in {"status"} |-> 0],
                   !.filterable = {"author_id", "status"},
                   !.label = {"author_id", "status"}, !.value = {"status"},
                   !.offered = {"status"}, !.sent = {"filters", "labels", "values"},
                   !.language = "sv", !.makeDefault = TRUE]}

NoRequest == [method |-> "GET", path |-> <<>>, id |-> 1, ids |-> <<>>, user |-> 1,
              token |-> TRUE, value |-> Empty, action |-> "delete", confirmed |-> TRUE,
              layout |-> "none", form |-> NoForm, edits |-> <<>>,
              url |-> NoUrl, link |-> "none"]
Ask(method, path) == [NoRequest EXCEPT !.method = method, !.path = path]
List(slug) == Ask("GET", <<"admin", slug>>)
Post(slug, what) == Ask("POST", <<"admin", slug, what>>)
PostTo(slug, id, what) ==
    [Ask("POST", <<"admin", slug, "id", what>>) EXCEPT !.id = id]

\* Requests about the view of posts, and pages that show it.
ViewVisits ==
    {[Post("posts", "view") EXCEPT !.form = f] : f \in MCForms}
    \cup {[List("posts") EXCEPT !.url.layout = "compact", !.url.filter = 1]}

\* Requests that make and unmake rows and refer to them.
RowVisits ==
    {[Post("posts", "new") EXCEPT !.value = v] : v \in {1, Empty}}
    \cup {Post("authors", "new"), Post("posts", "create"),
          [PostTo("posts", 2, "edit") EXCEPT !.value = 1],
          [PostTo("users", 1, "edit") EXCEPT !.value = Staff],
          PostTo("authors", 1, "delete"), PostTo("posts", 2, "delete"),
          PostTo("users", 1, "delete"),
          [Post("authors", "bulk_action") EXCEPT !.ids = <<1>>],
          [Post("posts", "bulk_action") EXCEPT !.ids = <<2, 1>>, !.user = 2],
          [Ask("GET", <<"admin", "posts", "id", "history">>) EXCEPT !.id = 2],
          [List("posts") EXCEPT !.url.page = 0],
          [List("posts") EXCEPT !.url.page = 3]}

\* Every link and form of the pages, some that are none, and what is refused.
LinkVisits ==
    {Ask(l[1], l[2]) : l \in Links}
    \cup {Post("users", "new"), [Post("posts", "create") EXCEPT !.token = FALSE],
          [PostTo("posts", 2, "edit") EXCEPT !.token = FALSE],
          [Post("posts", "bulk_action") EXCEPT !.ids = <<1>>, !.confirmed = FALSE],
          [Post("posts", "bulk_action") EXCEPT !.ids = <<1>>, !.action = "archive"],
          [Post("posts", "layout") EXCEPT !.layout = "unknown"],
          [Post("posts", "view") EXCEPT !.form.role = [x \in {"title"} |-> "unknown"]],
          Ask("GET", <<"admin", "nobody">>), Ask("GET", <<"admin", "authors", "id">>),
          Ask("POST", <<"admin">>), [List("users") EXCEPT !.user = 3],
          [List("users") EXCEPT !.url.filter = Staff, !.url.sort = "author_id"],
          [List("posts") EXCEPT !.url.sort = "status", !.url.layout = "unknown"],
          [List("authors") EXCEPT !.url.sort = "id", !.url.dir = "down"]}

\* Forms of an event: opened, filled in and sent, by two at a time.
MCEdits == {
    <<>>, [x \in {"booked"} |-> "true"], [x \in {"seats"} |-> "wide"],
    [x \in {"note", "starts", "venue"} |->
        CASE x = "note" -> "new" [] x = "starts" -> "minute" [] x = "venue" -> "hall"]}

FormVisits ==
    {Ask("GET", <<"admin", "events", "id", "edit">>),
     [Ask("GET", <<"admin", "events", "id", "edit">>) EXCEPT !.id = 3],
     Ask("GET", <<"admin", "events", "new">>), Ask("GET", <<"admin", "events", "create">>)}
    \cup {[PostTo("events", 1, "edit") EXCEPT !.edits = e] : e \in MCEdits}
    \cup {[Post("events", what) EXCEPT !.edits = e] : e \in MCEdits, what \in {"new", "create"}}
    \cup {[PostTo("events", 1, "edit") EXCEPT !.token = FALSE],
          [Post("events", "new") EXCEPT !.token = FALSE]}

\* Three requests in a row, about the rows that the log refers to.
LogVisits ==
    {[Post("posts", "bulk_action") EXCEPT !.ids = <<2, 1>>],
     [Post("posts", "bulk_action") EXCEPT !.ids = <<2>>, !.user = 2],
     [Post("posts", "create") EXCEPT !.user = 2], PostTo("users", 2, "delete"),
     [PostTo("users", 2, "edit") EXCEPT !.value = Staff], PostTo("posts", 3, "delete")}

\* Lists that are asked for, the links of their pages followed, and what
\* changes them meanwhile.
ListVisits ==
    {[List("posts") EXCEPT !.url.sort = "author_id", !.url.dir = d] : d \in {"asc", "desc"}}
    \cup {[List("posts") EXCEPT !.url.filter = 1, !.url.page = 2],
          [List("posts") EXCEPT !.url.layout = "cards", !.url.q = TRUE]}
    \cup {[List("posts") EXCEPT !.link = l] :
            l \in {"next", "prev", "clear", "search", "filter", "table", "compact"}}
    \cup {PostTo("posts", 3, "delete"),
          [Post("posts", "layout") EXCEPT !.layout = "cards"]}

\* The view, edited by a request while it is saved or printed in a terminal.
TerminalVisits ==
    {[Post("posts", "view") EXCEPT !.form.into = [x \in {"author_id"} |-> "title"],
                                   !.form.sent = {"merge"}],
     [Post("posts", "layout") EXCEPT !.layout = "cards"],
     [List("posts") EXCEPT !.url.layout = "compact"]}

Visit(requests, most) ==
    [requests |-> requests, most |-> most, policy |-> "restrict", rows |-> FewRows,
     deletes |-> FALSE, event |-> Unfilled, terminal |-> FALSE]

FormVisit(e) == [Visit(FormVisits, 4) EXCEPT !.deletes = TRUE, !.event = e]
RowVisit(p) == [Visit(RowVisits, 2) EXCEPT !.policy = p]

MCVisits == <<
    [Visit(ListVisits, 3) EXCEPT !.rows = ManyRows],
    Visit(ViewVisits, 3), [Visit(TerminalVisits, 2) EXCEPT !.terminal = TRUE],
    Visit(LogVisits, 3), Visit(LinkVisits, 1),
    FormVisit(Unfilled), FormVisit(Lined), FormVisit(Yarded),
    RowVisit("restrict"), RowVisit("cascade"), RowVisit("set_null")>>

Symmetric == Permutations(Requests)
=============================================================================
