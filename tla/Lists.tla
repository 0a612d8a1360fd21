------------------------------- MODULE Lists --------------------------------
(***************************************************************************)
(* The list pages of the admin: what a URL asks for, the queries that      *)
(* answer it one after the other, and the links of the page, each of which *)
(* is a URL again (admin.rs, admin/layout.rs, admin/persistence.rs,        *)
(* admin/rbac.rs, list.html).                                              *)
(*                                                                         *)
(* A slot is a tab of a browser: it keeps the page that is drawn, and its  *)
(* user may follow a link of it.  A search looks for one word.             *)
(***************************************************************************)
EXTENDS Records, Views, Integers

CONSTANTS
    PageSize,    \* rows of a page
    Worded,      \* the posts that have the word
    TierOf       \* Role::from_role_string: the tier of each role, or "none"

ASSUME ListsAssumption == PageSize \in Nat \ {0}

VARIABLE lists   \* each tab: its list page, drawn or on the way

listVars == <<lists>>

NoUrl == [q |-> FALSE, filter |-> Empty, sort |-> "none", dir |-> "none",
          layout |-> "none", page |-> 1]
Nothing == <<>>
NoList == [phase |-> "none", table |-> "posts", user |-> None, url |-> NoUrl,
           layout |-> "table", declared |-> FALSE, options |-> {}, total |-> 0,
           shown |-> <<>>, named |-> {}, offers |-> {},
           steady |-> FALSE, via |-> "none", before |-> Nothing]
Listing(r) == lists[r].phase \notin {"none", "shown"}

\* What a browser may ask a list for.
ListUrl(url) ==
    /\ DOMAIN url = DOMAIN NoUrl
    /\ url.q \in BOOLEAN /\ url.page \in Int
    /\ url.layout \in Layouts \cup {"none", "unknown"}
PageLinks == {"next", "prev", "clear", "search", "filter"} \cup Layouts

ListsInit == lists = [r \in Requests |-> NoList]

-----------------------------------------------------------------------------
\* What a URL asks for.

\* The fields a model says can be sorted by: of a project's model all but the
\* booleans; UserAdmin has no id among its fields.
Sortable(t) ==
    CASE t = "posts" -> {"id", "author_id"}
      [] t = "authors" -> {"id"}
      [] OTHER -> {}

\* validate_sort_state: another field drops both, another direction is asc.
ValidSort(t, url) ==
    IF url.sort \notin Sortable(t) THEN [sort |-> "none", dir |-> "none"]
    ELSE [sort |-> url.sort, dir |-> IF url.dir = "desc" THEN "desc" ELSE "asc"]

\* classify_filters: a value counts if the view, or the model, has the filter.
FilterOf(t, url, declared) == IF t = "users" \/ declared THEN url.filter ELSE Empty

\* build_filter_where: of one author (of users: of one role), with the word.
Matching(t, filter, q) ==
    {i \in DOMAIN rows[t] : /\ filter \in {Empty, rows[t][i]}
                            /\ q /\ t = "posts" => i \in Worded}

\* ORDER BY: NULL before all values, rows with the same value as they were
\* made; without a sort, the newest first.
Precedes(t, order, i, j) ==
    LET key(k) == IF order.sort = "id" THEN k
                  ELSE IF rows[t][k] = None THEN 0 ELSE rows[t][k]
    IN IF order.sort = "none" THEN i > j
       ELSE \/ IF order.dir = "desc" THEN key(i) > key(j) ELSE key(i) < key(j)
            \/ key(i) = key(j) /\ i < j

\* filter_records, but for its window.
Ordered(t, url, filter) ==
    LET found == Matching(t, filter, url.q)
    IN Arranged(SetToSeq(found), {p \in found \X found :
                                     Precedes(t, ValidSort(t, url), p[1], p[2])})

\* Mutant: the pages are counted by a division that rounds down.
TotalPagesFloor(n) == Max({1, n \div PageSize})

TotalPages(n) == Max({1, (n + PageSize - 1) \div PageSize})

\* A page below 1 is the first, one beyond the last the last.
PageOf(url, total) == Min({Max({1, url.page}), TotalPages(total)})

\* LIMIT PageSize OFFSET (p - 1) * PageSize.
Window(all, p) ==
    SubSeq(all, (p - 1) * PageSize + 1, Min({p * PageSize, Len(all)}))

\* Role::permissions_for: what a role may do to a table, but look at it.
PermissionsFor(tier, t) ==
    CASE tier = "SuperAdmin" \/ (tier = "Admin" /\ t # "users") -> {"create", "edit", "delete"}
      [] tier = "Editor" /\ t # "users" -> {"create", "edit"}
      [] OTHER -> {}

-----------------------------------------------------------------------------
\* The links of a page.

\* Mutant: the pager forgets how the rows are sorted.
PageHrefUnsorted(list, p) ==
    [NoUrl EXCEPT !.page = p, !.q = list.url.q,
                  !.layout = IF list.layout = "table" THEN "none" ELSE list.layout]

\* build_pagination_view: the search, the sort if it is valid, and the layout
\* if it is not the table; not the filters.
PageHref(list, p) ==
    LET order == ValidSort(list.table, list.url) IN
    [NoUrl EXCEPT !.page = p, !.q = list.url.q, !.sort = order.sort, !.dir = order.dir,
                  !.layout = IF list.layout = "table" THEN "none" ELSE list.layout]

\* list_layout_href: everything but the page.
LayoutHref(list, layout) == [list.url EXCEPT !.layout = layout, !.page = 1]

\* list_return_href without filters: "Clear".
ClearHref(list) == [list.url EXCEPT !.layout = "none", !.filter = Empty, !.page = 1]

\* The form of the toolbar: a drop-down stands on the value it has, or on
\* "All"; without options there is a control for none.
ToolbarUrl(list, q, filter) ==
    LET order == ValidSort(list.table, list.url) IN
    [q |-> q, filter |-> filter, sort |-> order.sort, dir |-> order.dir,
     layout |-> list.layout, page |-> 1]
Chosen(list) == IF list.url.filter \in list.options THEN list.url.filter ELSE Empty

\* Where a link of the page leads; nowhere if the page has not got it.
Follow(list, link) ==
    LET current == PageOf(list.url, list.total)
        last == TotalPages(list.total)
    IN IF list.phase # "shown" THEN {}
       ELSE CASE link = "next" -> {PageHref(list, p) : p \in {current + 1} \cap 1..last}
              [] link = "prev" -> {PageHref(list, p) : p \in {current - 1} \cap 1..last}
              [] link = "clear" -> {ClearHref(list) : x \in {list.url.filter} \ {Empty}}
              [] link = "search" -> {ToolbarUrl(list, TRUE, Chosen(list))}
              [] link = "filter" -> {ToolbarUrl(list, list.url.q, o) : o \in list.options}
              [] OTHER -> {LayoutHref(list, link)}

-----------------------------------------------------------------------------
\* admin_model_index_get, list_render: a query at a time.

Draw1(r, list) == lists' = [lists EXCEPT ![r] = list]

\* The view decides on the filters and the layout.  The page that had the link is
\* remembered if it was of one moment, had the same filters, and is still true.
StartList(r, table, user, url, via) ==
    LET old == lists[r]
        declared == table = "posts" /\ "author_id" \in Resolved.filters
    IN Draw1(r, [NoList EXCEPT
          !.phase = IF declared THEN "options" ELSE "count",
          !.table = table, !.user = user, !.url = url, !.declared = declared,
          !.layout = EffectiveLayout(url.layout, SavedView),
          !.via = via,
          !.before = IF via = "none" \/ ~old.steady \/ old.declared # declared THEN Nothing
                     ELSE [old EXCEPT !.before = Nothing]])

\* distinct_values: the authors the posts have.
ReadOptions(r) ==
    /\ lists[r].phase = "options"
    /\ Draw1(r, [lists[r] EXCEPT !.phase = "count", !.steady = TRUE,
          !.options = {rows["posts"][p] : p \in DOMAIN rows["posts"]} \ {None}])

Wanted(list) == FilterOf(list.table, list.url, list.declared)

\* fetch_users_table_state counts,
CountRows(r) ==
    LET list == lists[r] IN
    /\ list.phase = "count"
    /\ Draw1(r, [list EXCEPT !.phase = "rows", !.steady = @ \/ ~list.declared,
          !.total = Cardinality(Matching(list.table, Wanted(list), list.url.q))])

\* then fetches the window of the page, as far as it was counted.
FetchRows(r) ==
    LET list == lists[r] IN
    /\ list.phase = "rows"
    /\ Draw1(r, [list EXCEPT
          !.phase = IF list.table = "posts" THEN "labels" ELSE "role",
          !.shown = Window(Ordered(list.table, list.url, Wanted(list)),
                           PageOf(list.url, list.total))])

\* build_fk_lookups: the authors that the posts of the page name are looked up;
\* one that has gone is shown as a bare number.
ResolveLabels(r) ==
    /\ lists[r].phase = "labels"
    /\ Draw1(r, [lists[r] EXCEPT !.phase = "role", !.named = DOMAIN rows["authors"]])

\* The buttons of the page are those of the role that its user has by now; a
\* user who has gone, or has no role, may look.  UserAdmin creates none.
ReadRole(r) ==
    LET list == lists[r]
        tier == IF Lookup("users", list.user) THEN TierOf[rows["users"][list.user]]
                ELSE "none"
    IN
    /\ list.phase = "role"
    /\ Draw1(r, [list EXCEPT !.phase = "shown", !.user = None,
          !.offers = PermissionsFor(tier, list.table)
                       \ (IF list.table = "users" THEN {"create"} ELSE {})])

ListStep(r) ==
    ReadOptions(r) \/ CountRows(r) \/ FetchRows(r) \/ ResolveLabels(r) \/ ReadRole(r)

\* The server stops: pages that are drawn stay in their tabs.
ListsCrash == lists' = [r \in Requests |-> IF Listing(r) THEN NoList ELSE lists[r]]

\* History: rows have changed under the pages.
Unsettled ==
    lists' = [r \in Requests |-> [lists[r] EXCEPT !.steady = FALSE, !.before = Nothing]]

-----------------------------------------------------------------------------
\* The types of the variable.
ListsTypeOK ==
    \A r \in Requests :
        /\ lists[r].phase \in {"none", "options", "count", "rows", "labels", "role", "shown"}
        /\ lists[r].table \in Tables
        /\ lists[r].layout \in Layouts
        /\ lists[r].url.layout \in Layouts \cup {"none", "unknown"}
        /\ lists[r].shown \in Seq(1..MaxId)
        /\ lists[r].offers \subseteq {"create", "edit", "delete"}

\* The page is drawn now, from queries that saw one moment.
Drawn(r) == lists[r].phase = "role" /\ lists[r].steady /\ lists'[r].phase = "shown"

Within(part, all) ==
    /\ Len(part) <= Len(all)
    /\ \E i \in 0..(Len(all) - Len(part)) : SubSeq(all, i + 1, i + Len(part)) = part

\* A list page whose queries saw one moment shows consecutive rows of those that
\* match its URL, some if there are any, the first of them on page 1 and the
\* last on the last page and on whatever is asked beyond it; and it can name
\* the author of each post it shows.
PageShowsRows ==
    [][\A r \in Requests : Drawn(r) =>
          LET l == lists'[r]
              all == Ordered(l.table, l.url, Wanted(l))
          IN /\ all # <<>> =>
                /\ l.shown # <<>> /\ Len(l.shown) <= PageSize
                /\ Within(l.shown, all)
                /\ l.url.page <= 1 => Head(l.shown) = Head(all)
                /\ l.url.page * PageSize >= Len(all) => Last(l.shown) = Last(all)
             /\ l.table = "posts" =>
                  \A p \in ToSet(l.shown) : rows["posts"][p] \in l.named \cup {None}]_<<recordVars, listVars>>

\* What a link of a page promises it keeps, if nothing was changed since the
\* page was drawn.  "Next" shows the rows that follow in the same search, sort
\* and layout; but it loses a filter, and a table that was asked for against a
\* saved layout.  Another layout shows the same query from its start, "Clear"
\* the same without the filter, and an author on offer has posts.
LinksKeepQuery ==
    [][\A r \in Requests : Drawn(r) /\ lists[r].before # Nothing =>
          LET l == lists'[r]
              b == l.before
          IN /\ l.via = "next" /\ Wanted(b) = Empty =>
                /\ Within(b.shown \o l.shown, Ordered(l.table, b.url, Empty))
                /\ l.layout = b.layout \/ b.layout = "table"
             /\ l.via \in Layouts =>
                l.layout = l.via /\ l.shown = Window(Ordered(l.table, b.url, Wanted(b)), 1)
             /\ l.via = "clear" => l.shown = Window(Ordered(l.table, b.url, Empty), 1)
             /\ l.via = "filter" /\ ~l.url.q => l.shown # <<>>]_<<recordVars, listVars>>

\* Together: a page shows what its URL asks for, and its links lead on from it.
ListsAreSound == PageShowsRows /\ LinksKeepQuery
=============================================================================
