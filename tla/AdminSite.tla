----------------------------- MODULE AdminSite -----------------------------
(***************************************************************************)
(* The admin as its users meet it: requests that the router dispatches to  *)
(* the handlers of Records, Lists, Views and Forms, several of them at a   *)
(* time, over one database and one saved view (of posts), which `rustio    *)
(* view` reads and writes too, until the machine stops.  The forms are     *)
(* those of a third model, events.                                         *)
(***************************************************************************)
EXTENDS Lists, Forms, Router

CONSTANTS
    Admin,       \* the role that may use the admin
    Visits       \* bound: the visits; each is what requests a behaviour draws
                 \* from, how many it sends at most, and the site it visits

\* The models of the site.
ASSUME SiteAssumption == Models \in Seq({"authors", "posts", "events"})

\* What a browser sends of the editor's form, and how it asks for a list.
ASSUME VisitsAssumption ==
    \A v \in DOMAIN Visits :
        /\ Visits[v].most \in Nat
        /\ \A q \in Visits[v].requests :
            EditForm(q.form) /\ ListUrl(q.url) /\ q.link \in {"none"} \cup PageLinks

VARIABLES
    incoming,    \* which of the visits this behaviour is
    sent,        \* how many requests were sent
    visit        \* history: the last request of each slot, and what answered it

siteVars == <<recordVars, viewVars, listVars, formVars, incoming, sent, visit>>

\* What answers each request of the visits.
Dispatched ==
    [q \in {<<q.method, q.path>> : q \in UNION {Visits[v].requests : v \in DOMAIN Visits}} |->
        Dispatch(SiteRoutes, q[1], q[2])]

Slugs == {"users"} \cup ToSet(Models)

Free(r) == ~Busy(r) /\ ~Saving(r) /\ ~Filling(r) /\ ~Listing(r)

\* admin_guard: the session's user is an admin when the request arrives.
IsAdmin(user) == Lookup("users", user) /\ rows["users"][user] = Admin

\* Handlers that verify the token before they look at the database; update
\* verifies it after, see CheckExists.
Verified(handler, q) ==
    handler \in {"create", "legacy_create", "delete", "bulk", "layout", "view"} => q.token

SiteInit ==
    /\ RecordsInit
    /\ ViewsInit
    /\ ListsInit
    /\ FormsInit
    /\ incoming \in DOMAIN Visits
    /\ rows = Visits[incoming].rows
    /\ policy = Visits[incoming].policy
    /\ events[1].cells = Visits[incoming].event
    /\ sent = 0
    /\ visit = [r \in Requests |-> <<"GET", <<>>, "homepage">>]

-----------------------------------------------------------------------------
\* What a handler begins with, once the request has been let in.

RecordHandler(r, handler, q) ==
    LET table == q.path[2] IN
    \/ handler = "create" /\ StartCreate(r, table, q.user, q.value)
    \/ handler = "legacy_create" /\ StartLegacyCreate(r, table, q.user, q.value)
    \/ handler = "update" /\ StartUpdate(r, table, q.id, q.user, q.value, q.token)
    \/ handler = "delete" /\ StartDelete(r, table, q.id, q.user)
    \/ handler = "bulk" /\ StartBulk(r, table, q.ids, q.user, q.action, q.confirmed)
    \/ handler = "history" /\ StartRead(r, table, q.id, q.user)
    \/ handler = "edit_form" /\ StartRead(r, table, q.id, q.user)

ViewHandler(r, handler, q) ==
    \/ handler = "layout" /\ SubmitLayout(r, q.layout)
    \/ handler = "view" /\ SubmitView(r, q.form)

FormHandler(r, handler, q) ==
    \/ handler = "edit_form" /\ OpenEdit(r, q.id)
    \/ handler = "form" /\ OpenNew(r)
    \/ handler = "legacy_form" /\ OpenLegacy(r)
    \/ handler = "update" /\ Submit(r, "edit", q.edits, q.token)
    \/ handler = "create" /\ Submit(r, "new", q.edits, q.token)
    \/ handler = "legacy_create" /\ Submit(r, "legacy", q.edits, q.token)

FormHandlers == {"edit_form", "form", "legacy_form", "update", "create", "legacy_create"}
RecordHandlers ==
    {"create", "legacy_create", "update", "delete", "bulk", "history", "edit_form"}
ViewHandlers == {"layout", "view"}

\* list_render: a URL that was typed, or a link of the page in the tab.
ListHandler(r, q) ==
    \E url \in IF q.link = "none" THEN {q.url}
              ELSE IF lists[r].table = q.path[2] THEN Follow(lists[r], q.link) ELSE {} :
        /\ StartList(r, q.path[2], q.user, url, q.link)
        /\ IF q.path[2] = "posts" THEN ShowList(r, url.layout) ELSE UNCHANGED viewVars

\* The tab shows something else than a list.
LeaveList(r) == lists' = [lists EXCEPT ![r] = NoList]

\* A request that gets no further than the router, the guard or the token, or
\* whose handler is none of these (Auth has those of the sessions).
Elsewhere(r, reply) ==
    Reply(r, "none", reply) /\ UNCHANGED <<viewVars, formVars>> /\ LeaveList(r)

\* Handlers that let in admins alone and look their model up.
Guarded == RecordHandlers \cup ViewHandlers \cup FormHandlers \cup {"index"}

\* The handlers that are modelled of each model.
HandlersOf(slug) ==
    CASE slug = "events" -> FormHandlers
      [] slug = "posts" -> RecordHandlers \cup ViewHandlers \cup {"index"}
      [] OTHER -> RecordHandlers \cup {"index"}

\* A request arrives.
Arrive(r, q) ==
    LET handler == Dispatched[<<q.method, q.path>>]
        known == Len(q.path) >= 2 /\ q.path[2] \in Slugs
    IN
    /\ sent < Visits[incoming].most
    /\ Free(r)
    /\ sent' = sent + 1
    /\ visit' = [visit EXCEPT ![r] = <<q.method, q.path, handler>>]
    /\ UNCHANGED incoming
    /\ IF handler \in {"not_found", "method_not_allowed"} THEN Elsewhere(r, "missing")
       ELSE IF handler \in Guarded /\ ~IsAdmin(q.user) THEN Elsewhere(r, "refused")
       ELSE IF handler \in Guarded /\ ~known THEN Elsewhere(r, "missing")
       ELSE IF ~known \/ handler \notin HandlersOf(q.path[2]) THEN Elsewhere(r, "shown")
       ELSE IF q.path[2] = "events" THEN
            FormHandler(r, handler, q) /\ UNCHANGED <<recordVars, viewVars>> /\ LeaveList(r)
       ELSE IF ~Verified(handler, q) THEN Elsewhere(r, "refused")
       ELSE /\ UNCHANGED formVars
            /\ \/ /\ handler \in RecordHandlers /\ RecordHandler(r, handler, q)
                  /\ UNCHANGED viewVars /\ LeaveList(r)
               \/ /\ handler \in ViewHandlers /\ ViewHandler(r, handler, q)
                  /\ UNCHANGED recordVars /\ LeaveList(r)
               \/ handler = "index" /\ ListHandler(r, q) /\ UNCHANGED recordVars

\* A statement of a handler, or a step of a save.
Proceed(r) ==
    /\ \/ /\ RecordStep(r) /\ UNCHANGED <<viewVars, formVars>>
          /\ IF rows' = rows THEN UNCHANGED listVars ELSE Unsettled
       \/ WriteStep(r) /\ UNCHANGED <<recordVars, listVars, formVars>>
       \/ ListStep(r) /\ UNCHANGED <<recordVars, viewVars, formVars>>
       \/ FormStep(r) /\ UNCHANGED <<recordVars, viewVars, listVars>>
    /\ UNCHANGED <<incoming, sent, visit>>

\* `rustio view` in a terminal, in the place of a request.
Terminal(r) ==
    /\ Visits[incoming].terminal
    /\ sent < Visits[incoming].most
    /\ Free(r)
    /\ sent' = sent + 1
    /\ \E layout \in {"compact", "none"}, keep \in BOOLEAN : RunView(r, layout, keep)
    /\ LeaveList(r)
    /\ UNCHANGED <<recordVars, formVars, incoming, visit>>

\* The machine stops while something is under way, and the server is started
\* again.
Crash ==
    /\ \E r \in Requests : ~Free(r)
    /\ RecordsCrash
    /\ ViewsCrash
    /\ ListsCrash
    /\ FormsCrash
    /\ UNCHANGED <<incoming, sent, visit>>

SiteNext ==
    \/ \E r \in Requests, q \in Visits[incoming].requests : Arrive(r, q)
    \/ \E r \in Requests : Proceed(r)
    \/ \E r \in Requests : Terminal(r)
    \/ Visits[incoming].deletes /\ (\E t \in AllTargets : TargetGone(t))
        /\ UNCHANGED <<recordVars, viewVars, listVars, incoming, sent, visit>>
    \/ Crash

SiteSpec == SiteInit /\ [][SiteNext]_siteVars

-----------------------------------------------------------------------------
\* The types of the variables.
SiteTypeOK ==
    /\ RecordsTypeOK
    /\ ViewsTypeOK
    /\ ListsTypeOK
    /\ FormsTypeOK
    /\ incoming \in DOMAIN Visits
    /\ sent \in 0..Visits[incoming].most
    /\ \A r \in Requests : Cardinality({b \in 1..4 :
           <<Busy(r), Saving(r), Filling(r), Listing(r)>>[b]}) <= 1

Followed == {<<l[1], l[2]>> : l \in Links}

\* A link or form of a page reaches the handler it was made for, past the
\* fixed routes, the routes with parameters that stand before those of the
\* models, and routes of the same path with another method.
LinksReach ==
    \A r \in Requests : <<visit[r][1], visit[r][2]>> \in Followed => visit[r] \in Links
=============================================================================
