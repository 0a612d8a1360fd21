--------------------------- MODULE AdminSiteProofs ---------------------------
(***************************************************************************)
(* Proofs about the admin site, for any rows, models, fields, options,     *)
(* visits, faults and number of requests at a time.  Each part follows one *)
(* of the components that AdminSite puts together through every step of    *)
(* the site, with an inductive invariant of its own: Records, Views (one   *)
(* for the file, one for what the views in it say), Forms and Lists.       *)
(***************************************************************************)
EXTENDS AdminSite, ViewsProofs, FiniteSetTheorems, SequenceTheorems, TLAPS

-----------------------------------------------------------------------------
\* Proofs about Records as a part of AdminSite, for any rows, models,
\* visits and number of requests at a time: rows refer to rows, and what
\* the log says of a row is what happened to it.
\*
\* The invariant ties the log to sqlite_sequence: whatever was deleted had
\* an id that is not above the highest ever used, so no row gets it again.

TaskFields == {"phase", "kind", "table", "ids", "user", "token", "value"}

\* What a request has in hand: a bulk action, an id that was used; and after
\* the deletion, one whose row is gone.
TaskFits(t) ==
    /\ DOMAIN t = TaskFields
    /\ t.table \in Tables
    /\ t.phase = "insert" => t.kind \in {"create", "legacy_create"}
    /\ t.kind = "bulk" /\ t.phase \in {"delete", "record"} =>
          Head(t.ids) \in 1..seq[t.table]
    /\ t.kind = "bulk" /\ t.phase = "record" => ~Lookup(t.table, Head(t.ids))

\* A bulk action has deleted a row and is about to record it.
InFlight(r) == task[r].phase = "record" /\ task[r].kind = "bulk"
Pair(r) == <<task[r].table, Head(task[r].ids)>>

Accounted(b) ==
    \/ \E e \in log : e.action = "delete" /\ b = <<e.table, e.id>>
    \/ b \in unlogged
    \/ \E r \in Requests : InFlight(r) /\ b = Pair(r)

\* Ids in use are not above the highest ever used.
IdsUsed ==
    /\ DOMAIN rows = Tables /\ DOMAIN seq = Tables
    /\ \A t \in Tables : seq[t] \in Nat /\ DOMAIN rows[t] \subseteq 1..seq[t]

\* A row the log says was deleted is gone for good.
LogTrue ==
    \A e \in log : e.action = "delete" =>
        e.table \in Tables /\ e.id \in 1..seq[e.table] /\ ~Lookup(e.table, e.id)

\* The inductive invariant.
RecordsInv ==
    /\ IdsUsed
    /\ policy \in {"restrict", "cascade", "set_null"}
    /\ NoDangling
    /\ LogTrue
    /\ DOMAIN task = Requests
    /\ \A r \in Requests : TaskFits(task[r])
    /\ \A b \in bulked : Accounted(b)

-----------------------------------------------------------------------------
\* The steps of the site, as Records sees them.

Others == <<rows, seq, log, policy, bulked, unlogged>>

RecordsMove ==
    \/ \E r \in Requests, q \in Visits[incoming].requests, handler \in RecordHandlers :
          ~Busy(r) /\ q.path[2] \in Tables /\ RecordHandler(r, handler, q)
    \/ \E r \in Requests, reply \in Replies : ~Busy(r) /\ Reply(r, "none", reply)
    \/ \E r \in Requests : RecordStep(r)
    \/ RecordsCrash
    \/ UNCHANGED recordVars

\* Every step of the site is one of these.
LEMMA MovesOfRecords == [SiteNext]_siteVars => RecordsMove
<1> SUFFICES ASSUME [SiteNext]_siteVars
             PROVE  RecordsMove
  OBVIOUS
<1>1. CASE UNCHANGED siteVars
  BY <1>1 DEF siteVars, RecordsMove
<1>2. ASSUME NEW r \in Requests, NEW q \in Visits[incoming].requests, Arrive(r, q)
      PROVE  RecordsMove
  <2>1. ~Busy(r)
    BY <1>2 DEF Arrive, Free
  <2>2. \/ UNCHANGED recordVars
        \/ \E reply \in {"missing", "refused", "shown"} : Reply(r, "none", reply)
        \/ /\ q.path[2] \in Slugs \ {"events"}
           /\ \E handler \in RecordHandlers : RecordHandler(r, handler, q)
    BY <1>2 DEF Arrive, Elsewhere, HandlersOf
  <2>3. Slugs \ {"events"} \subseteq Tables
    BY SiteAssumption, Elements DEF Slugs, Tables
  <2>4. QED
    BY <2>1, <2>2, <2>3 DEF RecordsMove, Replies
<1>3. ASSUME NEW r \in Requests, Proceed(r)
      PROVE  RecordsMove
  BY <1>3 DEF Proceed, RecordsMove
<1>4. CASE Visits[incoming].deletes /\ (\E t \in AllTargets : TargetGone(t))
             /\ UNCHANGED <<recordVars, viewVars, listVars, incoming, sent, visit>>
  BY <1>4 DEF RecordsMove
<1>5. CASE Crash
  BY <1>5 DEF Crash, RecordsMove
<1>6. ASSUME NEW r \in Requests, Terminal(r)
      PROVE  RecordsMove
  BY <1>6 DEF Terminal, RecordsMove
<1>7. QED
  BY <1>1, <1>2, <1>3, <1>4, <1>5, <1>6 DEF SiteNext

\* A request goes on to another task, and nothing else happens.
LEMMA TaskKeeps ==
    ASSUME RecordsInv, NEW r \in Requests, NEW t, TaskFits(t), ~InFlight(r),
           task' = [task EXCEPT ![r] = t], UNCHANGED Others
    PROVE  RecordsInv'
<1>1. /\ rows' = rows /\ seq' = seq /\ log' = log /\ policy' = policy
      /\ bulked' = bulked /\ unlogged' = unlogged
  BY DEF Others
<1>2. IdsUsed' /\ NoDangling' /\ LogTrue' /\ policy' \in {"restrict", "cascade", "set_null"}
  BY <1>1 DEF RecordsInv, IdsUsed, NoDangling, LogTrue, Lookup
<1>3. /\ DOMAIN task' = Requests
      /\ \A s \in Requests : task'[s] = IF s = r THEN t ELSE task[s]
  BY DEF RecordsInv
<1>4. \A s \in Requests : TaskFits(task[s])' 
  BY <1>1, <1>3 DEF RecordsInv, TaskFits, Lookup
<1>5. \A b \in bulked' : Accounted(b)'
  BY <1>1, <1>3 DEF RecordsInv, Accounted, InFlight, Pair
<1>6. QED
  BY <1>2, <1>3, <1>4, <1>5 DEF RecordsInv

\* A reply to a request.
LEMMA RepliedFits ==
    \A t, reply : reply \in Replies => TaskFits(Replied(t, reply))
BY DEF Replied, NoTask, TaskFits, TaskFields, Replies, Tables

LEMMA ReplyKeeps ==
    ASSUME RecordsInv, NEW r \in Requests, ~InFlight(r), NEW kind, NEW reply \in Replies,
           Reply(r, kind, reply)
    PROVE  RecordsInv'
<1> DEFINE t == [NoTask EXCEPT !.phase = reply, !.kind = kind]
<1>1. TaskFits(t)
  BY DEF NoTask, TaskFits, TaskFields, Replies, Tables
<1>2. task' = [task EXCEPT ![r] = t] /\ UNCHANGED Others
  BY DEF Reply, Others
<1> HIDE DEF t
<1>3. QED
  BY <1>1, <1>2, TaskKeeps

LEMMA AnswerKeeps ==
    ASSUME RecordsInv, NEW r \in Requests, ~InFlight(r), NEW reply \in Replies,
           task' = Answer(r, reply), UNCHANGED Others
    PROVE  RecordsInv'
<1>1. TaskFits(Replied(task[r], reply))
  BY RepliedFits
<1>2. QED
  BY <1>1, TaskKeeps DEF Answer

\* A handler begins.
LEMMA BeginKeeps ==
    ASSUME RecordsInv, NEW r \in Requests, ~InFlight(r), NEW table \in Tables,
           NEW kind, NEW phase, NEW ids, NEW user, NEW value,
           Begin(r, kind, phase, table, ids, user, value),
           phase = "insert" => kind \in {"create", "legacy_create"},
           kind = "bulk" => phase = "find"
    PROVE  RecordsInv'
<1> DEFINE t == [NoTask EXCEPT !.phase = phase, !.kind = kind, !.table = table,
                               !.ids = ids, !.user = user, !.value = value]
<1>1. TaskFits(t)
  BY DEF NoTask, TaskFits, TaskFields
<1>2. task' = [task EXCEPT ![r] = t] /\ UNCHANGED Others
  BY DEF Begin, Others
<1> HIDE DEF t
<1>3. QED
  BY <1>1, <1>2, TaskKeeps

LEMMA HandlerKeeps ==
    ASSUME RecordsInv, NEW r \in Requests, ~Busy(r), NEW q, NEW handler,
           q.path[2] \in Tables, RecordHandler(r, handler, q)
    PROVE  RecordsInv'
<1> DEFINE table == q.path[2]
<1>0. ~InFlight(r)
  BY DEF Busy, InFlight, Replies
<1>1. CASE StartCreate(r, table, q.user, q.value)
  BY <1>0, <1>1, ReplyKeeps, BeginKeeps DEF StartCreate, Replies
<1>2. CASE StartLegacyCreate(r, table, q.user, q.value)
  BY <1>0, <1>2, BeginKeeps DEF StartLegacyCreate
<1>3. CASE StartUpdate(r, table, q.id, q.user, q.value, q.token)
  <2> DEFINE t == [NoTask EXCEPT !.phase = "exists", !.kind = "update", !.table = table,
                      !.ids = <<q.id>>, !.user = q.user, !.value = q.value, !.token = q.token]
  <2>1. TaskFits(t)
    BY DEF NoTask, TaskFits, TaskFields
  <2>2. task' = [task EXCEPT ![r] = t] /\ UNCHANGED Others
    BY <1>3 DEF StartUpdate, Others
  <2> HIDE DEF t
  <2>3. QED
    BY <1>0, <2>1, <2>2, TaskKeeps
<1>4. CASE StartDelete(r, table, q.id, q.user)
  BY <1>0, <1>4, BeginKeeps DEF StartDelete
<1>5. CASE StartBulk(r, table, q.ids, q.user, q.action, q.confirmed)
  <2>1. CASE \E reply \in {"saved", "refused", "shown"} : Reply(r, "bulk", reply)
    BY <1>0, <2>1, ReplyKeeps DEF Replies
  <2>2. CASE Begin(r, "bulk", "find", table, q.ids, q.user, Empty)
    BY <1>0, <2>2, BeginKeeps
  <2>3. QED
    BY <1>5, <2>1, <2>2 DEF StartBulk
<1>6. CASE StartRead(r, table, q.id, q.user)
  BY <1>0, <1>6, BeginKeeps DEF StartRead
<1>7. QED
  BY <1>1, <1>2, <1>3, <1>4, <1>5, <1>6 DEF RecordHandler

-----------------------------------------------------------------------------
\* The statements.

\* Those that write neither a row nor the log.
LEMMA LookingKeeps ==
    ASSUME RecordsInv, NEW r \in Requests,
           InsertRefused(r) \/ CheckExists(r) \/ UpdateRefused(r) \/ FindRow(r)
             \/ DeleteRefused(r) \/ ReadRow(r)
    PROVE  RecordsInv'
<1> DEFINE old == task[r]
<1>0. TaskFits(old) /\ DOMAIN old = TaskFields /\ DOMAIN task = Requests
  BY DEF RecordsInv, TaskFits
<1>1. UNCHANGED Others /\ ~InFlight(r)
  BY DEF InsertRefused, CheckExists, UpdateRefused, FindRow, DeleteRefused, ReadRow,
         Others, InFlight, At
<1>2. CASE \E reply \in Replies : task' = Answer(r, reply)
  BY <1>1, <1>2, AnswerKeeps
<1>3. CASE At(r, "exists") /\ task' = [task EXCEPT ![r].phase = "update"]
  <2> DEFINE t == [old EXCEPT !.phase = "update"]
  <2>1. TaskFits(t)
    BY <1>0 DEF TaskFits, TaskFields
  <2>2. task' = [task EXCEPT ![r] = t]
    BY <1>3
  <2> HIDE DEF t
  <2>3. QED
    BY <1>1, <2>1, <2>2, TaskKeeps
<1>4. CASE At(r, "find") /\ Lookup(old.table, Head1(r))
             /\ task' = [task EXCEPT ![r].phase = "delete"]
  <2> DEFINE t == [old EXCEPT !.phase = "delete"]
  <2>1. Head(t.ids) \in 1..seq[t.table] /\ t.phase = "delete" /\ t.table \in Tables
    BY <1>0, <1>4 DEF TaskFits, TaskFields, Lookup, Head1, RecordsInv, IdsUsed
  <2>2. DOMAIN t = TaskFields
    BY <1>0
  <2>3. task' = [task EXCEPT ![r] = t]
    BY <1>4
  <2> HIDE DEF t
  <2>4. TaskFits(t)
    BY <2>1, <2>2 DEF TaskFits
  <2>5. QED
    BY <1>1, <2>3, <2>4, TaskKeeps
<1>5. CASE At(r, "find") /\ task' = [task EXCEPT ![r].ids = Tail(@)]
  <2> DEFINE t == [old EXCEPT !.ids = Tail(@)]
  <2>1. DOMAIN t = TaskFields /\ t.phase = "find" /\ t.table \in Tables
    BY <1>0, <1>5 DEF TaskFits, TaskFields, At
  <2>2. task' = [task EXCEPT ![r] = t]
    BY <1>5
  <2> HIDE DEF t
  <2>3. TaskFits(t)
    BY <2>1 DEF TaskFits
  <2>4. QED
    BY <1>1, <2>2, <2>3, TaskKeeps
<1>6. CASE InsertRefused(r) \/ UpdateRefused(r) \/ DeleteRefused(r) \/ ReadRow(r)
  BY <1>2, <1>6 DEF InsertRefused, UpdateRefused, DeleteRefused, ReadRow, Replies
<1>7. CASE CheckExists(r)
  BY <1>2, <1>3, <1>7 DEF CheckExists, Replies
<1>8. CASE FindRow(r)
  BY <1>2, <1>4, <1>5, <1>8 DEF FindRow, Replies
<1>9. QED
  BY <1>6, <1>7, <1>8

\* A new row: its id is above all that were ever used.
LEMMA InsertKeeps ==
    ASSUME RecordsInv, NEW r \in Requests, InsertRow(r)
    PROVE  RecordsInv'
<1> DEFINE old == task[r]
           t == old.table
           id == seq[t] + 1
<1>0. /\ TaskFits(old) /\ DOMAIN old = TaskFields /\ t \in Tables
      /\ old.phase = "insert" /\ old.kind \in {"create", "legacy_create"}
      /\ seq[t] \in Nat /\ DOMAIN rows = Tables /\ DOMAIN seq = Tables
  BY DEF InsertRow, At, RecordsInv, TaskFits, IdsUsed
<1>1. /\ rows' = [rows EXCEPT ![t] = With(rows[t], id, old.value)]
      /\ seq' = [seq EXCEPT ![t] = id]
      /\ log' = log /\ policy' = policy /\ bulked' = bulked /\ unlogged' = unlogged
      /\ Admits(t, old.value)
  BY DEF InsertRow, NextId
<1>2. /\ DOMAIN rows' = Tables /\ DOMAIN seq' = Tables
      /\ \A u \in Tables \ {t} : rows'[u] = rows[u] /\ seq'[u] = seq[u]
      /\ rows'[t] = With(rows[t], id, old.value) /\ seq'[t] = id
  BY <1>0, <1>1
<1>3. DOMAIN rows'[t] = DOMAIN rows[t] \cup {id}
  BY <1>2 DEF With
<1>4. \A u \in Tables : /\ seq[u] \in Nat /\ seq'[u] \in Nat /\ seq[u] <= seq'[u]
                        /\ DOMAIN rows[u] \subseteq 1..seq[u]
  BY <1>0, <1>2 DEF RecordsInv, IdsUsed
<1>5. IdsUsed'
  BY <1>0, <1>2, <1>3, <1>4 DEF IdsUsed
<1>6. \A u \in Tables : \A i \in 1..seq[u] :
          i \in 1..seq'[u] /\ (~Lookup(u, i) => i \notin DOMAIN rows'[u])
  BY <1>0, <1>2, <1>3, <1>4 DEF Lookup
<1>7. LogTrue'
  BY <1>1, <1>6 DEF RecordsInv, LogTrue, Lookup
<1>8. NoDangling'
  <2>1. \A e \in log' : e.user \in DOMAIN rows'["users"]
    BY <1>0, <1>1, <1>2, <1>3 DEF RecordsInv, NoDangling, Tables
  <2>2. DOMAIN rows["authors"] \subseteq DOMAIN rows'["authors"]
    BY <1>0, <1>2, <1>3 DEF Tables
  <2>3. \A p \in DOMAIN rows'["posts"] :
            rows'["posts"][p] \in {None} \cup DOMAIN rows["authors"]
    BY <1>0, <1>1, <1>2, <1>3 DEF RecordsInv, NoDangling, Tables, Admits, With
  <2>4. QED
    BY <2>1, <2>2, <2>3 DEF NoDangling
<1>9. /\ DOMAIN task' = Requests
      /\ \A s \in Requests \ {r} : task'[s] = task[s]
      /\ ~InFlight(r) /\ task'[r].kind # "bulk"
      /\ DOMAIN task'[r] = TaskFields /\ task'[r].phase # "insert" /\ task'[r].table \in Tables
  BY <1>0 DEF InsertRow, RecordsInv, Answer, Replied, NoTask, InFlight, TaskFields, Tables
<1>10. \A s \in Requests : TaskFits(task[s])'
  <2>1. TaskFits(task[r])'
    BY <1>9 DEF TaskFits
  <2>2. ASSUME NEW s \in Requests \ {r}
        PROVE  TaskFits(task[s])'
    BY <1>6, <1>9 DEF RecordsInv, TaskFits, Lookup
  <2>3. QED
    BY <2>1, <2>2
<1>11. \A b \in bulked' : Accounted(b)'
  BY <1>1, <1>9 DEF RecordsInv, Accounted, InFlight, Pair
<1>12. QED
  BY <1>1, <1>5, <1>7, <1>8, <1>9, <1>10, <1>11 DEF RecordsInv

\* A row that is written again keeps its id.
LEMMA UpdateKeeps ==
    ASSUME RecordsInv, NEW r \in Requests, UpdateRow(r)
    PROVE  RecordsInv'
<1> DEFINE old == task[r]
           t == old.table
<1>0. /\ TaskFits(old) /\ t \in Tables /\ old.phase = "update"
      /\ DOMAIN rows = Tables
  BY DEF UpdateRow, At, RecordsInv, TaskFits, IdsUsed
<1>1. /\ seq' = seq /\ log' = log /\ policy' = policy /\ bulked' = bulked
      /\ unlogged' = unlogged /\ task' = Answer(r, "saved")
  BY DEF UpdateRow
<1>2. /\ DOMAIN rows' = Tables
      /\ \A u \in Tables : DOMAIN rows'[u] = DOMAIN rows[u]
      /\ \A p \in DOMAIN rows["posts"] :
            \/ rows'["posts"][p] = rows["posts"][p]
            \/ rows'["posts"][p] \in {None} \cup DOMAIN rows["authors"]
  BY <1>0 DEF UpdateRow, Lookup, Admits, Tables, Head1
<1>3. IdsUsed'
  BY <1>1, <1>2 DEF RecordsInv, IdsUsed
<1>4. NoDangling'
  BY <1>1, <1>2 DEF RecordsInv, NoDangling, Tables
<1>5. LogTrue'
  BY <1>1, <1>2 DEF RecordsInv, LogTrue, Lookup
<1>6. /\ DOMAIN task' = Requests /\ task'[r] = Replied(old, "saved")
      /\ \A s \in Requests \ {r} : task'[s] = task[s]
      /\ ~InFlight(r)
  BY <1>0, <1>1 DEF RecordsInv, Answer, InFlight
<1>7. \A s \in Requests : TaskFits(task[s])'
  <2>1. TaskFits(Replied(old, "saved"))
    BY RepliedFits DEF Replies
  <2>2. QED
    BY <1>1, <1>2, <1>6, <2>1 DEF RecordsInv, TaskFits, Lookup
<1>8. \A b \in bulked' : Accounted(b)'
  BY <1>1, <1>6 DEF RecordsInv, Accounted, InFlight, Pair
<1>9. QED
  BY <1>1, <1>3, <1>4, <1>5, <1>6, <1>7, <1>8 DEF RecordsInv

\* What a deletion leaves of the rows.
LEMMA DeletedRows ==
    ASSUME RecordsInv, NEW t \in Tables, NEW ids, Deletable(t, ids),
           rows' = Deleted(t, ids)
    PROVE  /\ DOMAIN rows' = Tables
           /\ \A u \in Tables : DOMAIN rows'[u] \subseteq DOMAIN rows[u]
           /\ DOMAIN rows'[t] = DOMAIN rows[t] \ ids
           /\ t # "users" => rows'["users"] = rows["users"]
           /\ \A p \in DOMAIN rows'["posts"] :
                 rows'["posts"][p] \in {None} \cup DOMAIN rows'["authors"]
<1> DEFINE hit == IF t = "authors" THEN Posts(ids) ELSE {}
           posts == IF policy = "cascade" THEN Without(rows["posts"], hit)
                    ELSE [p \in DOMAIN rows["posts"] |->
                             IF p \in hit THEN None ELSE rows["posts"][p]]
<1>0. DOMAIN rows = Tables /\ policy \in {"restrict", "cascade", "set_null"}
  BY DEF RecordsInv, IdsUsed
<1>1. CASE t = "posts"
  <2>1. rows' = [rows EXCEPT !["posts"] = Without(rows["posts"], ids)]
    BY <1>1 DEF Deleted
  <2>2. QED
    BY <1>0, <1>1, <2>1 DEF Without, Tables, RecordsInv, NoDangling
<1>2. CASE t # "posts"
  <2>1. rows' = [rows EXCEPT ![t] = Without(rows[t], ids), !["posts"] = posts]
    BY <1>2 DEF Deleted
  <2>2. /\ DOMAIN posts \subseteq DOMAIN rows["posts"]
        /\ \A p \in DOMAIN posts :
              \/ posts[p] = None
              \/ p \notin hit /\ posts[p] = rows["posts"][p]
    BY DEF Without
  <2> HIDE DEF posts
  <2>3. /\ DOMAIN rows' = Tables /\ rows'[t] = Without(rows[t], ids) /\ rows'["posts"] = posts
        /\ \A u \in Tables \ {t, "posts"} : rows'[u] = rows[u]
    BY <1>0, <1>2, <2>1 DEF Tables
  <2>4. \A p \in DOMAIN posts : posts[p] \in {None} \cup DOMAIN rows'["authors"]
    <3>1. \A p \in DOMAIN rows["posts"] :
             rows["posts"][p] \in {None} \cup DOMAIN rows["authors"]
      BY DEF RecordsInv, NoDangling
    <3>2. CASE t = "authors"
      BY <2>2, <2>3, <3>1, <3>2 DEF Posts, Without
    <3>3. CASE t # "authors"
      BY <1>2, <2>2, <2>3, <3>1, <3>3 DEF Tables
    <3>4. QED
      BY <3>2, <3>3
  <2>5. QED
    BY <1>2, <2>2, <2>3, <2>4 DEF Without, Tables
<1>3. QED
  BY <1>1, <1>2

\* A deletion: a user takes along what the log says of the user.
LEMMA DeleteKeeps ==
    ASSUME RecordsInv, NEW r \in Requests, DeleteRow(r)
    PROVE  RecordsInv'
<1> DEFINE old == task[r]
           t == old.table
           id == Head(old.ids)
<1>0. /\ TaskFits(old) /\ DOMAIN old = TaskFields /\ t \in Tables /\ old.phase = "delete"
  BY DEF DeleteRow, At, RecordsInv, TaskFits
<1>1. /\ Deletable(t, {id}) /\ rows' = Deleted(t, {id}) /\ log' = LogWithout(t, {id})
      /\ seq' = seq /\ policy' = policy
      /\ bulked' = IF old.kind = "bulk" /\ Lookup(t, id) THEN bulked \cup {<<t, id>>} ELSE bulked
      /\ unlogged' = unlogged \cup {<<e.table, e.id>> : e \in log \ log'}
      /\ task' = IF old.kind = "bulk" THEN [task EXCEPT ![r].phase = "record"]
                 ELSE Answer(r, "saved")
  BY DEF DeleteRow, Head1
<1>2. /\ DOMAIN rows' = Tables
      /\ \A u \in Tables : DOMAIN rows'[u] \subseteq DOMAIN rows[u]
      /\ DOMAIN rows'[t] = DOMAIN rows[t] \ {id}
      /\ t # "users" => rows'["users"] = rows["users"]
      /\ \A p \in DOMAIN rows'["posts"] : rows'["posts"][p] \in {None} \cup DOMAIN rows'["authors"]
  BY <1>0, <1>1, DeletedRows
<1>3. /\ log' \subseteq log
      /\ t = "users" => \A e \in log' : e.user # id
  BY <1>1 DEF LogWithout
<1>4. IdsUsed'
  BY <1>1, <1>2 DEF RecordsInv, IdsUsed
<1>5. NoDangling'
  BY <1>2, <1>3 DEF RecordsInv, NoDangling, Tables
<1>6. LogTrue'
  BY <1>1, <1>2, <1>3 DEF RecordsInv, LogTrue, Lookup
<1>7. /\ DOMAIN task' = Requests
      /\ \A s \in Requests \ {r} : task'[s] = task[s]
      /\ ~InFlight(r)
  BY <1>0, <1>1 DEF RecordsInv, Answer, InFlight
<1>10. ASSUME NEW s \in Requests \ {r}
       PROVE  TaskFits(task[s])'
  <2>1. TaskFits(task[s]) /\ task'[s] = task[s] /\ task[s].table \in Tables
    BY <1>7 DEF RecordsInv, TaskFits
  <2>2. DOMAIN rows'[task[s].table] \subseteq DOMAIN rows[task[s].table]
    BY <1>2, <2>1
  <2>3. QED
    BY <1>1, <2>1, <2>2 DEF TaskFits, Lookup
<1>8. CASE old.kind = "bulk"
  <2>1. task'[r] = [old EXCEPT !.phase = "record"]
    BY <1>1, <1>8 DEF RecordsInv
  <2>2. /\ DOMAIN task'[r] = TaskFields /\ task'[r].phase = "record" /\ task'[r].kind = "bulk"
        /\ task'[r].table = t /\ task'[r].ids = old.ids
    BY <1>0, <1>8, <2>1 DEF TaskFields
  <2>3. id \in 1..seq[t]
    BY <1>0, <1>8 DEF TaskFits
  <2>4. TaskFits(task[r])'
    <3>1. Head(task'[r].ids) = id /\ id \in 1..seq'[t] /\ id \notin DOMAIN rows'[t]
      BY <1>1, <1>2, <2>2, <2>3
    <3> HIDE DEF id
    <3>2. QED
      BY <1>0, <2>2, <3>1 DEF TaskFits, Lookup
  <2>5. \A s \in Requests : TaskFits(task[s])'
    BY <2>4, <1>10
  <2>6. ASSUME NEW b \in bulked'
        PROVE  Accounted(b)'
    <3>1. CASE b = <<t, id>>
      BY <2>2, <3>1 DEF Accounted, InFlight, Pair
    <3>2. CASE b \in bulked
      <4>1. Accounted(b)
        BY <3>2 DEF RecordsInv
      <4>2. CASE \E e \in log : e.action = "delete" /\ b = <<e.table, e.id>>
        BY <1>1, <4>2 DEF Accounted
      <4>3. CASE b \in unlogged
        BY <1>1, <4>3 DEF Accounted
      <4>4. CASE \E s \in Requests : InFlight(s) /\ b = Pair(s)
        BY <1>7, <4>4 DEF Accounted, InFlight, Pair
      <4>5. QED
        BY <4>1, <4>2, <4>3, <4>4 DEF Accounted
    <3>3. QED
      BY <1>1, <3>1, <3>2
  <2>7. QED
    BY <1>1, <1>4, <1>5, <1>6, <1>7, <2>5, <2>6 DEF RecordsInv
<1>9. CASE old.kind # "bulk"
  <2>1. task'[r] = Replied(old, "saved") /\ bulked' = bulked
    BY <1>1, <1>9 DEF RecordsInv, Answer
  <2>2. TaskFits(Replied(old, "saved"))
    BY RepliedFits DEF Replies
  <2>3. \A s \in Requests : TaskFits(task[s])'
    <3>1. TaskFits(task[r])'
      BY <2>1, <2>2 DEF TaskFits, Replied, NoTask, TaskFields, Tables
    <3>2. QED
      BY <3>1, <1>10
  <2>4. ASSUME NEW b \in bulked'
        PROVE  Accounted(b)'
    <3>1. Accounted(b)
      BY <2>1, <2>4 DEF RecordsInv
    <3>2. CASE \E e \in log : e.action = "delete" /\ b = <<e.table, e.id>>
      BY <1>1, <3>2 DEF Accounted
    <3>3. CASE b \in unlogged
      BY <1>1, <3>3 DEF Accounted
    <3>4. CASE \E s \in Requests : InFlight(s) /\ b = Pair(s)
      BY <1>7, <3>4 DEF Accounted, InFlight, Pair
    <3>5. QED
      BY <3>1, <3>2, <3>3, <3>4 DEF Accounted
  <2>5. QED
    BY <1>1, <1>4, <1>5, <1>6, <1>7, <2>3, <2>4 DEF RecordsInv
<1>11. QED
  BY <1>8, <1>9

\* An entry is written to the log, of a row that is there or one that is gone.
LEMMA EntryKeeps ==
    ASSUME RecordsInv, NEW r \in Requests, RecordEntry(r)
    PROVE  RecordsInv'
<1> DEFINE old == task[r]
           t == old.table
           id == Head(old.ids)
           entry == LogEntry(old, Action(old), id)
<1>0. /\ TaskFits(old) /\ DOMAIN old = TaskFields /\ t \in Tables /\ old.phase = "record"
  BY DEF RecordEntry, At, RecordsInv, TaskFits
<1>1. /\ log' = log \cup {entry} /\ Lookup("users", old.user)
      /\ rows' = rows /\ seq' = seq /\ policy' = policy /\ bulked' = bulked
      /\ unlogged' = unlogged
      /\ task' = IF old.kind = "bulk"
                   THEN [task EXCEPT ![r].phase = "find", ![r].ids = Tail(@)]
                   ELSE Answer(r, "saved")
  BY DEF RecordEntry, Head1
<1>2. /\ entry.user = old.user /\ entry.table = t /\ entry.id = id
      /\ entry.action = "delete" <=> old.kind = "bulk"
  BY DEF LogEntry, Action
<1> HIDE DEF entry
<1>3. IdsUsed' /\ NoDangling'
  BY <1>1, <1>2 DEF RecordsInv, IdsUsed, NoDangling, Lookup
<1>4. LogTrue'
  BY <1>0, <1>1, <1>2 DEF RecordsInv, LogTrue, Lookup, TaskFits
<1>5. DOMAIN task' = Requests /\ \A s \in Requests \ {r} : task'[s] = task[s]
  BY <1>1 DEF RecordsInv, Answer
<1>6. TaskFits(task[r])'
  <2>1. CASE old.kind = "bulk"
    <3>1. task'[r] = [[old EXCEPT !.phase = "find"] EXCEPT !.ids = Tail(@)]
      BY <1>1, <2>1 DEF RecordsInv
    <3>2. DOMAIN task'[r] = TaskFields /\ task'[r].phase = "find" /\ task'[r].table = t
      BY <1>0, <3>1 DEF TaskFields
    <3>3. QED
      BY <1>0, <3>2 DEF TaskFits
  <2>2. CASE old.kind # "bulk"
    <3>1. task'[r] = Replied(old, "saved")
      BY <1>1, <2>2 DEF RecordsInv, Answer
    <3>2. TaskFits(Replied(old, "saved"))
      BY RepliedFits DEF Replies
    <3>3. QED
      BY <1>1, <3>1, <3>2 DEF TaskFits, Lookup
  <2>3. QED
    BY <2>1, <2>2
<1>7. \A s \in Requests : TaskFits(task[s])'
  BY <1>1, <1>5, <1>6 DEF RecordsInv, TaskFits, Lookup
<1>8. ASSUME NEW b \in bulked'
      PROVE  Accounted(b)'
  <2>1. Accounted(b)
    BY <1>1, <1>8 DEF RecordsInv
  <2>2. CASE \E s \in Requests : InFlight(s) /\ b = Pair(s)
    <3>1. CASE InFlight(r) /\ b = Pair(r)
      BY <1>1, <1>2, <3>1 DEF Accounted, InFlight, Pair
    <3>2. CASE \E s \in Requests \ {r} : InFlight(s) /\ b = Pair(s)
      BY <1>5, <3>2 DEF Accounted, InFlight, Pair
    <3>3. QED
      BY <2>2, <3>1, <3>2
  <2>3. CASE b \in unlogged \/ \E e \in log : e.action = "delete" /\ b = <<e.table, e.id>>
    BY <1>1, <2>3 DEF Accounted
  <2>4. QED
    BY <2>1, <2>2, <2>3 DEF Accounted
<1>9. QED
  BY <1>1, <1>3, <1>4, <1>5, <1>7, <1>8 DEF RecordsInv

\* An entry that cannot be written: what it was about is remembered.
LEMMA FailureKeeps ==
    ASSUME RecordsInv, NEW r \in Requests, RecordFails(r)
    PROVE  RecordsInv'
<1>1. /\ rows' = rows /\ seq' = seq /\ log' = log /\ policy' = policy /\ bulked' = bulked
      /\ unlogged' = unlogged \cup {Pair(r)} /\ task' = Answer(r, "failed")
  BY DEF RecordFails, Head1, Pair
<1>2. IdsUsed' /\ NoDangling' /\ LogTrue'
  BY <1>1 DEF RecordsInv, IdsUsed, NoDangling, LogTrue, Lookup
<1>3. /\ DOMAIN task' = Requests /\ task'[r] = Replied(task[r], "failed")
      /\ \A s \in Requests \ {r} : task'[s] = task[s]
  BY <1>1 DEF RecordsInv, Answer
<1>4. TaskFits(Replied(task[r], "failed"))
  BY RepliedFits DEF Replies
<1>5. \A s \in Requests : TaskFits(task[s])'
  BY <1>1, <1>3, <1>4 DEF RecordsInv, TaskFits, Lookup
<1>6. \A b \in bulked' : Accounted(b)'
  BY <1>1, <1>3 DEF RecordsInv, Accounted, InFlight, Pair
<1>7. QED
  BY <1>1, <1>2, <1>3, <1>5, <1>6 DEF RecordsInv

\* The server stops.
LEMMA CrashKeeps ==
    ASSUME RecordsInv, RecordsCrash
    PROVE  RecordsInv'
<1>1. /\ rows' = rows /\ seq' = seq /\ log' = log /\ policy' = policy /\ bulked' = bulked
      /\ \A r \in Requests : InFlight(r) => Pair(r) \in unlogged'
      /\ unlogged \subseteq unlogged'
      /\ DOMAIN task' = Requests
      /\ \A r \in Requests :
            task'[r] = IF Busy(r) THEN Replied(task[r], "failed") ELSE task[r]
  BY DEF RecordsCrash, InFlight, Pair, Head1, At
<1>2. IdsUsed' /\ NoDangling' /\ LogTrue'
  BY <1>1 DEF RecordsInv, IdsUsed, NoDangling, LogTrue, Lookup
<1>3. \A r \in Requests : TaskFits(Replied(task[r], "failed"))
  BY RepliedFits DEF Replies
<1>4. \A r \in Requests : TaskFits(task[r])'
  BY <1>1, <1>3 DEF RecordsInv, TaskFits, Lookup
<1>5. \A b \in bulked' : Accounted(b)'
  BY <1>1 DEF RecordsInv, Accounted
<1>6. QED
  BY <1>1, <1>2, <1>4, <1>5 DEF RecordsInv

\* Every step keeps the invariant.
LEMMA RecordsStepKeeps == RecordsInv /\ RecordsMove => RecordsInv'
<1> SUFFICES ASSUME RecordsInv, RecordsMove
             PROVE  RecordsInv'
  OBVIOUS
<1>1. ASSUME NEW r \in Requests, NEW q \in Visits[incoming].requests,
             NEW handler \in RecordHandlers,
             ~Busy(r), q.path[2] \in Tables, RecordHandler(r, handler, q)
      PROVE  RecordsInv'
  BY <1>1, HandlerKeeps
<1>2. ASSUME NEW r \in Requests, NEW reply \in Replies, ~Busy(r), Reply(r, "none", reply)
      PROVE  RecordsInv'
  BY <1>2, ReplyKeeps DEF Busy, InFlight, Replies
<1>3. ASSUME NEW r \in Requests, RecordStep(r)
      PROVE  RecordsInv'
  BY <1>3, LookingKeeps, InsertKeeps, UpdateKeeps, DeleteKeeps, EntryKeeps, FailureKeeps
  DEF RecordStep
<1>4. CASE RecordsCrash
  BY <1>4, CrashKeeps
<1>5. CASE UNCHANGED recordVars
  BY <1>5 DEF recordVars, RecordsInv, IdsUsed, NoDangling, LogTrue, Lookup, TaskFits,
              Accounted, InFlight, Pair
<1>6. QED
  BY <1>1, <1>2, <1>3, <1>4, <1>5 DEF RecordsMove

-----------------------------------------------------------------------------
\* The start.

LEMMA RecordsStart == SiteInit => RecordsInv
<1> SUFFICES ASSUME RecordsInit
             PROVE  RecordsInv
  BY DEF SiteInit
<1>1. /\ rows \in FirstRows /\ log = {} /\ bulked = {} /\ policy \in Policies
      /\ seq \in [Tables -> 0..MaxId]
      /\ \A t \in Tables : DOMAIN rows[t] \subseteq 1..seq[t]
      /\ task = [r \in Requests |-> NoTask]
  BY DEF RecordsInit
<1>2. /\ DOMAIN rows = Tables
      /\ \A p \in DOMAIN rows["posts"] : rows["posts"][p] \in {None} \cup DOMAIN rows["authors"]
  BY <1>1, RecordsAssumption
<1>3. \A t \in Tables : seq[t] \in Nat
  BY <1>1, RecordsAssumption
<1>4. IdsUsed
  BY <1>1, <1>2, <1>3 DEF IdsUsed
<1>5. TaskFits(NoTask)
  BY DEF TaskFits, NoTask, TaskFields, Tables
<1>6. QED
  BY <1>1, <1>2, <1>4, <1>5, RecordsAssumption DEF RecordsInv, NoDangling, LogTrue

-----------------------------------------------------------------------------
\* RecordsInv holds in every state of the site.
THEOREM RecordsHold == SiteSpec => []RecordsInv
<1>1. RecordsInv /\ [SiteNext]_siteVars => RecordsInv'
  BY MovesOfRecords, RecordsStepKeeps
<1>2. QED
  BY <1>1, RecordsStart, PTL DEF SiteSpec

\* However handlers interleave, fail and are stopped: a post refers to an author
\* who is there, an entry of the log to a user who is; no entry says that a row
\* which is there was deleted; and a bulk action has left an entry for each row
\* it deleted, or the failure was reported (bulk_delete, audit::record).
THEOREM RowsAgree == SiteSpec => []RowsAndLogAgree
<1>1. RecordsInv => NoDangling /\ HistoryIsOwn
  BY DEF RecordsInv, LogTrue, HistoryIsOwn
<1>2. RecordsInv => BulkAudited
  <2> SUFFICES ASSUME RecordsInv, NEW b \in bulked
               PROVE  b \in {<<e.table, e.id>> : e \in {d \in log : d.action = "delete"}}
                          \cup unlogged
                          \cup {<<task[r].table, Head1(r)>> : r \in {q \in Requests : At(q, "record")}}
    BY DEF BulkAudited
  <2>1. Accounted(b)
    BY DEF RecordsInv
  <2>2. CASE \E e \in log : e.action = "delete" /\ b = <<e.table, e.id>>
    BY <2>2
  <2>3. CASE \E r \in Requests : InFlight(r) /\ b = Pair(r)
    BY <2>3 DEF InFlight, Pair, At, Head1
  <2>4. QED
    BY <2>1, <2>2, <2>3 DEF Accounted
<1>3. RecordsInv => RowsAndLogAgree
  BY <1>1, <1>2 DEF RowsAndLogAgree
<1>4. QED
  BY <1>3, RecordsHold, PTL

\* The log loses an entry only with the user who caused it (the foreign key of
\* rustio_admin_actions).
THEOREM LogGrows == SiteSpec => LogOnlyGrows
<1> DEFINE Grows == \A e \in log : e \in log' \/ e.user \notin DOMAIN rows'["users"]
<1>1. RecordsInv /\ RecordsMove => Grows
  <2> SUFFICES ASSUME RecordsInv, RecordsMove
               PROVE  Grows
    OBVIOUS
  <2>1. ASSUME NEW r \in Requests, NEW q, NEW handler, RecordHandler(r, handler, q)
        PROVE  log' = log
    BY <2>1 DEF RecordHandler, StartCreate, StartLegacyCreate, StartUpdate, StartDelete,
                StartBulk, StartRead, Begin, Reply
  <2>2. ASSUME NEW r \in Requests, NEW reply, Reply(r, "none", reply)
        PROVE  log' = log
    BY <2>2 DEF Reply
  <2>3. ASSUME NEW r \in Requests, RecordStep(r), ~DeleteRow(r)
        PROVE  log \subseteq log'
    BY <2>3 DEF RecordStep, InsertRow, InsertRefused, CheckExists, UpdateRow, UpdateRefused,
                FindRow, DeleteRefused, RecordEntry, RecordFails, ReadRow
  <2>4. ASSUME NEW r \in Requests, DeleteRow(r)
        PROVE  Grows
    <3> DEFINE t == task[r].table
               id == Head(task[r].ids)
    <3>1. /\ t \in Tables /\ Deletable(t, {id})
          /\ rows' = Deleted(t, {id}) /\ log' = LogWithout(t, {id})
      BY <2>4 DEF DeleteRow, Head1, RecordsInv, TaskFits
    <3>2. DOMAIN rows'[t] = DOMAIN rows[t] \ {id}
      BY <3>1, DeletedRows
    <3>3. QED
      BY <3>1, <3>2 DEF LogWithout
  <2>5. CASE RecordsCrash \/ UNCHANGED recordVars
    BY <2>5 DEF RecordsCrash, recordVars
  <2>6. QED
    BY <2>1, <2>2, <2>3, <2>4, <2>5 DEF RecordsMove
<1>2. RecordsInv /\ [SiteNext]_siteVars => [Grows]_recordVars
  BY <1>1, MovesOfRecords
<1>3. QED
  BY <1>2, RecordsHold, PTL DEF SiteSpec, LogOnlyGrows

-----------------------------------------------------------------------------
\* Proofs about Views as a part of AdminSite, for any number of requests
\* at a time, of faults and of stops: as long as no save has met the
\* temporary file of another, the saved view is whole, and a save installs
\* what it built.
\*
\* The invariant says what "met" excludes: a request that has opened the
\* temporary file is the only one, and the path names its file.

Writing(r) == save[r].phase \in {"opened", "filled"}

SaveFields == {"phase", "draft", "fd"}

\* A request has a file open exactly while it writes.
FilesHeld ==
    /\ DOMAIN save = Requests
    /\ \A r \in Requests :
        /\ DOMAIN save[r] = SaveFields
        /\ save[r].fd # None <=> Writing(r)

\* The one that writes has the temporary file to itself, and what it has
\* written is its draft.
OneWriter ==
    /\ \A r \in Requests : Writing(r) => save[r].fd = tmp
    /\ \A r, s \in Requests : Writing(r) /\ Writing(s) => r = s
    /\ \A r \in Requests :
        /\ save[r].phase = "opened" => content[tmp] = Blank
        /\ save[r].phase = "filled" => content[tmp] = Whole(save[r].draft)

\* What holds until a save meets the temporary file of another.
Apart ==
    /\ saved \in Inodes \cup {None} /\ tmp \in Inodes \cup {None}
    /\ DOMAIN content = Inodes
    /\ FilesHeld
    /\ OneWriter
    /\ tmp # None => tmp # saved
    /\ saved # None => content[saved].state = "whole"

\* The inductive invariant.
ViewsInv == ~shared => Apart

-----------------------------------------------------------------------------
\* The steps of the site, as Views sees them.

Files == <<saved, tmp, content, shared>>

\* A request has built a view, or is answered without one.
Submitted(r) ==
    /\ ~Saving(r)
    /\ \E draft : save' = [save EXCEPT ![r] = [phase |-> "drafted", draft |-> draft, fd |-> None]]
    /\ UNCHANGED Files
Answered(r) ==
    /\ ~Saving(r)
    /\ \E answer \in Answers : save' = [save EXCEPT ![r] = Ended(answer)]
    /\ UNCHANGED Files

ViewsMove ==
    \/ \E r \in Requests : Submitted(r) \/ Answered(r) \/ WriteStep(r)
    \/ ViewsCrash
    \/ UNCHANGED <<Files, save>>

\* What a handler of the editor begins with.
LEMMA Handlers ==
    ASSUME NEW r \in Requests, NEW q, NEW handler, ViewHandler(r, handler, q), ~Saving(r)
    PROVE  Submitted(r) \/ Answered(r)
<1>1. ASSUME NEW v, Draft(r, v), UNCHANGED Files
      PROVE  Submitted(r) \/ Answered(r)
  BY <1>1 DEF Draft, Submitted, Answered, Answers
<1>2. CASE SubmitLayout(r, q.layout)
  BY <1>1, <1>2 DEF SubmitLayout, Files, Answered, Answers
<1>3. CASE SubmitView(r, q.form)
  BY <1>1, <1>3 DEF SubmitView, Files, Answered, Answers
<1>4. QED
  BY <1>2, <1>3 DEF ViewHandler

\* And `rustio view`.
LEMMA Terminals ==
    ASSUME NEW r \in Requests, Terminal(r)
    PROVE  Submitted(r) \/ Answered(r)
<1>1. ~Saving(r) /\ UNCHANGED Files
  BY DEF Terminal, Free, RunView, Files
<1>2. PICK layout, keep : RunView(r, layout, keep)
  BY DEF Terminal
<1>3. CASE Draft(r, Derived)
  BY <1>1, <1>3 DEF Draft, Submitted, Answered, Answers
<1>4. CASE \E answer \in {"refused", "idle"} : save' = [save EXCEPT ![r] = Ended(answer)]
  BY <1>1, <1>4 DEF Answered, Answers
<1>5. QED
  BY <1>2, <1>3, <1>4 DEF RunView

\* Every step of the site is one of these.
LEMMA MovesOfViews == [SiteNext]_siteVars => ViewsMove
<1> SUFFICES ASSUME [SiteNext]_siteVars
             PROVE  ViewsMove
  OBVIOUS
<1>1. CASE UNCHANGED siteVars
  BY <1>1 DEF siteVars, viewVars, Files, ViewsMove
<1>2. ASSUME NEW r \in Requests, NEW q \in Visits[incoming].requests, Arrive(r, q)
      PROVE  ViewsMove
  <2>1. ~Saving(r)
    BY <1>2 DEF Arrive, Free
  <2>2. \/ UNCHANGED viewVars
        \/ \E handler \in ViewHandlers : ViewHandler(r, handler, q)
        \/ ListHandler(r, q)
    BY <1>2 DEF Arrive, Elsewhere
  <2>3. ASSUME ListHandler(r, q)
        PROVE  UNCHANGED <<Files, save>>
    BY <2>3 DEF ListHandler, ShowList, viewVars, Files
  <2>4. QED
    BY <2>1, <2>2, <2>3, Handlers DEF ViewsMove, viewVars, Files
<1>3. ASSUME NEW r \in Requests, Proceed(r)
      PROVE  ViewsMove
  BY <1>3 DEF Proceed, ViewsMove, viewVars, Files
<1>4. CASE Visits[incoming].deletes /\ (\E t \in AllTargets : TargetGone(t))
             /\ UNCHANGED <<recordVars, viewVars, listVars, incoming, sent, visit>>
  BY <1>4 DEF ViewsMove, viewVars, Files
<1>5. CASE Crash
  BY <1>5 DEF Crash, ViewsMove
<1>6. ASSUME NEW r \in Requests, Terminal(r)
      PROVE  ViewsMove
  BY <1>6, Terminals DEF ViewsMove
<1>7. QED
  BY <1>1, <1>2, <1>3, <1>4, <1>5, <1>6 DEF SiteNext

-----------------------------------------------------------------------------
\* Each of them keeps the invariant.

\* There is an inode for a new file.
LEMMA FreshInode ==
    ASSUME NEW i
    PROVE  \E j \in Inodes : j \notin {i, None}
<1>1. Cardinality(Requests) \in Nat /\ Cardinality(Inodes) \in Nat
  BY InodesAssumption, FS_CardinalityType
<1>2. ~(Inodes \subseteq {i})
  <2>1. IsFiniteSet({i}) /\ Cardinality({i}) = 1
    BY FS_Singleton
  <2>2. Inodes \subseteq {i} => Cardinality(Inodes) <= 1
    BY <2>1, FS_Subset
  <2>3. QED
    BY <1>1, <2>2, InodesAssumption
<1>3. QED
  BY <1>2, InodesAssumption

\* A request that has no file open goes on without one.
LEMMA WithoutFile ==
    ASSUME Apart, NEW r \in Requests, ~Writing(r), NEW s,
           DOMAIN s = SaveFields, s.fd = None, s.phase \notin {"opened", "filled"},
           save' = [save EXCEPT ![r] = s], UNCHANGED Files
    PROVE  Apart'
<1>1. /\ saved' = saved /\ tmp' = tmp /\ content' = content
      /\ DOMAIN save' = Requests
      /\ \A q \in Requests : save'[q] = IF q = r THEN s ELSE save[q]
  BY DEF Files, Apart, FilesHeld
<1>2. FilesHeld'
  BY <1>1 DEF Apart, FilesHeld, Writing
<1>3. OneWriter'
  BY <1>1 DEF Apart, OneWriter, Writing
<1>4. QED
  BY <1>1, <1>2, <1>3 DEF Apart

LEMMA DraftKeeps ==
    ASSUME Apart, NEW r \in Requests, Submitted(r) \/ Answered(r)
    PROVE  Apart'
<1>1. ~Writing(r)
  BY DEF Submitted, Answered, Saving, Answers, Writing
<1>2. CASE Submitted(r)
  <2>1. PICK draft : save' = [save EXCEPT ![r] =
                                [phase |-> "drafted", draft |-> draft, fd |-> None]]
    BY <1>2 DEF Submitted
  <2>2. QED
    BY <1>1, <1>2, <2>1, WithoutFile DEF Submitted, SaveFields
<1>3. CASE Answered(r)
  <2>1. PICK answer \in Answers : save' = [save EXCEPT ![r] = Ended(answer)]
    BY <1>3 DEF Answered
  <2>2. /\ DOMAIN Ended(answer) = SaveFields /\ Ended(answer).fd = None
        /\ Ended(answer).phase \notin {"opened", "filled"}
    BY <2>1 DEF Ended, Idle, SaveFields, Answers
  <2>3. QED
    BY <1>1, <1>3, <2>1, <2>2, WithoutFile DEF Answered
<1>4. QED
  BY <1>2, <1>3

\* The temporary file goes: nobody has it open, or the save has met another.
LEMMA RemoveKeeps ==
    ASSUME Apart, NEW r \in Requests, RemoveTmp(r), ~shared'
    PROVE  Apart'
<1>1. /\ save[r].phase = "drafted" /\ tmp' = None /\ saved' = saved
      /\ save' = [save EXCEPT ![r].phase = "cleared"]
      /\ content' = [i \in Inodes |-> IF i \in {saved} \cup Held(save) THEN content[i] ELSE Blank]
      /\ tmp \notin Held(save) \ {None}
  BY DEF RemoveTmp, Tidy
<1>2. /\ DOMAIN save' = Requests
      /\ \A q \in Requests \ {r} : save'[q] = save[q]
      /\ DOMAIN save'[r] = SaveFields /\ save'[r].fd = save[r].fd /\ save'[r].phase = "cleared"
  BY <1>1 DEF Apart, FilesHeld, SaveFields
<1>3. FilesHeld'
  BY <1>1, <1>2 DEF Apart, FilesHeld, Writing
<1>4. OneWriter'
  <2>1. \A q \in Requests : ~Writing(q)
    BY <1>1 DEF Apart, OneWriter, FilesHeld, Held
  <2>2. \A q \in Requests : ~Writing(q)'
    BY <1>2, <2>1 DEF Writing
  <2>3. QED
    BY <2>2 DEF OneWriter, Writing
<1>5. saved # None => content'[saved] = content[saved]
  BY <1>1 DEF Apart
<1>6. QED
  BY <1>1, <1>3, <1>4, <1>5 DEF Apart

\* A new file is opened under the temporary path, or the save has met another.
LEMMA OpenKeeps ==
    ASSUME Apart, NEW r \in Requests, OpenTmp(r), ~shared'
    PROVE  Apart'
<1> DEFINE i == CHOOSE j \in Inodes : j \notin {saved} \cup Held(save)
<1>1. /\ save[r].phase = "cleared" /\ saved' = saved /\ tmp' = i /\ tmp = None
      /\ content' = [content EXCEPT ![i] = Blank]
      /\ save' = [save EXCEPT ![r].phase = "opened", ![r].fd = i]
  BY DEF OpenTmp
<1>2. \A q \in Requests : ~Writing(q) /\ save[q].fd = None
  BY <1>1 DEF Apart, FilesHeld, OneWriter
<1>3. i \in Inodes /\ i # saved
  <2>1. Held(save) \subseteq {None}
    BY <1>2 DEF Held
  <2>2. \E j \in Inodes : j \notin {saved} \cup Held(save)
    BY <2>1, FreshInode
  <2>3. QED
    BY <2>2
<1>4. i # None
  BY <1>3, InodesAssumption
<1> HIDE DEF i
<1>5. /\ DOMAIN save' = Requests
      /\ \A q \in Requests \ {r} : save'[q] = save[q]
      /\ DOMAIN save'[r] = SaveFields /\ save'[r].fd = i /\ save'[r].phase = "opened"
  BY <1>1 DEF Apart, FilesHeld, SaveFields
<1>6. FilesHeld'
  BY <1>4, <1>5 DEF Apart, FilesHeld, Writing
<1>7. DOMAIN content' = Inodes /\ content'[i] = Blank
      /\ (saved # None => content'[saved] = content[saved])
  BY <1>1, <1>3 DEF Apart
<1>8. OneWriter'
  BY <1>1, <1>2, <1>5, <1>7 DEF OneWriter, Writing
<1>9. QED
  BY <1>1, <1>3, <1>6, <1>7, <1>8 DEF Apart

\* It is filled, by the one who has it open.
LEMMA FillKeeps ==
    ASSUME Apart, NEW r \in Requests, FillTmp(r)
    PROVE  Apart'
<1>1. /\ save[r].phase = "opened" /\ tmp' = tmp /\ saved' = saved
      /\ save' = [save EXCEPT ![r].phase = "filled"]
  BY DEF FillTmp
<1>2. save[r].fd = tmp /\ tmp # None /\ tmp \in Inodes /\ tmp # saved /\ content[tmp] = Blank
  BY <1>1 DEF Apart, FilesHeld, OneWriter, Writing
<1>3. content' = [content EXCEPT ![tmp] = Whole(save[r].draft)]
  BY <1>2 DEF FillTmp
<1>4. /\ DOMAIN save' = Requests
      /\ \A q \in Requests \ {r} : save'[q] = save[q]
      /\ DOMAIN save'[r] = SaveFields /\ save'[r].fd = tmp /\ save'[r].phase = "filled"
      /\ save'[r].draft = save[r].draft
  BY <1>1, <1>2 DEF Apart, FilesHeld, SaveFields
<1>5. FilesHeld'
  BY <1>2, <1>4 DEF Apart, FilesHeld, Writing
<1>6. /\ DOMAIN content' = Inodes /\ content'[tmp] = Whole(save[r].draft)
      /\ saved # None => content'[saved] = content[saved]
  BY <1>2, <1>3 DEF Apart
<1>7. \A q \in Requests \ {r} : ~Writing(q) /\ ~Writing(q)'
  BY <1>1, <1>4 DEF Apart, OneWriter, Writing
<1>8. OneWriter'
  BY <1>1, <1>4, <1>6, <1>7 DEF OneWriter, Writing
<1>9. QED
  BY <1>1, <1>5, <1>6, <1>8 DEF Apart

\* Writing fails half-way.
LEMMA FailKeeps ==
    ASSUME Apart, NEW r \in Requests, FillFails(r)
    PROVE  Apart'
<1>1. /\ save[r].phase = "opened" /\ tmp' = tmp /\ saved' = saved
      /\ save' = [save EXCEPT ![r] = Ended("failed")]
      /\ content' = [content EXCEPT ![save[r].fd] = Partial]
  BY DEF FillFails
<1>2. save[r].fd = tmp /\ tmp # None /\ tmp \in Inodes /\ tmp # saved
  BY <1>1 DEF Apart, FilesHeld, OneWriter, Writing
<1>3. /\ DOMAIN save' = Requests
      /\ \A q \in Requests \ {r} : save'[q] = save[q]
      /\ DOMAIN save'[r] = SaveFields /\ save'[r].fd = None /\ save'[r].phase = "failed"
  BY <1>1 DEF Apart, FilesHeld, SaveFields, Ended, Idle
<1>4. FilesHeld'
  BY <1>3 DEF Apart, FilesHeld, Writing
<1>5. DOMAIN content' = Inodes /\ (saved # None => content'[saved] = content[saved])
  BY <1>1, <1>2 DEF Apart
<1>6. \A q \in Requests : ~Writing(q)'
  BY <1>1, <1>3 DEF Apart, OneWriter, Writing
<1>7. OneWriter'
  BY <1>6 DEF OneWriter, Writing
<1>8. QED
  BY <1>1, <1>4, <1>5, <1>7 DEF Apart

\* The file is moved into place; whoever moves it has filled it.
LEMMA RenameInstalls ==
    ASSUME Apart, NEW r \in Requests, Rename(r)
    PROVE  Apart' /\ content'[saved'] = Whole(save[r].draft)
<1>1. /\ save[r].phase = "filled" /\ tmp' = None /\ saved' = tmp /\ tmp # None
      /\ save' = [save EXCEPT ![r] = Ended("saved")]
      /\ content' = [i \in Inodes |-> IF i \in {tmp} \cup Held(save') THEN content[i] ELSE Blank]
  BY DEF Rename, Tidy
<1>2. tmp \in Inodes /\ content[tmp] = Whole(save[r].draft)
  BY <1>1 DEF Apart, OneWriter
<1>3. /\ DOMAIN save' = Requests
      /\ \A q \in Requests \ {r} : save'[q] = save[q]
      /\ DOMAIN save'[r] = SaveFields /\ save'[r].fd = None /\ save'[r].phase = "saved"
  BY <1>1 DEF Apart, FilesHeld, SaveFields, Ended, Idle
<1>4. FilesHeld'
  BY <1>3 DEF Apart, FilesHeld, Writing
<1>5. \A q \in Requests : ~Writing(q)'
  BY <1>1, <1>3 DEF Apart, OneWriter, Writing
<1>6. OneWriter'
  BY <1>5 DEF OneWriter, Writing
<1>7. DOMAIN content' = Inodes /\ content'[saved'] = Whole(save[r].draft)
  BY <1>1, <1>2
<1>8. QED
  BY <1>1, <1>2, <1>4, <1>6, <1>7 DEF Apart, Whole

\* It is not, and removed.
LEMMA RenameFailsKeeps ==
    ASSUME Apart, NEW r \in Requests, RenameFails(r)
    PROVE  Apart'
<1>1. /\ save[r].phase = "filled" /\ tmp' = None /\ saved' = saved
      /\ save' = [save EXCEPT ![r] = Ended("failed")]
      /\ content' = [i \in Inodes |-> IF i \in {saved} \cup Held(save') THEN content[i] ELSE Blank]
  BY DEF RenameFails, Tidy
<1>2. /\ DOMAIN save' = Requests
      /\ \A q \in Requests \ {r} : save'[q] = save[q]
      /\ DOMAIN save'[r] = SaveFields /\ save'[r].fd = None /\ save'[r].phase = "failed"
  BY <1>1 DEF Apart, FilesHeld, SaveFields, Ended, Idle
<1>3. FilesHeld'
  BY <1>2 DEF Apart, FilesHeld, Writing
<1>4. \A q \in Requests : ~Writing(q)'
  BY <1>1, <1>2 DEF Apart, OneWriter, Writing
<1>5. OneWriter'
  BY <1>4 DEF OneWriter, Writing
<1>6. DOMAIN content' = Inodes /\ (saved # None => content'[saved] = content[saved])
  BY <1>1 DEF Apart
<1>7. QED
  BY <1>1, <1>3, <1>5, <1>6 DEF Apart

\* The machine stops: what is at the two paths stays.
LEMMA StopKeeps ==
    ASSUME Apart, ViewsCrash
    PROVE  Apart'
<1>1. /\ tmp' = tmp /\ saved' = saved
      /\ save' = [r \in Requests |-> IF Saving(r) THEN Ended("failed") ELSE save[r]]
      /\ content' = [i \in Inodes |-> IF i \in {saved, tmp} THEN content[i] ELSE Blank]
  BY DEF ViewsCrash, Tidy
<1>2. \A r \in Requests :
          /\ DOMAIN save'[r] = SaveFields /\ save'[r].fd = None
          /\ save'[r].phase \in Answers
  BY <1>1 DEF Apart, FilesHeld, Writing, Saving, Answers, SaveFields, Ended, Idle
<1>3. FilesHeld'
  BY <1>1, <1>2 DEF FilesHeld, Writing, Answers
<1>4. \A q \in Requests : ~Writing(q)'
  BY <1>2 DEF Writing, Answers
<1>5. OneWriter'
  BY <1>4 DEF OneWriter, Writing
<1>6. DOMAIN content' = Inodes /\ (saved # None => content'[saved] = content[saved])
  BY <1>1 DEF Apart
<1>7. QED
  BY <1>1, <1>3, <1>5, <1>6 DEF Apart

LEMMA ViewsStepKeeps == ViewsInv /\ ViewsMove => ViewsInv'
<1> SUFFICES ASSUME ViewsInv, ViewsMove, ~shared'
             PROVE  Apart'
  BY DEF ViewsInv
<1>1. ASSUME NEW r \in Requests, Submitted(r) \/ Answered(r)
      PROVE  Apart'
  BY <1>1, DraftKeeps DEF ViewsInv, Submitted, Answered, Files
<1>2. ASSUME NEW r \in Requests, WriteStep(r)
      PROVE  Apart'
  <2>1. ~shared
    BY <1>2 DEF WriteStep, RemoveTmp, OpenTmp, FillTmp, FillFails, Rename, RenameFails
  <2>2. QED
    BY <1>2, <2>1, RemoveKeeps, OpenKeeps, FillKeeps, FailKeeps, RenameInstalls,
       RenameFailsKeeps DEF ViewsInv, WriteStep
<1>3. CASE ViewsCrash
  BY <1>3, StopKeeps DEF ViewsInv, ViewsCrash
<1>4. CASE UNCHANGED <<Files, save>>
  <2>1. Apart
    BY <1>4 DEF ViewsInv, Files
  <2>2. QED
    BY <1>4, <2>1 DEF Apart, FilesHeld, OneWriter, Writing, Files
<1>5. QED
  BY <1>1, <1>2, <1>3, <1>4 DEF ViewsMove

LEMMA ViewsStart == SiteInit => ViewsInv
<1> SUFFICES ASSUME ViewsInit
             PROVE  Apart
  BY DEF SiteInit, ViewsInv
<1>1. PICK v : content = [i \in Inodes |-> IF i = saved THEN Whole(v) ELSE Blank]
  BY DEF ViewsInit
<1>2. /\ saved \in {None, CHOOSE i \in Inodes : TRUE} /\ tmp = None
      /\ save = [r \in Requests |-> Idle]
  BY DEF ViewsInit
<1>3. saved \in Inodes \cup {None}
  <2>1. \E i \in Inodes : TRUE
    BY FreshInode
  <2>2. QED
    BY <1>2, <2>1
<1>4. \A r \in Requests : save[r] = Idle /\ ~Writing(r)
  BY <1>2 DEF Idle, Writing
<1>5. FilesHeld
  BY <1>2, <1>4 DEF FilesHeld, Idle, SaveFields
<1>6. OneWriter
  BY <1>4 DEF OneWriter, Writing
<1>7. QED
  BY <1>1, <1>2, <1>3, <1>5, <1>6 DEF Apart, Whole

-----------------------------------------------------------------------------
\* ViewsInv holds in every state of the site.
THEOREM ViewsHold == SiteSpec => []ViewsInv
<1>1. ViewsInv /\ [SiteNext]_siteVars => ViewsInv'
  BY MovesOfViews, ViewsStepKeeps
<1>2. QED
  BY <1>1, ViewsStart, PTL DEF SiteSpec

\* A reader finds the saved view whole at every moment, whatever fails and
\* whenever the server stops, until a save meets the temporary file of another
\* (ViewSpec::write_to).
THEOREM NotTorn == SiteSpec => []TornOnlyWhenShared
<1>1. ViewsInv => TornOnlyWhenShared
  BY DEF ViewsInv, Apart, TornOnlyWhenShared
<1>2. QED
  BY <1>1, ViewsHold, PTL

\* A save that succeeds has installed the view it built, with the same
\* exception (ViewSpec::write_to, save_layout_default).
THEOREM SavesInstall == SiteSpec => SavesItsOwn
<1> DEFINE Installs ==
        \A r \in Requests :
            save[r].phase = "filled" /\ save'[r].phase = "saved" /\ ~shared
                => content'[saved'] = Whole(save[r].draft)
<1>1. ViewsInv /\ ViewsMove => Installs
  <2> SUFFICES ASSUME ViewsInv, ViewsMove, NEW r \in Requests, ~shared,
                      save[r].phase = "filled", save'[r].phase = "saved"
               PROVE  content'[saved'] = Whole(save[r].draft)
    OBVIOUS
  <2>1. DOMAIN save = Requests /\ DOMAIN save[r] = SaveFields
    BY DEF ViewsInv, Apart, FilesHeld
  <2>2. ASSUME NEW s \in Requests, Submitted(s) \/ Answered(s)
        PROVE  FALSE
    BY <2>1, <2>2 DEF Submitted, Answered, Saving, Answers
  <2>3. ASSUME NEW s \in Requests, WriteStep(s)
        PROVE  Rename(s) /\ s = r
    BY <2>1, <2>3 DEF WriteStep, RemoveTmp, OpenTmp, FillTmp, FillFails, Rename, RenameFails,
                      Ended, Idle
  <2>4. ~ViewsCrash
    BY <2>1 DEF ViewsCrash, Saving, Answers, Ended, Idle
  <2>5. save' # save
    OBVIOUS
  <2>6. QED
    BY <2>2, <2>3, <2>4, <2>5, RenameInstalls DEF ViewsMove, ViewsInv
<1>2. ViewsInv /\ [SiteNext]_siteVars => [Installs]_viewVars
  BY <1>1, MovesOfViews
<1>3. QED
  BY <1>2, ViewsHold, PTL DEF SiteSpec, SavesItsOwn

-----------------------------------------------------------------------------
\* Proofs about what the saved view says, as a part of AdminSite: no form,
\* save, fault, stop or list loses a field, makes a view that is refused, or
\* shows a field that is hidden by its shape and that nobody has shown.
\*
\* The lemmas about forms are those of ViewsProofs.  The invariant carries them
\* along the file: whatever an inode or a request holds is a view of the whole
\* model, and puts no secret on the page but what someone did.

Known(v, disclosed) == Complete(v) /\ Put(v) \cap Secrets \subseteq disclosed

\* The inductive invariant.
EditsInv ==
    /\ incoming \in DOMAIN Visits
    /\ saved \in Inodes \cup {None} /\ tmp \in Inodes \cup {None}
    /\ DOMAIN content = Inodes
    /\ \A i \in Inodes : Known(content[i].view, exposed)
    /\ DOMAIN save = Requests
    /\ \A r \in Requests :
        /\ DOMAIN save[r] = SaveFields
        /\ Known(save[r].draft, exposed) /\ save[r].phase # "invalid"
    /\ DOMAIN page = Requests
    /\ \A r \in Requests : page[r] \subseteq Sources /\ page[r] \cap Secrets \subseteq exposed

\* The steps of the site, as a view sees them.
EditsMove ==
    /\ incoming' = incoming
    /\ \/ \E r \in Requests : \E layout : SubmitLayout(r, layout)
       \/ \E r \in Requests, q \in Visits[incoming].requests : SubmitView(r, q.form)
       \/ \E r \in Requests : \E layout : ShowList(r, layout)
       \/ \E r \in Requests : \E layout, keep : RunView(r, layout, keep)
       \/ \E r \in Requests : WriteStep(r)
       \/ ViewsCrash
       \/ UNCHANGED viewVars

\* Every step of the site is one of these.
LEMMA MovesOfEdits == [SiteNext]_siteVars => EditsMove
<1> SUFFICES ASSUME [SiteNext]_siteVars
             PROVE  EditsMove
  OBVIOUS
<1>1. CASE UNCHANGED siteVars
  BY <1>1 DEF siteVars, EditsMove
<1>2. ASSUME NEW r \in Requests, NEW q \in Visits[incoming].requests, Arrive(r, q)
      PROVE  EditsMove
  <2>1. incoming' = incoming
    BY <1>2 DEF Arrive
  <2>2. \/ UNCHANGED viewVars
        \/ \E handler \in ViewHandlers : ViewHandler(r, handler, q)
        \/ ListHandler(r, q)
    BY <1>2 DEF Arrive, Elsewhere
  <2>3. CASE \E handler \in ViewHandlers : ViewHandler(r, handler, q)
    BY <2>1, <2>3 DEF ViewHandler, EditsMove
  <2>4. CASE ListHandler(r, q)
    <3>1. (\E layout : ShowList(r, layout)) \/ UNCHANGED viewVars
      BY <2>4 DEF ListHandler
    <3>2. QED
      BY <2>1, <3>1 DEF EditsMove
  <2>5. QED
    BY <2>1, <2>2, <2>3, <2>4 DEF EditsMove
<1>3. ASSUME NEW r \in Requests, Proceed(r)
      PROVE  EditsMove
  BY <1>3 DEF Proceed, EditsMove
<1>4. CASE Visits[incoming].deletes /\ (\E t \in AllTargets : TargetGone(t))
             /\ UNCHANGED <<recordVars, viewVars, listVars, incoming, sent, visit>>
  BY <1>4 DEF EditsMove
<1>5. CASE Crash
  BY <1>5 DEF Crash, EditsMove
<1>6. ASSUME NEW r \in Requests, Terminal(r)
      PROVE  EditsMove
  BY <1>6 DEF Terminal, EditsMove
<1>7. QED
  BY <1>1, <1>2, <1>3, <1>4, <1>5, <1>6 DEF SiteNext

LEMMA DerivedKnown ==
    ASSUME NEW disclosed
    PROVE  Known(Derived, disclosed) /\ Valid(Derived)
BY DerivedIs DEF Known

\* What a reader of the file sees is known and valid, and has a layout.
LEMMA ResolvedIs ==
    ASSUME EditsInv
    PROVE  /\ Known(Resolved, exposed) /\ Valid(Resolved)
           /\ \A query : EffectiveLayout(query, SavedView) \in Layouts
<1>1. CASE Readable
  <2>1. saved \in Inodes /\ Resolved = content[saved].view /\ Valid(content[saved].view)
    BY <1>1 DEF EditsInv, Readable, Resolved
  <2>2. Known(content[saved].view, exposed)
    BY <2>1 DEF EditsInv
  <2>3. SavedView[1].layout \in Layouts /\ SavedView # <<>>
    BY <1>1, <2>2 DEF SavedView, Known, Complete
  <2>4. QED
    BY <2>1, <2>2, <2>3 DEF EffectiveLayout
<1>2. CASE ~Readable
  <2>1. Resolved = Derived /\ SavedView = <<>>
    BY <1>2 DEF Resolved, SavedView
  <2>2. QED
    BY <2>1, DerivedKnown DEF EffectiveLayout, Layouts
<1>3. QED
  BY <1>1, <1>2

\* A list that is shown.
LEMMA ShownKnown ==
    ASSUME NEW v, NEW disclosed, Known(v, disclosed), NEW layout \in Layouts
    PROVE  /\ Shown(v, layout) \subseteq Sources
           /\ Shown(v, layout) \cap Secrets \subseteq disclosed
BY ShownIs DEF Known

\* A request builds a view, or is answered without one.
LEMMA BuiltKeeps ==
    ASSUME EditsInv, incoming' = incoming, UNCHANGED <<saved, tmp, content>>,
           exposed \subseteq exposed', NEW r \in Requests,
           \/ \E v : Draft(r, v) /\ Known(v, exposed') /\ Valid(v)
           \/ \E answer \in Answers \ {"invalid"} : save' = [save EXCEPT ![r] = Ended(answer)],
           DOMAIN page' = Requests,
           \A s \in Requests : page'[s] \subseteq Sources /\ page'[s] \cap Secrets \subseteq exposed'
    PROVE  EditsInv'
<1>1. \A v : Known(v, exposed) => Known(v, exposed')
  BY DEF Known
<1>2. PICK s : /\ save' = [save EXCEPT ![r] = s]
               /\ DOMAIN s = SaveFields /\ Known(s.draft, exposed') /\ s.phase # "invalid"
  <2>1. CASE \E v : Draft(r, v) /\ Known(v, exposed') /\ Valid(v)
    <3>1. PICK v : Draft(r, v) /\ Known(v, exposed') /\ Valid(v)
      BY <2>1
    <3>2. save' = [save EXCEPT ![r] = [phase |-> "drafted", draft |-> v, fd |-> None]]
      BY <3>1 DEF Draft
    <3> DEFINE drafted == [phase |-> "drafted", draft |-> v, fd |-> None]
    <3>3. DOMAIN drafted = SaveFields /\ drafted.draft = v /\ drafted.phase # "invalid"
      BY DEF SaveFields
    <3> HIDE DEF drafted
    <3>4. QED
      BY <3>1, <3>2, <3>3 DEF drafted
  <2>2. CASE \E answer \in Answers \ {"invalid"} : save' = [save EXCEPT ![r] = Ended(answer)]
    <3>1. PICK answer \in Answers \ {"invalid"} : save' = [save EXCEPT ![r] = Ended(answer)]
      BY <2>2
    <3>2. /\ DOMAIN Ended(answer) = SaveFields /\ Ended(answer).draft = Derived
          /\ Ended(answer).phase = answer
      BY DEF Ended, Idle, SaveFields
    <3>3. QED
      BY <3>1, <3>2, DerivedKnown
  <2>3. QED
    BY <2>1, <2>2
<1>3. /\ DOMAIN save' = Requests
      /\ \A q \in Requests : save'[q] = IF q = r THEN s ELSE save[q]
  BY <1>2 DEF EditsInv
<1>4. \A q \in Requests : /\ DOMAIN save'[q] = SaveFields
                          /\ Known(save'[q].draft, exposed') /\ save'[q].phase # "invalid"
  BY <1>1, <1>2, <1>3 DEF EditsInv
<1>5. QED
  BY <1>1, <1>3, <1>4 DEF EditsInv

\* Who submits an edit, gives a layout, asks for a list, or runs `rustio view`.
LEMMA AskingKeeps ==
    ASSUME EditsInv, incoming' = incoming, NEW r \in Requests,
           \/ \E layout : SubmitLayout(r, layout)
           \/ \E q \in Visits[incoming].requests : SubmitView(r, q.form)
           \/ \E layout : ShowList(r, layout)
           \/ \E layout, keep : RunView(r, layout, keep)
    PROVE  EditsInv'
<1>0. /\ Known(Resolved, exposed) /\ Valid(Resolved)
      /\ \A query : EffectiveLayout(query, SavedView) \in Layouts
  BY ResolvedIs
<1>1. ASSUME NEW layout, SubmitLayout(r, layout)
      PROVE  EditsInv'
  <2> DEFINE v == [Resolved EXCEPT !.layout = layout]
  <2>1. layout \in Layouts => Known(v, exposed) /\ Valid(v)
    <3> SUFFICES ASSUME layout \in Layouts PROVE Known(v, exposed) /\ Valid(v)
      OBVIOUS
    <3>1. DOMAIN Resolved = {"layout", "fields", "filters", "language", "labels", "values"}
      BY <1>0 DEF Known, Complete
    <3>2. /\ DOMAIN v = DOMAIN Resolved /\ v.layout = layout /\ v.fields = Resolved.fields
          /\ v.filters = Resolved.filters /\ v.labels = Resolved.labels
          /\ v.values = Resolved.values
      BY <3>1
    <3> HIDE DEF v
    <3>3. FieldSpecs(v) = FieldSpecs(Resolved) /\ Put(v) = Put(Resolved)
      BY <3>2 DEF FieldSpecs, Put
    <3>4. Complete(v)
      BY <1>0, <3>2, <3>3 DEF Known, Complete, Covers
    <3>5. Valid(v)
      BY <1>0, <3>2, <3>3 DEF Valid, SourcesOf
    <3>6. QED
      BY <1>0, <3>3, <3>4, <3>5 DEF Known
  <2>2. \/ layout \in Layouts /\ Draft(r, v)
        \/ save' = [save EXCEPT ![r] = Ended("refused")]
    BY <1>1 DEF SubmitLayout
  <2>3. UNCHANGED <<saved, tmp, content, page, exposed>>
    BY <1>1 DEF SubmitLayout
  <2>4. "refused" \in Answers \ {"invalid"}
    BY DEF Answers
  <2> HIDE DEF v
  <2>5. /\ DOMAIN page' = Requests /\ exposed' = exposed
        /\ \A s \in Requests : page'[s] \subseteq Sources /\ page'[s] \cap Secrets \subseteq exposed'
    BY <2>3 DEF EditsInv
  <2>6. \/ \E w : Draft(r, w) /\ Known(w, exposed') /\ Valid(w)
        \/ \E answer \in Answers \ {"invalid"} : save' = [save EXCEPT ![r] = Ended(answer)]
    BY <2>1, <2>2, <2>4, <2>5
  <2>7. QED
    BY <2>3, <2>5, <2>6, BuiltKeeps
<1>2. ASSUME NEW q \in Visits[incoming].requests, SubmitView(r, q.form)
      PROVE  EditsInv'
  <2> DEFINE v == Edited(Resolved, q.form)
  <2>1. EditForm(q.form)
    BY VisitsAssumption DEF EditsInv
  <2>2. UNCHANGED <<saved, tmp, content, page>> /\ exposed \subseteq exposed'
    BY <1>2 DEF SubmitView
  <2>3. \/ \E w : Draft(r, w) /\ Known(w, exposed') /\ Valid(w)
        \/ \E answer \in Answers \ {"invalid"} : save' = [save EXCEPT ![r] = Ended(answer)]
    <3>1. CASE Rejected(Resolved, q.form)
      BY <1>2, <3>1 DEF SubmitView, Answers
    <3>2. CASE ~Rejected(Resolved, q.form)
      <4>1. Complete(v) /\ Valid(v) /\ Put(v) \subseteq Put(Resolved) \cup Revealed(q.form)
        BY <1>0, <2>1, <3>2, EditedIs DEF Known
      <4>2. Draft(r, v) /\ exposed' = exposed \cup Revealed(q.form)
        BY <1>2, <3>2 DEF SubmitView, Revealed
      <4> HIDE DEF v
      <4>3. Known(v, exposed')
        BY <1>0, <4>1, <4>2 DEF Known
      <4>4. QED
        BY <4>1, <4>2, <4>3
    <3>3. QED
      BY <3>1, <3>2
  <2>4. /\ DOMAIN page' = Requests
        /\ \A s \in Requests : page'[s] \subseteq Sources /\ page'[s] \cap Secrets \subseteq exposed'
    BY <2>2 DEF EditsInv
  <2> HIDE DEF v
  <2>5. QED
    BY <2>2, <2>3, <2>4, BuiltKeeps
<1>3. ASSUME NEW layout, ShowList(r, layout)
      PROVE  EditsInv'
  <2> DEFINE cells == Shown(Resolved, EffectiveLayout(layout, SavedView))
  <2>1. cells \subseteq Sources /\ cells \cap Secrets \subseteq exposed
    BY <1>0, ShownKnown
  <2> HIDE DEF cells
  <2>2. /\ page' = [page EXCEPT ![r] = cells]
        /\ UNCHANGED <<saved, tmp, content, save, exposed>>
    BY <1>3 DEF ShowList, cells
  <2>3. QED
    BY <2>1, <2>2 DEF EditsInv
<1>4. ASSUME NEW layout, NEW keep, RunView(r, layout, keep)
      PROVE  EditsInv'
  <2> DEFINE view == IF keep THEN Derived ELSE Resolved
             cells == Shown(view, IF layout \in Layouts THEN layout ELSE view.layout)
  <2>1. Known(view, exposed)
    BY <1>0, DerivedKnown
  <2>2. cells \subseteq Sources /\ cells \cap Secrets \subseteq exposed
    <3>1. view.layout \in Layouts
      BY <2>1 DEF Known, Complete
    <3> HIDE DEF view
    <3>2. QED
      BY <2>1, <3>1, ShownKnown
  <2>3. page' = [page EXCEPT ![r] = {}] \/ page' = [page EXCEPT ![r] = cells]
    BY <1>4 DEF RunView
  <2>4. UNCHANGED <<saved, tmp, content, exposed>>
    BY <1>4 DEF RunView
  <2>5. \/ \E w : Draft(r, w) /\ Known(w, exposed') /\ Valid(w)
        \/ \E answer \in Answers \ {"invalid"} : save' = [save EXCEPT ![r] = Ended(answer)]
    <3>1. \/ Draft(r, Derived)
          \/ \E answer \in {"refused", "idle"} : save' = [save EXCEPT ![r] = Ended(answer)]
      BY <1>4 DEF RunView
    <3>2. {"refused", "idle"} \subseteq Answers \ {"invalid"}
      BY DEF Answers
    <3>3. QED
      BY <3>1, <3>2, DerivedKnown
  <2> HIDE DEF view, cells
  <2>6. /\ DOMAIN page' = Requests
        /\ \A s \in Requests : page'[s] \subseteq Sources /\ page'[s] \cap Secrets \subseteq exposed'
    BY <2>2, <2>3, <2>4 DEF EditsInv
  <2>7. QED
    BY <2>4, <2>5, <2>6, BuiltKeeps
<1>5. QED
  BY <1>1, <1>2, <1>3, <1>4

\* There is an inode that neither a path nor a writer names.
LEMMA UnnamedInode ==
    ASSUME NEW i
    PROVE  \E j \in Inodes : j \notin {i} \cup Held(save)
<1> DEFINE named == Held(save)
           G == [r \in Requests |-> save[r].fd]
<1>1. Cardinality(Requests) \in Nat /\ Cardinality(Inodes) \in Nat
  BY InodesAssumption, FS_CardinalityType
<1>2. G \in Surjection(Requests, named)
  <2>1. G \in [Requests -> named] /\ \A k \in named : \E r \in Requests : G[r] = k
    BY DEF Held
  <2>2. QED
    BY <2>1 DEF Surjection
<1> HIDE DEF named, G
<1>3. IsFiniteSet(named) /\ Cardinality(named) <= Cardinality(Requests)
  BY <1>2, InodesAssumption, FS_Surjection
<1>4. /\ IsFiniteSet(named \cup {i}) /\ Cardinality(named) \in Nat
      /\ Cardinality(named \cup {i}) \in {Cardinality(named), Cardinality(named) + 1}
  BY <1>3, FS_AddElement, FS_CardinalityType
<1>5. Inodes \subseteq named \cup {i} => Cardinality(Inodes) <= Cardinality(named \cup {i})
  BY <1>4, FS_Subset
<1>6. ~(Inodes \subseteq named \cup {i})
  BY <1>1, <1>3, <1>4, <1>5, InodesAssumption
<1>7. QED
  BY <1>6 DEF named

\* A step of a save, or a stop: what an inode holds was there, or is a draft, or is
\* nothing that anybody reads.
LEMMA WritingKeeps ==
    ASSUME EditsInv, incoming' = incoming, (\E r \in Requests : WriteStep(r)) \/ ViewsCrash
    PROVE  EditsInv'
<1> DEFINE FilesKnown == /\ DOMAIN content' = Inodes
                         /\ \A i \in Inodes : Known(content'[i].view, exposed)
           PathsThere == saved' \in Inodes \cup {None} /\ tmp' \in Inodes \cup {None}
           SaveKnown(s) == /\ DOMAIN s = SaveFields
                           /\ Known(s.draft, exposed) /\ s.phase # "invalid"
           SavesKnown == DOMAIN save' = Requests /\ \A q \in Requests : SaveKnown(save'[q])
<1>1. UNCHANGED <<page, exposed>>
  BY DEF WriteStep, RemoveTmp, OpenTmp, FillTmp, FillFails, Rename, RenameFails, ViewsCrash
<1>2. ASSUME NEW named, content' = Tidy(content, named)
      PROVE  FilesKnown
  <2>1. \A i \in Inodes : content'[i] = content[i] \/ content'[i] = Blank
    BY <1>2 DEF Tidy
  <2>2. Known(Blank.view, exposed)
    BY DerivedKnown DEF Blank
  <2>3. QED
    BY <1>2, <2>1, <2>2 DEF Tidy, EditsInv
<1>3. ASSUME NEW fd, NEW c, content' = [content EXCEPT ![fd] = c], Known(c.view, exposed)
      PROVE  FilesKnown
  <2>1. \A i \in Inodes : content'[i] = content[i] \/ content'[i] = c
    BY <1>3 DEF EditsInv
  <2>2. QED
    BY <1>3, <2>1 DEF EditsInv
<1>4. ASSUME NEW r \in Requests, DOMAIN save' = Requests,
             \A q \in Requests \ {r} : save'[q] = save[q],
             DOMAIN save'[r] = SaveFields, save'[r].phase # "invalid",
             save'[r].draft \in {save[r].draft, Derived}
      PROVE  SavesKnown
  <2>1. Known(save[r].draft, exposed) /\ Known(Derived, exposed)
    BY DerivedKnown DEF EditsInv
  <2>2. Known(save'[r].draft, exposed)
    BY <1>4, <2>1
  <2>3. \A q \in Requests \ {r} : SaveKnown(save'[q])
    BY <1>4 DEF EditsInv
  <2>4. QED
    BY <1>4, <2>2, <2>3
<1>5. ASSUME NEW r \in Requests, NEW answer, answer # "invalid",
             save' = [save EXCEPT ![r] = Ended(answer)]
      PROVE  SavesKnown
  <2>1. DOMAIN Ended(answer) = SaveFields /\ Ended(answer).draft = Derived
        /\ Ended(answer).phase = answer
    BY DEF Ended, Idle, SaveFields
  <2>2. /\ DOMAIN save' = Requests /\ save'[r] = Ended(answer)
        /\ \A q \in Requests \ {r} : save'[q] = save[q]
    BY <1>5 DEF EditsInv
  <2>3. QED
    BY <1>4, <1>5, <2>1, <2>2
<1>6. ASSUME NEW named, content' = Tidy(content, named),
             saved' \in {saved, tmp}, tmp' \in {tmp, None}
      PROVE  FilesKnown /\ PathsThere
  BY <1>2, <1>6 DEF EditsInv
<1> HIDE DEF SaveKnown, SavesKnown, FilesKnown
<1>7. ASSUME NEW r \in Requests, WriteStep(r)
      PROVE  FilesKnown /\ PathsThere /\ SavesKnown
  <2>0. DOMAIN save = Requests /\ DOMAIN save[r] = SaveFields
    BY DEF EditsInv
  <2>1. CASE RemoveTmp(r)
    <3>1. content' = Tidy(content, {saved} \cup Held(save)) /\ saved' = saved /\ tmp' = None
      BY <2>1 DEF RemoveTmp
    <3>2. /\ DOMAIN save' = Requests /\ \A q \in Requests \ {r} : save'[q] = save[q]
          /\ DOMAIN save'[r] = SaveFields /\ save'[r].phase = "cleared"
          /\ save'[r].draft = save[r].draft
      BY <2>0, <2>1 DEF RemoveTmp, SaveFields
    <3>3. SavesKnown
      BY <3>2, <1>4
    <3>4. QED
      BY <3>1, <3>3, <1>6
  <2>2. CASE OpenTmp(r)
    <3> DEFINE i == IF tmp = None THEN CHOOSE j \in Inodes : j \notin {saved} \cup Held(save)
                    ELSE tmp
    <3>1. i \in Inodes
      BY UnnamedInode DEF EditsInv
    <3>2. /\ tmp' = i /\ saved' = saved /\ content' = [content EXCEPT ![i] = Blank]
          /\ save' = [save EXCEPT ![r].phase = "opened", ![r].fd = i]
      BY <2>2 DEF OpenTmp
    <3> HIDE DEF i
    <3>3. /\ DOMAIN save' = Requests /\ \A q \in Requests \ {r} : save'[q] = save[q]
          /\ DOMAIN save'[r] = SaveFields /\ save'[r].phase = "opened"
          /\ save'[r].draft = save[r].draft
      BY <2>0, <3>2 DEF SaveFields
    <3>4. Known(Blank.view, exposed)
      BY DerivedKnown DEF Blank
    <3>5. FilesKnown
      BY <3>2, <3>4, <1>3
    <3>6. SavesKnown
      BY <3>3, <1>4
    <3>7. PathsThere
      BY <3>1, <3>2 DEF EditsInv
    <3>8. QED
      BY <3>5, <3>6, <3>7
  <2>3. CASE FillTmp(r)
    <3>1. PICK c \in {Whole(save[r].draft), Partial} :
              content' = [content EXCEPT ![save[r].fd] = c]
      BY <2>3 DEF FillTmp
    <3>2. Known(c.view, exposed)
      BY DerivedKnown DEF Whole, Partial, EditsInv
    <3>3. saved' = saved /\ tmp' = tmp /\ save' = [save EXCEPT ![r].phase = "filled"]
      BY <2>3 DEF FillTmp
    <3>4. /\ DOMAIN save' = Requests /\ \A q \in Requests \ {r} : save'[q] = save[q]
          /\ DOMAIN save'[r] = SaveFields /\ save'[r].phase = "filled"
          /\ save'[r].draft = save[r].draft
      BY <2>0, <3>3 DEF SaveFields
    <3>5. FilesKnown
      BY <3>1, <3>2, <1>3
    <3>6. SavesKnown
      BY <3>4, <1>4
    <3>7. PathsThere
      BY <3>3 DEF EditsInv
    <3>8. QED
      BY <3>5, <3>6, <3>7
  <2>4. CASE FillFails(r)
    <3>1. /\ content' = [content EXCEPT ![save[r].fd] = Partial]
          /\ saved' = saved /\ tmp' = tmp /\ save' = [save EXCEPT ![r] = Ended("failed")]
      BY <2>4 DEF FillFails
    <3>2. Known(Partial.view, exposed)
      BY DerivedKnown DEF Partial
    <3>3. FilesKnown
      BY <3>1, <3>2, <1>3
    <3>4. SavesKnown
      BY <3>1, <1>5
    <3>5. PathsThere
      BY <3>1 DEF EditsInv
    <3>6. QED
      BY <3>3, <3>4, <3>5
  <2>5. CASE Rename(r)
    <3>1. /\ content' = Tidy(content, {tmp} \cup Held(save'))
          /\ saved' = tmp /\ tmp' = None /\ save' = [save EXCEPT ![r] = Ended("saved")]
      BY <2>5 DEF Rename
    <3>2. SavesKnown
      BY <3>1, <1>5
    <3>3. QED
      BY <3>1, <3>2, <1>6
  <2>6. CASE RenameFails(r)
    <3>1. /\ content' = Tidy(content, {saved} \cup Held(save'))
          /\ saved' = saved /\ tmp' = None /\ save' = [save EXCEPT ![r] = Ended("failed")]
      BY <2>6 DEF RenameFails
    <3>2. SavesKnown
      BY <3>1, <1>5
    <3>3. QED
      BY <3>1, <3>2, <1>6
  <2>7. QED
    BY <1>7, <2>1, <2>2, <2>3, <2>4, <2>5, <2>6 DEF WriteStep
<1>8. ASSUME ViewsCrash
      PROVE  FilesKnown /\ PathsThere /\ SavesKnown
  <2>1. /\ save' = [r \in Requests |-> IF Saving(r) THEN Ended("failed") ELSE save[r]]
        /\ content' = Tidy(content, {saved, tmp}) /\ saved' = saved /\ tmp' = tmp
    BY <1>8 DEF ViewsCrash
  <2>2. DOMAIN save' = Requests
        /\ \A r \in Requests : save'[r] = Ended("failed") \/ save'[r] = save[r]
    BY <2>1
  <2>3. /\ DOMAIN Ended("failed") = SaveFields /\ Known(Ended("failed").draft, exposed)
        /\ Ended("failed").phase = "failed"
    BY DerivedKnown DEF Ended, Idle, SaveFields
  <2>4. SavesKnown
    BY <2>2, <2>3 DEF SavesKnown, SaveKnown, EditsInv
  <2>5. QED
    BY <2>1, <2>4, <1>6
<1>9. FilesKnown /\ PathsThere /\ SavesKnown
  BY <1>7, <1>8
<1>10. QED
  BY <1>1, <1>9 DEF EditsInv, FilesKnown, SavesKnown, SaveKnown

LEMMA EditsStepKeeps == EditsInv /\ EditsMove => EditsInv'
<1> SUFFICES ASSUME EditsInv, EditsMove
             PROVE  EditsInv'
  OBVIOUS
<1>1. CASE UNCHANGED viewVars
  BY <1>1 DEF EditsMove, EditsInv, viewVars
<1>2. QED
  BY <1>1, AskingKeeps, WritingKeeps DEF EditsMove

\* At the start there is no file, or one that a developer wrote.
LEMMA EditsStart == SiteInit => EditsInv
<1> SUFFICES ASSUME ViewsInit, incoming \in DOMAIN Visits
             PROVE  EditsInv
  BY DEF SiteInit
<1>1. PICK v \in IF saved = None THEN {Derived} ELSE HandWritten \cup {Derived} :
          /\ content = [i \in Inodes |-> IF i = saved THEN Whole(v) ELSE Blank]
          /\ exposed = IF saved = None THEN {} ELSE Put(v)
  BY DEF ViewsInit
<1>2. /\ saved \in {None, CHOOSE i \in Inodes : TRUE} /\ tmp = None
      /\ save = [r \in Requests |-> Idle] /\ page = [r \in Requests |-> {}]
  BY DEF ViewsInit
<1>3. saved \in Inodes \cup {None}
  <2>1. \E i \in Inodes : TRUE
    BY FreshInode
  <2>2. QED
    BY <1>2, <2>1
<1>4. Known(v, exposed) \/ saved = None
  BY <1>1, HandWrittenAssumption, DerivedIs DEF Known
<1>5. \A i \in Inodes : Known(content[i].view, exposed)
  <2>1. saved \notin Inodes => \A i \in Inodes : content[i] = Blank
    BY <1>1
  <2>2. saved = None => saved \notin Inodes
    BY InodesAssumption
  <2>3. \A i \in Inodes : content[i] = Blank \/ (content[i] = Whole(v) /\ Known(v, exposed))
    BY <1>1, <1>4, <2>1, <2>2
  <2>4. QED
    BY <2>3, DerivedKnown DEF Blank, Whole
<1>6. \A r \in Requests : /\ DOMAIN save[r] = SaveFields
                          /\ Known(save[r].draft, exposed) /\ save[r].phase # "invalid"
  <2>1. DOMAIN Idle = SaveFields /\ Idle.draft = Derived /\ Idle.phase = "idle"
    BY DEF Idle, SaveFields
  <2>2. \A r \in Requests : save[r] = Idle
    BY <1>2
  <2>3. QED
    BY <2>1, <2>2, DerivedKnown
<1>7. QED
  BY <1>1, <1>2, <1>3, <1>5, <1>6 DEF EditsInv

-----------------------------------------------------------------------------
\* EditsInv holds in every state of the site.
THEOREM EditsHold == SiteSpec => []EditsInv
<1>1. EditsInv /\ [SiteNext]_siteVars => EditsInv'
  BY MovesOfEdits, EditsStepKeeps
<1>2. QED
  BY <1>1, EditsStart, PTL DEF SiteSpec

\* No form of the editor makes a view that write_to refuses, and no edit loses
\* or doubles a field, whatever was edited, merged, saved and lost before
\* (build_edited_spec, ViewSpec::validate).
THEOREM EditsMakeViews == SiteSpec => []EditsAreSound
<1>1. EditsInv => EditsAreSound
  BY DEF EditsInv, Known, Complete, EditsAreSound, EditsAreValid, FieldsKept, Readable
<1>2. QED
  BY <1>1, EditsHold, PTL

\* No list or printout shows a field whose shape keeps it out of a derived view,
\* unless someone gave it a visible role or had it merged (classify_view_field,
\* select_specs, build_edited_spec_with_merge).
THEOREM HiddenStays == SiteSpec => []HiddenNotShown
<1>1. EditsInv => HiddenNotShown
  BY DEF EditsInv, HiddenNotShown
<1>2. QED
  BY <1>1, EditsHold, PTL

-----------------------------------------------------------------------------
\* Proofs about Forms as a part of AdminSite, for any fields, options,
\* visits and number of browsers: what the forms write the project's code
\* can read, and an edit keeps what its author left alone.
\*
\* The invariant follows a value from the row through the page: a control
\* that was not touched holds what Control makes of the text that was
\* read, and no control holds a word the browser cannot send.

\* What a control of the older form or of a templated one can hold.
Fitting(n, text) ==
    /\ text \notin {"null", "error"}
    /\ Kind(n) = "bool" => text \in {"true", "false"}

\* A row whose cells the project's code can read, or that a templated form
\* has left a number or a time of without a value it can read.
Sound(row) ==
    \A n \in FieldNames :
        /\ Kind(n) = "bool" => row.cells[n] \in {"true", "false", "null"}
        /\ row.cells[n] # "error"
        /\ \/ Decodes(n, row.cells[n])
           \/ /\ row.via = "form"
              /\ Kind(n) \in {"i32", "datetime"}
              /\ row.cells[n] \in {EmptyText, "wide"}

\* A page that is drawn: its controls hold what a browser can send, those left
\* alone what Control makes of the row that was read.
PageFits(tab) ==
    /\ \A n \in FieldNames : Fitting(n, tab.control[n])
    /\ tab.page = "edit" => \A n \in FieldNames \ tab.touched :
          tab.control[n] = Control(n, RowText(tab.read[n]), tab.options)
    /\ tab.page = "legacy" /\ tab.phase = "insert" =>
          \A n \in FieldNames : FromForm(tab.control)[n] # "error"

RowRead(tab) ==
    \A n \in FieldNames :
        /\ tab.read[n] # "error"
        /\ Kind(n) = "bool" => tab.read[n] \in {"true", "false", "null"}

TabFields == {"page", "phase", "id", "read", "control", "options", "touched", "token"}

TabInv(tab) ==
    /\ DOMAIN tab = TabFields
    /\ tab.options \subseteq AllTargets
    /\ tab.phase \in {"prefill", "exists", "update"} => tab.page = "edit"
    /\ tab.phase = "insert" => tab.page \in {"new", "legacy"}
    /\ tab.page = "edit" /\ tab.phase \in {"options", "open", "exists", "update"} => RowRead(tab)
    /\ tab.phase \in {"open", "exists", "update", "insert"} => PageFits(tab)
    /\ tab.phase = "open" => tab.touched = {}

\* The inductive invariant: rows are sound, and so are the pages made of them.
FormsInv ==
    /\ \A i \in DOMAIN events : Sound(events[i])
    /\ targets \subseteq AllTargets
    /\ DOMAIN tabs = Requests
    /\ \A r \in Requests : TabInv(tabs[r])
    /\ \A r \in Requests :
          tabs[r].page = "edit" /\ tabs[r].phase \in
              {"prefill", "options", "open", "exists", "update"} => tabs[r].id \in DOMAIN events

-----------------------------------------------------------------------------
\* What the operators of Forms make of a value.

\* What a templated form sends of a control is what the control holds.
LEMMA MutationIsControl ==
    ASSUME NEW control, NEW n \in FieldNames, Fitting(n, control[n])
    PROVE  MutationData(control)[n] = control[n]
<1>1. MutationData(control)[n] = Get(Sent(n, control[n]))
  BY DEF MutationData
<1>2. CASE Kind(n) # "bool"
  BY <1>1, <1>2 DEF Get, Sent, Last
<1>3. CASE Kind(n) = "bool"
  BY <1>1, <1>3 DEF Get, Sent, Last, Fitting
<1>4. QED
  BY <1>2, <1>3

\* What a page shows of a row that was read, a browser can send.
LEMMA ControlFits ==
    ASSUME NEW tab, NEW n \in FieldNames, RowRead(tab), NEW options
    PROVE  Fitting(n, Control(n, RowText(tab.read[n]), options))
<1>1. RowText(tab.read[n]) \notin {"null", "error"}
  BY DEF RowRead, RowText, EmptyText
<1>2. Kind(n) \in InputKinds
  BY FormsAssumption
<1>3. QED
  BY <1>1, <1>2 DEF Control, Fitting, InputKinds, EmptyText

\* A row that a templated form writes is sound if the foreign key admits it.
LEMMA MutationSound ==
    ASSUME NEW control, targets \subseteq AllTargets, NEW row,
           \A n \in FieldNames : Fitting(n, control[n]),
           Admitted(MutationData(control)),
           row.cells = MutationData(control), row.via = "form"
    PROVE  Sound(row)
<1> SUFFICES ASSUME NEW n \in FieldNames
             PROVE  /\ Kind(n) = "bool" => row.cells[n] \in {"true", "false", "null"}
                    /\ row.cells[n] # "error"
                    /\ \/ Decodes(n, row.cells[n])
                       \/ /\ row.via = "form"
                          /\ Kind(n) \in {"i32", "datetime"}
                          /\ row.cells[n] \in {EmptyText, "wide"}
  BY DEF Sound
<1>1. row.cells[n] = control[n] /\ Fitting(n, control[n])
  BY MutationIsControl
<1>2. Kind(n) \in InputKinds
  BY FormsAssumption
<1>3. Kind(n) = "relation" => row.cells[n] \in AllTargets
  BY <1>1 DEF Admitted, Fitting
<1>4. QED
  BY <1>1, <1>2, <1>3 DEF Fitting, Decodes, InputKinds, EmptyText

\* A row that the older form writes can be read.
LEMMA ParsedSound ==
    ASSUME NEW control, targets \subseteq AllTargets, NEW row,
           \A n \in FieldNames : Fitting(n, control[n]),
           \A n \in FieldNames : FromForm(control)[n] # "error",
           Admitted(FromForm(control)),
           row.cells = FromForm(control)
    PROVE  Sound(row)
<1> SUFFICES ASSUME NEW n \in FieldNames
             PROVE  /\ Kind(n) = "bool" => row.cells[n] \in {"true", "false", "null"}
                    /\ row.cells[n] # "error"
                    /\ Decodes(n, row.cells[n])
  BY DEF Sound
<1> DEFINE v == Get(LegacySent(n, control[n]))
<1>1. row.cells[n] = Parse(n, v) /\ row.cells[n] # "error" /\ Fitting(n, control[n])
  BY DEF FromForm
<1>2. Kind(n) \in InputKinds
  BY FormsAssumption
<1>3. CASE Kind(n) = "bool"
  <2>1. v \in {"true", EmptyText}
    BY <1>3 DEF Get, LegacySent, Last
  <2>2. QED
    BY <1>1, <1>3, <2>1 DEF Parse, Decodes, EmptyText
<1>4. CASE Kind(n) # "bool"
  <2>1. v = control[n]
    BY <1>4 DEF Get, LegacySent, Last
  <2>2. CASE Kind(n) = "relation"
    <3>1. row.cells[n] \in AllTargets \cup {"null"}
      BY <2>2 DEF Admitted
    <3>2. row.cells[n] = "null" => Nullable(n)
      BY <1>1, <2>1, <2>2 DEF Parse, Fitting, EmptyText
    <3>3. QED
      BY <1>1, <2>2, <3>1, <3>2 DEF Decodes
  <2>3. CASE Kind(n) # "relation"
    BY <1>1, <1>2, <1>4, <2>1, <2>3 DEF Parse, Decodes, Fitting, EmptyText, InputKinds
  <2>4. QED
    BY <2>2, <2>3
<1>5. QED
  BY <1>3, <1>4

\* The options of a page are rows of the target.
LEMMA OptionsAreTargets ==
    /\ FirstOf(targets) \subseteq targets
    /\ LegacyOptions(targets) \subseteq targets
BY DEF FirstOf, LegacyOptions

\* A new row of the form, empty.
LEMMA EmptyFits == \A n \in FieldNames : Fitting(n, EmptyForm[n])
BY FormsAssumption DEF Fitting, EmptyForm, EmptyText

-----------------------------------------------------------------------------
\* The steps of the site, as Forms sees them.

\* A request that reaches a handler of the forms, a statement of one, the
\* deletion of a target, a stop of the server, or nothing.
FormsMove ==
    \/ \E r \in Requests, q \in Visits[incoming].requests, handler \in FormHandlers :
          FormHandler(r, handler, q)
    \/ \E r \in Requests : FormStep(r)
    \/ \E t \in AllTargets : TargetGone(t)
    \/ FormsCrash
    \/ UNCHANGED formVars

\* Every step of the site is one of these.
LEMMA MovesOfForms == [SiteNext]_siteVars => FormsMove
<1> SUFFICES ASSUME [SiteNext]_siteVars
             PROVE  FormsMove
  OBVIOUS
<1>1. CASE UNCHANGED siteVars
  BY <1>1 DEF siteVars, FormsMove
<1>2. ASSUME NEW r \in Requests, NEW q \in Visits[incoming].requests, Arrive(r, q)
      PROVE  FormsMove
  <2>1. UNCHANGED formVars \/ \E handler : FormHandler(r, handler, q)
    BY <1>2 DEF Arrive, Elsewhere
  <2>2. ASSUME NEW handler, FormHandler(r, handler, q)
        PROVE  handler \in FormHandlers
    BY <2>2 DEF FormHandler, FormHandlers
  <2>3. QED
    BY <2>1, <2>2 DEF FormsMove
<1>3. ASSUME NEW r \in Requests, Proceed(r)
      PROVE  FormsMove
  BY <1>3 DEF Proceed, FormsMove
<1>4. CASE Visits[incoming].deletes /\ (\E t \in AllTargets : TargetGone(t))
             /\ UNCHANGED <<recordVars, viewVars, listVars, incoming, sent, visit>>
  BY <1>4 DEF FormsMove
<1>5. CASE Crash
  BY <1>5 DEF Crash, FormsMove
<1>6. ASSUME NEW r \in Requests, Terminal(r)
      PROVE  FormsMove
  BY <1>6 DEF Terminal, FormsMove
<1>7. QED
  BY <1>1, <1>2, <1>3, <1>4, <1>5, <1>6 DEF SiteNext

\* A turn of one tab keeps the invariant if the tab it leaves does.
LEMMA TurnKeeps ==
    ASSUME FormsInv, NEW r \in Requests, NEW tab, Turn(r, tab), TabInv(tab),
           tab.page = "edit" /\ tab.phase \in
              {"prefill", "options", "open", "exists", "update"} => tab.id \in DOMAIN events
    PROVE  FormsInv'
<1>1. /\ DOMAIN tabs' = Requests
      /\ tabs'[r] = tab
      /\ \A s \in Requests \ {r} : tabs'[s] = tabs[s]
      /\ events' = events /\ targets' = targets
  BY DEF Turn, FormsInv
<1>2. \A s \in Requests : tabs'[s] = tab \/ tabs'[s] = tabs[s]
  BY <1>1
<1>3. \A i \in DOMAIN events' : Sound(events'[i])
  BY <1>1 DEF FormsInv
<1>4. \A s \in Requests : TabInv(tabs'[s])
  BY <1>2 DEF FormsInv
<1>5. QED
  BY <1>1, <1>2, <1>3, <1>4 DEF FormsInv

\* A page that is opened.
LEMMA OpeningKeeps ==
    ASSUME FormsInv, NEW r \in Requests, NEW id,
           OpenEdit(r, id) \/ OpenNew(r) \/ OpenLegacy(r)
    PROVE  FormsInv'
<1>1. CASE OpenEdit(r, id)
  <2> DEFINE tab == [NoTab EXCEPT !.page = "edit", !.id = id,
                       !.phase = IF id \in DOMAIN events THEN "prefill" ELSE "missing"]
  <2>1. TabInv(tab)
    BY DEF TabInv, NoTab, TabFields
  <2>2. tab.page = "edit" /\ tab.id = id /\ (tab.phase # "missing" => id \in DOMAIN events)
    BY DEF NoTab
  <2>3. Turn(r, tab)
    BY <1>1 DEF OpenEdit
  <2> HIDE DEF tab
  <2>4. QED
    BY <2>1, <2>2, <2>3, TurnKeeps
<1>2. CASE OpenNew(r)
  <2> DEFINE tab == [NoTab EXCEPT !.page = "new", !.phase = "options"]
  <2>1. TabInv(tab) /\ tab.page = "new"
    BY DEF TabInv, NoTab, TabFields
  <2>2. Turn(r, tab)
    BY <1>2 DEF OpenNew
  <2> HIDE DEF tab
  <2>3. QED
    BY <2>1, <2>2, TurnKeeps
<1>3. CASE OpenLegacy(r)
  <2> DEFINE tab == [NoTab EXCEPT !.page = "legacy", !.phase = "options"]
  <2>1. TabInv(tab) /\ tab.page = "legacy"
    BY DEF TabInv, NoTab, TabFields
  <2>2. Turn(r, tab)
    BY <1>3 DEF OpenLegacy
  <2> HIDE DEF tab
  <2>3. QED
    BY <2>1, <2>2, TurnKeeps
<1>4. QED
  BY <1>1, <1>2, <1>3

\* A form that is submitted: what the user has set a control to is one of its
\* inputs, the rest stays.
LEMMA SubmitKeeps ==
    ASSUME FormsInv, NEW r \in Requests, NEW which \in {"edit", "new", "legacy"},
           NEW edits, NEW token, Submit(r, which, edits, token)
    PROVE  FormsInv'
<1> DEFINE old == tabs[r]
           phase == IF which = "edit" THEN "exists" ELSE IF ~token THEN "refused"
                    ELSE IF which = "legacy" /\ \E n \in FieldNames :
                              FromForm(Set(old.control, edits))[n] = "error"
                      THEN "refused" ELSE "insert"
           tab == [old EXCEPT !.phase = phase, !.control = Set(old.control, edits),
                              !.touched = DOMAIN edits, !.token = token]
<1>1. Turn(r, tab) /\ old.page = which /\ old.phase = "open" /\ TabInv(old)
  BY DEF Submit, FormsInv
<1>2. /\ DOMAIN tab = TabFields
      /\ tab.phase = phase /\ tab.control = Set(old.control, edits)
      /\ tab.touched = DOMAIN edits /\ tab.page = which /\ tab.id = old.id
      /\ tab.read = old.read /\ tab.options = old.options
  BY <1>1 DEF TabInv, TabFields
<1>3. \A n \in FieldNames : Fitting(n, tab.control[n])
  <2> SUFFICES ASSUME NEW n \in FieldNames
               PROVE  Fitting(n, tab.control[n])
    OBVIOUS
  <2>1. Fitting(n, old.control[n])
    BY <1>1 DEF TabInv, PageFits
  <2>2. CASE n \in DOMAIN edits
    <3>1. tab.control[n] = edits[n]
      BY <1>2, <2>2 DEF Set
    <3>2. edits[n] \in Inputs(n, old.options)
      BY <2>2 DEF Submit
    <3>3. old.options \subseteq AllTargets
      BY <1>1 DEF TabInv
    <3>4. Kind(n) \in InputKinds
      BY FormsAssumption
    <3>5. QED
      BY <3>1, <3>2, <3>3, <3>4, EventsAssumption DEF Inputs, Fitting, InputKinds, EmptyText
  <2>3. CASE n \notin DOMAIN edits
    BY <1>2, <2>1, <2>3 DEF Set
  <2>4. QED
    BY <2>2, <2>3
<1>4. which = "edit" => \A n \in FieldNames \ tab.touched :
          tab.control[n] = Control(n, RowText(tab.read[n]), tab.options)
  <2> SUFFICES ASSUME which = "edit", NEW n \in FieldNames \ tab.touched
               PROVE  tab.control[n] = Control(n, RowText(tab.read[n]), tab.options)
    OBVIOUS
  <2>1. n \notin DOMAIN edits /\ tab.control[n] = Set(old.control, edits)[n]
    BY <1>2
  <2>2. tab.control[n] = old.control[n]
    BY <1>3, <2>1 DEF Set
  <2>3. old.control[n] = Control(n, RowText(old.read[n]), old.options)
    BY <1>1 DEF TabInv, PageFits
  <2>4. QED
    BY <1>2, <2>2, <2>3
<1>5. which = "legacy" /\ phase = "insert" =>
          \A n \in FieldNames : FromForm(tab.control)[n] # "error"
  BY <1>2
<1>6. PageFits(tab)
  BY <1>2, <1>3, <1>4, <1>5 DEF PageFits
<1>7. which = "edit" => RowRead(tab)
  BY <1>1, <1>2 DEF TabInv, RowRead
<1>8. TabInv(tab)
  <2>1. /\ phase \in {"exists", "refused", "insert"}
        /\ phase = "exists" => which = "edit"
        /\ phase = "insert" => which \in {"new", "legacy"}
    OBVIOUS
  <2>2. tab.options \subseteq AllTargets
    BY <1>1, <1>2 DEF TabInv
  <2> HIDE DEF tab, phase
  <2>3. QED
    BY <1>2, <1>6, <1>7, <2>1, <2>2 DEF TabInv
<1>9. which = "edit" => tab.id \in DOMAIN events
  BY <1>1, <1>2 DEF FormsInv
<1> HIDE DEF tab
<1>10. QED
  BY <1>1, <1>2, <1>8, <1>9, TurnKeeps

\* A step of the handlers that draws a page or answers.
LEMMA PageStepKeeps ==
    ASSUME FormsInv, NEW r \in Requests,
           Prefill(r) \/ Draw(r) \/ StillThere(r) \/ RedrawEdit(r) \/ RedrawNew(r)
    PROVE  FormsInv'
<1> DEFINE old == tabs[r]
<1>0. TabInv(old) /\ DOMAIN old = TabFields
  BY DEF FormsInv, TabInv
<1>1. CASE Prefill(r)
  <2> DEFINE tab == [old EXCEPT !.phase = "options", !.read = events[old.id].cells]
  <2>1. old.phase = "prefill" /\ old.page = "edit" /\ old.id \in DOMAIN events
    BY <1>0, <1>1 DEF Prefill, TabInv, FormsInv
  <2>2. /\ DOMAIN tab = TabFields /\ tab.page = "edit" /\ tab.phase = "options"
        /\ tab.id = old.id /\ tab.options = old.options
        /\ tab.read = events[old.id].cells
    BY <1>0, <2>1 DEF TabFields
  <2>3. Turn(r, tab)
    BY <1>1 DEF Prefill
  <2> HIDE DEF tab
  <2>4. RowRead(tab)
    BY <2>1, <2>2 DEF FormsInv, Sound, RowRead
  <2>5. TabInv(tab)
    BY <1>0, <2>2, <2>4 DEF TabInv
  <2>6. QED
    BY <2>1, <2>2, <2>3, <2>5, TurnKeeps
<1>2. CASE Draw(r)
  <2> DEFINE options == IF old.page = "legacy" THEN LegacyOptions(targets)
                        ELSE FirstOf(targets)
             drawn == IF old.page = "edit"
                        THEN [n \in FieldNames |-> Control(n, RowText(old.read[n]), options)]
                        ELSE EmptyForm
             tab == [old EXCEPT !.phase = "open", !.options = options, !.touched = {},
                                !.control = drawn]
  <2>1. old.phase = "options" /\ Turn(r, tab)
    BY <1>2 DEF Draw
  <2>2. options \subseteq AllTargets
    BY OptionsAreTargets DEF FormsInv
  <2>3. /\ DOMAIN tab = TabFields /\ tab.page = old.page /\ tab.phase = "open"
        /\ tab.id = old.id /\ tab.options = options /\ tab.touched = {}
        /\ tab.read = old.read /\ tab.control = drawn
    BY <1>0 DEF TabFields
  <2>4. tab.page = "edit" => RowRead(old) /\ RowRead(tab)
    BY <1>0, <2>1, <2>3 DEF TabInv, RowRead
  <2>5. \A n \in FieldNames : Fitting(n, tab.control[n])
    <3>1. CASE old.page = "edit"
      BY <2>3, <2>4, <3>1, ControlFits
    <3>2. CASE old.page # "edit"
      BY <2>3, <3>2, EmptyFits
    <3>3. QED
      BY <3>1, <3>2
  <2>6. tab.page = "edit" => \A n \in FieldNames :
            tab.control[n] = Control(n, RowText(tab.read[n]), tab.options)
    BY <2>3
  <2> HIDE DEF tab, drawn, options
  <2>7. PageFits(tab)
    BY <2>3, <2>5, <2>6 DEF PageFits
  <2>8. TabInv(tab)
    BY <2>2, <2>3, <2>4, <2>7 DEF TabInv
  <2>9. tab.page = "edit" => tab.id \in DOMAIN events
    BY <2>1, <2>3 DEF FormsInv
  <2>10. QED
    BY <2>1, <2>8, <2>9, TurnKeeps
<1>3. CASE StillThere(r)
  <2> DEFINE phase == IF old.id \notin DOMAIN events THEN "missing"
                      ELSE IF old.token THEN "update" ELSE "refused"
             tab == [old EXCEPT !.phase = phase]
  <2>1. old.phase = "exists" /\ Turn(r, tab) /\ old.page = "edit"
    BY <1>0, <1>3 DEF StillThere, TabInv
  <2>2. /\ DOMAIN tab = TabFields /\ tab.page = "edit" /\ tab.id = old.id
        /\ tab.phase \in {"missing", "update", "refused"}
        /\ tab.options = old.options /\ tab.touched = old.touched
        /\ tab.read = old.read /\ tab.control = old.control
    BY <1>0, <2>1 DEF TabFields
  <2>3. old.id \in DOMAIN events /\ RowRead(old) /\ PageFits(old)
    BY <1>0, <2>1 DEF FormsInv, TabInv
  <2> HIDE DEF tab, phase
  <2>4. RowRead(tab) /\ PageFits(tab)
    BY <2>1, <2>2, <2>3 DEF RowRead, PageFits
  <2>5. TabInv(tab)
    BY <1>0, <2>2, <2>4 DEF TabInv
  <2>6. QED
    BY <2>1, <2>2, <2>3, <2>5, TurnKeeps
<1>4. CASE RedrawEdit(r)
  <2> DEFINE tab == [old EXCEPT !.phase = "prefill"]
  <2>1. old.phase = "update" /\ Turn(r, tab) /\ old.page = "edit"
    BY <1>0, <1>4 DEF RedrawEdit, TabInv
  <2>2. /\ DOMAIN tab = TabFields /\ tab.page = "edit" /\ tab.id = old.id
        /\ tab.phase = "prefill" /\ tab.options = old.options
    BY <1>0, <2>1 DEF TabFields
  <2>3. old.id \in DOMAIN events
    BY <2>1 DEF FormsInv
  <2> HIDE DEF tab
  <2>4. TabInv(tab)
    BY <1>0, <2>2 DEF TabInv
  <2>5. QED
    BY <2>1, <2>2, <2>3, <2>4, TurnKeeps
<1>5. CASE RedrawNew(r)
  <2> DEFINE tab == [old EXCEPT !.phase = IF old.page = "legacy" THEN "refused" ELSE "options"]
  <2>1. old.phase = "insert" /\ Turn(r, tab) /\ old.page \in {"new", "legacy"}
    BY <1>0, <1>5 DEF RedrawNew, TabInv
  <2>2. /\ DOMAIN tab = TabFields /\ tab.page \in {"new", "legacy"}
        /\ tab.phase \in {"refused", "options"} /\ tab.options = old.options
    BY <1>0, <2>1 DEF TabFields
  <2> HIDE DEF tab
  <2>3. TabInv(tab)
    BY <1>0, <2>2 DEF TabInv
  <2>4. QED
    BY <2>1, <2>2, <2>3, TurnKeeps
<1>6. QED
  BY <1>1, <1>2, <1>3, <1>4, <1>5

\* A row that is written: it is sound, and the tab that wrote it is at rest.
LEMMA WriteKeeps ==
    ASSUME FormsInv, NEW r \in Requests, UpdateEvent(r) \/ InsertEvent(r)
    PROVE  FormsInv'
<1> DEFINE old == tabs[r]
<1>0. TabInv(old) /\ DOMAIN old = TabFields
  BY DEF FormsInv, TabInv
<1>1. /\ DOMAIN events \subseteq DOMAIN events'
      /\ \A i \in DOMAIN events' : Sound(events'[i])
  <2>1. CASE UpdateEvent(r)
    <3> DEFINE row == [cells |-> MutationData(old.control), via |-> "form"]
    <3>1. /\ old.phase = "update" /\ Admitted(MutationData(old.control))
          /\ events' = [events EXCEPT ![old.id] = row]
      BY <2>1 DEF UpdateEvent
    <3>2. \A n \in FieldNames : Fitting(n, old.control[n])
      BY <1>0, <3>1 DEF TabInv, PageFits
    <3>3. Sound(row)
      BY <3>1, <3>2, MutationSound DEF FormsInv
    <3> HIDE DEF row
    <3>4. QED
      BY <3>1, <3>3 DEF FormsInv
  <2>2. CASE InsertEvent(r)
    <3> DEFINE id == Cardinality(DOMAIN events) + 1
               row == [cells |-> Cells(old),
                       via |-> IF old.page = "legacy" THEN "code" ELSE "form"]
    <3>1. /\ old.phase = "insert" /\ Admitted(Cells(old))
          /\ events' = [i \in DOMAIN events \cup {id} |-> IF i = id THEN row ELSE events[i]]
      BY <2>2 DEF InsertEvent
    <3>2. PageFits(old) /\ old.page \in {"new", "legacy"}
      BY <1>0, <3>1 DEF TabInv
    <3>3. Sound(row)
      <4>1. CASE old.page = "legacy"
        BY <3>1, <3>2, <4>1, ParsedSound DEF PageFits, Cells, FormsInv
      <4>2. CASE old.page # "legacy"
        BY <3>1, <3>2, <4>2, MutationSound DEF PageFits, Cells, FormsInv
      <4>3. QED
        BY <4>1, <4>2
    <3> HIDE DEF row, id
    <3>4. QED
      BY <3>1, <3>3 DEF FormsInv
  <2>3. QED
    BY <2>1, <2>2
<1>2. tabs' = [tabs EXCEPT ![r].phase = "saved"] /\ targets' = targets
  BY DEF UpdateEvent, InsertEvent
<1>3. TabInv(tabs'[r]) /\ tabs'[r].phase = "saved"
  <2>1. /\ DOMAIN tabs'[r] = TabFields /\ tabs'[r].phase = "saved"
        /\ tabs'[r].options = old.options
    BY <1>0, <1>2 DEF FormsInv, TabFields
  <2>2. QED
    BY <1>0, <2>1 DEF TabInv
<1>4. DOMAIN tabs' = Requests /\ \A s \in Requests \ {r} : tabs'[s] = tabs[s]
  BY <1>2 DEF FormsInv
<1>5. \A s \in Requests : TabInv(tabs'[s])
  BY <1>3, <1>4 DEF FormsInv
<1>6. QED
  BY <1>1, <1>2, <1>3, <1>4, <1>5 DEF FormsInv

\* Every step of the site keeps the invariant.
LEMMA FormsStepKeeps == FormsInv /\ FormsMove => FormsInv'
<1> SUFFICES ASSUME FormsInv, FormsMove
             PROVE  FormsInv'
  OBVIOUS
<1>1. ASSUME NEW r \in Requests, NEW q \in Visits[incoming].requests,
             NEW handler \in FormHandlers,
             FormHandler(r, handler, q)
      PROVE  FormsInv'
  <2>1. CASE OpenEdit(r, q.id) \/ OpenNew(r) \/ OpenLegacy(r)
    BY <2>1, OpeningKeeps
  <2>2. CASE \E which \in {"edit", "new", "legacy"} : Submit(r, which, q.edits, q.token)
    BY <2>2, SubmitKeeps
  <2>3. QED
    BY <1>1, <2>1, <2>2 DEF FormHandler
<1>2. ASSUME NEW r \in Requests, FormStep(r)
      PROVE  FormsInv'
  BY <1>2, PageStepKeeps, WriteKeeps DEF FormStep
<1>3. ASSUME NEW t \in AllTargets, TargetGone(t)
      PROVE  FormsInv'
  BY <1>3 DEF TargetGone, FormsInv
<1>4. CASE FormsCrash
  <2>1. /\ DOMAIN tabs' = Requests
        /\ \A r \in Requests : tabs'[r] = tabs[r] \/ tabs'[r] = NoTab
        /\ events' = events /\ targets' = targets
    BY <1>4 DEF FormsCrash
  <2>2. TabInv(NoTab) /\ NoTab.phase = "none"
    BY DEF TabInv, NoTab, TabFields
  <2>3. \A r \in Requests : TabInv(tabs'[r])
    BY <2>1, <2>2 DEF FormsInv
  <2>4. \A r \in Requests :
          tabs'[r].page = "edit" /\ tabs'[r].phase \in
              {"prefill", "options", "open", "exists", "update"} => tabs'[r].id \in DOMAIN events
    BY <2>1, <2>2 DEF FormsInv
  <2>5. QED
    BY <2>1, <2>3, <2>4 DEF FormsInv
<1>5. CASE UNCHANGED formVars
  BY <1>5 DEF formVars, FormsInv
<1>6. QED
  BY <1>1, <1>2, <1>3, <1>4, <1>5 DEF FormsMove

\* The rows there are at the start, and tabs that show nothing.
LEMMA FormsStart == SiteInit => FormsInv
<1> SUFFICES ASSUME FormsInit
             PROVE  FormsInv
  BY DEF SiteInit
<1>1. PICK e \in FirstEvents : events = [i \in {1} |-> [cells |-> e, via |-> "code"]]
  BY DEF FormsInit
<1>2. \A i \in DOMAIN events : Sound(events[i])
  BY <1>1, EventsAssumption DEF Sound
<1>3. TabInv(NoTab) /\ NoTab.phase = "none"
  BY DEF TabInv, NoTab, TabFields
<1>4. /\ DOMAIN tabs = Requests
      /\ \A r \in Requests : tabs[r] = NoTab
      /\ targets = AllTargets
  BY DEF FormsInit
<1>5. QED
  BY <1>2, <1>3, <1>4 DEF FormsInv

-----------------------------------------------------------------------------
\* FormsInv holds in every state of the site.
THEOREM FormsHold == SiteSpec => []FormsInv
<1>1. FormsInv /\ [SiteNext]_siteVars => FormsInv'
  BY MovesOfForms, FormsStepKeeps
<1>2. QED
  BY <1>1, FormsStart, PTL DEF SiteSpec

\* The project's own code can read the rows that the admin wrote, but for what
\* a templated form stores of an integer or a time that was left empty, and of
\* an integer beyond its type (from_form, build_mutation_data).
THEOREM RowsAreRead == SiteSpec => []RowsFit
<1>1. FormsInv => RowsFit
  BY DEF FormsInv, Sound, RowsFit
<1>2. QED
  BY <1>1, FormsHold, PTL

\* Only an update saves a page that was about to be updated.
LEMMA SavedByUpdate ==
    ASSUME FormsInv, FormsMove, NEW r \in Requests,
           tabs[r].phase = "update", tabs'[r].phase = "saved"
    PROVE  UpdateEvent(r)
<1>0. DOMAIN tabs = Requests /\ \A s \in Requests : DOMAIN tabs[s] = TabFields
  BY DEF FormsInv, TabInv
<1>1. ASSUME NEW s \in Requests, NEW tab, Turn(s, tab), tab.phase # "saved"
      PROVE  FALSE
  BY <1>0, <1>1 DEF Turn
<1>2. ASSUME NEW s \in Requests, NEW q \in Visits[incoming].requests,
             NEW handler \in FormHandlers,
             FormHandler(s, handler, q)
      PROVE  FALSE
  <2>1. CASE OpenEdit(s, q.id)
    <3>1. [NoTab EXCEPT !.page = "edit", !.id = q.id,
             !.phase = IF q.id \in DOMAIN events THEN "prefill" ELSE "missing"].phase # "saved"
      BY DEF NoTab
    <3>2. QED
      BY <1>1, <2>1, <3>1 DEF OpenEdit
  <2>2. CASE OpenNew(s)
    <3>1. [NoTab EXCEPT !.page = "new", !.phase = "options"].phase # "saved"
      BY DEF NoTab
    <3>2. QED
      BY <1>1, <2>2, <3>1 DEF OpenNew
  <2>3. CASE OpenLegacy(s)
    <3>1. [NoTab EXCEPT !.page = "legacy", !.phase = "options"].phase # "saved"
      BY DEF NoTab
    <3>2. QED
      BY <1>1, <2>3, <3>1 DEF OpenLegacy
  <2>4. CASE \E which \in {"edit", "new", "legacy"} : Submit(s, which, q.edits, q.token)
    <3>1. s # r => tabs'[r] = tabs[r]
      BY <1>0, <2>4 DEF Submit, Turn
    <3>2. tabs[s].phase = "open"
      BY <2>4 DEF Submit
    <3>3. s = r => FALSE
      BY <3>2
    <3>4. QED
      BY <3>1, <3>3
  <2>5. QED
    BY <1>2, <2>1, <2>2, <2>3, <2>4 DEF FormHandler
<1>3. ASSUME NEW s \in Requests, FormStep(s), ~UpdateEvent(s)
      PROVE  FALSE
  <2>1. s = r => RedrawEdit(s)
    BY <1>3 DEF FormStep, Prefill, Draw, StillThere, InsertEvent, RedrawNew
  <2>2. s = r => tabs'[r].phase = "prefill"
    BY <1>0, <2>1 DEF RedrawEdit, Turn, TabFields
  <2>3. s # r => tabs'[r] = tabs[r]
    BY <1>0, <1>3 DEF FormStep, Prefill, Draw, StillThere, RedrawEdit, InsertEvent,
                      RedrawNew, Turn
  <2>4. QED
    BY <2>2, <2>3
<1>4. ASSUME NEW s \in Requests, UpdateEvent(s)
      PROVE  s = r
  BY <1>0, <1>4 DEF UpdateEvent
<1>5. ASSUME NEW t \in AllTargets, TargetGone(t)
      PROVE  FALSE
  BY <1>5 DEF TargetGone
<1>6. CASE FormsCrash
  BY <1>6 DEF FormsCrash, NoTab
<1>7. CASE UNCHANGED formVars
  BY <1>7 DEF formVars
<1>8. QED
  BY <1>2, <1>3, <1>4, <1>5, <1>6, <1>7 DEF FormsMove

\* An edit that is saved keeps what its author left alone, but for the values
\* that a templated page cannot show (render_field_control, update_record).
THEOREM EditsKeep == SiteSpec => EditKeepsTheRest
<1> DEFINE Keeps == \A r \in Requests :
        tabs[r].phase = "update" /\ tabs'[r].phase = "saved" =>
          \A n \in FieldNames \ tabs[r].touched :
            \/ events'[tabs[r].id].cells[n] = tabs[r].read[n]
            \/ CannotShow(n, tabs[r].read[n])
<1>1. ASSUME FormsInv, FormsMove, NEW r \in Requests,
             tabs[r].phase = "update", tabs'[r].phase = "saved",
             NEW n \in FieldNames \ tabs[r].touched
      PROVE  \/ events'[tabs[r].id].cells[n] = tabs[r].read[n]
             \/ CannotShow(n, tabs[r].read[n])
  <2> DEFINE old == tabs[r]
             cells == MutationData(old.control)
  <2>1. TabInv(old) /\ old.page = "edit" /\ old.id \in DOMAIN events
    BY <1>1 DEF FormsInv, TabInv
  <2>2. UpdateEvent(r)
    BY <1>1, SavedByUpdate
  <2>3. /\ Admitted(cells)
        /\ events'[old.id].cells = cells
    BY <2>1, <2>2 DEF UpdateEvent
  <2>4. RowRead(old) /\ PageFits(old)
    BY <1>1, <2>1 DEF TabInv
  <2>5. Fitting(n, old.control[n])
    BY <2>4 DEF PageFits
  <2>6. cells[n] = Control(n, RowText(old.read[n]), old.options)
    BY <2>1, <2>4, <2>5, MutationIsControl DEF PageFits
  <2>7. Kind(n) \in InputKinds
    BY FormsAssumption
  <2>8. CASE Kind(n) = "relation"
    <3>1. cells[n] \in AllTargets \cup {"null"}
      BY <1>1, <2>3, <2>8 DEF Admitted, FormsInv
    <3>2. cells[n] # EmptyText
      BY <3>1, EventsAssumption DEF EmptyText
    <3>3. cells[n] = old.read[n]
      BY <2>6, <2>8, <3>2 DEF Control, RowText
    <3>4. QED
      BY <2>3, <3>3
  <2>9. CASE Kind(n) # "relation"
    BY <2>3, <2>4, <2>6, <2>7, <2>9
    DEF Control, RowText, CannotShow, RowRead, InputKinds
  <2>10. QED
    BY <2>8, <2>9
<1>2. FormsInv /\ [SiteNext]_siteVars => [Keeps]_formVars
  BY <1>1, MovesOfForms
<1>3. QED
  BY <1>2, FormsHold, PTL DEF SiteSpec, EditKeepsTheRest

-----------------------------------------------------------------------------
\* Proofs about Lists as a part of AdminSite, for any rows, URLs, page size and
\* number of tabs: a page shows what its URL asks for, and its links lead on.
\*
\* A page is of one moment (steady) from its first query until rows change.  The
\* invariant says that such a page agrees with the rows as they are, and so does
\* the page whose link was followed.

\* The arithmetic of pages.

\* Max and Min of two numbers.
LEMMA Extremes ==
    \A a, b \in Int : /\ Max({a, b}) = IF a >= b THEN a ELSE b
                      /\ Min({a, b}) = IF a <= b THEN a ELSE b
<1> SUFFICES ASSUME NEW a \in Int, NEW b \in Int
             PROVE  /\ Max({a, b}) = IF a >= b THEN a ELSE b
                    /\ Min({a, b}) = IF a <= b THEN a ELSE b
  OBVIOUS
<1>1. \A x \in {a, b} : (\A y \in {a, b} : x >= y) <=> x = IF a >= b THEN a ELSE b
  OBVIOUS
<1>2. \A x \in {a, b} : (\A y \in {a, b} : x <= y) <=> x = IF a <= b THEN a ELSE b
  OBVIOUS
<1>3. (IF a >= b THEN a ELSE b) \in {a, b} /\ (IF a <= b THEN a ELSE b) \in {a, b}
  OBVIOUS
<1>4. QED
  BY <1>1, <1>2, <1>3 DEF Max, Min

\* Division with a remainder.
LEMMA Division ==
    ASSUME NEW n \in Nat, NEW d \in Nat \ {0}
    PROVE  n \div d \in Nat /\ (n \div d) * d <= n /\ n < (n \div d) * d + d
OBVIOUS

\* The last page is the one with the last row.
LEMMA PagesAre ==
    ASSUME NEW n \in Nat
    PROVE  /\ TotalPages(n) \in Nat /\ TotalPages(n) >= 1
           /\ n <= TotalPages(n) * PageSize
           /\ n > 0 => (TotalPages(n) - 1) * PageSize < n
<1> DEFINE q == (n + PageSize - 1) \div PageSize
<1>1. PageSize \in Nat \ {0} /\ n + PageSize - 1 \in Nat
  BY ListsAssumption
<1>2. q \in Nat /\ q * PageSize <= n + PageSize - 1 /\ n + PageSize - 1 < q * PageSize + PageSize
  BY <1>1, Division
<1>3. TotalPages(n) = IF 1 >= q THEN 1 ELSE q
  BY <1>2, Extremes DEF TotalPages
<1> HIDE DEF q
<1>4. q * PageSize \in Nat /\ (q - 1) * PageSize = q * PageSize - PageSize
      /\ 1 * PageSize = PageSize /\ 0 * PageSize = 0
  BY <1>1, <1>2
<1>5. n <= q * PageSize /\ q * PageSize - PageSize < n
  BY <1>1, <1>2, <1>4
<1>6. n > 0 => q >= 1
  BY <1>1, <1>2, <1>4, <1>5
<1>7. CASE q >= 1
  BY <1>1, <1>2, <1>3, <1>4, <1>5, <1>7
<1>8. CASE q = 0
  BY <1>1, <1>2, <1>3, <1>4, <1>5, <1>6, <1>8
<1>9. QED
  BY <1>2, <1>7, <1>8

\* A page that is asked for, and is there, is the one that is shown.
LEMMA PageIs ==
    ASSUME NEW url, url.page \in Int, NEW n \in Nat
    PROVE  /\ PageOf(url, n) \in 1..TotalPages(n)
           /\ url.page \in 1..TotalPages(n) => PageOf(url, n) = url.page
           /\ url.page <= 1 => PageOf(url, n) = 1
           /\ url.page >= TotalPages(n) => PageOf(url, n) = TotalPages(n)
<1>1. TotalPages(n) \in Nat /\ TotalPages(n) >= 1
  BY PagesAre
<1>2. Max({1, url.page}) = IF 1 >= url.page THEN 1 ELSE url.page
  BY Extremes
<1>3. PICK a \in Int : a = Max({1, url.page})
  BY <1>2
<1>4. PICK b \in Int : b = TotalPages(n)
  BY <1>1
<1>5. Min({a, b}) = IF a <= b THEN a ELSE b
  BY Extremes
<1>6. PageOf(url, n) = Min({a, b})
  BY <1>3, <1>4 DEF PageOf
<1>7. QED
  BY <1>1, <1>2, <1>3, <1>4, <1>5, <1>6

\* A set as a list.
LEMMA SetToSeqIs ==
    ASSUME NEW S, IsFiniteSet(S)
    PROVE  /\ Cardinality(S) \in Nat /\ (S # {} => Cardinality(S) # 0)
           /\ SetToSeq(S) \in Seq(S) /\ Len(SetToSeq(S)) = Cardinality(S)
<1>1. Cardinality(S) \in Nat /\ ExistsBijection(1..Cardinality(S), S)
  BY FS_CardinalityType
<1>2. S # {} => Cardinality(S) # 0
  BY FS_EmptySet
<1>3. \E f \in [1..Cardinality(S) -> S] : IsInjective(f)
  BY <1>1 DEF ExistsBijection, Bijection, Injection, IsInjective
<1>4. SetToSeq(S) \in [1..Cardinality(S) -> S]
  BY <1>3 DEF SetToSeq
<1>5. QED
  BY <1>1, <1>2, <1>4

\* A sequence without repetitions is as long as its set is large.
LEMMA DistinctCounts ==
    ASSUME NEW E, NEW s \in Seq(E), Distinct(s)
    PROVE  Cardinality(ToSet(s)) = Len(s)
<1> DEFINE n == Len(s)
           T == ToSet(s)
<1>1. n \in Nat /\ DOMAIN s = 1..n /\ s \in [1..n -> E]
  OBVIOUS
<1>2. \A x \in T : \E i \in 1..n : s[i] = x
  BY <1>1 DEF ToSet
<1>3. \A i \in 1..n : s[i] \in T
  BY <1>1 DEF ToSet
<1>4. \A i, j \in 1..n : s[i] = s[j] => i = j
  BY <1>1 DEF Distinct
<1> HIDE DEF n, T
<1>5. s \in [1..n -> T]
  BY <1>1, <1>3
<1>6. s \in Bijection(1..n, T)
  BY <1>2, <1>4, <1>5 DEF Bijection, Injection, Surjection, IsInjective
<1>7. ExistsBijection(1..n, T)
  BY <1>6 DEF ExistsBijection
<1>8. IsFiniteSet(1..n) /\ Cardinality(1..n) = n
  BY <1>1, FS_Interval
<1>9. QED
  BY <1>7, <1>8, FS_Bijection DEF n, T

\* The rows that are asked for, each once.
LEMMA OrderedIs ==
    ASSUME NEW t, IsFiniteSet(DOMAIN rows[t]), NEW url, NEW filter
    PROVE  /\ Ordered(t, url, filter) \in Seq(DOMAIN rows[t])
           /\ Len(Ordered(t, url, filter)) = Cardinality(Matching(t, filter, url.q))
           /\ Cardinality(Matching(t, filter, url.q)) \in Nat
           /\ Matching(t, filter, url.q) # {} => Ordered(t, url, filter) # <<>>
<1> DEFINE found == Matching(t, filter, url.q)
           list == SetToSeq(found)
           Before == {p \in found \X found : Precedes(t, ValidSort(t, url), p[1], p[2])}
<1>1. found \subseteq DOMAIN rows[t]
  BY DEF Matching
<1>2. IsFiniteSet(found)
  BY <1>1, FS_Subset
<1>3. Ordered(t, url, filter) = Arranged(list, Before)
  BY DEF Ordered
<1> HIDE DEF found, Before
<1>4. /\ Cardinality(found) \in Nat /\ (found # {} => Cardinality(found) # 0)
      /\ list \in Seq(found) /\ Len(list) = Cardinality(found)
  BY <1>2, SetToSeqIs
<1>5. Distinct(list)
  <2>1. Cardinality(found) \in Nat /\ ExistsBijection(1..Cardinality(found), found)
    BY <1>2, FS_CardinalityType
  <2>2. \E f \in [1..Cardinality(found) -> found] : IsInjective(f)
    BY <2>1 DEF ExistsBijection, Bijection, Injection, IsInjective
  <2>3. IsInjective(list)
    BY <2>2 DEF SetToSeq
  <2>4. QED
    BY <2>3 DEF IsInjective, Distinct
<1> HIDE DEF list
<1>6. /\ Arranged(list, Before) \in Seq(found) /\ Distinct(Arranged(list, Before))
      /\ ToSet(Arranged(list, Before)) = ToSet(list)
  BY <1>4, <1>5, ArrangedIs
<1>7. Len(Arranged(list, Before)) = Cardinality(found)
  BY <1>4, <1>5, <1>6, DistinctCounts
<1>8. Arranged(list, Before) \in Seq(DOMAIN rows[t])
  BY <1>1, <1>6, SeqMonotonic
<1>9. found # {} => Arranged(list, Before) # <<>>
  BY <1>4, <1>7
<1>10. QED
  BY <1>3, <1>4, <1>7, <1>8, <1>9 DEF found

\* More times as much is no less.
LEMMA Monotone ==
    ASSUME NEW a \in Nat, NEW b \in Nat, NEW d \in Nat, a <= b
    PROVE  a * d <= b * d /\ a * d \in Nat /\ b * d \in Nat
<1>1. PICK c \in Nat : b = a + c
  <2>1. b - a \in Nat /\ b = a + (b - a)
    OBVIOUS
  <2>2. QED
    BY <2>1
<1>2. b * d = a * d + c * d /\ c * d \in Nat /\ a * d \in Nat
  BY <1>1
<1>3. QED
  BY <1>2

\* The window of a page: rows in a row, as many as fit, the first on the first
\* page, the last on the last.
LEMMA WindowIs ==
    ASSUME NEW E, NEW all \in Seq(E), all # <<>>, NEW p \in 1..TotalPages(Len(all))
    PROVE  \E from \in 1..Len(all) : \E to \in from..Len(all) :
               /\ Window(all, p) = SubSeq(all, from, to)
               /\ from = (p - 1) * PageSize + 1 /\ to - from < PageSize
               /\ p = TotalPages(Len(all)) => to = Len(all)
               /\ p < TotalPages(Len(all)) => to = p * PageSize
<1> DEFINE n == Len(all)
           last == TotalPages(n)
           from == (p - 1) * PageSize + 1
           to == Min({p * PageSize, n})
<1>1. n \in Nat /\ n > 0 /\ PageSize \in Nat \ {0} /\ n \in Int
  BY ListsAssumption
<1>2. last \in Nat /\ n <= last * PageSize /\ (last - 1) * PageSize < n
  BY <1>1, PagesAre
<1>3. Window(all, p) = SubSeq(all, from, to)
  BY DEF Window
<1> HIDE DEF n, last
<1>4. p \in Nat /\ p >= 1 /\ p <= last /\ p - 1 \in Nat /\ last - 1 \in Nat
  BY <1>2 DEF n, last
<1>5. (p - 1) * PageSize <= (last - 1) * PageSize /\ (p - 1) * PageSize \in Nat
  <2>1. p - 1 <= last - 1
    BY <1>2, <1>4
  <2>2. QED
    BY <1>1, <1>4, <2>1, Monotone
<1>6. p < last => p * PageSize <= (last - 1) * PageSize
  <2>1. p < last => p <= last - 1
    BY <1>2, <1>4
  <2>2. QED
    BY <1>1, <1>4, <2>1, Monotone
<1>7. p * PageSize = (p - 1) * PageSize + PageSize /\ p * PageSize \in Nat
  BY <1>1, <1>4
<1>8. last * PageSize \in Nat /\ (last - 1) * PageSize \in Nat
  BY <1>1, <1>2, <1>4
<1>9. to = IF p * PageSize <= n THEN p * PageSize ELSE n
  <2>1. PICK a \in Int : a = p * PageSize
    BY <1>7
  <2>2. n \in Int
    BY <1>1
  <2>3. Min({a, n}) = IF a <= n THEN a ELSE n
    BY <2>2, Extremes
  <2>4. QED
    BY <2>1, <2>3
<1>10. from \in 1..n /\ to \in from..n /\ to - from < PageSize
  BY <1>1, <1>2, <1>5, <1>7, <1>8, <1>9
<1>11. p = last => to = n
  BY <1>1, <1>2, <1>7, <1>8, <1>9
<1>12. p < last => to = p * PageSize
  BY <1>1, <1>2, <1>6, <1>7, <1>8, <1>9
<1> HIDE DEF from, to
<1>13. from = (p - 1) * PageSize + 1
  BY DEF from
<1>14. QED
  BY <1>3, <1>10, <1>11, <1>12, <1>13 DEF n, last

\* A part of a sequence.
LEMMA PartIs ==
    ASSUME NEW E, NEW all \in Seq(E), NEW from \in 1..Len(all), NEW to \in from..Len(all)
    PROVE  LET w == SubSeq(all, from, to)
           IN /\ w \in Seq(E) /\ w # <<>> /\ Len(w) = to - from + 1 /\ Within(w, all)
              /\ Head(w) = all[from] /\ Last(w) = all[to]
<1> DEFINE w == SubSeq(all, from, to)
<1>1. /\ Len(all) \in Nat /\ from \in Int /\ to \in Int /\ from <= to
      /\ from >= 1 /\ to <= Len(all) /\ \A i \in from..to : all[i] \in E
  OBVIOUS
<1>2. /\ w \in Seq(E) /\ Len(w) = to - from + 1
      /\ \A i \in 1..(to - from + 1) : w[i] = all[from + i - 1]
  BY <1>1, SubSeqProperties
<1>3. Within(w, all)
  <2>1. from - 1 \in 0..(Len(all) - Len(w)) /\ (from - 1) + 1 = from
        /\ (from - 1) + Len(w) = to /\ Len(w) <= Len(all)
    BY <1>1, <1>2
  <2>2. SubSeq(all, (from - 1) + 1, (from - 1) + Len(w)) = w
    BY <2>1
  <2>3. QED
    BY <2>1, <2>2 DEF Within
<1> HIDE DEF w
<1>4. w # <<>>
  BY <1>1, <1>2
<1>5. w[1] = all[from] /\ w[Len(w)] = all[to]
  <2>1. 1 \in 1..(to - from + 1) /\ Len(w) \in 1..(to - from + 1)
        /\ from + 1 - 1 = from /\ from + Len(w) - 1 = to
    BY <1>1, <1>2
  <2>2. QED
    BY <1>2, <2>1
<1>6. Head(w) = w[1] /\ Last(w) = w[Len(w)]
  BY <1>2, <1>4 DEF Last
<1>7. QED
  BY <1>2, <1>3, <1>4, <1>5, <1>6 DEF w

\* The page that is shown, for any page that is asked for.
LEMMA PageIsShown ==
    ASSUME NEW E, NEW all \in Seq(E), all # <<>>, NEW url, url.page \in Int
    PROVE  LET w == Window(all, PageOf(url, Len(all)))
           IN /\ w \in Seq(E) /\ w # <<>> /\ Len(w) <= PageSize /\ Within(w, all)
              /\ url.page <= 1 => Head(w) = Head(all)
              /\ url.page * PageSize >= Len(all) => Last(w) = Last(all)
<1> DEFINE p == PageOf(url, Len(all))
           last == TotalPages(Len(all))
           w == Window(all, p)
<1>1. Len(all) \in Nat /\ Len(all) > 0 /\ PageSize \in Nat \ {0}
  BY ListsAssumption
<1>2. /\ p \in 1..last
      /\ url.page <= 1 => p = 1
      /\ url.page >= last => p = last
  BY <1>1, PageIs
<1>3. last \in Nat /\ last >= 1 /\ (last - 1) * PageSize < Len(all)
  BY <1>1, PagesAre
<1>a. PICK from \in 1..Len(all) : \E to \in from..Len(all) :
          /\ w = SubSeq(all, from, to)
          /\ from = (p - 1) * PageSize + 1 /\ to - from < PageSize
          /\ p = last => to = Len(all)
  BY <1>2, WindowIs
<1>4. PICK to \in from..Len(all) :
          /\ w = SubSeq(all, from, to)
          /\ from = (p - 1) * PageSize + 1 /\ to - from < PageSize
          /\ p = last => to = Len(all)
  BY <1>a
<1>5. /\ w \in Seq(E) /\ w # <<>> /\ Len(w) = to - from + 1 /\ Within(w, all)
      /\ Head(w) = all[from] /\ Last(w) = all[to]
  BY <1>4, PartIs
<1>6. Len(w) <= PageSize
  BY <1>1, <1>4, <1>5
<1>7. url.page <= 1 => Head(w) = Head(all)
  <2>1. url.page <= 1 => from = 1
    BY <1>1, <1>2, <1>4
  <2>2. Head(all) = all[1]
    OBVIOUS
  <2>3. QED
    BY <1>5, <2>1, <2>2
<1>8. url.page * PageSize >= Len(all) => Last(w) = Last(all)
  <2>0. url.page >= last => Last(w) = Last(all)
    BY <1>2, <1>4, <1>5 DEF Last
  <2> HIDE DEF w
  <2> SUFFICES ASSUME url.page * PageSize >= Len(all), url.page < last
               PROVE  FALSE
    BY <1>3, <2>0
  <2> HIDE DEF last
  <2>1. CASE url.page >= 0
    <3>1. url.page \in Nat /\ last - 1 \in Nat /\ url.page <= last - 1
      BY <1>3, <2>1
    <3>2. url.page * PageSize <= (last - 1) * PageSize
          /\ url.page * PageSize \in Nat /\ (last - 1) * PageSize \in Nat
      BY <1>1, <3>1, Monotone
    <3>3. QED
      BY <1>1, <1>3, <3>2
  <2>2. CASE url.page < 0
    <3>1. -url.page \in Nat /\ -url.page * PageSize \in Nat
          /\ url.page * PageSize = -((-url.page) * PageSize)
      BY <1>1, <2>2
    <3>2. QED
      BY <1>1, <3>1
  <2>3. QED
    BY <2>1, <2>2
<1>9. QED
  BY <1>5, <1>6, <1>7, <1>8

\* The rows of a page, and then those of the next.
LEMMA NextFollows ==
    ASSUME NEW E, NEW all \in Seq(E), all # <<>>, NEW p,
           p \in 1..TotalPages(Len(all)), p + 1 \in 1..TotalPages(Len(all))
    PROVE  Within(Window(all, p) \o Window(all, p + 1), all)
<1> DEFINE last == TotalPages(Len(all))
<1>1. Len(all) \in Nat /\ PageSize \in Nat \ {0} /\ last \in Nat
  BY ListsAssumption, PagesAre
<1>2. p < last /\ p \in Nat /\ p >= 1
  BY <1>1
<1>a. PICK from \in 1..Len(all) : \E to \in from..Len(all) :
          Window(all, p) = SubSeq(all, from, to) /\ to = p * PageSize
  BY <1>2, WindowIs
<1>3. PICK to \in from..Len(all) :
          Window(all, p) = SubSeq(all, from, to) /\ to = p * PageSize
  BY <1>a
<1>b. PICK f \in 1..Len(all) : \E t \in f..Len(all) :
          Window(all, p + 1) = SubSeq(all, f, t) /\ f = (p + 1 - 1) * PageSize + 1
  BY WindowIs
<1>4. PICK t \in f..Len(all) :
          Window(all, p + 1) = SubSeq(all, f, t) /\ f = (p + 1 - 1) * PageSize + 1
  BY <1>b
<1>5. f = to + 1
  BY <1>1, <1>2, <1>3, <1>4
<1>6. from \in 1..(Len(all) + 1) /\ to \in (from - 1)..Len(all) /\ t \in to..Len(all)
  BY <1>1, <1>3, <1>4, <1>5
<1>7. SubSeq(all, from, to) \o SubSeq(all, to + 1, t) = SubSeq(all, from, t)
  BY <1>6, ConcatAdjacentSubSeq
<1>8. t \in from..Len(all)
  BY <1>1, <1>3, <1>4, <1>5
<1>9. QED
  BY <1>3, <1>4, <1>5, <1>7, <1>8, PartIs

-----------------------------------------------------------------------------
\* What is true of a page.

ListFields == {"phase", "table", "user", "url", "layout", "declared", "options", "total",
               "shown", "named", "offers", "steady", "via", "before"}

ListFits(l) ==
    /\ DOMAIN l = ListFields
    /\ l.phase \in {"none", "options", "count", "rows", "labels", "role", "shown"}
    /\ l.table \in Tables /\ ListUrl(l.url) /\ l.layout \in Layouts
    /\ l.url.layout \in Layouts => l.layout = l.url.layout
    /\ l.total \in Nat /\ l.offers \subseteq {"create", "edit", "delete"}
    /\ l.declared \in BOOLEAN /\ (l.declared => l.table = "posts")
    /\ ~l.declared => l.options = {} /\ l.phase # "options"

\* What the queries of a page find in the rows as they are.
Authors == {rows["posts"][p] : p \in DOMAIN rows["posts"]} \ {None}
Counted(l) == Cardinality(Matching(l.table, Wanted(l), l.url.q))
Sought(l) == Window(Ordered(l.table, l.url, Wanted(l)), PageOf(l.url, Counted(l)))

Current(l) ==
    /\ l.phase \notin {"none", "options"} /\ (l.phase = "count" => l.declared)
    /\ l.declared => l.options = Authors
    /\ l.phase # "count" => l.total = Counted(l)
    /\ l.phase \notin {"count", "rows"} => l.shown = Sought(l)
    /\ l.table = "posts" /\ l.phase \in {"role", "shown"} => l.named = DOMAIN rows["authors"]

\* The page whose link was followed.
CameFrom(l, b) ==
    /\ ListFits(b) /\ Current(b) /\ b.phase = "shown"
    /\ b.table = l.table /\ b.declared = l.declared
    /\ l.via \in PageLinks /\ l.url \in Follow(b, l.via)

\* The inductive invariant.
ListsInv ==
    /\ incoming \in DOMAIN Visits
    /\ DOMAIN lists = Requests
    /\ \A r \in Requests :
        /\ ListFits(lists[r])
        /\ lists[r].steady => Current(lists[r])
        /\ lists[r].before # Nothing => CameFrom(lists[r], lists[r].before)

-----------------------------------------------------------------------------
\* The steps of the site, as Lists sees them.

ListsMove ==
    /\ incoming' = incoming
    /\ \/ \E r \in Requests, q \in Visits[incoming].requests : \E url :
             /\ StartList(r, q.path[2], q.user, url, q.link)
             /\ q.path[2] \in Tables
             /\ IF q.link = "none" THEN url = q.url
                ELSE lists[r].table = q.path[2] /\ url \in Follow(lists[r], q.link)
             /\ rows' = rows
       \/ \E r \in Requests : LeaveList(r) /\ rows' = rows
       \/ \E r \in Requests : ListStep(r) /\ rows' = rows
       \/ Unsettled
       \/ ListsCrash /\ rows' = rows
       \/ UNCHANGED <<rows, lists>>

\* Every step of the site is one of these.
LEMMA MovesOfLists == [SiteNext]_siteVars => ListsMove
<1> SUFFICES ASSUME [SiteNext]_siteVars
             PROVE  ListsMove
  OBVIOUS
<1>1. CASE UNCHANGED siteVars
  BY <1>1 DEF siteVars, recordVars, listVars, ListsMove
<1>2. ASSUME NEW r \in Requests, NEW q \in Visits[incoming].requests, Arrive(r, q)
      PROVE  ListsMove
  <2>1. incoming' = incoming
    BY <1>2 DEF Arrive
  <2>2. ASSUME NEW handler, RecordHandler(r, handler, q)
        PROVE  rows' = rows
    BY <2>2 DEF RecordHandler, StartCreate, StartLegacyCreate, StartUpdate, StartDelete,
                StartBulk, StartRead, Begin, Reply
  <2>3. \/ LeaveList(r) /\ rows' = rows
        \/ /\ ListHandler(r, q) /\ UNCHANGED recordVars
           /\ q.path[2] \in Slugs \ {"events"}
    BY <1>2, <2>2 DEF Arrive, Elsewhere, Reply, recordVars
  <2>4. Slugs \ {"events"} \subseteq Tables
    BY SiteAssumption, Elements DEF Slugs, Tables
  <2>5. CASE ListHandler(r, q) /\ UNCHANGED recordVars /\ q.path[2] \in Slugs \ {"events"}
    BY <2>1, <2>4, <2>5 DEF ListHandler, ListsMove, recordVars
  <2>6. QED
    BY <2>1, <2>3, <2>5 DEF ListsMove
<1>3. ASSUME NEW r \in Requests, Proceed(r)
      PROVE  ListsMove
  BY <1>3 DEF Proceed, ListsMove, recordVars, listVars
<1>4. CASE Visits[incoming].deletes /\ (\E t \in AllTargets : TargetGone(t))
             /\ UNCHANGED <<recordVars, viewVars, listVars, incoming, sent, visit>>
  BY <1>4 DEF ListsMove, recordVars, listVars
<1>5. CASE Crash
  BY <1>5 DEF Crash, ListsMove, RecordsCrash
<1>6. ASSUME NEW r \in Requests, Terminal(r)
      PROVE  ListsMove
  BY <1>6 DEF Terminal, ListsMove, recordVars
<1>7. QED
  BY <1>1, <1>2, <1>3, <1>4, <1>5, <1>6 DEF SiteNext

-----------------------------------------------------------------------------

\* What is current stays so as long as no row changes.
LEMMA SameRows ==
    ASSUME rows' = rows
    PROVE  /\ \A l : Current(l)' <=> Current(l)
           /\ \A l, b : CameFrom(l, b)' <=> CameFrom(l, b)
<1>1. \A t, filter, q : Matching(t, filter, q)' = Matching(t, filter, q)
  BY DEF Matching
<1>2. \A t, url, filter : Ordered(t, url, filter)' = Ordered(t, url, filter)
  BY DEF Ordered, Matching, Precedes
<1>3. \A l : Counted(l)' = Counted(l) /\ Sought(l)' = Sought(l)
  BY <1>1, <1>2 DEF Counted, Sought, Matching, Ordered, Precedes
<1>4. \A l : Current(l)' <=> Current(l)
  BY <1>3 DEF Current, Authors
<1>5. QED
  BY <1>4 DEF CameFrom

\* A tab goes on to another page, or to another query of its page.
LEMMA OneList ==
    ASSUME ListsInv, rows' = rows, incoming' = incoming, NEW r \in Requests, NEW l,
           lists' = [lists EXCEPT ![r] = l],
           ListFits(l), l.steady => Current(l), l.before # Nothing => CameFrom(l, l.before)
    PROVE  ListsInv'
<1>1. /\ DOMAIN lists' = Requests
      /\ \A s \in Requests : lists'[s] = IF s = r THEN l ELSE lists[s]
  BY DEF ListsInv
<1>2. ASSUME NEW s \in Requests, NEW x, x = lists'[s]
      PROVE  /\ ListFits(x)
             /\ x.steady => Current(x)'
             /\ x.before # Nothing => CameFrom(x, x.before)'
  BY <1>1, <1>2, SameRows DEF ListsInv
<1>3. QED
  BY <1>1, <1>2 DEF ListsInv

\* A link leads to a URL.
LEMMA FollowIs ==
    ASSUME NEW b, ListFits(b), NEW link \in PageLinks, NEW url \in Follow(b, link)
    PROVE  ListUrl(url)
<1> DEFINE last == TotalPages(b.total)
           order == ValidSort(b.table, b.url)
<1>1. last \in Nat
  BY PagesAre DEF ListFits
<1>2. /\ DOMAIN b.url = {"q", "filter", "sort", "dir", "layout", "page"}
      /\ b.url.q \in BOOLEAN /\ b.layout \in Layouts
  BY DEF ListFits, ListUrl, NoUrl
<1>3. ASSUME NEW p \in 1..last
      PROVE  ListUrl(PageHref(b, p))
  BY <1>1, <1>2, <1>3 DEF PageHref, ListUrl, NoUrl
<1>4. ListUrl(ClearHref(b))
  BY <1>2 DEF ClearHref, ListUrl, NoUrl
<1>5. ASSUME NEW q \in BOOLEAN, NEW filter
      PROVE  ListUrl(ToolbarUrl(b, q, filter))
  BY <1>2 DEF ToolbarUrl, ListUrl, NoUrl
<1>6. ASSUME NEW layout \in Layouts
      PROVE  ListUrl(LayoutHref(b, layout))
  BY <1>2 DEF LayoutHref, ListUrl, NoUrl
<1>7. CASE link = "next"
  BY <1>3, <1>7 DEF Follow
<1>8. CASE link = "prev"
  BY <1>3, <1>8 DEF Follow
<1>9. CASE link = "clear"
  BY <1>4, <1>9 DEF Follow
<1>10. CASE link = "search"
  BY <1>5, <1>10 DEF Follow
<1>11. CASE link = "filter"
  BY <1>2, <1>5, <1>11 DEF Follow
<1>12. CASE link \in Layouts
  BY <1>6, <1>12 DEF Follow, Layouts
<1>13. QED
  BY <1>7, <1>8, <1>9, <1>10, <1>11, <1>12 DEF PageLinks

\* A page is asked for, by a typed URL or by a link.
LEMMA StartKeeps ==
    ASSUME ListsInv, EditsInv, incoming' = incoming, rows' = rows,
           NEW r \in Requests, NEW q \in Visits[incoming].requests, NEW url,
           StartList(r, q.path[2], q.user, url, q.link), q.path[2] \in Tables,
           IF q.link = "none" THEN url = q.url
           ELSE lists[r].table = q.path[2] /\ url \in Follow(lists[r], q.link)
    PROVE  ListsInv'
<1> DEFINE old == lists[r]
           table == q.path[2]
           declared == table = "posts" /\ "author_id" \in Resolved.filters
           layout == EffectiveLayout(url.layout, SavedView)
           before == IF q.link = "none" \/ ~old.steady \/ old.declared # declared THEN Nothing
                     ELSE [old EXCEPT !.before = Nothing]
           l == [NoList EXCEPT
                    !.phase = IF declared THEN "options" ELSE "count",
                    !.table = table, !.user = q.user, !.url = url, !.declared = declared,
                    !.layout = layout, !.via = q.link, !.before = before]
<1>1. lists' = [lists EXCEPT ![r] = l]
  BY DEF StartList, Draw1
<1>2. ListFits(old) /\ DOMAIN old = ListFields
  BY DEF ListsInv, ListFits
<1>3. q.link \in {"none"} \cup PageLinks /\ ListUrl(q.url)
  BY VisitsAssumption DEF ListsInv
<1>4. ListUrl(url)
  BY <1>2, <1>3, FollowIs
<1>5. layout \in Layouts /\ (url.layout \in Layouts => layout = url.layout)
  BY ResolvedIs DEF EffectiveLayout
<1>6. declared \in BOOLEAN /\ (declared => table = "posts")
  OBVIOUS
<1> HIDE DEF declared, layout
<1>7. /\ DOMAIN l = ListFields /\ l.phase = (IF declared THEN "options" ELSE "count")
      /\ l.table = table /\ l.url = url /\ l.declared = declared /\ l.layout = layout
      /\ l.via = q.link /\ l.before = before /\ ~l.steady /\ l.options = {}
      /\ l.offers = {} /\ l.total = 0
  BY DEF NoList, ListFields
<1> HIDE DEF l
<1>8. ListFits(l)
  BY <1>4, <1>5, <1>6, <1>7 DEF ListFits
<1>9. ASSUME l.before # Nothing
      PROVE  CameFrom(l, l.before)
  <2> DEFINE b == [old EXCEPT !.before = Nothing]
  <2>1. /\ q.link # "none" /\ old.steady /\ old.declared = declared /\ l.before = b
        /\ old.table = table /\ url \in Follow(old, q.link)
    BY <1>7, <1>9
  <2>2. /\ DOMAIN b = ListFields
        /\ b.phase = old.phase /\ b.table = old.table /\ b.url = old.url
        /\ b.layout = old.layout /\ b.declared = old.declared /\ b.options = old.options
        /\ b.total = old.total /\ b.shown = old.shown /\ b.named = old.named
        /\ b.offers = old.offers
    BY <1>2 DEF ListFields
  <2>3. old.phase = "shown" /\ Current(old)
    BY <2>1 DEF Follow, ListsInv
  <2> HIDE DEF b
  <2>4. ListFits(b)
    BY <1>2, <2>2 DEF ListFits
  <2>5. Current(b)
    BY <2>2, <2>3 DEF Current, Counted, Sought, Wanted
  <2>6. /\ \A p : PageHref(b, p) = PageHref(old, p)
        /\ ClearHref(b) = ClearHref(old) /\ Chosen(b) = Chosen(old)
        /\ \A asked, filter : ToolbarUrl(b, asked, filter) = ToolbarUrl(old, asked, filter)
        /\ \A x : LayoutHref(b, x) = LayoutHref(old, x)
    BY <2>2 DEF PageHref, ClearHref, ToolbarUrl, Chosen, LayoutHref
  <2>7. url \in Follow(b, q.link)
    <3>1. CASE q.link = "next"
      <4>1. PICK p \in {PageOf(old.url, old.total) + 1} \cap 1..TotalPages(old.total) :
                url = PageHref(old, p)
        BY <2>1, <2>3, <3>1 DEF Follow
      <4>2. QED
        BY <2>2, <2>3, <2>6, <3>1, <4>1 DEF Follow
    <3>2. CASE q.link = "prev"
      <4>1. PICK p \in {PageOf(old.url, old.total) - 1} \cap 1..TotalPages(old.total) :
                url = PageHref(old, p)
        BY <2>1, <2>3, <3>2 DEF Follow
      <4>2. QED
        BY <2>2, <2>3, <2>6, <3>2, <4>1 DEF Follow
    <3>3. CASE q.link = "clear"
      BY <2>1, <2>2, <2>3, <2>6, <3>3 DEF Follow
    <3>4. CASE q.link = "search"
      <4>1. url = ToolbarUrl(old, TRUE, Chosen(old))
        BY <2>1, <2>3, <3>4 DEF Follow
      <4>2. url = ToolbarUrl(b, TRUE, Chosen(b))
        BY <2>6, <4>1
      <4>3. QED
        BY <2>2, <2>3, <3>4, <4>2 DEF Follow
    <3>5. CASE q.link = "filter"
      <4>1. PICK o \in old.options : url = ToolbarUrl(old, old.url.q, o)
        BY <2>1, <2>3, <3>5 DEF Follow
      <4>2. QED
        BY <2>2, <2>3, <2>6, <3>5, <4>1 DEF Follow
    <3>6. CASE q.link \in Layouts
      BY <2>1, <2>2, <2>3, <2>6, <3>6 DEF Follow, Layouts
    <3>7. QED
      BY <1>3, <2>1, <3>1, <3>2, <3>3, <3>4, <3>5, <3>6 DEF PageLinks
  <2>8. QED
    BY <1>3, <1>7, <2>1, <2>2, <2>3, <2>4, <2>5, <2>7 DEF CameFrom
<1>10. QED
  BY <1>1, <1>7, <1>8, <1>9, OneList

\* The tables are finite.
LEMMA RowsAreFinite == RecordsInv => \A t \in Tables : IsFiniteSet(DOMAIN rows[t])
<1> SUFFICES ASSUME RecordsInv, NEW t \in Tables
             PROVE  IsFiniteSet(DOMAIN rows[t])
  OBVIOUS
<1>1. seq[t] \in Nat /\ DOMAIN rows[t] \subseteq 1..seq[t]
  BY DEF RecordsInv, IdsUsed
<1>2. IsFiniteSet(1..seq[t])
  BY <1>1, FS_Interval
<1>3. QED
  BY <1>1, <1>2, FS_Subset

\* A page goes on by a query: it stays the page of its URL.
LEMMA QueryGoesOn ==
    ASSUME ListsInv, rows' = rows, incoming' = incoming, NEW r \in Requests, NEW l,
           lists' = [lists EXCEPT ![r] = l],
           ListFits(l), l.steady => Current(l),
           l.via = lists[r].via, l.url = lists[r].url, l.table = lists[r].table,
           l.declared = lists[r].declared, l.before = lists[r].before
    PROVE  ListsInv'
<1>1. l.before # Nothing => CameFrom(lists[r], l.before)
  BY DEF ListsInv
<1>2. l.before # Nothing => CameFrom(l, l.before)
  BY <1>1 DEF CameFrom
<1>3. QED
  BY <1>2, OneList

\* A query at a time.
LEMMA OptionsKeep ==
    ASSUME ListsInv, rows' = rows, incoming' = incoming, NEW r \in Requests, ReadOptions(r)
    PROVE  ListsInv'
<1> DEFINE old == lists[r]
           l == [old EXCEPT !.phase = "count", !.steady = TRUE, !.options = Authors]
<1>1. ListFits(old) /\ old.phase = "options" /\ lists' = [lists EXCEPT ![r] = l]
  BY DEF ListsInv, ReadOptions, Draw1, Authors
<1>2. /\ DOMAIN l = ListFields
      /\ l.phase = "count" /\ l.table = old.table /\ l.url = old.url /\ l.layout = old.layout
      /\ l.declared = old.declared /\ l.options = Authors /\ l.total = old.total
      /\ l.offers = old.offers /\ l.via = old.via /\ l.before = old.before
  BY <1>1 DEF ListFits, ListFields
<1> HIDE DEF l
<1>3. old.declared
  BY <1>1 DEF ListFits
<1>4. ListFits(l)
  BY <1>1, <1>2, <1>3 DEF ListFits
<1>5. Current(l)
  BY <1>2, <1>3 DEF Current
<1>6. QED
  BY <1>1, <1>2, <1>4, <1>5, QueryGoesOn

\* The number of rows that the page goes by is that of the rows it will show.
LEMMA CountKeeps ==
    ASSUME ListsInv, RecordsInv, rows' = rows, incoming' = incoming, NEW r \in Requests,
           CountRows(r)
    PROVE  ListsInv'
<1> DEFINE old == lists[r]
           l == [old EXCEPT !.phase = "rows", !.steady = old.steady \/ ~old.declared,
                            !.total = Counted(old)]
<1>1. ListFits(old) /\ old.phase = "count" /\ (old.steady => Current(old))
  BY DEF ListsInv, CountRows
<1>2. lists' = [lists EXCEPT ![r] = l]
  BY DEF CountRows, Draw1, Counted
<1>3. /\ DOMAIN l = ListFields
      /\ l.phase = "rows" /\ l.table = old.table /\ l.url = old.url /\ l.layout = old.layout
      /\ l.declared = old.declared /\ l.options = old.options /\ l.total = Counted(old)
      /\ l.offers = old.offers /\ l.via = old.via /\ l.before = old.before
      /\ l.steady = (old.steady \/ ~old.declared)
  BY <1>1 DEF ListFits, ListFields
<1> HIDE DEF l
<1>4. Counted(old) \in Nat
  BY <1>1, RowsAreFinite, OrderedIs DEF Counted, ListFits
<1>5. ListFits(l)
  BY <1>1, <1>3, <1>4 DEF ListFits
<1>6. Counted(l) = Counted(old)
  BY <1>3 DEF Counted, Wanted
<1>7. l.steady => Current(l)
  BY <1>1, <1>3, <1>6 DEF Current
<1>8. QED
  BY <1>2, <1>3, <1>5, <1>7, QueryGoesOn

\* The rows that are fetched are those the URL asks for.
LEMMA FetchKeeps ==
    ASSUME ListsInv, rows' = rows, incoming' = incoming, NEW r \in Requests, FetchRows(r)
    PROVE  ListsInv'
<1> DEFINE old == lists[r]
           sought == Window(Ordered(old.table, old.url, Wanted(old)),
                            PageOf(old.url, old.total))
           l == [old EXCEPT !.phase = IF old.table = "posts" THEN "labels" ELSE "role",
                            !.shown = sought]
<1>1. ListFits(old) /\ old.phase = "rows" /\ (old.steady => Current(old))
  BY DEF ListsInv, FetchRows
<1>2. lists' = [lists EXCEPT ![r] = l]
  BY DEF FetchRows, Draw1
<1> HIDE DEF sought
<1>3. /\ DOMAIN l = ListFields
      /\ l.phase = (IF old.table = "posts" THEN "labels" ELSE "role")
      /\ l.table = old.table /\ l.url = old.url /\ l.layout = old.layout
      /\ l.declared = old.declared /\ l.options = old.options /\ l.total = old.total
      /\ l.offers = old.offers /\ l.via = old.via /\ l.before = old.before
      /\ l.steady = old.steady /\ l.shown = sought
  BY <1>1 DEF ListFits, ListFields
<1> HIDE DEF l
<1>4. ListFits(l)
  BY <1>1, <1>3 DEF ListFits
<1>5. Counted(l) = Counted(old) /\ Wanted(l) = Wanted(old)
  BY <1>3 DEF Counted, Wanted
<1>6. old.steady => sought = Sought(l)
  BY <1>1, <1>3, <1>5 DEF Current, Sought, sought
<1>7. l.steady => Current(l)
  BY <1>1, <1>3, <1>5, <1>6 DEF Current
<1>8. QED
  BY <1>2, <1>3, <1>4, <1>7, QueryGoesOn

\* The authors that can be named are those there are.
LEMMA LabelsKeep ==
    ASSUME ListsInv, rows' = rows, incoming' = incoming, NEW r \in Requests, ResolveLabels(r)
    PROVE  ListsInv'
<1> DEFINE old == lists[r]
           l == [old EXCEPT !.phase = "role", !.named = DOMAIN rows["authors"]]
<1>1. ListFits(old) /\ old.phase = "labels" /\ (old.steady => Current(old))
  BY DEF ListsInv, ResolveLabels
<1>2. lists' = [lists EXCEPT ![r] = l]
  BY DEF ResolveLabels, Draw1
<1>3. /\ DOMAIN l = ListFields /\ l.phase = "role"
      /\ l.table = old.table /\ l.url = old.url /\ l.layout = old.layout
      /\ l.declared = old.declared /\ l.options = old.options /\ l.total = old.total
      /\ l.offers = old.offers /\ l.via = old.via /\ l.before = old.before
      /\ l.steady = old.steady /\ l.shown = old.shown /\ l.named = DOMAIN rows["authors"]
  BY <1>1 DEF ListFits, ListFields
<1> HIDE DEF l
<1>4. ListFits(l)
  BY <1>1, <1>3 DEF ListFits
<1>5. Counted(l) = Counted(old) /\ Sought(l) = Sought(old)
  BY <1>3 DEF Counted, Sought, Wanted
<1>6. l.steady => Current(l)
  BY <1>1, <1>3, <1>5 DEF Current
<1>7. QED
  BY <1>2, <1>3, <1>4, <1>6, QueryGoesOn

\* What ReadRole makes of a page.
LEMMA RoleReads ==
    ASSUME ListsInv, NEW r \in Requests, ReadRole(r)
    PROVE  \E offers \in SUBSET {"create", "edit", "delete"} :
              lists' = [lists EXCEPT ![r] = [lists[r] EXCEPT !.phase = "shown", !.user = None,
                                                             !.offers = offers]]
<1> DEFINE tier == IF Lookup("users", lists[r].user) THEN TierOf[rows["users"][lists[r].user]]
                   ELSE "none"
           offers == PermissionsFor(tier, lists[r].table)
                         \ (IF lists[r].table = "users" THEN {"create"} ELSE {})
<1>1. \A x, t : PermissionsFor(x, t) \subseteq {"create", "edit", "delete"}
  BY DEF PermissionsFor
<1>2. offers \subseteq {"create", "edit", "delete"}
  BY <1>1
<1>3. lists' = [lists EXCEPT ![r] = [lists[r] EXCEPT !.phase = "shown", !.user = None,
                                                     !.offers = offers]]
  BY DEF ReadRole, Draw1
<1> HIDE DEF offers
<1>4. QED
  BY <1>2, <1>3

\* The last query draws the page.
LEMMA RoleKeeps ==
    ASSUME ListsInv, rows' = rows, incoming' = incoming, NEW r \in Requests, ReadRole(r)
    PROVE  ListsInv'
<1> DEFINE old == lists[r]
<1>1. ListFits(old) /\ old.phase = "role" /\ (old.steady => Current(old))
  BY DEF ListsInv, ReadRole
<1>2. PICK offers \in SUBSET {"create", "edit", "delete"} :
          lists' = [lists EXCEPT ![r] = [old EXCEPT !.phase = "shown", !.user = None,
                                                    !.offers = offers]]
  BY RoleReads
<1> DEFINE l == [old EXCEPT !.phase = "shown", !.user = None, !.offers = offers]
<1>3. /\ DOMAIN l = ListFields /\ l.phase = "shown"
      /\ l.table = old.table /\ l.url = old.url /\ l.layout = old.layout
      /\ l.declared = old.declared /\ l.options = old.options /\ l.total = old.total
      /\ l.offers = offers /\ l.via = old.via /\ l.before = old.before
      /\ l.steady = old.steady /\ l.shown = old.shown /\ l.named = old.named
  BY <1>1 DEF ListFits, ListFields
<1>a. lists' = [lists EXCEPT ![r] = l]
  BY <1>2
<1> HIDE DEF l
<1>4. ListFits(l)
  BY <1>1, <1>3 DEF ListFits
<1>5. Counted(l) = Counted(old) /\ Sought(l) = Sought(old)
  BY <1>3 DEF Counted, Sought, Wanted
<1>6. l.steady => Current(l)
  BY <1>1, <1>3, <1>5 DEF Current
<1>7. QED
  BY <1>a, <1>3, <1>4, <1>6, QueryGoesOn

\* A tab that shows no list.
LEMMA NoListFits == ListFits(NoList) /\ ~NoList.steady /\ NoList.before = Nothing
<1>1. ListUrl(NoUrl)
  BY DEF ListUrl, NoUrl, Layouts
<1>2. "table" \in Layouts /\ "posts" \in Tables /\ NoUrl.layout \notin Layouts
  BY DEF Layouts, Tables, NoUrl
<1>3. QED
  BY <1>1, <1>2 DEF ListFits, NoList, ListFields

\* Rows change: no page is of one moment any more.
LEMMA UnsettledKeeps == ListsInv /\ Unsettled /\ incoming' = incoming => ListsInv'
<1> SUFFICES ASSUME ListsInv, Unsettled, incoming' = incoming
             PROVE  ListsInv'
  OBVIOUS
<1>1. ASSUME NEW r \in Requests, NEW l, l = lists'[r]
      PROVE  ListFits(l) /\ ~l.steady /\ l.before = Nothing
  <2>1. ListFits(lists[r]) /\ l = [lists[r] EXCEPT !.steady = FALSE, !.before = Nothing]
    BY <1>1 DEF Unsettled, ListsInv
  <2>2. QED
    BY <2>1 DEF ListFits, ListFields
<1>2. DOMAIN lists' = Requests
  BY DEF Unsettled
<1>3. QED
  BY <1>1, <1>2 DEF ListsInv

\* The server stops: the pages that are drawn stay.
LEMMA ListsStopKeeps ==
    ASSUME ListsInv, ListsCrash, incoming' = incoming, rows' = rows
    PROVE  ListsInv'
<1>1. ASSUME NEW r \in Requests, NEW l, l = lists'[r]
      PROVE  /\ ListFits(l)
             /\ l.steady => Current(l)'
             /\ l.before # Nothing => CameFrom(l, l.before)'
  <2>1. l = NoList \/ l = lists[r]
    BY <1>1 DEF ListsCrash
  <2>2. QED
    BY <2>1, NoListFits, SameRows DEF ListsInv
<1>2. DOMAIN lists' = Requests
  BY DEF ListsCrash
<1>3. QED
  BY <1>1, <1>2 DEF ListsInv

\* Every step keeps the invariant.
LEMMA ListsStepKeeps == ListsInv /\ RecordsInv /\ EditsInv /\ ListsMove => ListsInv'
<1> SUFFICES ASSUME ListsInv, RecordsInv, EditsInv, ListsMove
             PROVE  ListsInv'
  OBVIOUS
<1>1. incoming' = incoming
  BY DEF ListsMove
<1>2. ASSUME NEW r \in Requests, NEW q \in Visits[incoming].requests, NEW url,
             StartList(r, q.path[2], q.user, url, q.link), q.path[2] \in Tables, rows' = rows,
             IF q.link = "none" THEN url = q.url
             ELSE lists[r].table = q.path[2] /\ url \in Follow(lists[r], q.link)
      PROVE  ListsInv'
  BY <1>1, <1>2, StartKeeps
<1>3. ASSUME NEW r \in Requests, LeaveList(r), rows' = rows
      PROVE  ListsInv'
  BY <1>1, <1>3, NoListFits, OneList DEF LeaveList
<1>4. ASSUME NEW r \in Requests, ListStep(r), rows' = rows
      PROVE  ListsInv'
  BY <1>1, <1>4, OptionsKeep, CountKeeps, FetchKeeps, LabelsKeep, RoleKeeps DEF ListStep
<1>5. CASE Unsettled
  BY <1>1, <1>5, UnsettledKeeps
<1>6. CASE ListsCrash /\ rows' = rows
  BY <1>1, <1>6, ListsStopKeeps
<1>7. CASE UNCHANGED <<rows, lists>>
  BY <1>1, <1>7, SameRows DEF ListsInv
<1>8. QED
  BY <1>2, <1>3, <1>4, <1>5, <1>6, <1>7 DEF ListsMove

\* No tab shows a list at the start.
LEMMA ListsStart == SiteInit => ListsInv
<1> SUFFICES ASSUME SiteInit
             PROVE  ListsInv
  OBVIOUS
<1>1. incoming \in DOMAIN Visits /\ lists = [r \in Requests |-> NoList]
  BY DEF SiteInit, ListsInit
<1>2. QED
  BY <1>1, NoListFits DEF ListsInv

\* The invariant of the list pages.  A page of one moment agrees with the rows as
\* they are, query by query, and so does the page whose link led to it
\* (list_render, fetch_users_table_state, build_fk_lookups).
THEOREM ListsHold == SiteSpec => []ListsInv
<1>1. ListsInv /\ RecordsInv /\ EditsInv /\ [SiteNext]_siteVars => ListsInv'
  BY MovesOfLists, ListsStepKeeps
<1>2. QED
  BY <1>1, ListsStart, RecordsHold, EditsHold, PTL DEF SiteSpec

-----------------------------------------------------------------------------
\* A page that is drawn shows what its URL asks for.

\* Without rows there is nothing on any page.
LEMMA NoRows ==
    ASSUME NEW p \in Nat, p >= 1
    PROVE  Window(<<>>, p) = <<>>
<1> DEFINE from == (p - 1) * PageSize + 1
           to == Min({p * PageSize, Len(<<>>)})
<1>1. PageSize \in Nat \ {0} /\ p - 1 \in Nat
  BY ListsAssumption
<1>2. (p - 1) * PageSize \in Nat /\ p * PageSize \in Nat
  BY <1>1, Monotone
<1>3. Len(<<>>) = 0
  OBVIOUS
<1>4. from \in Int /\ from >= 1 /\ to \in Int /\ to <= 0
  <2>1. \A x \in Nat : Min({x, 0}) \in Int /\ Min({x, 0}) <= 0
    BY Extremes
  <2>2. to \in Int /\ to <= 0
    BY <1>2, <1>3, <2>1
  <2>3. \A x \in Nat : x + 1 \in Int /\ x + 1 >= 1
    OBVIOUS
  <2>4. QED
    BY <1>2, <2>2, <2>3
<1> HIDE DEF from, to
<1>5. SubSeq(<<>>, from, to) = <<>>
  BY <1>4
<1>6. QED
  BY <1>5 DEF Window, from, to

\* Only its last query draws a page, and the page agrees with the rows then.
LEMMA DrawnPage ==
    ASSUME ListsInv, RecordsInv, ListsMove, NEW r \in Requests, Drawn(r)
    PROVE  LET l == lists'[r]
           IN /\ ListFits(l) /\ Current(l) /\ l.phase = "shown"
              /\ l.before = lists[r].before
              /\ l.before # Nothing => CameFrom(l, l.before)
<1>1. /\ DOMAIN lists = Requests /\ \A s \in Requests : ListFits(lists[s])
      /\ lists[r].phase = "role" /\ lists[r].steady /\ lists'[r].phase = "shown"
  BY DEF Drawn, ListsInv
<1>2. ASSUME NEW s \in Requests, NEW t, NEW user, NEW url, NEW via,
             StartList(s, t, user, url, via)
      PROVE  FALSE
  <2>1. PICK l : /\ lists' = [lists EXCEPT ![s] = l] /\ l.phase # "shown"
    <3> DEFINE l == lists'[s]
    <3>1. lists' = [lists EXCEPT ![s] = l] /\ l.phase # "shown"
      BY <1>1, <1>2 DEF StartList, Draw1, NoList
    <3> HIDE DEF l
    <3>2. QED
      BY <3>1
  <2>2. QED
    BY <1>1, <2>1
<1>3. ASSUME NEW s \in Requests, LeaveList(s)
      PROVE  FALSE
  BY <1>1, <1>3 DEF LeaveList, NoList
<1>4. ~Unsettled
  <2> SUFFICES ASSUME Unsettled
               PROVE  FALSE
    OBVIOUS
  <2>1. lists'[r] = [lists[r] EXCEPT !.steady = FALSE, !.before = Nothing]
    BY DEF Unsettled
  <2>2. QED
    BY <1>1, <2>1 DEF ListFits, ListFields
<1>5. ~ListsCrash
  BY <1>1 DEF ListsCrash, NoList
<1>6. lists' # lists
  BY <1>1
<1>7. ASSUME NEW s \in Requests, ListStep(s)
      PROVE  ReadRole(r)
  <2>1. CASE s = r
    BY <1>1, <1>7, <2>1 DEF ListStep, ReadOptions, CountRows, FetchRows, ResolveLabels
  <2>2. CASE s # r
    <3>1. CASE ReadRole(s)
      BY <1>1, <2>2, <3>1, RoleReads
    <3>2. CASE ReadOptions(s)
      BY <1>1, <2>2, <3>2 DEF ReadOptions, Draw1
    <3>3. CASE CountRows(s)
      BY <1>1, <2>2, <3>3 DEF CountRows, Draw1
    <3>4. CASE FetchRows(s)
      BY <1>1, <2>2, <3>4 DEF FetchRows, Draw1
    <3>5. CASE ResolveLabels(s)
      BY <1>1, <2>2, <3>5 DEF ResolveLabels, Draw1
    <3>6. QED
      BY <1>7, <3>1, <3>2, <3>3, <3>4, <3>5 DEF ListStep
  <2>3. QED
    BY <2>1, <2>2
<1>8. ReadRole(r) /\ rows' = rows /\ incoming' = incoming
  BY <1>2, <1>3, <1>4, <1>5, <1>6, <1>7 DEF ListsMove
<1>9. PICK offers \in SUBSET {"create", "edit", "delete"} :
          lists' = [lists EXCEPT ![r] = [lists[r] EXCEPT !.phase = "shown", !.user = None,
                                                         !.offers = offers]]
  BY <1>8, RoleReads
<1>10. lists'[r].steady = lists[r].steady /\ lists'[r].before = lists[r].before
  BY <1>1, <1>9 DEF ListFits, ListFields
<1>11. ListsInv'
  BY <1>8, RoleKeeps
<1>12. ASSUME NEW l, l = lists'[r]
       PROVE  ListFits(l) /\ Current(l) /\ (l.before # Nothing => CameFrom(l, l.before))
  <2>1. /\ ListFits(l) /\ Current(l)'
        /\ l.before # Nothing => CameFrom(l, l.before)'
    BY <1>1, <1>10, <1>11, <1>12 DEF ListsInv
  <2>2. QED
    BY <1>8, <2>1, SameRows
<1>13. QED
  BY <1>1, <1>10, <1>12

\* The rows of a page that agrees with the rows.
LEMMA CurrentShows ==
    ASSUME RecordsInv, NEW l, ListFits(l), Current(l), l.phase = "shown"
    PROVE  LET all == Ordered(l.table, l.url, Wanted(l))
           IN /\ all \in Seq(DOMAIN rows[l.table])
              /\ Len(all) = Counted(l)
              /\ l.shown = Window(all, PageOf(l.url, Len(all)))
              /\ l.shown \in Seq(DOMAIN rows[l.table])
<1> DEFINE all == Ordered(l.table, l.url, Wanted(l))
<1>1. l.table \in Tables /\ l.url.page \in Int
  BY DEF ListFits, ListUrl
<1>2. all \in Seq(DOMAIN rows[l.table]) /\ Len(all) = Counted(l)
  BY <1>1, RowsAreFinite, OrderedIs DEF Counted
<1>3. l.shown = Window(all, PageOf(l.url, Len(all)))
  BY <1>2 DEF Current, Sought
<1> HIDE DEF all
<1>4. PageOf(l.url, Len(all)) \in Nat /\ PageOf(l.url, Len(all)) >= 1
  <2>1. Len(all) \in Nat
    BY <1>2
  <2>2. PageOf(l.url, Len(all)) \in 1..TotalPages(Len(all)) /\ TotalPages(Len(all)) \in Nat
    BY <1>1, <2>1, PageIs, PagesAre
  <2>3. QED
    BY <2>2
<1>5. l.shown \in Seq(DOMAIN rows[l.table])
  <2>1. CASE all = <<>>
    <3>1. l.shown = <<>>
      BY <1>3, <1>4, <2>1, NoRows
    <3>2. QED
      BY <3>1
  <2>2. CASE all # <<>>
    BY <1>1, <1>2, <1>3, <2>2, PageIsShown
  <2>3. QED
    BY <2>1, <2>2
<1>6. QED
  BY <1>2, <1>3, <1>5 DEF all

\* What a link keeps of the page it stood on.
LEMMA SameQuery ==
    ASSUME NEW l, NEW b, l.table = b.table, NEW filter, Wanted(l) = filter,
           l.url.q = b.url.q, ValidSort(b.table, l.url) = ValidSort(b.table, b.url)
    PROVE  /\ Ordered(l.table, l.url, Wanted(l)) = Ordered(l.table, b.url, filter)
           /\ Counted(l) = Cardinality(Matching(b.table, filter, b.url.q))
BY DEF Ordered, Counted

\* Next: the rows that follow.
LEMMA NextKeeps ==
    ASSUME RecordsInv, NEW l, ListFits(l), Current(l), l.phase = "shown",
           NEW b, CameFrom(l, b), l.via = "next", Wanted(b) = Empty
    PROVE  /\ Within(b.shown \o l.shown, Ordered(l.table, b.url, Empty))
           /\ l.layout = b.layout \/ b.layout = "table"
<1> DEFINE all == Ordered(l.table, b.url, Empty)
           current == PageOf(b.url, b.total)
<1>1. /\ ListFits(b) /\ Current(b) /\ b.phase = "shown"
      /\ b.table = l.table /\ b.declared = l.declared
      /\ l.url \in Follow(b, "next")
  BY DEF CameFrom
<1>2. /\ l.table \in Tables /\ b.url.page \in Int /\ b.layout \in Layouts /\ l.url.page \in Int
      /\ l.url.layout \in Layouts => l.layout = l.url.layout
  BY <1>1 DEF ListFits, ListUrl
<1>3. PICK p \in {current + 1} \cap 1..TotalPages(b.total) : l.url = PageHref(b, p)
  BY <1>1 DEF Follow
<1>4. /\ l.url.page = p /\ l.url.filter = Empty /\ l.url.q = b.url.q
      /\ l.url.sort = ValidSort(b.table, b.url).sort
      /\ l.url.dir = ValidSort(b.table, b.url).dir
      /\ l.url.layout = IF b.layout = "table" THEN "none" ELSE b.layout
  BY <1>3 DEF PageHref, NoUrl
<1>5. l.layout = b.layout \/ b.layout = "table"
  BY <1>2, <1>4
<1>6. ValidSort(b.table, l.url) = ValidSort(b.table, b.url)
  <2>1. "none" \notin Sortable(b.table)
    BY DEF Sortable
  <2>2. QED
    BY <1>4, <2>1 DEF ValidSort
<1>7. Wanted(l) = Empty
  BY <1>4 DEF Wanted, FilterOf
<1>8. Ordered(l.table, l.url, Wanted(l)) = all /\ Counted(l) = Counted(b)
  BY <1>1, <1>4, <1>6, <1>7, SameQuery DEF Counted
<1>9. /\ all \in Seq(DOMAIN rows[l.table]) /\ Len(all) = Counted(b)
      /\ b.shown = Window(all, PageOf(b.url, Len(all)))
      /\ l.shown = Window(all, PageOf(l.url, Len(all)))
  BY <1>1, <1>8, CurrentShows
<1>10. b.total = Len(all)
  BY <1>1, <1>9 DEF Current
<1> HIDE DEF all
<1>11. Len(all) \in Nat /\ current \in 1..TotalPages(Len(all))
  BY <1>2, <1>9, <1>10, PageIs
<1>12. p = current + 1 /\ p \in 1..TotalPages(Len(all)) /\ PageOf(l.url, Len(all)) = p
  <2>1. p = current + 1 /\ p \in 1..TotalPages(Len(all))
    BY <1>3, <1>10
  <2>2. QED
    BY <1>2, <1>4, <1>11, <2>1, PageIs
<1>13. Within(b.shown \o l.shown, all)
  <2>1. CASE all = <<>>
    <3>1. current \in Nat /\ current >= 1 /\ p \in Nat /\ p >= 1
      <4>1. TotalPages(Len(all)) \in Nat
        BY <1>11, PagesAre
      <4>2. QED
        BY <1>11, <1>12, <4>1
    <3>2. b.shown = <<>> /\ l.shown = <<>>
      BY <1>9, <1>10, <1>12, <2>1, <3>1, NoRows
    <3>3. Within(<<>>, <<>>)
      BY DEF Within
    <3>4. QED
      BY <2>1, <3>2, <3>3
  <2>2. CASE all # <<>>
    <3>1. b.shown = Window(all, current) /\ l.shown = Window(all, current + 1)
      BY <1>9, <1>10, <1>12
    <3>2. QED
      BY <1>9, <1>11, <1>12, <2>2, <3>1, NextFollows
  <2>3. QED
    BY <2>1, <2>2
<1>14. QED
  BY <1>5, <1>13 DEF all

\* A link to the first page.
LEMMA FirstPageKeeps ==
    ASSUME RecordsInv, NEW l, ListFits(l), Current(l), l.phase = "shown",
           NEW b, CameFrom(l, b), l.url.page = 1, l.url.q = b.url.q,
           l.url.sort = b.url.sort, l.url.dir = b.url.dir
    PROVE  l.shown = Window(Ordered(l.table, b.url, Wanted(l)), 1)
<1> DEFINE all == Ordered(l.table, l.url, Wanted(l))
<1>1. b.table = l.table
  BY DEF CameFrom
<1>2. ValidSort(b.table, l.url) = ValidSort(b.table, b.url)
  BY DEF ValidSort
<1>3. all = Ordered(l.table, b.url, Wanted(l))
  BY <1>1, <1>2, SameQuery
<1>4. all \in Seq(DOMAIN rows[l.table]) /\ l.shown = Window(all, PageOf(l.url, Len(all)))
  BY CurrentShows
<1> HIDE DEF all
<1>5. PageOf(l.url, Len(all)) = 1
  <2>1. Len(all) \in Nat
    BY <1>4
  <2>2. QED
    BY <2>1, PageIs
<1>6. QED
  BY <1>3, <1>4, <1>5

\* Another layout: the same query from its start.
LEMMA LayoutKeeps ==
    ASSUME RecordsInv, NEW l, ListFits(l), Current(l), l.phase = "shown",
           NEW b, CameFrom(l, b), l.via \in Layouts
    PROVE  l.layout = l.via /\ l.shown = Window(Ordered(l.table, b.url, Wanted(b)), 1)
<1>1. /\ ListFits(b) /\ b.phase = "shown" /\ l.url \in Follow(b, l.via)
      /\ b.table = l.table /\ b.declared = l.declared
  BY DEF CameFrom
<1>2. l.url = LayoutHref(b, l.via)
  BY <1>1 DEF Follow, Layouts
<1>3. DOMAIN b.url = {"q", "filter", "sort", "dir", "layout", "page"}
  BY <1>1 DEF ListFits, ListUrl, NoUrl
<1>4. /\ l.url.page = 1 /\ l.url.q = b.url.q /\ l.url.filter = b.url.filter
      /\ l.url.sort = b.url.sort /\ l.url.dir = b.url.dir /\ l.url.layout = l.via
  BY <1>2, <1>3 DEF LayoutHref
<1>5. Wanted(l) = Wanted(b)
  BY <1>1, <1>4 DEF Wanted, FilterOf
<1>6. l.layout = l.via
  BY <1>4 DEF ListFits
<1>7. QED
  BY <1>4, <1>5, <1>6, FirstPageKeeps

\* Clear: the same query without the filter.
LEMMA ClearKeeps ==
    ASSUME RecordsInv, NEW l, ListFits(l), Current(l), l.phase = "shown",
           NEW b, CameFrom(l, b), l.via = "clear"
    PROVE  l.shown = Window(Ordered(l.table, b.url, Empty), 1)
<1>1. ListFits(b) /\ b.phase = "shown" /\ l.url \in Follow(b, "clear")
  BY DEF CameFrom
<1>2. l.url = ClearHref(b)
  BY <1>1 DEF Follow
<1>3. DOMAIN b.url = {"q", "filter", "sort", "dir", "layout", "page"}
  BY <1>1 DEF ListFits, ListUrl, NoUrl
<1>4. /\ l.url.page = 1 /\ l.url.q = b.url.q /\ l.url.filter = Empty
      /\ l.url.sort = b.url.sort /\ l.url.dir = b.url.dir
  BY <1>2, <1>3 DEF ClearHref
<1>5. Wanted(l) = Empty
  BY <1>4 DEF Wanted, FilterOf
<1>6. QED
  BY <1>4, <1>5, FirstPageKeeps

\* An author on offer has posts.
LEMMA OfferKeeps ==
    ASSUME RecordsInv, NEW l, ListFits(l), Current(l), l.phase = "shown",
           NEW b, CameFrom(l, b), l.via = "filter", ~l.url.q
    PROVE  l.shown # <<>>
<1>1. /\ ListFits(b) /\ Current(b) /\ b.phase = "shown" /\ l.url \in Follow(b, "filter")
      /\ b.table = l.table /\ b.declared = l.declared
  BY DEF CameFrom
<1>2. PICK o \in b.options : l.url = ToolbarUrl(b, b.url.q, o)
  BY <1>1 DEF Follow
<1>3. b.declared /\ o \in Authors /\ l.table = "posts"
  BY <1>1, <1>2 DEF ListFits, Current
<1>4. l.url.filter = o
  BY <1>2 DEF ToolbarUrl
<1>5. PICK p \in DOMAIN rows["posts"] : o = rows["posts"][p]
  BY <1>3 DEF Authors
<1>6. Wanted(l) = o
  BY <1>1, <1>3, <1>4 DEF Wanted, FilterOf
<1>7. p \in Matching(l.table, Wanted(l), l.url.q)
  BY <1>3, <1>5, <1>6 DEF Matching
<1> DEFINE all == Ordered(l.table, l.url, Wanted(l))
<1>8. all # <<>>
  <2>1. l.table \in Tables
    BY DEF ListFits
  <2>2. QED
    BY <1>7, <2>1, RowsAreFinite, OrderedIs
<1>9. all \in Seq(DOMAIN rows[l.table]) /\ l.shown = Window(all, PageOf(l.url, Len(all)))
  BY CurrentShows
<1>10. l.url.page \in Int
  BY DEF ListFits, ListUrl
<1> HIDE DEF all
<1>11. QED
  BY <1>8, <1>9, <1>10, PageIsShown

\* A page whose queries saw one moment shows what its URL asks for, and can name
\* the authors of its posts; its links keep what they promise.  So it is for any
\* rows, any URL and any size of a page (filter_records, build_pagination_view,
\* list_layout_href, build_fk_lookups).
THEOREM PagesShowRows == SiteSpec => ListsAreSound
<1> DEFINE Shows ==
        \A r \in Requests : Drawn(r) =>
          LET l == lists'[r]
              all == Ordered(l.table, l.url, Wanted(l))
          IN /\ all # <<>> =>
                /\ l.shown # <<>> /\ Len(l.shown) <= PageSize
                /\ Within(l.shown, all)
                /\ l.url.page <= 1 => Head(l.shown) = Head(all)
                /\ l.url.page * PageSize >= Len(all) => Last(l.shown) = Last(all)
             /\ l.table = "posts" =>
                  \A p \in ToSet(l.shown) : rows["posts"][p] \in l.named \cup {None}
           Keeps ==
        \A r \in Requests : Drawn(r) /\ lists[r].before # Nothing =>
          LET l == lists'[r]
              b == l.before
          IN /\ l.via = "next" /\ Wanted(b) = Empty =>
                /\ Within(b.shown \o l.shown, Ordered(l.table, b.url, Empty))
                /\ l.layout = b.layout \/ b.layout = "table"
             /\ l.via \in Layouts =>
                l.layout = l.via /\ l.shown = Window(Ordered(l.table, b.url, Wanted(b)), 1)
             /\ l.via = "clear" => l.shown = Window(Ordered(l.table, b.url, Empty), 1)
             /\ l.via = "filter" /\ ~l.url.q => l.shown # <<>>
<1>1. ListsInv /\ RecordsInv /\ ListsMove => Shows
  <2> SUFFICES ASSUME ListsInv, RecordsInv, ListsMove, NEW r \in Requests, Drawn(r),
                      NEW l, l = lists'[r], NEW all, all = Ordered(l.table, l.url, Wanted(l))
               PROVE  /\ all # <<>> =>
                         /\ l.shown # <<>> /\ Len(l.shown) <= PageSize
                         /\ Within(l.shown, all)
                         /\ l.url.page <= 1 => Head(l.shown) = Head(all)
                         /\ l.url.page * PageSize >= Len(all) => Last(l.shown) = Last(all)
                      /\ l.table = "posts" =>
                           \A p \in ToSet(l.shown) : rows["posts"][p] \in l.named \cup {None}
    OBVIOUS
  <2>1. ListFits(l) /\ Current(l) /\ l.phase = "shown"
    BY DrawnPage
  <2>2. /\ all \in Seq(DOMAIN rows[l.table]) /\ l.shown \in Seq(DOMAIN rows[l.table])
        /\ l.shown = Window(all, PageOf(l.url, Len(all))) /\ l.url.page \in Int
    BY <2>1, CurrentShows DEF ListFits, ListUrl
  <2>3. ASSUME all # <<>>
        PROVE  /\ l.shown # <<>> /\ Len(l.shown) <= PageSize
               /\ Within(l.shown, all)
               /\ l.url.page <= 1 => Head(l.shown) = Head(all)
               /\ l.url.page * PageSize >= Len(all) => Last(l.shown) = Last(all)
    BY <2>2, <2>3, PageIsShown
  <2>4. ASSUME l.table = "posts", NEW p \in ToSet(l.shown)
        PROVE  rows["posts"][p] \in l.named \cup {None}
    <3>1. p \in DOMAIN rows["posts"]
      BY <2>2, <2>4 DEF ToSet
    <3>2. l.named = DOMAIN rows["authors"]
      BY <2>1, <2>4 DEF Current
    <3>3. QED
      BY <3>1, <3>2 DEF RecordsInv, NoDangling
  <2>5. QED
    BY <2>3, <2>4
<1>2. ListsInv /\ RecordsInv /\ ListsMove => Keeps
  <2> SUFFICES ASSUME ListsInv, RecordsInv, ListsMove, NEW r \in Requests, Drawn(r),
                      lists[r].before # Nothing, NEW l, l = lists'[r], NEW b, b = l.before
               PROVE  /\ l.via = "next" /\ Wanted(b) = Empty =>
                         /\ Within(b.shown \o l.shown, Ordered(l.table, b.url, Empty))
                         /\ l.layout = b.layout \/ b.layout = "table"
                      /\ l.via \in Layouts =>
                         /\ l.layout = l.via
                         /\ l.shown = Window(Ordered(l.table, b.url, Wanted(b)), 1)
                      /\ l.via = "clear" => l.shown = Window(Ordered(l.table, b.url, Empty), 1)
                      /\ l.via = "filter" /\ ~l.url.q => l.shown # <<>>
    OBVIOUS
  <2>1. ListFits(l) /\ Current(l) /\ l.phase = "shown" /\ CameFrom(l, b)
    BY DrawnPage
  <2>2. QED
    BY <2>1, NextKeeps, LayoutKeeps, ClearKeeps, OfferKeeps
<1>3. ListsInv /\ RecordsInv /\ [SiteNext]_siteVars => [Shows]_<<recordVars, listVars>>
  BY <1>1, MovesOfLists
<1>4. ListsInv /\ RecordsInv /\ [SiteNext]_siteVars => [Keeps]_<<recordVars, listVars>>
  BY <1>2, MovesOfLists
<1>5. QED
  BY <1>3, <1>4, ListsHold, RecordsHold, PTL
     DEF SiteSpec, ListsAreSound, PageShowsRows, LinksKeepQuery

-----------------------------------------------------------------------------
\* The types of the variables, for any constants, and that a slot does one thing at
\* a time.  The invariants above know most of it; what is added says which
\* phases there are, that the bounds hold, and that an id which is about to be
\* recorded is one that was handed out.

RecordPhases ==
    Replies \cup {"insert", "exists", "update", "find", "delete", "record", "read"}

TaskTyped(t) ==
    /\ t.phase \in RecordPhases
    /\ t.phase = "record" => Head(t.ids) \in 1..MaxId

RecordTypes ==
    /\ policy \in Policies
    /\ \A t \in Tables : seq[t] \in 0..MaxId
    /\ \A e \in log : e.action \in {"create", "delete"} /\ e.id \in 1..MaxId
    /\ \A r \in Requests : TaskTyped(task[r])
    /\ logFaults \in 0..MaxLogFaults

\* One request goes on; the log keeps the types it has.
LEMMA OneTaskTyped ==
    ASSUME RecordTypes, RecordsInv, NEW r \in Requests, NEW t, TaskTyped(t),
           task' = [task EXCEPT ![r] = t],
           policy' = policy, \A u \in Tables : seq'[u] \in 0..MaxId,
           \A e \in log' : e.action \in {"create", "delete"} /\ e.id \in 1..MaxId,
           logFaults' \in 0..MaxLogFaults
    PROVE  RecordTypes'
<1>1. \A s \in Requests : task'[s] = IF s = r THEN t ELSE task[s]
  BY DEF RecordsInv
<1>2. ASSUME NEW s \in Requests
      PROVE  TaskTyped(task'[s])
  BY <1>1, <1>2 DEF RecordTypes
<1>3. QED
  BY <1>2 DEF RecordTypes, TaskTyped

\* A request begins.
LEMMA BegunTyped ==
    ASSUME RecordTypes, RecordsInv, NEW r \in Requests, NEW q, NEW handler,
           RecordHandler(r, handler, q)
    PROVE  RecordTypes'
<1>1. ASSUME NEW kind, NEW phase \in RecordPhases \ {"record"}, NEW table, NEW ids,
             NEW user, NEW value, Begin(r, kind, phase, table, ids, user, value)
      PROVE  RecordTypes'
  <2> DEFINE t == [NoTask EXCEPT !.phase = phase, !.kind = kind, !.table = table,
                                 !.ids = ids, !.user = user, !.value = value]
  <2>1. task' = [task EXCEPT ![r] = t] /\ UNCHANGED <<seq, log, policy, logFaults>>
    BY <1>1 DEF Begin
  <2>2. TaskTyped(t)
    BY DEF TaskTyped, NoTask
  <2> HIDE DEF t
  <2>3. QED
    BY <2>1, <2>2, OneTaskTyped DEF RecordTypes
<1>2. ASSUME NEW kind, NEW reply \in Replies, Reply(r, kind, reply)
      PROVE  RecordTypes'
  <2> DEFINE t == [NoTask EXCEPT !.phase = reply, !.kind = kind]
  <2>1. task' = [task EXCEPT ![r] = t] /\ UNCHANGED <<seq, log, policy, logFaults>>
    BY <1>2 DEF Reply
  <2>2. TaskTyped(t)
    BY DEF TaskTyped, NoTask, RecordPhases, Replies
  <2> HIDE DEF t
  <2>3. QED
    BY <2>1, <2>2, OneTaskTyped DEF RecordTypes
<1>3. ASSUME NEW table, NEW id, NEW user, NEW value, NEW token,
             StartUpdate(r, table, id, user, value, token)
      PROVE  RecordTypes'
  <2> DEFINE t == [NoTask EXCEPT !.phase = "exists", !.kind = "update", !.table = table,
                                 !.ids = <<id>>, !.user = user, !.value = value,
                                 !.token = token]
  <2>1. task' = [task EXCEPT ![r] = t] /\ UNCHANGED <<seq, log, policy, logFaults>>
    BY <1>3 DEF StartUpdate
  <2>2. TaskTyped(t)
    BY DEF TaskTyped, NoTask, RecordPhases
  <2> HIDE DEF t
  <2>3. QED
    BY <2>1, <2>2, OneTaskTyped DEF RecordTypes
<1>4. {"insert", "delete", "find", "read"} \subseteq RecordPhases \ {"record"}
      /\ {"refused", "saved", "shown"} \subseteq Replies
  BY DEF RecordPhases, Replies
<1>5. QED
  BY <1>1, <1>2, <1>3, <1>4
     DEF RecordHandler, StartCreate, StartLegacyCreate, StartDelete, StartBulk, StartRead

\* A request goes on by a statement.
LEMMA StatementTyped ==
    ASSUME RecordTypes, RecordsInv, NEW r \in Requests, RecordStep(r)
    PROVE  RecordTypes'
<1> DEFINE t == task[r]
<1>1. /\ DOMAIN task = Requests /\ DOMAIN t = TaskFields /\ t.table \in Tables
      /\ TaskTyped(t) /\ DOMAIN seq = Tables
      /\ \A u \in Tables : seq[u] \in 0..MaxId
  BY DEF RecordsInv, TaskFits, RecordTypes, IdsUsed
<1>2. ASSUME NEW reply \in Replies, NEW x
      PROVE  TaskTyped(Replied(x, reply))
  BY DEF TaskTyped, Replied, NoTask, RecordPhases, Replies
<1>3. ASSUME NEW reply \in Replies, task' = Answer(r, reply), policy' = policy,
             \A u \in Tables : seq'[u] \in 0..MaxId,
             \A e \in log' : e.action \in {"create", "delete"} /\ e.id \in 1..MaxId,
             logFaults' \in 0..MaxLogFaults
      PROVE  RecordTypes'
  BY <1>2, <1>3, OneTaskTyped DEF Answer
<1>4. {"saved", "form", "failed", "missing", "refused", "shown"} \subseteq Replies
  BY DEF Replies
<1>5. CASE InsertRow(r)
  <2>1. /\ NextId(t.table) \in 1..MaxId /\ seq' = [seq EXCEPT ![t.table] = NextId(t.table)]
        /\ log' = log /\ policy' = policy /\ logFaults' = logFaults
    BY <1>1, <1>5 DEF InsertRow, NextId
  <2>2. \A u \in Tables : seq'[u] \in 0..MaxId
    BY <1>1, <2>1
  <2>3. CASE t.kind = "create"
    <3>1. task' = Answer(r, "saved")
      BY <1>5, <2>3 DEF InsertRow
    <3>2. QED
      BY <1>3, <1>4, <2>1, <2>2, <3>1 DEF RecordTypes
  <2>4. CASE t.kind # "create"
    <3> DEFINE x == [t EXCEPT !.phase = "record", !.ids = <<NextId(t.table)>>]
    <3>1. task' = [task EXCEPT ![r] = x]
      BY <1>1, <1>5, <2>4 DEF InsertRow
    <3>2. TaskTyped(x)
      BY <1>1, <2>1 DEF TaskTyped, RecordPhases, TaskFields
    <3> HIDE DEF x
    <3>3. QED
      BY <2>1, <2>2, <3>1, <3>2, OneTaskTyped DEF RecordTypes
  <2>5. QED
    BY <2>3, <2>4
<1>6. CASE InsertRefused(r)
  <2>1. (task' = Answer(r, "form") \/ task' = Answer(r, "failed"))
        /\ UNCHANGED <<seq, log, policy, logFaults>>
    BY <1>6 DEF InsertRefused
  <2>2. QED
    BY <1>3, <1>4, <2>1 DEF RecordTypes
<1>7. CASE CheckExists(r)
  <2> DEFINE x == [t EXCEPT !.phase = "update"]
  <2>1. /\ \/ task' = Answer(r, "missing") \/ task' = Answer(r, "refused")
           \/ task' = [task EXCEPT ![r] = x]
        /\ UNCHANGED <<seq, log, policy, logFaults>>
    BY <1>1, <1>7 DEF CheckExists
  <2>2. TaskTyped(x)
    BY <1>1 DEF TaskTyped, RecordPhases, TaskFields
  <2> HIDE DEF x
  <2>3. QED
    BY <1>3, <1>4, <2>1, <2>2, OneTaskTyped DEF RecordTypes
<1>8. CASE UpdateRow(r) \/ UpdateRefused(r)
  <2>1. (task' = Answer(r, "form") \/ task' = Answer(r, "saved"))
        /\ UNCHANGED <<seq, log, policy, logFaults>>
    BY <1>8 DEF UpdateRow, UpdateRefused
  <2>2. QED
    BY <1>3, <1>4, <2>1 DEF RecordTypes
<1>9. CASE FindRow(r)
  <2> DEFINE x == [t EXCEPT !.phase = "delete"]
             y == [t EXCEPT !.ids = Tail(t.ids)]
  <2>1. /\ \/ task' = Answer(r, "saved")
           \/ task' = [task EXCEPT ![r] = x] \/ task' = [task EXCEPT ![r] = y]
        /\ UNCHANGED <<seq, log, policy, logFaults>>
    BY <1>1, <1>9 DEF FindRow
  <2>2. t.phase = "find"
    BY <1>9 DEF FindRow, At
  <2>3. TaskTyped(x) /\ TaskTyped(y)
    BY <1>1, <2>2 DEF TaskTyped, RecordPhases, TaskFields
  <2> HIDE DEF x, y
  <2>4. QED
    BY <1>3, <1>4, <2>1, <2>3, OneTaskTyped DEF RecordTypes
<1>10. CASE DeleteRow(r)
  <2> DEFINE x == [t EXCEPT !.phase = "record"]
  <2>1. /\ t.phase = "delete" /\ UNCHANGED <<seq, policy, logFaults>>
        /\ IF t.kind = "bulk" THEN task' = [task EXCEPT ![r] = x]
           ELSE task' = Answer(r, "saved")
    BY <1>1, <1>10 DEF DeleteRow, At
  <2>2. log' \subseteq log
    BY <1>10 DEF DeleteRow, LogWithout
  <2>3. t.kind = "bulk" => TaskTyped(x)
    <3>1. t.kind = "bulk" => Head(t.ids) \in 1..seq[t.table]
      BY <2>1 DEF RecordsInv, TaskFits
    <3>2. t.kind = "bulk" => Head(t.ids) \in 1..MaxId
      BY <1>1, <3>1, RecordsAssumption
    <3>3. QED
      BY <1>1, <3>2 DEF TaskTyped, RecordPhases, TaskFields
  <2> HIDE DEF x
  <2>4. QED
    BY <1>3, <1>4, <2>1, <2>2, <2>3, OneTaskTyped DEF RecordTypes
<1>11. CASE DeleteRefused(r)
  <2>1. task' = Answer(r, "failed") /\ UNCHANGED <<seq, log, policy, logFaults>>
    BY <1>11 DEF DeleteRefused
  <2>2. QED
    BY <1>3, <1>4, <2>1 DEF RecordTypes
<1>12. CASE RecordEntry(r)
  <2> DEFINE x == [t EXCEPT !.phase = "find", !.ids = Tail(t.ids)]
             e == LogEntry(t, Action(t), Head(t.ids))
  <2>1. /\ t.phase = "record" /\ log' = log \cup {e}
        /\ task' = Answer(r, "saved") \/ task' = [task EXCEPT ![r] = x]
        /\ UNCHANGED <<seq, policy, logFaults>>
    BY <1>1, <1>12 DEF RecordEntry, At, Head1
  <2>2. TaskTyped(x)
    BY <1>1 DEF TaskTyped, RecordPhases, TaskFields
  <2>3. e.action \in {"create", "delete"} /\ e.id \in 1..MaxId
    BY <1>1, <2>1 DEF TaskTyped, LogEntry, Action
  <2> HIDE DEF x, e
  <2>4. QED
    BY <1>3, <1>4, <2>1, <2>2, <2>3, OneTaskTyped DEF RecordTypes
<1>13. CASE RecordFails(r)
  <2>1. /\ task' = Answer(r, "failed") /\ UNCHANGED <<seq, log, policy>>
        /\ logFaults' = logFaults \/ (logFaults' = logFaults + 1 /\ logFaults < MaxLogFaults)
    BY <1>13 DEF RecordFails
  <2>2. logFaults' \in 0..MaxLogFaults
    BY <2>1, RecordsAssumption DEF RecordTypes
  <2>3. QED
    BY <1>3, <1>4, <2>1, <2>2 DEF RecordTypes
<1>14. CASE ReadRow(r)
  <2>1. (task' = Answer(r, "shown") \/ task' = Answer(r, "missing"))
        /\ UNCHANGED <<seq, log, policy, logFaults>>
    BY <1>14 DEF ReadRow
  <2>2. QED
    BY <1>3, <1>4, <2>1 DEF RecordTypes
<1>15. QED
  BY <1>5, <1>6, <1>7, <1>8, <1>9, <1>10, <1>11, <1>12, <1>13, <1>14 DEF RecordStep

\* Every step of the site keeps the types of the records.
LEMMA RecordTypesKeep == RecordTypes /\ RecordsInv /\ RecordsMove => RecordTypes'
<1> SUFFICES ASSUME RecordTypes, RecordsInv, RecordsMove
             PROVE  RecordTypes'
  OBVIOUS
<1>1. ASSUME NEW r \in Requests, NEW reply \in Replies, Reply(r, "none", reply)
      PROVE  RecordTypes'
  <2> DEFINE t == [NoTask EXCEPT !.phase = reply, !.kind = "none"]
  <2>1. task' = [task EXCEPT ![r] = t] /\ UNCHANGED <<seq, log, policy, logFaults>>
    BY <1>1 DEF Reply
  <2>2. TaskTyped(t)
    BY DEF TaskTyped, NoTask, RecordPhases, Replies
  <2> HIDE DEF t
  <2>3. QED
    BY <2>1, <2>2, OneTaskTyped DEF RecordTypes
<1>2. CASE RecordsCrash
  <2>1. ASSUME NEW r \in Requests
        PROVE  TaskTyped(task'[r])
    <3>1. task'[r] = task[r] \/ task'[r] = Replied(task[r], "failed")
      BY <1>2 DEF RecordsCrash
    <3>2. TaskTyped(Replied(task[r], "failed"))
      BY DEF TaskTyped, Replied, NoTask, RecordPhases, Replies
    <3>3. QED
      BY <3>1, <3>2 DEF RecordTypes
  <2>2. UNCHANGED <<seq, log, policy, logFaults>>
    BY <1>2 DEF RecordsCrash
  <2>3. QED
    BY <2>1, <2>2 DEF RecordTypes, TaskTyped
<1>3. CASE UNCHANGED recordVars
  BY <1>3 DEF recordVars, RecordTypes, TaskTyped
<1>4. QED
  BY <1>1, <1>2, <1>3, BegunTyped, StatementTyped DEF RecordsMove

\* What Records says of its types follows.
LEMMA RecordsTyped == RecordTypes /\ RecordsInv => RecordsTypeOK
<1> SUFFICES ASSUME RecordTypes, RecordsInv
             PROVE  RecordsTypeOK
  OBVIOUS
<1>1. ASSUME NEW t \in Tables
      PROVE  DOMAIN rows[t] \subseteq 1..MaxId /\ seq[t] \in 0..MaxId
  <2>1. seq[t] \in 0..MaxId /\ DOMAIN rows[t] \subseteq 1..seq[t]
    BY <1>1 DEF RecordTypes, RecordsInv, IdsUsed
  <2>2. QED
    BY <2>1, RecordsAssumption
<1>2. \A p \in DOMAIN rows["posts"] : rows["posts"][p] \in 1..MaxId \cup {None}
  <2>1. DOMAIN rows["authors"] \subseteq 1..MaxId
    BY <1>1 DEF Tables
  <2>2. QED
    BY <2>1 DEF RecordsInv, NoDangling
<1>3. QED
  BY <1>1, <1>2 DEF RecordsTypeOK, RecordTypes, TaskTyped, RecordPhases, RecordsInv, TaskFits

-----------------------------------------------------------------------------
\* The types of the views: a writer has an inode also when saves share one.

SavePhases == Answers \cup {"drafted", "cleared", "opened", "filled"}

SaveTyped(x) == x.phase \in SavePhases /\ x.fd \in Inodes \cup {None}

ViewTypes ==
    /\ \A i \in Inodes : content[i].state \in {"empty", "partial", "whole"}
    /\ \A r \in Requests : SaveTyped(save[r])
    /\ shared \in BOOLEAN
    /\ exposed \subseteq Sources
    /\ viewFaults \in 0..MaxViewFaults

\* One request goes on.
LEMMA OneSaveTyped ==
    ASSUME ViewTypes, EditsInv, NEW r \in Requests, NEW x, SaveTyped(x),
           save' = [save EXCEPT ![r] = x],
           \A i \in Inodes : content'[i].state \in {"empty", "partial", "whole"},
           shared' \in BOOLEAN, exposed' \subseteq Sources, viewFaults' \in 0..MaxViewFaults
    PROVE  ViewTypes'
<1>1. \A s \in Requests : save'[s] = IF s = r THEN x ELSE save[s]
  BY DEF EditsInv
<1>2. ASSUME NEW s \in Requests
      PROVE  SaveTyped(save'[s])
  BY <1>1, <1>2 DEF ViewTypes
<1>3. QED
  BY <1>2 DEF ViewTypes, SaveTyped

\* A request starts to save, or is answered.
LEMMA AskingTyped ==
    ASSUME ViewTypes, EditsInv, NEW r \in Requests,
           UNCHANGED <<content, shared, viewFaults>>, exposed' \subseteq Sources,
           \/ \E v : Draft(r, v)
           \/ \E answer \in Answers : save' = [save EXCEPT ![r] = Ended(answer)]
    PROVE  ViewTypes'
<1>1. \A v : SaveTyped([phase |-> "drafted", draft |-> v, fd |-> None])
  BY DEF SaveTyped, SavePhases
<1>2. \A answer \in Answers : SaveTyped(Ended(answer))
  BY DEF SaveTyped, SavePhases, Ended, Idle
<1>3. "invalid" \in Answers
  BY DEF Answers
<1>4. PICK x : SaveTyped(x) /\ save' = [save EXCEPT ![r] = x]
  BY <1>1, <1>2, <1>3 DEF Draft
<1>5. QED
  BY <1>4, OneSaveTyped DEF ViewTypes

\* A request that saves goes on: it takes an inode, fills one, or is answered.
LEMMA WritingTyped ==
    ASSUME ViewTypes, EditsInv, NEW r \in Requests, WriteStep(r)
    PROVE  ViewTypes'
<1> DEFINE x == save[r]
           States == {"empty", "partial", "whole"}
<1>1. /\ DOMAIN save = Requests /\ DOMAIN x = SaveFields /\ SaveTyped(x)
      /\ DOMAIN content = Inodes /\ \A i \in Inodes : content[i].state \in States
      /\ shared \in BOOLEAN /\ exposed \subseteq Sources /\ viewFaults \in 0..MaxViewFaults
  BY DEF EditsInv, ViewTypes
<1>2. /\ Blank.state \in States /\ Partial.state \in States
      /\ \A v : Whole(v).state \in States
  BY DEF Blank, Partial, Whole
<1>3. \A named, i : i \in Inodes => Tidy(content, named)[i].state \in States
  BY <1>1, <1>2 DEF Tidy
<1>4. \A i, c : c.state \in States =>
          \A j \in Inodes : [content EXCEPT ![i] = c][j].state \in States
  BY <1>1
<1>5. \A answer \in Answers : SaveTyped(Ended(answer))
  BY DEF SaveTyped, SavePhases, Ended, Idle
<1>6. {"saved", "failed"} \subseteq Answers /\ MaxViewFaults \in Nat
  BY InodesAssumption DEF Answers
<1> HIDE DEF States
<1>7. CASE RemoveTmp(r)
  <2> DEFINE y == [x EXCEPT !.phase = "cleared"]
  <2>1. /\ save' = [save EXCEPT ![r] = y] /\ content' = Tidy(content, {saved} \cup Held(save))
        /\ shared' \in BOOLEAN /\ exposed' = exposed /\ viewFaults' = viewFaults
    BY <1>1, <1>7 DEF RemoveTmp
  <2>2. SaveTyped(y)
    BY <1>1 DEF SaveTyped, SavePhases, SaveFields
  <2> HIDE DEF y
  <2>3. QED
    BY <1>1, <1>3, <2>1, <2>2, OneSaveTyped DEF States
<1>8. CASE OpenTmp(r)
  <2> DEFINE i == IF tmp = None THEN CHOOSE j \in Inodes : j \notin {saved} \cup Held(save)
                  ELSE tmp
             y == [x EXCEPT !.phase = "opened", !.fd = i]
  <2>a. /\ save' = [save EXCEPT ![r].phase = "opened", ![r].fd = i]
        /\ content' = [content EXCEPT ![i] = Blank]
        /\ shared' = (shared \/ tmp # None) /\ exposed' = exposed /\ viewFaults' = viewFaults
    BY <1>8 DEF OpenTmp
  <2> HIDE DEF i
  <2>1. /\ save' = [save EXCEPT ![r] = y] /\ content' = [content EXCEPT ![i] = Blank]
        /\ shared' \in BOOLEAN /\ exposed' = exposed /\ viewFaults' = viewFaults
    BY <1>1, <2>a
  <2>2. i \in Inodes
    <3>1. (CHOOSE j \in Inodes : j \notin {saved} \cup Held(save)) \in Inodes
      BY UnnamedInode
    <3>2. QED
      BY <3>1 DEF EditsInv, i
  <2>3. SaveTyped(y)
    BY <1>1, <2>2 DEF SaveTyped, SavePhases, SaveFields
  <2> HIDE DEF y
  <2>4. \A j \in Inodes : content'[j].state \in States
    BY <1>2, <1>4, <2>1
  <2>5. QED
    BY <1>1, <2>1, <2>3, <2>4, OneSaveTyped DEF States
<1>9. CASE FillTmp(r)
  <2> DEFINE y == [x EXCEPT !.phase = "filled"]
  <2>1. PICK c \in {Whole(x.draft), Partial} : content' = [content EXCEPT ![x.fd] = c]
    BY <1>9 DEF FillTmp
  <2>2. /\ save' = [save EXCEPT ![r] = y]
        /\ shared' = shared /\ exposed' = exposed /\ viewFaults' = viewFaults
    BY <1>1, <1>9 DEF FillTmp
  <2>3. SaveTyped(y)
    BY <1>1 DEF SaveTyped, SavePhases, SaveFields
  <2> HIDE DEF y
  <2>4. \A j \in Inodes : content'[j].state \in States
    BY <1>2, <1>4, <2>1
  <2>5. QED
    BY <1>1, <2>2, <2>3, <2>4, OneSaveTyped DEF States
<1>10. CASE FillFails(r)
  <2>1. /\ save' = [save EXCEPT ![r] = Ended("failed")]
        /\ content' = [content EXCEPT ![x.fd] = Partial]
        /\ shared' = shared /\ exposed' = exposed
        /\ viewFaults' = viewFaults + 1 /\ viewFaults < MaxViewFaults
    BY <1>10 DEF FillFails
  <2>2. viewFaults' \in 0..MaxViewFaults
    BY <1>1, <1>6, <2>1
  <2>3. \A j \in Inodes : content'[j].state \in States
    BY <1>2, <1>4, <2>1
  <2>4. QED
    BY <1>1, <1>5, <1>6, <2>1, <2>2, <2>3, OneSaveTyped DEF States
<1>11. CASE Rename(r)
  <2>1. /\ save' = [save EXCEPT ![r] = Ended("saved")]
        /\ content' = Tidy(content, {tmp} \cup Held(save'))
        /\ shared' = shared /\ exposed' = exposed /\ viewFaults' = viewFaults
    BY <1>11 DEF Rename
  <2>2. \A j \in Inodes : content'[j].state \in States
    BY <1>3, <2>1
  <2>3. QED
    BY <1>1, <1>5, <1>6, <2>1, <2>2, OneSaveTyped DEF States
<1>12. CASE RenameFails(r)
  <2>1. /\ save' = [save EXCEPT ![r] = Ended("failed")]
        /\ content' = Tidy(content, {saved} \cup Held(save'))
        /\ shared' = shared /\ exposed' = exposed
        /\ tmp = None \/ viewFaults < MaxViewFaults
        /\ viewFaults' = IF tmp = None THEN viewFaults ELSE viewFaults + 1
    BY <1>12 DEF RenameFails
  <2>2. viewFaults' \in 0..MaxViewFaults
    BY <1>1, <1>6, <2>1
  <2>3. \A j \in Inodes : content'[j].state \in States
    BY <1>3, <2>1
  <2>4. QED
    BY <1>1, <1>5, <1>6, <2>1, <2>2, <2>3, OneSaveTyped DEF States
<1>13. QED
  BY <1>7, <1>8, <1>9, <1>10, <1>11, <1>12 DEF WriteStep

\* Every step of the site keeps the types of the views.
LEMMA ViewTypesKeep == ViewTypes /\ EditsInv /\ EditsMove => ViewTypes'
<1> SUFFICES ASSUME ViewTypes, EditsInv, EditsMove
             PROVE  ViewTypes'
  OBVIOUS
<1>1. {"refused", "rejected", "idle"} \subseteq Answers
  BY DEF Answers
<1>2. exposed \subseteq Sources
  BY DEF ViewTypes
<1>3. ASSUME NEW r \in Requests, NEW layout, SubmitLayout(r, layout)
      PROVE  ViewTypes'
  <2>1. /\ UNCHANGED <<content, shared, viewFaults, exposed>>
        /\ (\E v : Draft(r, v)) \/ save' = [save EXCEPT ![r] = Ended("refused")]
    BY <1>3 DEF SubmitLayout
  <2>2. QED
    BY <1>1, <1>2, <2>1, AskingTyped
<1>4. ASSUME NEW r \in Requests, NEW q \in Visits[incoming].requests, SubmitView(r, q.form)
      PROVE  ViewTypes'
  <2>1. DOMAIN q.form.role \subseteq Sources
    BY VisitsAssumption DEF EditsInv, EditForm
  <2>2. exposed' \subseteq Sources
    BY <1>2, <1>4, <2>1 DEF SubmitView
  <2>3. /\ UNCHANGED <<content, shared, viewFaults>>
        /\ (\E v : Draft(r, v)) \/ save' = [save EXCEPT ![r] = Ended("rejected")]
    BY <1>4 DEF SubmitView
  <2>4. QED
    BY <1>1, <2>2, <2>3, AskingTyped
<1>5. ASSUME NEW r \in Requests, NEW layout, NEW keep, RunView(r, layout, keep)
      PROVE  ViewTypes'
  <2>1. /\ UNCHANGED <<content, shared, viewFaults, exposed>>
        /\ \/ \E v : Draft(r, v)
           \/ save' = [save EXCEPT ![r] = Ended("refused")]
           \/ save' = [save EXCEPT ![r] = Ended("idle")]
    BY <1>5 DEF RunView
  <2>2. QED
    BY <1>1, <1>2, <2>1, AskingTyped
<1>6. ASSUME NEW r \in Requests, NEW layout, ShowList(r, layout)
      PROVE  ViewTypes'
  BY <1>6 DEF ShowList, ViewTypes, SaveTyped
<1>7. CASE ViewsCrash
  <2>1. \A r \in Requests : save'[r] = Ended("failed") \/ save'[r] = save[r]
    BY <1>7 DEF ViewsCrash
  <2>2. SaveTyped(Ended("failed"))
    BY DEF SaveTyped, SavePhases, Ended, Idle, Answers
  <2>3. \A r \in Requests : SaveTyped(save'[r])
    BY <2>1, <2>2 DEF ViewTypes
  <2>4. \A i \in Inodes : content'[i] = content[i] \/ content'[i] = Blank
    BY <1>7 DEF ViewsCrash, Tidy
  <2>5. \A i \in Inodes : content'[i].state \in {"empty", "partial", "whole"}
    BY <2>4 DEF ViewTypes, Blank
  <2>6. UNCHANGED <<shared, exposed, viewFaults>>
    BY <1>7 DEF ViewsCrash
  <2>7. QED
    BY <2>3, <2>5, <2>6 DEF ViewTypes, SaveTyped
<1>8. CASE UNCHANGED viewVars
  BY <1>8 DEF viewVars, ViewTypes, SaveTyped
<1>9. QED
  BY <1>3, <1>4, <1>5, <1>6, <1>7, <1>8, WritingTyped DEF EditsMove

\* What Views says of its types follows.
LEMMA ViewsTyped == ViewTypes /\ EditsInv => ViewsTypeOK
BY DEF ViewTypes, EditsInv, ViewsTypeOK, SaveTyped, SavePhases

-----------------------------------------------------------------------------
\* The rows a page shows, also when it is of no one moment.

ListTypes == \A r \in Requests : lists[r].shown \in Seq(1..MaxId)

\* Whatever page is asked for, of whatever total, shows rows that there are.
LEMMA WindowTyped ==
    ASSUME NEW E, NEW all \in Seq(E), NEW p \in Nat, p >= 1
    PROVE  Window(all, p) \in Seq(E)
<1> DEFINE from == (p - 1) * PageSize + 1
           to == Min({p * PageSize, Len(all)})
<1>1. PageSize \in Nat \ {0} /\ p - 1 \in Nat /\ Len(all) \in Nat
  BY ListsAssumption
<1>2. (p - 1) * PageSize \in Nat /\ p * PageSize \in Nat
  BY <1>1, Monotone
<1>3. \A x, y \in Nat : Min({x, y}) \in Int /\ Min({x, y}) <= y
  BY Extremes
<1>4. to \in Int /\ to <= Len(all)
  BY <1>1, <1>2, <1>3
<1>5. \A x \in Nat : x + 1 \in Int /\ x + 1 >= 1
  OBVIOUS
<1>6. from \in Int /\ from >= 1
  BY <1>2, <1>5
<1> HIDE DEF from, to
<1>7. SubSeq(all, from, to) \in Seq(E)
  BY <1>4, <1>6
<1>8. QED
  BY <1>7 DEF Window, from, to

\* A sequence over a set is one over a larger set.
LEMMA SeqWidens ==
    ASSUME NEW A, NEW B, A \subseteq B, NEW s \in Seq(A)
    PROVE  s \in Seq(B)
<1>1. Len(s) \in Nat /\ DOMAIN s = 1..Len(s) /\ s \in [1..Len(s) -> A]
  OBVIOUS
<1>2. s \in [1..Len(s) -> B]
  BY <1>1
<1>3. QED
  BY <1>1, <1>2, SeqDef

\* One tab goes on.
LEMMA OneShownTyped ==
    ASSUME ListTypes, ListsInv, NEW r \in Requests, NEW l, l.shown \in Seq(1..MaxId),
           lists' = [lists EXCEPT ![r] = l]
    PROVE  ListTypes'
<1>1. \A s \in Requests : lists'[s] = IF s = r THEN l ELSE lists[s]
  BY DEF ListsInv
<1>2. QED
  BY <1>1 DEF ListTypes

\* A query of the list is answered with rows that there are.
LEMMA QueryTyped ==
    ASSUME ListTypes, ListsInv, RecordTypes, RecordsInv, NEW r \in Requests, ListStep(r)
    PROVE  ListTypes'
<1> DEFINE old == lists[r]
<1>1. ListFits(old) /\ DOMAIN old = ListFields /\ old.shown \in Seq(1..MaxId)
  BY DEF ListsInv, ListFits, ListTypes
<1>2. CASE ReadOptions(r)
  <2> DEFINE l == [old EXCEPT !.phase = "count", !.steady = TRUE, !.options = Authors]
  <2>1. lists' = [lists EXCEPT ![r] = l]
    BY <1>2 DEF ReadOptions, Draw1, Authors
  <2>2. l.shown = old.shown
    BY <1>1 DEF ListFields
  <2> HIDE DEF l
  <2>3. QED
    BY <1>1, <2>1, <2>2, OneShownTyped
<1>3. CASE CountRows(r)
  <2> DEFINE l == [old EXCEPT !.phase = "rows", !.steady = old.steady \/ ~old.declared,
                              !.total = Counted(old)]
  <2>1. lists' = [lists EXCEPT ![r] = l]
    BY <1>3 DEF CountRows, Draw1, Counted
  <2>2. l.shown = old.shown
    BY <1>1 DEF ListFields
  <2> HIDE DEF l
  <2>3. QED
    BY <1>1, <2>1, <2>2, OneShownTyped
<1>4. CASE FetchRows(r)
  <2> DEFINE all == Ordered(old.table, old.url, Wanted(old))
             p == PageOf(old.url, old.total)
             l == [old EXCEPT !.phase = IF old.table = "posts" THEN "labels" ELSE "role",
                              !.shown = Window(all, p)]
  <2>1. lists' = [lists EXCEPT ![r] = l]
    BY <1>4 DEF FetchRows, Draw1
  <2>2. all \in Seq(DOMAIN rows[old.table])
    BY <1>1, RowsAreFinite, OrderedIs DEF ListFits
  <2>3. p \in Nat /\ p >= 1
    <3>1. old.url.page \in Int /\ old.total \in Nat
      BY <1>1 DEF ListFits, ListUrl
    <3>2. p \in 1..TotalPages(old.total) /\ TotalPages(old.total) \in Nat
      BY <3>1, PageIs, PagesAre
    <3>3. QED
      BY <3>2
  <2>4. DOMAIN rows[old.table] \subseteq 1..MaxId
    <3>1. old.table \in Tables /\ seq[old.table] \in 0..MaxId
          /\ DOMAIN rows[old.table] \subseteq 1..seq[old.table]
      BY <1>1 DEF ListFits, RecordTypes, RecordsInv, IdsUsed
    <3>2. QED
      BY <3>1, RecordsAssumption
  <2> HIDE DEF all, p
  <2>5. Window(all, p) \in Seq(1..MaxId)
    <3>1. Window(all, p) \in Seq(DOMAIN rows[old.table])
      BY <2>2, <2>3, WindowTyped
    <3>2. QED
      BY <2>4, <3>1, SeqWidens
  <2>6. l.shown = Window(all, p)
    BY <1>1 DEF ListFields
  <2> HIDE DEF l
  <2>7. QED
    BY <2>1, <2>5, <2>6, OneShownTyped
<1>5. CASE ResolveLabels(r)
  <2> DEFINE l == [old EXCEPT !.phase = "role", !.named = DOMAIN rows["authors"]]
  <2>1. lists' = [lists EXCEPT ![r] = l]
    BY <1>5 DEF ResolveLabels, Draw1
  <2>2. l.shown = old.shown
    BY <1>1 DEF ListFields
  <2> HIDE DEF l
  <2>3. QED
    BY <1>1, <2>1, <2>2, OneShownTyped
<1>6. CASE ReadRole(r)
  <2>1. PICK offers : lists' = [lists EXCEPT ![r] = [old EXCEPT !.phase = "shown", !.user = None,
                                                                !.offers = offers]]
    BY <1>6, RoleReads
  <2> DEFINE l == [old EXCEPT !.phase = "shown", !.user = None, !.offers = offers]
  <2>2. l.shown = old.shown
    BY <1>1 DEF ListFields
  <2>3. lists' = [lists EXCEPT ![r] = l]
    BY <2>1
  <2> HIDE DEF l
  <2>4. QED
    BY <1>1, <2>2, <2>3, OneShownTyped
<1>7. QED
  BY <1>2, <1>3, <1>4, <1>5, <1>6 DEF ListStep

\* Every step of the site keeps the types of the lists.
LEMMA ListTypesKeep ==
    ListTypes /\ ListsInv /\ RecordTypes /\ RecordsInv /\ ListsMove => ListTypes'
<1> SUFFICES ASSUME ListTypes, ListsInv, RecordTypes, RecordsInv, ListsMove
             PROVE  ListTypes'
  OBVIOUS
<1>1. NoList.shown \in Seq(1..MaxId)
  BY DEF NoList
<1>2. ASSUME NEW r \in Requests, NEW table, NEW user, NEW url, NEW via,
             StartList(r, table, user, url, via)
      PROVE  ListTypes'
  <2> DEFINE l == lists'[r]
  <2>1. lists' = [lists EXCEPT ![r] = l] /\ l.shown = <<>>
    BY <1>2 DEF StartList, Draw1, NoList, ListsInv
  <2> HIDE DEF l
  <2>2. l.shown \in Seq(1..MaxId)
    BY <2>1
  <2>3. QED
    BY <2>1, <2>2, OneShownTyped
<1>3. ASSUME NEW r \in Requests, LeaveList(r)
      PROVE  ListTypes'
  BY <1>1, <1>3, OneShownTyped DEF LeaveList
<1>4. CASE Unsettled
  <2>1. ASSUME NEW r \in Requests
        PROVE  lists'[r].shown = lists[r].shown
    BY <1>4 DEF Unsettled, ListsInv, ListFits, ListFields
  <2>2. QED
    BY <2>1 DEF ListTypes
<1>5. CASE ListsCrash
  <2>1. \A r \in Requests : lists'[r] = NoList \/ lists'[r] = lists[r]
    BY <1>5 DEF ListsCrash
  <2>2. QED
    BY <1>1, <2>1 DEF ListTypes
<1>6. CASE UNCHANGED lists
  BY <1>6 DEF ListTypes
<1>7. QED
  BY <1>2, <1>3, <1>4, <1>5, <1>6, QueryTyped DEF ListsMove

\* What Lists says of its types follows.
LEMMA ListsTyped == ListTypes /\ ListsInv => ListsTypeOK
BY DEF ListTypes, ListsInv, ListFits, ListUrl, ListsTypeOK

-----------------------------------------------------------------------------
\* The types of the forms.

TabPhases == Resting \cup {"prefill", "options", "exists", "update", "insert"}

FormTypes ==
    /\ \E n \in Nat : DOMAIN events = 1..n
    /\ \A i \in DOMAIN events : DOMAIN events[i].cells = FieldNames
    /\ \A r \in Requests : tabs[r].phase \in TabPhases

\* One browser goes on, or a row is written.
LEMMA OneTabTyped ==
    ASSUME FormTypes, FormsInv, NEW r \in Requests, NEW tab, tab.phase \in TabPhases,
           tabs' = [tabs EXCEPT ![r] = tab], NEW n \in Nat, DOMAIN events' = 1..n,
           \A i \in DOMAIN events' : DOMAIN events'[i].cells = FieldNames
    PROVE  FormTypes'
<1>1. \A s \in Requests : tabs'[s] = IF s = r THEN tab ELSE tabs[s]
  BY DEF FormsInv
<1>2. \A s \in Requests : tabs'[s].phase \in TabPhases
  BY <1>1 DEF FormTypes
<1>3. QED
  BY <1>2 DEF FormTypes

\* What is shown turns, no row is written.
LEMMA TurnTyped ==
    ASSUME FormTypes, FormsInv, NEW r \in Requests, NEW tab, tab.phase \in TabPhases,
           Turn(r, tab)
    PROVE  FormTypes'
<1>1. PICK n \in Nat : DOMAIN events = 1..n
  BY DEF FormTypes
<1>2. QED
  BY <1>1, OneTabTyped DEF Turn, FormTypes

\* Every step of the site keeps the types of the forms.
LEMMA FormTypesKeep == FormTypes /\ FormsInv /\ FormsMove => FormTypes'
<1> SUFFICES ASSUME FormTypes, FormsInv, FormsMove
             PROVE  FormTypes'
  OBVIOUS
<1>0. \A r \in Requests : DOMAIN tabs[r] = TabFields /\ tabs[r].phase \in TabPhases
  BY DEF FormsInv, TabInv, FormTypes
<1>1. /\ DOMAIN NoTab = TabFields /\ NoTab.phase \in TabPhases
      /\ {"prefill", "missing", "options", "open", "exists", "refused", "insert", "update",
          "saved"} \subseteq TabPhases
  BY DEF NoTab, TabPhases, Resting, TabFields
<1>2. \A tab : \A phase \in TabPhases :
          DOMAIN tab = TabFields => [tab EXCEPT !.phase = phase].phase \in TabPhases
  BY DEF TabFields
<1>3. ASSUME NEW r \in Requests, NEW handler, NEW q, FormHandler(r, handler, q)
      PROVE  FormTypes'
  <2>1. ASSUME OpenEdit(r, q.id) \/ OpenNew(r) \/ OpenLegacy(r)
        PROVE  FormTypes'
    <3>1. PICK tab : tab.phase \in TabPhases /\ Turn(r, tab)
      BY <1>1, <2>1 DEF OpenEdit, OpenNew, OpenLegacy, TabFields
    <3>2. QED
      BY <3>1, TurnTyped
  <2>2. ASSUME NEW kind, Submit(r, kind, q.edits, q.token)
        PROVE  FormTypes'
    <3>1. PICK tab : tab.phase \in TabPhases /\ Turn(r, tab)
      BY <1>0, <1>1, <2>2 DEF Submit, TabFields
    <3>2. QED
      BY <3>1, TurnTyped
  <2>3. QED
    BY <1>3, <2>1, <2>2 DEF FormHandler
<1>4. ASSUME NEW r \in Requests, FormStep(r)
      PROVE  FormTypes'
  <2> DEFINE tab == tabs[r]
             done == [tab EXCEPT !.phase = "saved"]
  <2>1. DOMAIN tab = TabFields /\ done.phase \in TabPhases
    BY <1>0, <1>1 DEF TabFields
  <2>2. CASE Prefill(r) \/ Draw(r) \/ StillThere(r) \/ RedrawEdit(r) \/ RedrawNew(r)
    <3>1. PICK x : x.phase \in TabPhases /\ Turn(r, x)
      BY <1>1, <2>1, <2>2 DEF Prefill, Draw, StillThere, RedrawEdit, RedrawNew, TabFields
    <3>2. QED
      BY <3>1, TurnTyped
  <2>3. CASE UpdateEvent(r)
    <3> DEFINE row == [cells |-> MutationData(tab.control), via |-> "form"]
    <3>1. /\ events' = [events EXCEPT ![tab.id] = row]
          /\ tabs' = [tabs EXCEPT ![r] = done] /\ targets' = targets
      BY <2>3 DEF UpdateEvent
    <3>2. DOMAIN row.cells = FieldNames
      BY DEF MutationData
    <3> HIDE DEF row, done
    <3>3. DOMAIN events' = DOMAIN events /\ \A i \in DOMAIN events' :
              events'[i] = events[i] \/ events'[i] = row
      BY <3>1
    <3>4. PICK n \in Nat : DOMAIN events = 1..n
      BY DEF FormTypes
    <3>5. QED
      BY <2>1, <3>1, <3>2, <3>3, <3>4, OneTabTyped DEF FormTypes
  <2>4. CASE InsertEvent(r)
    <3>0. PICK n \in Nat : DOMAIN events = 1..n
      BY DEF FormTypes
    <3>a. Cardinality(DOMAIN events) = n
      BY <3>0, FS_Interval
    <3> DEFINE row == [cells |-> Cells(tab),
                       via |-> IF tab.page = "legacy" THEN "code" ELSE "form"]
    <3>1. /\ events' = [i \in DOMAIN events \cup {n + 1} |->
                            IF i = n + 1 THEN row ELSE events[i]]
          /\ tabs' = [tabs EXCEPT ![r] = done] /\ targets' = targets
      BY <2>4, <3>a DEF InsertEvent
    <3>2. DOMAIN row.cells = FieldNames
      BY DEF Cells, FromForm, MutationData
    <3> HIDE DEF row, done
    <3>3. DOMAIN events' = 1..(n + 1) /\ n + 1 \in Nat
      BY <3>0, <3>1
    <3>4. \A i \in DOMAIN events' : DOMAIN events'[i].cells = FieldNames
      BY <3>1, <3>2 DEF FormTypes
    <3>5. QED
      BY <2>1, <3>1, <3>3, <3>4, OneTabTyped DEF FormTypes
  <2>5. QED
    BY <1>4, <2>2, <2>3, <2>4 DEF FormStep
<1>5. ASSUME NEW t, TargetGone(t)
      PROVE  FormTypes'
  BY <1>5 DEF TargetGone, FormTypes
<1>6. CASE FormsCrash
  <2>1. /\ \A r \in Requests : tabs'[r] = NoTab \/ tabs'[r] = tabs[r]
        /\ UNCHANGED <<events, targets>>
    BY <1>6 DEF FormsCrash
  <2>2. \A r \in Requests : tabs'[r].phase \in TabPhases
    BY <1>0, <1>1, <2>1
  <2>3. QED
    BY <2>1, <2>2 DEF FormTypes
<1>7. CASE UNCHANGED formVars
  BY <1>7 DEF formVars, FormTypes
<1>8. QED
  BY <1>3, <1>4, <1>5, <1>6, <1>7 DEF FormsMove

\* What Forms says of its types follows.
LEMMA FormsTyped == FormTypes /\ FormsInv => FormsTypeOK
<1> SUFFICES ASSUME FormTypes, FormsInv
             PROVE  FormsTypeOK
  OBVIOUS
<1>1. PICK n \in Nat : DOMAIN events = 1..n
  BY DEF FormTypes
<1>2. Cardinality(1..n) = n
  BY <1>1, FS_Interval
<1>3. QED
  BY <1>1, <1>2 DEF FormTypes, FormsInv, FormsTypeOK, TabPhases

-----------------------------------------------------------------------------
\* A slot does one thing at a time.

OneThing(r) ==
    /\ Busy(r) => ~Saving(r) /\ ~Filling(r) /\ ~Listing(r)
    /\ Saving(r) => ~Filling(r) /\ ~Listing(r)
    /\ Filling(r) => ~Listing(r)

\* Each part keeps what a slot is about in a function of its own.
Slots ==
    /\ DOMAIN task = Requests /\ DOMAIN save = Requests /\ DOMAIN tabs = Requests
    /\ DOMAIN lists = Requests /\ \A r \in Requests : DOMAIN lists[r] = ListFields

\* What a step of Records does to the slots: to one of them, if to any.
LEMMA RecordSlots ==
    ASSUME Slots, NEW r \in Requests
    PROVE  /\ \A handler, q : RecordHandler(r, handler, q) =>
                  \A s \in Requests \ {r} : task'[s] = task[s]
           /\ \A kind : \A reply \in Replies : Reply(r, kind, reply) =>
                  ~Busy(r)' /\ \A s \in Requests \ {r} : task'[s] = task[s]
           /\ RecordStep(r) => Busy(r) /\ \A s \in Requests \ {r} : task'[s] = task[s]
<1>1. ASSUME NEW handler, NEW q, RecordHandler(r, handler, q), NEW s \in Requests \ {r}
      PROVE  task'[s] = task[s]
  BY <1>1 DEF Slots, RecordHandler, StartCreate, StartLegacyCreate, StartUpdate, StartDelete,
              StartBulk, StartRead, Begin, Reply
<1>2. ASSUME NEW kind, NEW reply \in Replies, Reply(r, kind, reply)
      PROVE  ~Busy(r)' /\ \A s \in Requests \ {r} : task'[s] = task[s]
  BY <1>2 DEF Slots, Reply, Busy, NoTask
<1>3. ASSUME RecordStep(r)
      PROVE  Busy(r)
  BY <1>3 DEF RecordStep, InsertRow, InsertRefused, CheckExists, UpdateRow, UpdateRefused,
              FindRow, DeleteRow, DeleteRefused, RecordEntry, RecordFails, ReadRow, At, Busy,
              Replies
<1>4. ASSUME RecordStep(r), NEW s \in Requests \ {r}
      PROVE  task'[s] = task[s]
  <2>1. CASE InsertRow(r)
    BY <1>4, <2>1 DEF Slots, InsertRow, Answer
  <2>2. CASE CheckExists(r) \/ FindRow(r)
    BY <1>4, <2>2 DEF Slots, CheckExists, FindRow, Answer
  <2>3. CASE DeleteRow(r)
    BY <1>4, <2>3 DEF Slots, DeleteRow, Answer
  <2>4. CASE RecordEntry(r)
    BY <1>4, <2>4 DEF Slots, RecordEntry, Answer
  <2>5. CASE InsertRefused(r) \/ UpdateRow(r) \/ UpdateRefused(r) \/ DeleteRefused(r)
               \/ RecordFails(r) \/ ReadRow(r)
    BY <1>4, <2>5 DEF Slots, InsertRefused, UpdateRow, UpdateRefused, DeleteRefused,
                      RecordFails, ReadRow, Answer
  <2>6. QED
    BY <1>4, <2>1, <2>2, <2>3, <2>4, <2>5 DEF RecordStep
<1>5. QED
  BY <1>1, <1>2, <1>3, <1>4

\* What a step of Views does to them.
LEMMA SaveSlots ==
    ASSUME Slots, NEW r \in Requests
    PROVE  /\ \A handler, q : ViewHandler(r, handler, q) =>
                  \A s \in Requests \ {r} : save'[s] = save[s]
           /\ \A layout, keep : RunView(r, layout, keep) =>
                  \A s \in Requests \ {r} : save'[s] = save[s]
           /\ WriteStep(r) => Saving(r) /\ \A s \in Requests \ {r} : save'[s] = save[s]
<1>1. ASSUME NEW handler, NEW q, ViewHandler(r, handler, q), NEW s \in Requests \ {r}
      PROVE  save'[s] = save[s]
  BY <1>1 DEF Slots, ViewHandler, SubmitLayout, SubmitView, Draft
<1>2. ASSUME NEW layout, NEW keep, RunView(r, layout, keep), NEW s \in Requests \ {r}
      PROVE  save'[s] = save[s]
  BY <1>2 DEF Slots, RunView, Draft
<1>3. ASSUME WriteStep(r)
      PROVE  Saving(r)
  BY <1>3 DEF WriteStep, RemoveTmp, OpenTmp, FillTmp, FillFails, Rename, RenameFails, Saving,
              Answers
<1>4. ASSUME WriteStep(r), NEW s \in Requests \ {r}
      PROVE  save'[s] = save[s]
  <2>1. CASE OpenTmp(r)
    BY <1>4, <2>1 DEF Slots, OpenTmp
  <2>2. CASE RemoveTmp(r) \/ FillTmp(r) \/ FillFails(r) \/ Rename(r) \/ RenameFails(r)
    BY <1>4, <2>2 DEF Slots, RemoveTmp, FillTmp, FillFails, Rename, RenameFails
  <2>3. QED
    BY <1>4, <2>1, <2>2 DEF WriteStep
<1>5. QED
  BY <1>1, <1>2, <1>3, <1>4

\* What a step of Forms does to them.
LEMMA TabSlots ==
    ASSUME Slots, NEW r \in Requests
    PROVE  /\ \A handler, q : FormHandler(r, handler, q) =>
                  \A s \in Requests \ {r} : tabs'[s] = tabs[s]
           /\ FormStep(r) => Filling(r) /\ \A s \in Requests \ {r} : tabs'[s] = tabs[s]
<1>1. ASSUME NEW tab, Turn(r, tab), NEW s \in Requests \ {r}
      PROVE  tabs'[s] = tabs[s]
  BY <1>1 DEF Slots, Turn
<1>2. ASSUME NEW handler, NEW q, FormHandler(r, handler, q)
      PROVE  \A s \in Requests \ {r} : tabs'[s] = tabs[s]
  <2>1. \E tab : Turn(r, tab)
    BY <1>2 DEF FormHandler, OpenEdit, OpenNew, OpenLegacy, Submit
  <2>2. QED
    BY <1>1, <2>1
<1>3. ASSUME FormStep(r)
      PROVE  Filling(r)
  BY <1>3 DEF FormStep, Prefill, Draw, StillThere, UpdateEvent, RedrawEdit, InsertEvent,
              RedrawNew, Filling, Resting
<1>4. ASSUME FormStep(r)
      PROVE  \A s \in Requests \ {r} : tabs'[s] = tabs[s]
  <2>1. CASE UpdateEvent(r) \/ InsertEvent(r)
    BY <2>1 DEF Slots, UpdateEvent, InsertEvent
  <2>2. CASE Prefill(r) \/ Draw(r) \/ StillThere(r) \/ RedrawEdit(r) \/ RedrawNew(r)
    <3>1. \E tab : Turn(r, tab)
      BY <2>2 DEF Prefill, Draw, StillThere, RedrawEdit, RedrawNew
    <3>2. QED
      BY <1>1, <3>1
  <2>3. QED
    BY <1>4, <2>1, <2>2 DEF FormStep
<1>5. QED
  BY <1>2, <1>3, <1>4

\* What a step of Lists does to them.
LEMMA ListSlots ==
    ASSUME Slots, NEW r \in Requests
    PROVE  /\ \A table, user, url, via : StartList(r, table, user, url, via) =>
                  \A s \in Requests \ {r} : lists'[s] = lists[s]
           /\ LeaveList(r) => ~Listing(r)' /\ \A s \in Requests \ {r} : lists'[s] = lists[s]
           /\ ListStep(r) => Listing(r) /\ \A s \in Requests \ {r} : lists'[s] = lists[s]
           /\ Unsettled => \A s \in Requests : lists'[s].phase = lists[s].phase
<1>1. ASSUME NEW table, NEW user, NEW url, NEW via, StartList(r, table, user, url, via),
             NEW s \in Requests \ {r}
      PROVE  lists'[s] = lists[s]
  BY <1>1 DEF Slots, StartList, Draw1
<1>2. ASSUME LeaveList(r)
      PROVE  ~Listing(r)' /\ \A s \in Requests \ {r} : lists'[s] = lists[s]
  BY <1>2 DEF Slots, LeaveList, Listing, NoList
<1>3. ASSUME ListStep(r)
      PROVE  Listing(r)
  BY <1>3 DEF ListStep, ReadOptions, CountRows, FetchRows, ResolveLabels, ReadRole, Listing
<1>4. ASSUME ListStep(r), NEW s \in Requests \ {r}
      PROVE  lists'[s] = lists[s]
  <2>1. \E l : lists' = [lists EXCEPT ![r] = l]
    BY <1>4 DEF ListStep, ReadOptions, CountRows, FetchRows, ResolveLabels, ReadRole, Draw1
  <2>2. QED
    BY <2>1 DEF Slots
<1>5. ASSUME Unsettled, NEW s \in Requests
      PROVE  lists'[s].phase = lists[s].phase
  BY <1>5 DEF Slots, Unsettled, ListFields
<1>6. QED
  BY <1>1, <1>2, <1>3, <1>4, <1>5

\* A slot that is free takes up one thing; one that does something goes on with it.
LEMMA OneThingKeeps ==
    ASSUME Slots, [SiteNext]_siteVars, NEW s \in Requests, OneThing(s)
    PROVE  OneThing(s)'
<1> DEFINE Same == /\ task'[s] = task[s] /\ save'[s] = save[s] /\ tabs'[s] = tabs[s]
                   /\ lists'[s].phase = lists[s].phase
<1>1. ASSUME Same
      PROVE  OneThing(s)'
  BY <1>1 DEF OneThing, Busy, Saving, Filling, Listing
<1> HIDE DEF Same
<1>2. CASE UNCHANGED siteVars
  BY <1>1, <1>2 DEF Same, siteVars, recordVars, viewVars, listVars, formVars
<1>3. ASSUME NEW r \in Requests, NEW q \in Visits[incoming].requests, Arrive(r, q)
      PROVE  OneThing(s)'
  <2>1. Free(r)
    BY <1>3 DEF Arrive
  <2>2. ASSUME NEW reply \in Replies, Elsewhere(r, reply)
        PROVE  OneThing(s)'
    <3>1. /\ Reply(r, "none", reply) /\ save' = save /\ tabs' = tabs /\ LeaveList(r)
      BY <2>2 DEF Elsewhere, viewVars, formVars
    <3>2. CASE s = r
      BY <2>1, <3>1, <3>2, RecordSlots, ListSlots DEF OneThing, Free, Saving, Filling
    <3>3. CASE s # r
      BY <1>1, <3>1, <3>3, RecordSlots, ListSlots DEF Same
    <3>4. QED
      BY <3>2, <3>3
  <2>3. ASSUME NEW handler, FormHandler(r, handler, q), UNCHANGED <<recordVars, viewVars>>,
               LeaveList(r)
        PROVE  OneThing(s)'
    <3>1. task' = task /\ save' = save
      BY <2>3 DEF recordVars, viewVars
    <3>2. CASE s = r
      BY <2>1, <2>3, <3>1, <3>2, ListSlots DEF OneThing, Free, Busy, Saving
    <3>3. CASE s # r
      BY <1>1, <2>3, <3>1, <3>3, TabSlots, ListSlots DEF Same
    <3>4. QED
      BY <3>2, <3>3
  <2>4. ASSUME NEW handler, RecordHandler(r, handler, q), UNCHANGED <<formVars, viewVars>>,
               LeaveList(r)
        PROVE  OneThing(s)'
    <3>1. tabs' = tabs /\ save' = save
      BY <2>4 DEF formVars, viewVars
    <3>2. CASE s = r
      BY <2>1, <2>4, <3>1, <3>2, ListSlots DEF OneThing, Free, Filling, Saving
    <3>3. CASE s # r
      BY <1>1, <2>4, <3>1, <3>3, RecordSlots, ListSlots DEF Same
    <3>4. QED
      BY <3>2, <3>3
  <2>5. ASSUME NEW handler, ViewHandler(r, handler, q), UNCHANGED <<formVars, recordVars>>,
               LeaveList(r)
        PROVE  OneThing(s)'
    <3>1. tabs' = tabs /\ task' = task
      BY <2>5 DEF formVars, recordVars
    <3>2. CASE s = r
      BY <2>1, <2>5, <3>1, <3>2, ListSlots DEF OneThing, Free, Filling, Busy
    <3>3. CASE s # r
      BY <1>1, <2>5, <3>1, <3>3, SaveSlots, ListSlots DEF Same
    <3>4. QED
      BY <3>2, <3>3
  <2>6. ASSUME ListHandler(r, q), UNCHANGED <<formVars, recordVars>>
        PROVE  OneThing(s)'
    <3>1. tabs' = tabs /\ task' = task
      BY <2>6 DEF formVars, recordVars
    <3>2. save' = save
      BY <2>6 DEF ListHandler, ShowList, viewVars
    <3>3. CASE s = r
      BY <2>1, <3>1, <3>2, <3>3 DEF OneThing, Free, Filling, Busy, Saving
    <3>4. CASE s # r
      <4>1. \E url : StartList(r, q.path[2], q.user, url, q.link)
        BY <2>6 DEF ListHandler
      <4>2. QED
        BY <1>1, <3>1, <3>2, <3>4, <4>1, ListSlots DEF Same
    <3>5. QED
      BY <3>3, <3>4
  <2>7. {"missing", "refused", "shown"} \subseteq Replies
    BY DEF Replies
  <2>8. QED
    BY <1>3, <2>2, <2>3, <2>4, <2>5, <2>6, <2>7 DEF Arrive
<1>4. ASSUME NEW r \in Requests, Proceed(r)
      PROVE  OneThing(s)'
  <2>1. CASE RecordStep(r) /\ UNCHANGED <<viewVars, formVars>>
               /\ IF rows' = rows THEN UNCHANGED listVars ELSE Unsettled
    <3>1. /\ save' = save /\ tabs' = tabs /\ lists'[s].phase = lists[s].phase
      BY <2>1, ListSlots DEF viewVars, formVars, listVars
    <3>2. CASE s = r
      BY <2>1, <3>1, <3>2, RecordSlots DEF OneThing, Saving, Filling, Listing
    <3>3. CASE s # r
      BY <1>1, <2>1, <3>1, <3>3, RecordSlots DEF Same
    <3>4. QED
      BY <3>2, <3>3
  <2>2. CASE WriteStep(r) /\ UNCHANGED <<recordVars, listVars, formVars>>
    <3>1. /\ task' = task /\ tabs' = tabs /\ lists' = lists
      BY <2>2 DEF recordVars, formVars, listVars
    <3>2. CASE s = r
      BY <2>2, <3>1, <3>2, SaveSlots DEF OneThing, Busy, Filling, Listing
    <3>3. CASE s # r
      BY <1>1, <2>2, <3>1, <3>3, SaveSlots DEF Same
    <3>4. QED
      BY <3>2, <3>3
  <2>3. CASE ListStep(r) /\ UNCHANGED <<recordVars, viewVars, formVars>>
    <3>1. /\ task' = task /\ tabs' = tabs /\ save' = save
      BY <2>3 DEF recordVars, formVars, viewVars
    <3>2. CASE s = r
      BY <2>3, <3>1, <3>2, ListSlots DEF OneThing, Busy, Filling, Saving
    <3>3. CASE s # r
      BY <1>1, <2>3, <3>1, <3>3, ListSlots DEF Same
    <3>4. QED
      BY <3>2, <3>3
  <2>4. CASE FormStep(r) /\ UNCHANGED <<recordVars, viewVars, listVars>>
    <3>1. /\ task' = task /\ lists' = lists /\ save' = save
      BY <2>4 DEF recordVars, listVars, viewVars
    <3>2. CASE s = r
      BY <2>4, <3>1, <3>2, TabSlots DEF OneThing, Busy, Listing, Saving
    <3>3. CASE s # r
      BY <1>1, <2>4, <3>1, <3>3, TabSlots DEF Same
    <3>4. QED
      BY <3>2, <3>3
  <2>5. QED
    BY <1>4, <2>1, <2>2, <2>3, <2>4 DEF Proceed
<1>5. CASE Visits[incoming].deletes /\ (\E t \in AllTargets : TargetGone(t))
             /\ UNCHANGED <<recordVars, viewVars, listVars, incoming, sent, visit>>
  BY <1>1, <1>5 DEF Same, TargetGone, recordVars, viewVars, listVars
<1>6. CASE Crash
  <2>1. RecordsCrash /\ ViewsCrash /\ ListsCrash /\ FormsCrash
    BY <1>6 DEF Crash
  <2>2. ~Busy(s)'
    BY <2>1 DEF RecordsCrash, Busy, Replied, NoTask, Replies
  <2>3. ~Saving(s)'
    BY <2>1 DEF ViewsCrash, Saving, Ended, Idle, Answers
  <2>4. ~Listing(s)'
    BY <2>1 DEF ListsCrash, Listing, NoList
  <2>5. QED
    BY <2>2, <2>3, <2>4 DEF OneThing
<1>7. ASSUME NEW r \in Requests, Terminal(r)
      PROVE  OneThing(s)'
  <2>1. /\ Free(r) /\ task' = task /\ tabs' = tabs /\ LeaveList(r)
        /\ \E layout, keep : RunView(r, layout, keep)
    BY <1>7 DEF Terminal, recordVars, formVars
  <2>2. CASE s = r
    BY <2>1, <2>2, ListSlots DEF OneThing, Free, Filling, Busy
  <2>3. CASE s # r
    BY <1>1, <2>1, <2>3, SaveSlots, ListSlots DEF Same
  <2>4. QED
    BY <2>2, <2>3
<1>8. QED
  BY <1>2, <1>3, <1>4, <1>5, <1>6, <1>7 DEF SiteNext

\* What the type invariant says of it.
LEMMA OneOfFour ==
    ASSUME NEW r \in Requests, OneThing(r)
    PROVE  Cardinality({b \in 1..4 : <<Busy(r), Saving(r), Filling(r), Listing(r)>>[b]}) <= 1
<1> DEFINE does == <<Busy(r), Saving(r), Filling(r), Listing(r)>>
           S == {b \in 1..4 : does[b]}
<1>1. /\ does[1] = Busy(r) /\ does[2] = Saving(r) /\ does[3] = Filling(r)
      /\ does[4] = Listing(r)
  OBVIOUS
<1> HIDE DEF does
<1>2. \A b \in 1..4 : b = 1 \/ b = 2 \/ b = 3 \/ b = 4
  OBVIOUS
<1>3. \A b, c \in S : b = c
  <2> SUFFICES ASSUME NEW b \in 1..4, NEW c \in 1..4, does[b], does[c], b # c
               PROVE  FALSE
    OBVIOUS
  <2>1. ~(does[1] /\ does[2]) /\ ~(does[1] /\ does[3]) /\ ~(does[1] /\ does[4])
    BY <1>1 DEF OneThing
  <2>2. ~(does[2] /\ does[3]) /\ ~(does[2] /\ does[4]) /\ ~(does[3] /\ does[4])
    BY <1>1 DEF OneThing
  <2>3. QED
    BY <1>2, <2>1, <2>2
<1> HIDE DEF S
<1>4. CASE S = {}
  BY <1>4, FS_EmptySet DEF S, does
<1>5. CASE S # {}
  <2>1. PICK b : S = {b}
    BY <1>3, <1>5
  <2>2. Cardinality(S) = 1
    BY <2>1, FS_Singleton
  <2>3. QED
    BY <2>2 DEF S, does
<1>6. QED
  BY <1>4, <1>5

\* The types of all four parts, the visit within its bound, and the slots.
SiteTypes ==
    /\ RecordTypes
    /\ ViewTypes
    /\ ListTypes
    /\ FormTypes
    /\ incoming \in DOMAIN Visits
    /\ sent \in 0..Visits[incoming].most
    /\ \A r \in Requests : OneThing(r)

\* Every step of the site keeps them, beside the invariants of the parts.
LEMMA SiteTypesKeep ==
    SiteTypes /\ RecordsInv /\ EditsInv /\ FormsInv /\ ListsInv /\ [SiteNext]_siteVars
        => SiteTypes'
<1> SUFFICES ASSUME SiteTypes, RecordsInv, EditsInv, FormsInv, ListsInv, [SiteNext]_siteVars
             PROVE  SiteTypes'
  OBVIOUS
<1>1. RecordTypes' /\ ViewTypes' /\ ListTypes' /\ FormTypes'
  BY MovesOfRecords, MovesOfEdits, MovesOfLists, MovesOfForms, RecordTypesKeep,
     ViewTypesKeep, ListTypesKeep, FormTypesKeep DEF SiteTypes
<1>2. Slots
  BY DEF Slots, RecordsInv, EditsInv, FormsInv, ListsInv, ListFits
<1>3. \A r \in Requests : OneThing(r)'
  BY <1>2, OneThingKeeps DEF SiteTypes
<1>4. incoming' = incoming /\ (sent' = sent \/ (sent' = sent + 1 /\ sent < Visits[incoming].most))
  BY DEF SiteNext, Arrive, Proceed, Terminal, Crash, siteVars
<1>5. Visits[incoming].most \in Nat
  BY VisitsAssumption DEF SiteTypes
<1>6. sent' \in 0..Visits[incoming'].most
  BY <1>4, <1>5 DEF SiteTypes
<1>7. QED
  BY <1>1, <1>3, <1>4, <1>6 DEF SiteTypes

\* They hold at the start, whatever view was saved before it.
LEMMA SiteTypesStart == SiteInit => SiteTypes
<1> SUFFICES ASSUME SiteInit
             PROVE  SiteTypes
  OBVIOUS
<1>1. RecordsInit /\ ViewsInit /\ ListsInit /\ FormsInit /\ incoming \in DOMAIN Visits /\ sent = 0
  BY DEF SiteInit
<1>2. RecordTypes
  <2>1. TaskTyped(NoTask)
    BY DEF TaskTyped, NoTask, RecordPhases, Replies
  <2>2. QED
    BY <1>1, <2>1, RecordsAssumption DEF RecordsInit, RecordTypes
<1>3. ViewTypes
  <2>1. PICK v \in IF saved = None THEN {Derived} ELSE HandWritten \cup {Derived} :
            /\ content = [i \in Inodes |-> IF i = saved THEN Whole(v) ELSE Blank]
            /\ exposed = IF saved = None THEN {} ELSE Put(v)
    BY <1>1 DEF ViewsInit
  <2>2. Complete(v)
    BY <2>1, HandWrittenAssumption, DerivedIs
  <2>3. Put(v) \subseteq Sources
    <3>1. \A f \in FieldSpecs(v) : f.source \in Sources /\ f.merge \in Seq(Sources)
      <4>1. v.fields \in Seq(FieldRecords)
        BY <2>2 DEF Complete, FieldRecords
      <4>2. FieldSpecs(v) \subseteq FieldRecords
        BY <4>1, Elements DEF FieldSpecs
      <4>3. QED
        BY <4>2 DEF FieldRecords
    <3>2. \A m \in Seq(Sources) : ToSet(m) \subseteq Sources
      BY DEF ToSet
    <3>3. QED
      BY <3>1, <3>2 DEF Put
  <2>4. \A i \in Inodes : content[i].state \in {"empty", "partial", "whole"}
    BY <2>1 DEF Whole, Blank
  <2>5. \A r \in Requests : SaveTyped(save[r])
    BY <1>1 DEF ViewsInit, SaveTyped, SavePhases, Idle, Answers
  <2>6. exposed \subseteq Sources
    BY <2>1, <2>3
  <2>7. shared \in BOOLEAN /\ viewFaults \in 0..MaxViewFaults
    <3>1. shared = FALSE /\ viewFaults = 0
      BY <1>1, Zenon DEF ViewsInit
    <3>2. MaxViewFaults \in Nat
      BY InodesAssumption, Zenon
    <3>3. shared \in BOOLEAN
      BY <3>1, Zenon
    <3>4. viewFaults \in 0..MaxViewFaults
      BY <3>1, <3>2, SMT
    <3>5. QED
      BY <3>3, <3>4, Zenon
  <2>8. QED
    BY <2>4, <2>5, <2>6, <2>7 DEF ViewTypes
<1>4. ListTypes
  <2>1. NoList.shown = <<>> /\ <<>> \in Seq(1..MaxId)
    BY DEF NoList
  <2>2. \A r \in Requests : lists[r] = NoList
    BY <1>1 DEF ListsInit
  <2>3. QED
    BY <2>1, <2>2 DEF ListTypes
<1>5. FormTypes
  <2>1. PICK e \in FirstEvents : events = [i \in {1} |-> [cells |-> e, via |-> "code"]]
    BY <1>1 DEF FormsInit
  <2>2. DOMAIN events = 1..1 /\ 1 \in Nat
    BY <2>1
  <2>3. \A i \in DOMAIN events : DOMAIN events[i].cells = FieldNames
    BY <2>1, EventsAssumption
  <2>4. \A r \in Requests : tabs[r].phase \in TabPhases
    BY <1>1 DEF FormsInit, NoTab, TabPhases, Resting
  <2>5. QED
    BY <2>2, <2>3, <2>4 DEF FormTypes
<1>6. \A r \in Requests : OneThing(r)
  BY <1>1 DEF RecordsInit, ViewsInit, ListsInit, FormsInit, OneThing, Busy, Saving, Filling,
              Listing, NoTask, Replies, Idle, Answers, NoTab, Resting, NoList
<1>7. sent \in 0..Visits[incoming].most
  BY <1>1, VisitsAssumption
<1>8. QED
  BY <1>1, <1>2, <1>3, <1>4, <1>5, <1>6, <1>7 DEF SiteTypes

\* What AdminSite says of its types follows.
LEMMA SiteTyped ==
    SiteTypes /\ RecordsInv /\ EditsInv /\ FormsInv /\ ListsInv => SiteTypeOK
<1> SUFFICES ASSUME SiteTypes, RecordsInv, EditsInv, FormsInv, ListsInv
             PROVE  SiteTypeOK
  OBVIOUS
<1>1. RecordsTypeOK /\ ViewsTypeOK /\ ListsTypeOK /\ FormsTypeOK
  BY RecordsTyped, ViewsTyped, ListsTyped, FormsTyped DEF SiteTypes
<1>2. QED
  BY <1>1, OneOfFour DEF SiteTypes, SiteTypeOK

-----------------------------------------------------------------------------
\* The admin's variables keep their types, the bounds of the model hold, and a
\* slot has one request in hand at a time, whatever arrives, fails and stops.
THEOREM TypesHold == SiteSpec => []SiteTypeOK
<1>1. SiteTypes /\ RecordsInv /\ EditsInv /\ FormsInv /\ ListsInv /\ [SiteNext]_siteVars
        => SiteTypes'
  BY SiteTypesKeep
<1>2. SiteSpec => []SiteTypes
  BY <1>1, SiteTypesStart, RecordsHold, EditsHold, FormsHold, ListsHold, PTL DEF SiteSpec
<1>3. QED
  BY <1>2, SiteTyped, RecordsHold, EditsHold, FormsHold, ListsHold, PTL
-----------------------------------------------------------------------------
\* Proofs about Router: the links of the pages against the routes of a site.

\* One after the other, the sequences of a list (FlattenSeq) hold what they
\* hold one by one.
LEMMA Flattened ==
    ASSUME NEW E, NEW list \in Seq(Seq(E))
    PROVE  /\ FlattenSeq(list) \in Seq(E)
           /\ ToSet(FlattenSeq(list)) = UNION {ToSet(list[i]) : i \in DOMAIN list}
<1> DEFINE N == Len(list)
           Body(h) == [n \in 1..N |-> IF n = 1 THEN list[n] ELSE h[n - 1] \o list[n]]
           all == CHOOSE h : h = Body(h)
           F == [p \in Nat \X Seq(E) |->
                    IF p[1] + 2 \in 1..N THEN p[2] \o list[p[1] + 2] ELSE p[2]]
           Parts(n) == UNION {ToSet(list[i]) : i \in 1..n}
<1>1. N \in Nat /\ DOMAIN list = 1..N /\ \A n \in 1..N : list[n] \in Seq(E)
  OBVIOUS
<1>2. CASE N = 0
  BY <1>1, <1>2 DEF FlattenSeq, ToSet
<1>3. CASE N # 0
  <2>1. N - 1 \in Nat /\ 1 \in 1..N
    BY <1>1, <1>3
  <2>2. FlattenSeq(list) = all[N]
    BY <1>3, Zenon DEF FlattenSeq
  <2> HIDE DEF N
  <2>3. F \in [Nat \X Seq(E) -> Seq(E)]
    <3>1. \A n \in Nat, s \in Seq(E) : n + 2 \in 1..N => s \o list[n + 2] \in Seq(E)
      BY <1>1, Joined
    <3>2. QED
      BY <3>1
  <2>4. \A n \in Nat, s \in Seq(E) :
            F[<<n, s>>] = IF n + 2 \in 1..N THEN s \o list[n + 2] ELSE s
    OBVIOUS
  <2> HIDE DEF F
  <2>5. PICK g \in [0..(N - 1) -> Seq(E)] : Follows(g, N - 1, list[1], F)
    BY <1>1, <2>1, <2>3, Recursion
  <2>6. \E h : h = Body(h)
    <3> DEFINE h == [n \in 1..N |-> g[n - 1]]
    <3>1. ASSUME NEW n \in 1..N
          PROVE  h[n] = IF n = 1 THEN list[n] ELSE h[n - 1] \o list[n]
      <4>1. CASE n = 1
        BY <2>5, <4>1 DEF Follows
      <4>2. CASE n # 1
        <5>1. /\ n - 1 \in 1..N /\ n - 2 \in 0..(N - 1) /\ n - 2 < N - 1 /\ n - 2 \in Nat
              /\ n - 2 + 1 = n - 1 /\ n - 2 + 2 = n /\ n - 1 - 1 = n - 2
          BY <1>1, <4>2
        <5>2. g[n - 1] = F[<<n - 2, g[n - 2]>>] /\ g[n - 2] \in Seq(E)
          BY <2>5, <5>1 DEF Follows
        <5>3. g[n - 1] = g[n - 2] \o list[n]
          BY <2>4, <5>1, <5>2
        <5>4. QED
          BY <4>2, <5>1, <5>3
      <4>3. QED
        BY <4>1, <4>2
    <3>2. h = Body(h)
      BY <3>1
    <3>3. QED
      BY <3>2
  <2>7. all = Body(all)
    BY <2>6
  <2>8. \A n \in 1..N : all[n] = IF n = 1 THEN list[n] ELSE all[n - 1] \o list[n]
    BY <2>7
  <2> HIDE DEF all
  <2> DEFINE T == {n \in 0..(N - 1) : all[n + 1] \in Seq(E) /\ ToSet(all[n + 1]) = Parts(n + 1)}
  <2>9. 0 \in T
    <3>1. all[1] = list[1] /\ list[1] \in Seq(E)
      BY <1>1, <2>1, <2>8
    <3>2. Parts(1) = ToSet(list[1])
      OBVIOUS
    <3>3. QED
      BY <2>1, <3>1, <3>2
  <2>10. ASSUME NEW n \in 0..(N - 1), n < N - 1, n \in T
         PROVE  n + 1 \in T
    <3>1. /\ n + 2 \in 1..N /\ n + 1 \in 0..(N - 1) /\ n + 1 + 1 = n + 2 /\ n + 2 # 1
          /\ n + 2 - 1 = n + 1 /\ n + 1 \in Nat
      BY <1>1, <2>10
    <3>2. all[n + 2] = all[n + 1] \o list[n + 2]
      <4>1. PICK m \in 1..N : m = n + 2
        BY <3>1
      <4>2. m # 1 /\ m - 1 = n + 1
        BY <3>1, <4>1
      <4>3. all[m] = all[m - 1] \o list[m]
        BY <2>8, <4>2
      <4>4. QED
        BY <4>1, <4>2, <4>3
    <3>3. all[n + 1] \in Seq(E) /\ list[n + 2] \in Seq(E) /\ ToSet(all[n + 1]) = Parts(n + 1)
      BY <1>1, <2>10, <3>1
    <3>4. all[n + 2] \in Seq(E) /\ ToSet(all[n + 2]) = Parts(n + 1) \cup ToSet(list[n + 2])
      BY <3>2, <3>3, Joined
    <3>5. 1..(n + 2) = 1..(n + 1) \cup {n + 2}
      BY <3>1
    <3>6. Parts(n + 2) = Parts(n + 1) \cup ToSet(list[n + 2])
      BY <3>5
    <3> HIDE DEF Parts
    <3>7. QED
      BY <3>1, <3>4, <3>6
  <2> HIDE DEF T
  <2>11. 0..(N - 1) \subseteq T
    BY <2>1, <2>9, <2>10, IntervalInduction
  <2>12. N - 1 \in T /\ N - 1 + 1 = N
    BY <1>1, <2>1, <2>11
  <2>13. all[N] \in Seq(E) /\ ToSet(all[N]) = Parts(N)
    BY <2>12 DEF T
  <2>14. QED
    BY <1>1, <2>2, <2>13 DEF N
<1>4. QED
  BY <1>2, <1>3

\* The handlers of some routes that answer a request.
Answering(all, method, path) ==
    {x.handler : x \in {x \in all : x.method = method /\ Matches(x.segments, path)}}

\* The first route of a table that answers a request has handler h.
Leads(routes, method, path, h) ==
    \E k \in DOMAIN routes :
        /\ routes[k].method = method /\ Matches(routes[k].segments, path)
        /\ routes[k].handler = h
        /\ \A i \in DOMAIN routes :
              routes[i].method = method /\ Matches(routes[i].segments, path) => k <= i

\* That is the handler Router::dispatch calls.
LEMMA LeadsThere ==
    ASSUME NEW E, NEW routes \in Seq(E), NEW method, NEW path, NEW h,
           Leads(routes, method, path, h)
    PROVE  Dispatch(routes, method, path) = h
<1> DEFINE matching == {i \in DOMAIN routes : Matches(routes[i].segments, path)}
           found == {i \in matching : routes[i].method = method}
<1>1. PICK k \in found : routes[k].handler = h /\ \A i \in found : k <= i
  BY DEF Leads
<1>2. found \subseteq Int
  OBVIOUS
<1>3. Dispatch(routes, method, path) = routes[Min(found)].handler
  BY <1>1 DEF Dispatch
<1> HIDE DEF found
<1>4. Min(found) \in found /\ Min(found) <= k
  BY <1>1 DEF Min
<1>5. Min(found) = k
  <2>1. Min(found) \in Int /\ k \in Int /\ k <= Min(found)
    BY <1>1, <1>2, <1>4
  <2>2. QED
    BY <1>4, <2>1
<1>6. QED
  BY <1>1, <1>3, <1>5

\* Routes that are registered later change nothing of it.
LEMMA LeadsStill ==
    ASSUME NEW E, NEW s \in Seq(E), NEW t \in Seq(E), NEW method, NEW path, NEW h,
           Leads(s, method, path, h)
    PROVE  Leads(s \o t, method, path, h)
<1>1. PICK k \in DOMAIN s :
          /\ s[k].method = method /\ Matches(s[k].segments, path) /\ s[k].handler = h
          /\ \A i \in DOMAIN s :
                s[i].method = method /\ Matches(s[i].segments, path) => k <= i
  BY DEF Leads
<1>2. DOMAIN s = 1..Len(s) /\ DOMAIN (s \o t) = 1..(Len(s) + Len(t))
  OBVIOUS
<1>3. Len(s) \in Nat /\ Len(t) \in Nat /\ \A i \in 1..Len(s) : (s \o t)[i] = s[i]
  OBVIOUS
<1>4. k \in DOMAIN (s \o t) /\ (s \o t)[k] = s[k]
  BY <1>2, <1>3
<1>5. ASSUME NEW i \in DOMAIN (s \o t), (s \o t)[i].method = method,
             Matches((s \o t)[i].segments, path)
      PROVE  k <= i
  <2>1. CASE i \in DOMAIN s
    BY <1>1, <1>2, <1>3, <1>5, <2>1
  <2>2. CASE i \notin DOMAIN s
    BY <1>2, <1>3, <2>2
  <2>3. QED
    BY <2>1, <2>2
<1>6. QED
  BY <1>1, <1>4, <1>5 DEF Leads

\* Nor do routes that were registered earlier and do not answer.
LEMMA LeadsPast ==
    ASSUME NEW E, NEW s \in Seq(E), NEW t \in Seq(E), NEW method, NEW path, NEW h,
           Answering(ToSet(s), method, path) = {}, Leads(t, method, path, h)
    PROVE  Leads(s \o t, method, path, h)
<1>1. PICK k \in DOMAIN t :
          /\ t[k].method = method /\ Matches(t[k].segments, path) /\ t[k].handler = h
          /\ \A i \in DOMAIN t :
                t[i].method = method /\ Matches(t[i].segments, path) => k <= i
  BY DEF Leads
<1>2. /\ DOMAIN s = 1..Len(s) /\ DOMAIN t = 1..Len(t)
      /\ DOMAIN (s \o t) = 1..(Len(s) + Len(t))
  OBVIOUS
<1>3. /\ Len(s) \in Nat /\ Len(t) \in Nat /\ \A i \in 1..Len(s) : (s \o t)[i] = s[i]
      /\ \A i \in 1..Len(t) : (s \o t)[Len(s) + i] = t[i]
  OBVIOUS
<1>4. \A i \in DOMAIN s : ~(s[i].method = method /\ Matches(s[i].segments, path))
  BY DEF Answering, ToSet
<1>5. Len(s) + k \in DOMAIN (s \o t) /\ (s \o t)[Len(s) + k] = t[k]
  BY <1>2, <1>3
<1>6. ASSUME NEW i \in DOMAIN (s \o t), (s \o t)[i].method = method,
             Matches((s \o t)[i].segments, path)
      PROVE  Len(s) + k <= i
  <2>1. i \notin DOMAIN s
    BY <1>2, <1>3, <1>4, <1>6
  <2>2. PICK j \in DOMAIN t : i = Len(s) + j
    <3>1. i - Len(s) \in DOMAIN t /\ i = Len(s) + (i - Len(s))
      BY <1>2, <1>3, <2>1
    <3>2. QED
      BY <3>1
  <2>3. k <= j
    BY <1>1, <1>2, <1>3, <1>6, <2>2
  <2>4. QED
    BY <1>2, <1>3, <2>2, <2>3
<1>7. QED
  BY <1>1, <1>5, <1>6 DEF Leads

\* Whose answers have one handler lead to it.
LEMMA OneAnswer ==
    ASSUME NEW E, NEW s \in Seq(E), NEW method, NEW path, NEW h,
           Answering(ToSet(s), method, path) = {h}
    PROVE  Leads(s, method, path, h)
<1> DEFINE T == {i \in DOMAIN s : s[i].method = method /\ Matches(s[i].segments, path)}
<1>1. T \subseteq Nat
  OBVIOUS
<1>2. T # {}
  BY DEF Answering, ToSet
<1>3. PICK k \in T : \A i \in T : k <= i
  <2> HIDE DEF T
  <2>1. QED
    BY <1>1, <1>2, LeastMember
<1>4. s[k].handler = h
  BY DEF Answering, ToSet
<1>5. QED
  BY <1>3, <1>4 DEF Leads

\* match_segments on patterns of up to four segments.
LEMMA MatchedSegments ==
    ASSUME NEW p
    PROVE  /\ Matches(<<>>, p) <=> Len(p) = 0
           /\ \A a : Matches(<<a>>, p) <=> Len(p) = 1 /\ (a \in Params \/ a = p[1])
           /\ \A a, b : Matches(<<a, b>>, p) <=>
                 Len(p) = 2 /\ (a \in Params \/ a = p[1]) /\ (b \in Params \/ b = p[2])
           /\ \A a, b, c : Matches(<<a, b, c>>, p) <=>
                 /\ Len(p) = 3
                 /\ (a \in Params \/ a = p[1]) /\ (b \in Params \/ b = p[2])
                 /\ (c \in Params \/ c = p[3])
           /\ \A a, b, c, d : Matches(<<a, b, c, d>>, p) <=>
                 /\ Len(p) = 4
                 /\ (a \in Params \/ a = p[1]) /\ (b \in Params \/ b = p[2])
                 /\ (c \in Params \/ c = p[3]) /\ (d \in Params \/ d = p[4])
<1>1. ASSUME NEW a, NEW b, NEW c, NEW d
      PROVE  /\ DOMAIN <<>> = {} /\ DOMAIN <<a>> = {1} /\ DOMAIN <<a, b>> = {1, 2}
             /\ DOMAIN <<a, b, c>> = {1, 2, 3} /\ DOMAIN <<a, b, c, d>> = {1, 2, 3, 4}
  OBVIOUS
<1>2. Matches(<<>>, p) <=> Len(p) = 0
  BY DEF Matches
<1>3. ASSUME NEW a
      PROVE  Matches(<<a>>, p) <=> Len(p) = 1 /\ (a \in Params \/ a = p[1])
  BY DEF Matches
<1>4. ASSUME NEW a, NEW b
      PROVE  Matches(<<a, b>>, p) <=>
               Len(p) = 2 /\ (a \in Params \/ a = p[1]) /\ (b \in Params \/ b = p[2])
  BY <1>1 DEF Matches
<1>5. ASSUME NEW a, NEW b, NEW c
      PROVE  Matches(<<a, b, c>>, p) <=>
               /\ Len(p) = 3
               /\ (a \in Params \/ a = p[1]) /\ (b \in Params \/ b = p[2])
               /\ (c \in Params \/ c = p[3])
  BY <1>1 DEF Matches
<1>6. ASSUME NEW a, NEW b, NEW c, NEW d
      PROVE  Matches(<<a, b, c, d>>, p) <=>
               /\ Len(p) = 4
               /\ (a \in Params \/ a = p[1]) /\ (b \in Params \/ b = p[2])
               /\ (c \in Params \/ c = p[3]) /\ (d \in Params \/ d = p[4])
  BY <1>1 DEF Matches
<1>7. QED
  BY <1>2, <1>3, <1>4, <1>5, <1>6

\* What the routes of register answer, by the length of the path: those that
\* are the same for every site and not of one model,
LEMMA FixedAnswers ==
    ASSUME NEW p, NEW method, NEW h
    PROVE  h \in Answering(ToSet(FixedRoutes), method, p) <=>
              \/ Len(p) = 1 /\ p[1] = "admin" /\ method = "GET" /\ h = "dashboard"
              \/ /\ Len(p) = 2 /\ p[1] = "admin"
                 /\ <<method, p[2], h>> \in {
                       <<"POST", "login", "login">>, <<"GET", "login", "login_page">>,
                       <<"POST", "logout", "logout">>, <<"GET", "logout", "logout_page">>,
                       <<"POST", "language", "language">>,
                       <<"GET", "password_change", "password_page">>,
                       <<"POST", "password_change", "password_change">>,
                       <<"GET", "profile", "profile">>, <<"GET", "actions", "actions">>}
              \/ /\ Len(p) = 3 /\ p[1] = "admin"
                 /\ <<method, p[2], p[3], h>> \in {
                       <<"GET", "assets", "favicon.svg", "asset">>,
                       <<"GET", "static", "admin.css", "asset">>,
                       <<"POST", "sessions", "clear", "clear_sessions">>,
                       <<"GET", "password_change", "done", "password_done">>,
                       <<"POST", "schema", "reload", "schema_reload">>}
              \/ /\ Len(p) = 4 /\ p[1] = "admin" /\ p[2] = "suggestions"
                 /\ <<method, h>> \in {
                       <<"GET", "suggestion_review">>, <<"POST", "suggestion_apply">>}
<1> DEFINE Of(m, s, x) == m = method /\ Matches(s, p) /\ h = x
<1>1. h \in Answering(ToSet(FixedRoutes), method, p) <=>
        \/ Of("GET", <<"admin", "assets", "favicon.svg">>, "asset")
        \/ Of("GET", <<"admin", "static", "admin.css">>, "asset")
        \/ Of("GET", <<"admin">>, "dashboard")
        \/ Of("POST", <<"admin", "login">>, "login")
        \/ Of("GET", <<"admin", "login">>, "login_page")
        \/ Of("POST", <<"admin", "logout">>, "logout")
        \/ Of("POST", <<"admin", "sessions", "clear">>, "clear_sessions")
        \/ Of("GET", <<"admin", "logout">>, "logout_page")
        \/ Of("POST", <<"admin", "language">>, "language")
        \/ Of("GET", <<"admin", "password_change">>, "password_page")
        \/ Of("POST", <<"admin", "password_change">>, "password_change")
        \/ Of("GET", <<"admin", "password_change", "done">>, "password_done")
        \/ Of("GET", <<"admin", "profile">>, "profile")
        \/ Of("GET", <<"admin", "actions">>, "actions")
        \/ Of("GET", <<"admin", "suggestions", ":admin", ":field">>, "suggestion_review")
        \/ Of("POST", <<"admin", "suggestions", ":admin", ":field">>, "suggestion_apply")
        \/ Of("POST", <<"admin", "schema", "reload">>, "schema_reload")
  <2>1. DOMAIN FixedRoutes = 1..17
    BY DEF FixedRoutes
  <2>2. /\ FixedRoutes[1] = Route("GET", <<"admin", "assets", "favicon.svg">>, "asset")
        /\ FixedRoutes[2] = Route("GET", <<"admin", "static", "admin.css">>, "asset")
        /\ FixedRoutes[3] = Route("GET", <<"admin">>, "dashboard")
        /\ FixedRoutes[4] = Route("POST", <<"admin", "login">>, "login")
        /\ FixedRoutes[5] = Route("GET", <<"admin", "login">>, "login_page")
        /\ FixedRoutes[6] = Route("POST", <<"admin", "logout">>, "logout")
        /\ FixedRoutes[7] = Route("POST", <<"admin", "sessions", "clear">>, "clear_sessions")
        /\ FixedRoutes[8] = Route("GET", <<"admin", "logout">>, "logout_page")
        /\ FixedRoutes[9] = Route("POST", <<"admin", "language">>, "language")
        /\ FixedRoutes[10] = Route("GET", <<"admin", "password_change">>, "password_page")
        /\ FixedRoutes[11] = Route("POST", <<"admin", "password_change">>, "password_change")
        /\ FixedRoutes[12] = Route("GET", <<"admin", "password_change", "done">>, "password_done")
        /\ FixedRoutes[13] = Route("GET", <<"admin", "profile">>, "profile")
        /\ FixedRoutes[14] = Route("GET", <<"admin", "actions">>, "actions")
        /\ FixedRoutes[15] = Route("GET", <<"admin", "suggestions", ":admin", ":field">>,
                                  "suggestion_review")
        /\ FixedRoutes[16] = Route("POST", <<"admin", "suggestions", ":admin", ":field">>,
                                  "suggestion_apply")
        /\ FixedRoutes[17] = Route("POST", <<"admin", "schema", "reload">>, "schema_reload")
    BY DEF FixedRoutes
  <2>3. h \in Answering(ToSet(FixedRoutes), method, p) <=>
          \E i \in 1..17 :
             Of(FixedRoutes[i].method, FixedRoutes[i].segments,
                FixedRoutes[i].handler)
    BY <2>1, Zenon DEF Answering, ToSet
  <2>4. \A m, s, x : /\ Route(m, s, x).method = m /\ Route(m, s, x).segments = s
                     /\ Route(m, s, x).handler = x
    BY DEF Route
  <2>5. \A i \in 1..17 : \/ i = 1 \/ i = 2 \/ i = 3 \/ i = 4 \/ i = 5 \/ i = 6
                         \/ i = 7 \/ i = 8 \/ i = 9 \/ i = 10 \/ i = 11 \/ i = 12
                         \/ i = 13 \/ i = 14 \/ i = 15 \/ i = 16 \/ i = 17
    OBVIOUS
  <2>6. {1, 2, 3, 4, 5, 6, 7, 8, 9, 10, 11, 12, 13, 14, 15, 16, 17} \subseteq 1..17
    OBVIOUS
  <2> HIDE DEF Of
  <2>7. QED
    BY <2>2, <2>3, <2>4, <2>5, <2>6, SMTT(60)
<1>2. Of("GET", <<"admin", "assets", "favicon.svg">>, "asset") <=>
        /\ method = "GET" /\ h = "asset" /\ Len(p) = 3
        /\ p[1] = "admin" /\ p[2] = "assets" /\ p[3] = "favicon.svg"
  BY MatchedSegments DEF Params
<1>3. Of("GET", <<"admin", "static", "admin.css">>, "asset") <=>
        /\ method = "GET" /\ h = "asset" /\ Len(p) = 3
        /\ p[1] = "admin" /\ p[2] = "static" /\ p[3] = "admin.css"
  BY MatchedSegments DEF Params
<1>4. Of("GET", <<"admin">>, "dashboard") <=>
        /\ method = "GET" /\ h = "dashboard" /\ Len(p) = 1
        /\ p[1] = "admin"
  BY MatchedSegments DEF Params
<1>5. Of("POST", <<"admin", "login">>, "login") <=>
        /\ method = "POST" /\ h = "login" /\ Len(p) = 2
        /\ p[1] = "admin" /\ p[2] = "login"
  BY MatchedSegments DEF Params
<1>6. Of("GET", <<"admin", "login">>, "login_page") <=>
        /\ method = "GET" /\ h = "login_page" /\ Len(p) = 2
        /\ p[1] = "admin" /\ p[2] = "login"
  BY MatchedSegments DEF Params
<1>7. Of("POST", <<"admin", "logout">>, "logout") <=>
        /\ method = "POST" /\ h = "logout" /\ Len(p) = 2
        /\ p[1] = "admin" /\ p[2] = "logout"
  BY MatchedSegments DEF Params
<1>8. Of("POST", <<"admin", "sessions", "clear">>, "clear_sessions") <=>
        /\ method = "POST" /\ h = "clear_sessions" /\ Len(p) = 3
        /\ p[1] = "admin" /\ p[2] = "sessions" /\ p[3] = "clear"
  BY MatchedSegments DEF Params
<1>9. Of("GET", <<"admin", "logout">>, "logout_page") <=>
        /\ method = "GET" /\ h = "logout_page" /\ Len(p) = 2
        /\ p[1] = "admin" /\ p[2] = "logout"
  BY MatchedSegments DEF Params
<1>10. Of("POST", <<"admin", "language">>, "language") <=>
        /\ method = "POST" /\ h = "language" /\ Len(p) = 2
        /\ p[1] = "admin" /\ p[2] = "language"
  BY MatchedSegments DEF Params
<1>11. Of("GET", <<"admin", "password_change">>, "password_page") <=>
        /\ method = "GET" /\ h = "password_page" /\ Len(p) = 2
        /\ p[1] = "admin" /\ p[2] = "password_change"
  BY MatchedSegments DEF Params
<1>12. Of("POST", <<"admin", "password_change">>, "password_change") <=>
        /\ method = "POST" /\ h = "password_change" /\ Len(p) = 2
        /\ p[1] = "admin" /\ p[2] = "password_change"
  BY MatchedSegments DEF Params
<1>13. Of("GET", <<"admin", "password_change", "done">>, "password_done") <=>
        /\ method = "GET" /\ h = "password_done" /\ Len(p) = 3
        /\ p[1] = "admin" /\ p[2] = "password_change" /\ p[3] = "done"
  BY MatchedSegments DEF Params
<1>14. Of("GET", <<"admin", "profile">>, "profile") <=>
        /\ method = "GET" /\ h = "profile" /\ Len(p) = 2
        /\ p[1] = "admin" /\ p[2] = "profile"
  BY MatchedSegments DEF Params
<1>15. Of("GET", <<"admin", "actions">>, "actions") <=>
        /\ method = "GET" /\ h = "actions" /\ Len(p) = 2
        /\ p[1] = "admin" /\ p[2] = "actions"
  BY MatchedSegments DEF Params
<1>16. Of("GET", <<"admin", "suggestions", ":admin", ":field">>, "suggestion_review") <=>
        /\ method = "GET" /\ h = "suggestion_review" /\ Len(p) = 4
        /\ p[1] = "admin" /\ p[2] = "suggestions"
  BY MatchedSegments DEF Params
<1>17. Of("POST", <<"admin", "suggestions", ":admin", ":field">>, "suggestion_apply") <=>
        /\ method = "POST" /\ h = "suggestion_apply" /\ Len(p) = 4
        /\ p[1] = "admin" /\ p[2] = "suggestions"
  BY MatchedSegments DEF Params
<1>18. Of("POST", <<"admin", "schema", "reload">>, "schema_reload") <=>
        /\ method = "POST" /\ h = "schema_reload" /\ Len(p) = 3
        /\ p[1] = "admin" /\ p[2] = "schema" /\ p[3] = "reload"
  BY MatchedSegments DEF Params
<1> HIDE DEF Of
<1>19. QED
  BY <1>1, <1>2, <1>3, <1>4, <1>5, <1>6, <1>7, <1>8, <1>9, <1>10, <1>11, <1>12,
     <1>13, <1>14, <1>15, <1>16, <1>17, <1>18, SMTT(60)

\* those that are the same for every site and take a model as a parameter,
LEMMA GenericAnswers ==
    ASSUME NEW p, NEW method, NEW h
    PROVE  h \in Answering(ToSet(GenericRoutes), method, p) <=>
              \/ Len(p) = 2 /\ p[1] = "admin" /\ method = "GET" /\ h = "index"
              \/ /\ Len(p) = 3 /\ p[1] = "admin"
                 /\ <<method, p[3], h>> \in {
                       <<"GET", "new", "form">>, <<"POST", "new", "create">>,
                       <<"POST", "layout", "layout">>, <<"GET", "view", "view_editor">>,
                       <<"POST", "view", "view">>}
              \/ /\ Len(p) = 4 /\ p[1] = "admin"
                 /\ <<method, p[4], h>> \in {
                       <<"GET", "edit", "edit_form">>, <<"POST", "edit", "update">>,
                       <<"POST", "delete", "delete">>}
<1> DEFINE Of(m, s, x) == m = method /\ Matches(s, p) /\ h = x
<1>1. h \in Answering(ToSet(GenericRoutes), method, p) <=>
        \/ Of("GET", <<"admin", ":model">>, "index")
        \/ Of("GET", <<"admin", ":model", "new">>, "form")
        \/ Of("GET", <<"admin", ":model", ":id", "edit">>, "edit_form")
        \/ Of("POST", <<"admin", ":model", "new">>, "create")
        \/ Of("POST", <<"admin", ":model", ":id", "edit">>, "update")
        \/ Of("POST", <<"admin", ":model", ":id", "delete">>, "delete")
        \/ Of("POST", <<"admin", ":model", "layout">>, "layout")
        \/ Of("GET", <<"admin", ":model", "view">>, "view_editor")
        \/ Of("POST", <<"admin", ":model", "view">>, "view")
  <2>1. DOMAIN GenericRoutes = 1..9
    BY DEF GenericRoutes
  <2>2. /\ GenericRoutes[1] = Route("GET", <<"admin", ":model">>, "index")
        /\ GenericRoutes[2] = Route("GET", <<"admin", ":model", "new">>, "form")
        /\ GenericRoutes[3] = Route("GET", <<"admin", ":model", ":id", "edit">>, "edit_form")
        /\ GenericRoutes[4] = Route("POST", <<"admin", ":model", "new">>, "create")
        /\ GenericRoutes[5] = Route("POST", <<"admin", ":model", ":id", "edit">>, "update")
        /\ GenericRoutes[6] = Route("POST", <<"admin", ":model", ":id", "delete">>, "delete")
        /\ GenericRoutes[7] = Route("POST", <<"admin", ":model", "layout">>, "layout")
        /\ GenericRoutes[8] = Route("GET", <<"admin", ":model", "view">>, "view_editor")
        /\ GenericRoutes[9] = Route("POST", <<"admin", ":model", "view">>, "view")
    BY DEF GenericRoutes
  <2>3. h \in Answering(ToSet(GenericRoutes), method, p) <=>
          \E i \in 1..9 :
             Of(GenericRoutes[i].method, GenericRoutes[i].segments,
                GenericRoutes[i].handler)
    BY <2>1, Zenon DEF Answering, ToSet
  <2>4. \A m, s, x : /\ Route(m, s, x).method = m /\ Route(m, s, x).segments = s
                     /\ Route(m, s, x).handler = x
    BY DEF Route
  <2>5. \A i \in 1..9 : \/ i = 1 \/ i = 2 \/ i = 3 \/ i = 4 \/ i = 5 \/ i = 6
                         \/ i = 7 \/ i = 8 \/ i = 9
    OBVIOUS
  <2>6. {1, 2, 3, 4, 5, 6, 7, 8, 9} \subseteq 1..9
    OBVIOUS
  <2> HIDE DEF Of
  <2>7. QED
    BY <2>2, <2>3, <2>4, <2>5, <2>6, SMTT(60)
<1>2. Of("GET", <<"admin", ":model">>, "index") <=>
        /\ method = "GET" /\ h = "index" /\ Len(p) = 2
        /\ p[1] = "admin"
  BY MatchedSegments DEF Params
<1>3. Of("GET", <<"admin", ":model", "new">>, "form") <=>
        /\ method = "GET" /\ h = "form" /\ Len(p) = 3
        /\ p[1] = "admin" /\ p[3] = "new"
  BY MatchedSegments DEF Params
<1>4. Of("GET", <<"admin", ":model", ":id", "edit">>, "edit_form") <=>
        /\ method = "GET" /\ h = "edit_form" /\ Len(p) = 4
        /\ p[1] = "admin" /\ p[4] = "edit"
  BY MatchedSegments DEF Params
<1>5. Of("POST", <<"admin", ":model", "new">>, "create") <=>
        /\ method = "POST" /\ h = "create" /\ Len(p) = 3
        /\ p[1] = "admin" /\ p[3] = "new"
  BY MatchedSegments DEF Params
<1>6. Of("POST", <<"admin", ":model", ":id", "edit">>, "update") <=>
        /\ method = "POST" /\ h = "update" /\ Len(p) = 4
        /\ p[1] = "admin" /\ p[4] = "edit"
  BY MatchedSegments DEF Params
<1>7. Of("POST", <<"admin", ":model", ":id", "delete">>, "delete") <=>
        /\ method = "POST" /\ h = "delete" /\ Len(p) = 4
        /\ p[1] = "admin" /\ p[4] = "delete"
  BY MatchedSegments DEF Params
<1>8. Of("POST", <<"admin", ":model", "layout">>, "layout") <=>
        /\ method = "POST" /\ h = "layout" /\ Len(p) = 3
        /\ p[1] = "admin" /\ p[3] = "layout"
  BY MatchedSegments DEF Params
<1>9. Of("GET", <<"admin", ":model", "view">>, "view_editor") <=>
        /\ method = "GET" /\ h = "view_editor" /\ Len(p) = 3
        /\ p[1] = "admin" /\ p[3] = "view"
  BY MatchedSegments DEF Params
<1>10. Of("POST", <<"admin", ":model", "view">>, "view") <=>
        /\ method = "POST" /\ h = "view" /\ Len(p) = 3
        /\ p[1] = "admin" /\ p[3] = "view"
  BY MatchedSegments DEF Params
<1> HIDE DEF Of
<1>11. QED
  BY <1>1, <1>2, <1>3, <1>4, <1>5, <1>6, <1>7, <1>8, <1>9, <1>10, SMTT(60)

\* and those of one model.
LEMMA ModelAnswers ==
    ASSUME NEW slug, slug \notin Params, NEW p, NEW method, NEW h
    PROVE  h \in Answering(ToSet(ModelRoutes(slug)), method, p) <=>
              \/ /\ Len(p) = 2 /\ p[1] = "admin" /\ p[2] = slug
                 /\ method = "GET" /\ h = "legacy_index"
              \/ /\ Len(p) = 3 /\ p[1] = "admin" /\ p[2] = slug
                 /\ <<method, p[3], h>> \in {
                       <<"GET", "create", "legacy_form">>, <<"POST", "create", "legacy_create">>,
                       <<"POST", "bulk_action", "bulk">>}
              \/ /\ Len(p) = 4 /\ p[1] = "admin" /\ p[2] = slug
                 /\ <<method, p[4], h>> \in {
                       <<"GET", "edit", "legacy_edit_form">>, <<"POST", "edit", "legacy_update">>,
                       <<"GET", "delete", "legacy_delete_page">>,
                       <<"POST", "delete", "legacy_delete">>, <<"GET", "history", "history">>}
<1> DEFINE Of(m, s, x) == m = method /\ Matches(s, p) /\ h = x
<1>1. h \in Answering(ToSet(ModelRoutes(slug)), method, p) <=>
        \/ Of("GET", <<"admin", slug>>, "legacy_index")
        \/ Of("GET", <<"admin", slug, "create">>, "legacy_form")
        \/ Of("POST", <<"admin", slug, "create">>, "legacy_create")
        \/ Of("GET", <<"admin", slug, ":id", "edit">>, "legacy_edit_form")
        \/ Of("POST", <<"admin", slug, ":id", "edit">>, "legacy_update")
        \/ Of("GET", <<"admin", slug, ":id", "delete">>, "legacy_delete_page")
        \/ Of("POST", <<"admin", slug, ":id", "delete">>, "legacy_delete")
        \/ Of("GET", <<"admin", slug, ":id", "history">>, "history")
        \/ Of("POST", <<"admin", slug, "bulk_action">>, "bulk")
  <2>1. DOMAIN ModelRoutes(slug) = 1..9
    BY DEF ModelRoutes
  <2>2. /\ ModelRoutes(slug)[1] = Route("GET", <<"admin", slug>>, "legacy_index")
        /\ ModelRoutes(slug)[2] = Route("GET", <<"admin", slug, "create">>, "legacy_form")
        /\ ModelRoutes(slug)[3] = Route("POST", <<"admin", slug, "create">>, "legacy_create")
        /\ ModelRoutes(slug)[4] = Route("GET", <<"admin", slug, ":id", "edit">>, "legacy_edit_form")
        /\ ModelRoutes(slug)[5] = Route("POST", <<"admin", slug, ":id", "edit">>, "legacy_update")
        /\ ModelRoutes(slug)[6] = Route("GET", <<"admin", slug, ":id", "delete">>,
                                        "legacy_delete_page")
        /\ ModelRoutes(slug)[7] = Route("POST", <<"admin", slug, ":id", "delete">>, "legacy_delete")
        /\ ModelRoutes(slug)[8] = Route("GET", <<"admin", slug, ":id", "history">>, "history")
        /\ ModelRoutes(slug)[9] = Route("POST", <<"admin", slug, "bulk_action">>, "bulk")
    BY DEF ModelRoutes
  <2>3. h \in Answering(ToSet(ModelRoutes(slug)), method, p) <=>
          \E i \in 1..9 :
             Of(ModelRoutes(slug)[i].method, ModelRoutes(slug)[i].segments,
                ModelRoutes(slug)[i].handler)
    BY <2>1, Zenon DEF Answering, ToSet
  <2>4. \A m, s, x : /\ Route(m, s, x).method = m /\ Route(m, s, x).segments = s
                     /\ Route(m, s, x).handler = x
    BY DEF Route
  <2>5. \A i \in 1..9 : \/ i = 1 \/ i = 2 \/ i = 3 \/ i = 4 \/ i = 5 \/ i = 6
                         \/ i = 7 \/ i = 8 \/ i = 9
    OBVIOUS
  <2>6. {1, 2, 3, 4, 5, 6, 7, 8, 9} \subseteq 1..9
    OBVIOUS
  <2> HIDE DEF Of
  <2>7. QED
    BY <2>2, <2>3, <2>4, <2>5, <2>6, SMTT(60)
<1>2. Of("GET", <<"admin", slug>>, "legacy_index") <=>
        /\ method = "GET" /\ h = "legacy_index" /\ Len(p) = 2
        /\ p[1] = "admin" /\ p[2] = slug
  BY MatchedSegments DEF Params
<1>3. Of("GET", <<"admin", slug, "create">>, "legacy_form") <=>
        /\ method = "GET" /\ h = "legacy_form" /\ Len(p) = 3
        /\ p[1] = "admin" /\ p[2] = slug /\ p[3] = "create"
  BY MatchedSegments DEF Params
<1>4. Of("POST", <<"admin", slug, "create">>, "legacy_create") <=>
        /\ method = "POST" /\ h = "legacy_create" /\ Len(p) = 3
        /\ p[1] = "admin" /\ p[2] = slug /\ p[3] = "create"
  BY MatchedSegments DEF Params
<1>5. Of("GET", <<"admin", slug, ":id", "edit">>, "legacy_edit_form") <=>
        /\ method = "GET" /\ h = "legacy_edit_form" /\ Len(p) = 4
        /\ p[1] = "admin" /\ p[2] = slug /\ p[4] = "edit"
  BY MatchedSegments DEF Params
<1>6. Of("POST", <<"admin", slug, ":id", "edit">>, "legacy_update") <=>
        /\ method = "POST" /\ h = "legacy_update" /\ Len(p) = 4
        /\ p[1] = "admin" /\ p[2] = slug /\ p[4] = "edit"
  BY MatchedSegments DEF Params
<1>7. Of("GET", <<"admin", slug, ":id", "delete">>, "legacy_delete_page") <=>
        /\ method = "GET" /\ h = "legacy_delete_page" /\ Len(p) = 4
        /\ p[1] = "admin" /\ p[2] = slug /\ p[4] = "delete"
  BY MatchedSegments DEF Params
<1>8. Of("POST", <<"admin", slug, ":id", "delete">>, "legacy_delete") <=>
        /\ method = "POST" /\ h = "legacy_delete" /\ Len(p) = 4
        /\ p[1] = "admin" /\ p[2] = slug /\ p[4] = "delete"
  BY MatchedSegments DEF Params
<1>9. Of("GET", <<"admin", slug, ":id", "history">>, "history") <=>
        /\ method = "GET" /\ h = "history" /\ Len(p) = 4
        /\ p[1] = "admin" /\ p[2] = slug /\ p[4] = "history"
  BY MatchedSegments DEF Params
<1>10. Of("POST", <<"admin", slug, "bulk_action">>, "bulk") <=>
        /\ method = "POST" /\ h = "bulk" /\ Len(p) = 3
        /\ p[1] = "admin" /\ p[2] = slug /\ p[3] = "bulk_action"
  BY MatchedSegments DEF Params
<1> HIDE DEF Of
<1>11. QED
  BY <1>1, <1>2, <1>3, <1>4, <1>5, <1>6, <1>7, <1>8, <1>9, <1>10, SMTT(60)

\* The first segments that fixed routes have taken, in the place of a model's slug.
Taken == {"login", "logout", "password_change", "profile", "actions", "suggestions"}

\* The routes of all models, one model after the other.
Mounted == FlattenSeq([i \in DOMAIN Models |-> ModelRoutes(Models[i])])

\* What with_defaults may add, and all routes of a site.
Defaults == {Route("GET", <<>>, "homepage"), Route("GET", <<"docs">>, "docs")}
Registered ==
    ToSet(FixedRoutes) \cup ToSet(GenericRoutes) \cup Defaults
        \cup UNION {ToSet(ModelRoutes(slug)) : slug \in ToSet(Models)}

\* The parts of the table are sequences of them.
LEMMA TablesOfRoutes ==
    ASSUME NEW M, Models \in Seq(M)
    PROVE  /\ FixedRoutes \in Seq(Registered) /\ GenericRoutes \in Seq(Registered)
           /\ Mounted \in Seq(Registered)
           /\ ToSet(Mounted) = UNION {ToSet(ModelRoutes(slug)) : slug \in ToSet(Models)}
<1>1. FixedRoutes \in Seq(Registered)
  <2>1. FixedRoutes = [i \in 1..17 |-> FixedRoutes[i]]
    BY DEF FixedRoutes
  <2>2. \A i \in 1..17 : FixedRoutes[i] \in Registered
    BY <2>1, Zenon DEF Registered, ToSet
  <2>3. QED
    BY <2>1, <2>2
<1>2. GenericRoutes \in Seq(Registered)
  <2>1. GenericRoutes = [i \in 1..9 |-> GenericRoutes[i]]
    BY DEF GenericRoutes
  <2>2. \A i \in 1..9 : GenericRoutes[i] \in Registered
    BY <2>1, Zenon DEF Registered, ToSet
  <2>3. QED
    BY <2>1, <2>2
<1>3. ASSUME NEW slug \in ToSet(Models)
      PROVE  ModelRoutes(slug) \in Seq(Registered)
  <2>1. ModelRoutes(slug) = [i \in 1..9 |-> ModelRoutes(slug)[i]]
    BY DEF ModelRoutes
  <2>2. \A i \in 1..9 : ModelRoutes(slug)[i] \in Registered
    <3>1. DOMAIN ModelRoutes(slug) = 1..9
      BY <2>1
    <3>2. \A i \in 1..9 : ModelRoutes(slug)[i] \in ToSet(ModelRoutes(slug))
      BY <3>1, Zenon DEF ToSet
    <3>3. ToSet(ModelRoutes(slug)) \subseteq Registered
      BY <1>3, Zenon DEF Registered
    <3>4. QED
      BY <3>2, <3>3
  <2>3. QED
    BY <2>1, <2>2
<1> DEFINE list == [i \in DOMAIN Models |-> ModelRoutes(Models[i])]
<1>4. /\ DOMAIN Models = 1..Len(Models) /\ Len(Models) \in Nat
      /\ \A i \in DOMAIN Models : Models[i] \in ToSet(Models)
  BY DEF ToSet
<1>5. list \in Seq(Seq(Registered)) /\ DOMAIN list = DOMAIN Models
  <2> HIDE DEF Registered
  <2>1. QED
    BY <1>3, <1>4
<1>6. Mounted = FlattenSeq(list)
  BY DEF Mounted
<1>7. UNION {ToSet(list[i]) : i \in DOMAIN list}
        = UNION {ToSet(ModelRoutes(slug)) : slug \in ToSet(Models)}
  <2>1. \A i \in DOMAIN Models : list[i] = ModelRoutes(Models[i])
    OBVIOUS
  <2>2. \A slug \in ToSet(Models) : \E i \in DOMAIN Models : slug = Models[i]
    BY DEF ToSet
  <2> HIDE DEF list
  <2>3. QED
    BY <1>4, <1>5, <2>1, <2>2
<1> HIDE DEF list
<1>8. QED
  BY <1>1, <1>2, <1>5, <1>6, <1>7, Flattened

\* What leads to a handler among the routes of the admin does so in the site.
LEMMA SiteLeads ==
    ASSUME NEW M, Models \in Seq(M), NEW method, NEW path, NEW h,
           Leads(AdminRoutes, method, path, h)
    PROVE  Dispatch(SiteRoutes, method, path) = h
<1> DEFINE home == IF HasRoute(AdminRoutes, "GET", <<>>) THEN <<>>
                   ELSE <<Route("GET", <<>>, "homepage")>>
           docs == IF HasRoute(AdminRoutes, "GET", <<"docs">>) THEN <<>>
                   ELSE <<Route("GET", <<"docs">>, "docs")>>
<1>1. AdminRoutes \in Seq(Registered)
  BY TablesOfRoutes, Joined DEF AdminRoutes, Mounted
<1>2. home \in Seq(Registered) /\ docs \in Seq(Registered)
  <2>1. /\ Route("GET", <<>>, "homepage") \in Registered
        /\ Route("GET", <<"docs">>, "docs") \in Registered
    <3>1. Defaults \subseteq Registered
      BY DEF Registered
    <3>2. QED
      BY <3>1, Zenon DEF Defaults
  <2> HIDE DEF Registered
  <2>2. QED
    BY <2>1
<1>3. SiteRoutes = (AdminRoutes \o home) \o docs
  BY Zenon DEF SiteRoutes, WithDefaults
<1> HIDE DEF home, docs
<1>4. AdminRoutes \o home \in Seq(Registered) /\ (AdminRoutes \o home) \o docs \in Seq(Registered)
  BY <1>1, <1>2, Joined
<1>5. Leads((AdminRoutes \o home) \o docs, method, path, h)
  BY <1>1, <1>2, <1>4, LeadsStill
<1>6. QED
  BY <1>3, <1>4, <1>5, LeadsThere

\* A request that fixed routes answer in one way is answered so; one that they
\* leave alone goes to the routes with a model for a parameter, and one that
\* those leave alone to what the models registered.
LEMMA FirstAnswer ==
    ASSUME NEW M, Models \in Seq(M), NEW method, NEW path, NEW h,
           \/ Answering(ToSet(FixedRoutes), method, path) = {h}
           \/ /\ Answering(ToSet(FixedRoutes), method, path) = {}
              /\ Answering(ToSet(GenericRoutes), method, path) = {h}
           \/ /\ Answering(ToSet(FixedRoutes), method, path) = {}
              /\ Answering(ToSet(GenericRoutes), method, path) = {}
              /\ Answering(ToSet(Mounted), method, path) = {h}
    PROVE  Dispatch(SiteRoutes, method, path) = h
<1>1. /\ FixedRoutes \in Seq(Registered) /\ GenericRoutes \in Seq(Registered)
      /\ Mounted \in Seq(Registered)
  BY TablesOfRoutes
<1>2. /\ FixedRoutes \o GenericRoutes \in Seq(Registered)
      /\ ToSet(FixedRoutes \o GenericRoutes) = ToSet(FixedRoutes) \cup ToSet(GenericRoutes)
  BY <1>1, Joined
<1>3. AdminRoutes = (FixedRoutes \o GenericRoutes) \o Mounted
  BY DEF AdminRoutes, Mounted
<1>4. CASE Answering(ToSet(FixedRoutes), method, path) = {h}
  <2>1. Leads(FixedRoutes, method, path, h)
    BY <1>1, <1>4, OneAnswer
  <2>2. Leads(FixedRoutes \o GenericRoutes, method, path, h)
    BY <1>1, <2>1, LeadsStill
  <2>3. Leads(AdminRoutes, method, path, h)
    BY <1>1, <1>2, <1>3, <2>2, LeadsStill
  <2>4. QED
    BY <2>3, SiteLeads
<1>5. CASE /\ Answering(ToSet(FixedRoutes), method, path) = {}
           /\ Answering(ToSet(GenericRoutes), method, path) = {h}
  <2>1. Leads(GenericRoutes, method, path, h)
    BY <1>1, <1>5, OneAnswer
  <2>2. Leads(FixedRoutes \o GenericRoutes, method, path, h)
    BY <1>1, <1>5, <2>1, LeadsPast
  <2>3. Leads(AdminRoutes, method, path, h)
    BY <1>1, <1>2, <1>3, <2>2, LeadsStill
  <2>4. QED
    BY <2>3, SiteLeads
<1>6. CASE /\ Answering(ToSet(FixedRoutes), method, path) = {}
           /\ Answering(ToSet(GenericRoutes), method, path) = {}
           /\ Answering(ToSet(Mounted), method, path) = {h}
  <2>1. Leads(Mounted, method, path, h)
    BY <1>1, <1>6, OneAnswer
  <2>2. Answering(ToSet(FixedRoutes \o GenericRoutes), method, path) = {}
    BY <1>2, <1>6 DEF Answering
  <2>3. Leads(AdminRoutes, method, path, h)
    BY <1>1, <1>2, <1>3, <2>1, <2>2, LeadsPast
  <2>4. QED
    BY <2>3, SiteLeads
<1>7. QED
  BY <1>4, <1>5, <1>6

\* The page that with_defaults adds for the site itself.
LEMMA HomeIsAnswered ==
    ASSUME NEW M, Models \in Seq(M), ToSet(Models) \cap Params = {}
    PROVE  Dispatch(SiteRoutes, "GET", <<>>) = "homepage"
<1> DEFINE home == <<Route("GET", <<>>, "homepage")>>
           docs == IF HasRoute(AdminRoutes, "GET", <<"docs">>) THEN <<>>
                   ELSE <<Route("GET", <<"docs">>, "docs")>>
<1>1. AdminRoutes \in Seq(Registered)
  BY TablesOfRoutes, Joined DEF AdminRoutes, Mounted
<1>2. home \in Seq(Registered) /\ docs \in Seq(Registered)
  <2>1. /\ Route("GET", <<>>, "homepage") \in Registered
        /\ Route("GET", <<"docs">>, "docs") \in Registered
    <3>1. Defaults \subseteq Registered
      BY DEF Registered
    <3>2. QED
      BY <3>1, Zenon DEF Defaults
  <2> HIDE DEF Registered
  <2>2. QED
    BY <2>1
<1>3. Answering(ToSet(AdminRoutes), "GET", <<>>) = {}
  <2>1. Len(<<>>) = 0
    OBVIOUS
  <2>2. \A x : x \notin Answering(ToSet(FixedRoutes), "GET", <<>>)
    BY <2>1, FixedAnswers
  <2>3. \A x : x \notin Answering(ToSet(GenericRoutes), "GET", <<>>)
    BY <2>1, GenericAnswers
  <2>4. \A slug \in ToSet(Models) : \A x : x \notin Answering(ToSet(ModelRoutes(slug)), "GET", <<>>)
    BY <2>1, ModelAnswers
  <2>5. ToSet(Mounted) = UNION {ToSet(ModelRoutes(slug)) : slug \in ToSet(Models)}
    BY TablesOfRoutes
  <2>6. \A x : x \notin Answering(ToSet(Mounted), "GET", <<>>)
    BY <2>4, <2>5 DEF Answering
  <2>7. ToSet(AdminRoutes) = ToSet(FixedRoutes) \cup ToSet(GenericRoutes) \cup ToSet(Mounted)
    <3>1. /\ FixedRoutes \in Seq(Registered) /\ GenericRoutes \in Seq(Registered)
          /\ Mounted \in Seq(Registered)
      BY TablesOfRoutes
    <3>2. /\ FixedRoutes \o GenericRoutes \in Seq(Registered)
          /\ ToSet(FixedRoutes \o GenericRoutes) = ToSet(FixedRoutes) \cup ToSet(GenericRoutes)
      BY <3>1, Joined
    <3>3. AdminRoutes = (FixedRoutes \o GenericRoutes) \o Mounted
      BY Zenon DEF AdminRoutes, Mounted
    <3>4. ToSet((FixedRoutes \o GenericRoutes) \o Mounted)
            = ToSet(FixedRoutes \o GenericRoutes) \cup ToSet(Mounted)
      <4>1. \A s, t \in Seq(Registered) : ToSet(s \o t) = ToSet(s) \cup ToSet(t)
        BY Joined
      <4>2. QED
        BY <3>1, <3>2, <4>1, Zenon
    <3>5. QED
      BY <3>2, <3>3, <3>4, Zenon
  <2>8. QED
    BY <2>2, <2>3, <2>6, <2>7 DEF Answering
<1>4. ~HasRoute(AdminRoutes, "GET", <<>>)
  <2>1. Matches(<<>>, <<>>)
    BY DEF Matches
  <2>2. QED
    BY <1>3, <2>1 DEF HasRoute, Answering, ToSet
<1>5. SiteRoutes = (AdminRoutes \o home) \o docs
  BY <1>4, Zenon DEF SiteRoutes, WithDefaults
<1>6. Leads(home, "GET", <<>>, "homepage")
  <2>1. Matches(<<>>, <<>>)
    BY DEF Matches
  <2>2. DOMAIN home = {1} /\ home[1] = Route("GET", <<>>, "homepage")
    OBVIOUS
  <2>3. QED
    BY <2>1, <2>2 DEF Leads, Route
<1> HIDE DEF home, docs
<1>7. AdminRoutes \o home \in Seq(Registered) /\ (AdminRoutes \o home) \o docs \in Seq(Registered)
  BY <1>1, <1>2, Joined
<1>8. Leads((AdminRoutes \o home) \o docs, "GET", <<>>, "homepage")
  BY <1>1, <1>2, <1>3, <1>6, <1>7, LeadsPast, LeadsStill
<1>9. QED
  BY <1>5, <1>7, <1>8, LeadsThere

\* The links of the chrome, but for that of the site itself, are answered by
\* fixed routes;
LEMMA ChromeLinksLead ==
    ASSUME NEW l \in ChromeLinks, l[2] # <<>>
    PROVE  Answering(ToSet(FixedRoutes), l[1], l[2]) = {l[3]}
<1> DEFINE One(m, p, h) == Answering(ToSet(FixedRoutes), m, p) = {h}
<1>1. One("GET", <<"admin">>, "dashboard")
  <2>1. Len(<<"admin">>) = 1
    OBVIOUS
  <2>2. QED
    BY <2>1, FixedAnswers
<1>2. One("GET", <<"admin", "profile">>, "profile")
  <2>1. Len(<<"admin", "profile">>) = 2
    OBVIOUS
  <2>2. QED
    BY <2>1, FixedAnswers
<1>3. One("GET", <<"admin", "actions">>, "actions")
  <2>1. Len(<<"admin", "actions">>) = 2
    OBVIOUS
  <2>2. QED
    BY <2>1, FixedAnswers
<1>4. One("POST", <<"admin", "language">>, "language")
  <2>1. Len(<<"admin", "language">>) = 2
    OBVIOUS
  <2>2. QED
    BY <2>1, FixedAnswers
<1>5. One("GET", <<"admin", "password_change">>, "password_page")
  <2>1. Len(<<"admin", "password_change">>) = 2
    OBVIOUS
  <2>2. QED
    BY <2>1, FixedAnswers
<1>6. One("POST", <<"admin", "password_change">>, "password_change")
  <2>1. Len(<<"admin", "password_change">>) = 2
    OBVIOUS
  <2>2. QED
    BY <2>1, FixedAnswers
<1>7. One("GET", <<"admin", "logout">>, "logout_page")
  <2>1. Len(<<"admin", "logout">>) = 2
    OBVIOUS
  <2>2. QED
    BY <2>1, FixedAnswers
<1>8. One("POST", <<"admin", "logout">>, "logout")
  <2>1. Len(<<"admin", "logout">>) = 2
    OBVIOUS
  <2>2. QED
    BY <2>1, FixedAnswers
<1>9. One("POST", <<"admin", "login">>, "login")
  <2>1. Len(<<"admin", "login">>) = 2
    OBVIOUS
  <2>2. QED
    BY <2>1, FixedAnswers
<1>10. One("POST", <<"admin", "sessions", "clear">>, "clear_sessions")
  <2>1. Len(<<"admin", "sessions", "clear">>) = 3
    OBVIOUS
  <2>2. QED
    BY <2>1, FixedAnswers
<1>11. One("GET", <<"admin", "suggestions", "posts", "author_id">>, "suggestion_review")
  <2>1. Len(<<"admin", "suggestions", "posts", "author_id">>) = 4
    OBVIOUS
  <2>2. QED
    BY <2>1, FixedAnswers
<1>12. One("POST", <<"admin", "suggestions", "posts", "author_id">>, "suggestion_apply")
  <2>1. Len(<<"admin", "suggestions", "posts", "author_id">>) = 4
    OBVIOUS
  <2>2. QED
    BY <2>1, FixedAnswers
<1> HIDE DEF One
<1>13. One(l[1], l[2], l[3])
  BY <1>1, <1>2, <1>3, <1>4, <1>5, <1>6, <1>7, <1>8, <1>9, <1>10, <1>11, <1>12 DEF ChromeLinks
<1>14. QED
  BY <1>13 DEF One

\* those that every list has, by routes with the model as a parameter, unless the
\* model has a name that fixed routes have taken;
LEMMA ListLinksLead ==
    ASSUME NEW slug, slug \notin Taken \cup Params, NEW l \in ListLinks(slug)
    PROVE  /\ Answering(ToSet(FixedRoutes), l[1], l[2]) = {}
           /\ Answering(ToSet(GenericRoutes), l[1], l[2]) = {l[3]}
<1> DEFINE One(m, p, h) == /\ Answering(ToSet(FixedRoutes), m, p) = {}
                           /\ Answering(ToSet(GenericRoutes), m, p) = {h}
<1>1. One("GET", <<"admin", slug>>, "index")
  <2>1. Len(<<"admin", slug>>) = 2
    OBVIOUS
  <2>2. \A x : x \notin Answering(ToSet(FixedRoutes), "GET", <<"admin", slug>>)
    BY <2>1, FixedAnswers DEF Taken
  <2>3. QED
    BY <2>1, <2>2, GenericAnswers
<1>2. One("GET", <<"admin", slug, "view">>, "view_editor")
  <2>1. Len(<<"admin", slug, "view">>) = 3
    OBVIOUS
  <2>2. \A x : x \notin Answering(ToSet(FixedRoutes), "GET", <<"admin", slug, "view">>)
    BY <2>1, FixedAnswers DEF Taken
  <2>3. QED
    BY <2>1, <2>2, GenericAnswers
<1>3. One("POST", <<"admin", slug, "view">>, "view")
  <2>1. Len(<<"admin", slug, "view">>) = 3
    OBVIOUS
  <2>2. \A x : x \notin Answering(ToSet(FixedRoutes), "POST", <<"admin", slug, "view">>)
    BY <2>1, FixedAnswers DEF Taken
  <2>3. QED
    BY <2>1, <2>2, GenericAnswers
<1>4. One("POST", <<"admin", slug, "layout">>, "layout")
  <2>1. Len(<<"admin", slug, "layout">>) = 3
    OBVIOUS
  <2>2. \A x : x \notin Answering(ToSet(FixedRoutes), "POST", <<"admin", slug, "layout">>)
    BY <2>1, FixedAnswers DEF Taken
  <2>3. QED
    BY <2>1, <2>2, GenericAnswers
<1>5. One("GET", <<"admin", slug, "new">>, "form")
  <2>1. Len(<<"admin", slug, "new">>) = 3
    OBVIOUS
  <2>2. \A x : x \notin Answering(ToSet(FixedRoutes), "GET", <<"admin", slug, "new">>)
    BY <2>1, FixedAnswers DEF Taken
  <2>3. QED
    BY <2>1, <2>2, GenericAnswers
<1>6. One("POST", <<"admin", slug, "new">>, "create")
  <2>1. Len(<<"admin", slug, "new">>) = 3
    OBVIOUS
  <2>2. \A x : x \notin Answering(ToSet(FixedRoutes), "POST", <<"admin", slug, "new">>)
    BY <2>1, FixedAnswers DEF Taken
  <2>3. QED
    BY <2>1, <2>2, GenericAnswers
<1>7. One("GET", <<"admin", slug, "id", "edit">>, "edit_form")
  <2>1. Len(<<"admin", slug, "id", "edit">>) = 4
    OBVIOUS
  <2>2. \A x : x \notin Answering(ToSet(FixedRoutes), "GET", <<"admin", slug, "id", "edit">>)
    BY <2>1, FixedAnswers DEF Taken
  <2>3. QED
    BY <2>1, <2>2, GenericAnswers
<1>8. One("POST", <<"admin", slug, "id", "edit">>, "update")
  <2>1. Len(<<"admin", slug, "id", "edit">>) = 4
    OBVIOUS
  <2>2. \A x : x \notin Answering(ToSet(FixedRoutes), "POST", <<"admin", slug, "id", "edit">>)
    BY <2>1, FixedAnswers DEF Taken
  <2>3. QED
    BY <2>1, <2>2, GenericAnswers
<1>9. One("POST", <<"admin", slug, "id", "delete">>, "delete")
  <2>1. Len(<<"admin", slug, "id", "delete">>) = 4
    OBVIOUS
  <2>2. \A x : x \notin Answering(ToSet(FixedRoutes), "POST", <<"admin", slug, "id", "delete">>)
    BY <2>1, FixedAnswers DEF Taken
  <2>3. QED
    BY <2>1, <2>2, GenericAnswers
<1> HIDE DEF One
<1>10. One(l[1], l[2], l[3])
  BY <1>1, <1>2, <1>3, <1>4, <1>5, <1>6, <1>7, <1>8, <1>9 DEF ListLinks
<1>11. QED
  BY <1>10 DEF One

\* and those that only models have, by what these registered for themselves.
LEMMA ModelLinksLead ==
    ASSUME NEW M, Models \in Seq(M), ToSet(Models) \cap (Taken \cup Params) = {},
           NEW slug \in ToSet(Models), NEW l \in ModelLinks(slug)
    PROVE  /\ Answering(ToSet(FixedRoutes), l[1], l[2]) = {}
           /\ Answering(ToSet(GenericRoutes), l[1], l[2]) = {}
           /\ Answering(ToSet(Mounted), l[1], l[2]) = {l[3]}
<1> DEFINE One(m, p, h) == /\ Answering(ToSet(FixedRoutes), m, p) = {}
                           /\ Answering(ToSet(GenericRoutes), m, p) = {}
                           /\ Answering(ToSet(Mounted), m, p) = {h}
<1>0. \A m, p, h : h \in Answering(ToSet(Mounted), m, p) <=>
        \E s \in ToSet(Models) : h \in Answering(ToSet(ModelRoutes(s)), m, p)
  <2>1. ToSet(Mounted) = UNION {ToSet(ModelRoutes(s)) : s \in ToSet(Models)}
    BY TablesOfRoutes
  <2>2. QED
    BY <2>1 DEF Answering
<1>1. slug \notin Taken \cup Params /\ \A s \in ToSet(Models) : s \notin Params
  OBVIOUS
<1>2. One("GET", <<"admin", slug, "id", "history">>, "history")
  <2>1. Len(<<"admin", slug, "id", "history">>) = 4
    OBVIOUS
  <2>2. \A x : x \notin Answering(ToSet(FixedRoutes), "GET", <<"admin", slug, "id", "history">>)
    BY <1>1, <2>1, FixedAnswers DEF Taken
  <2>3. \A x : x \notin Answering(ToSet(GenericRoutes), "GET", <<"admin", slug, "id", "history">>)
    BY <2>1, GenericAnswers
  <2>4. \A s \in ToSet(Models) : \A x :
          x \in Answering(ToSet(ModelRoutes(s)), "GET", <<"admin", slug, "id", "history">>) <=>
            s = slug /\ x = "history"
    BY <1>1, <2>1, ModelAnswers
  <2>5. QED
    BY <1>0, <2>2, <2>3, <2>4
<1>3. One("GET", <<"admin", slug, "id", "delete">>, "legacy_delete_page")
  <2>1. Len(<<"admin", slug, "id", "delete">>) = 4
    OBVIOUS
  <2>2. \A x : x \notin Answering(ToSet(FixedRoutes), "GET", <<"admin", slug, "id", "delete">>)
    BY <1>1, <2>1, FixedAnswers DEF Taken
  <2>3. \A x : x \notin Answering(ToSet(GenericRoutes), "GET", <<"admin", slug, "id", "delete">>)
    BY <2>1, GenericAnswers
  <2>4. \A s \in ToSet(Models) : \A x :
          x \in Answering(ToSet(ModelRoutes(s)), "GET", <<"admin", slug, "id", "delete">>) <=>
            s = slug /\ x = "legacy_delete_page"
    BY <1>1, <2>1, ModelAnswers
  <2>5. QED
    BY <1>0, <2>2, <2>3, <2>4
<1>4. One("POST", <<"admin", slug, "bulk_action">>, "bulk")
  <2>1. Len(<<"admin", slug, "bulk_action">>) = 3
    OBVIOUS
  <2>2. \A x : x \notin Answering(ToSet(FixedRoutes), "POST", <<"admin", slug, "bulk_action">>)
    <3>1. <<"admin", slug, "bulk_action">>[3]
            \notin {"favicon.svg", "admin.css", "clear", "done", "reload"}
      OBVIOUS
    <3>2. QED
      BY <2>1, <3>1, FixedAnswers
  <2>3. \A x : x \notin Answering(ToSet(GenericRoutes), "POST", <<"admin", slug, "bulk_action">>)
    BY <2>1, GenericAnswers
  <2>4. \A s \in ToSet(Models) : \A x :
          x \in Answering(ToSet(ModelRoutes(s)), "POST", <<"admin", slug, "bulk_action">>) <=>
            s = slug /\ x = "bulk"
    BY <1>1, <2>1, ModelAnswers
  <2>5. QED
    BY <1>0, <2>2, <2>3, <2>4
<1>5. One("POST", <<"admin", slug, "create">>, "legacy_create")
  <2>1. Len(<<"admin", slug, "create">>) = 3
    OBVIOUS
  <2>2. \A x : x \notin Answering(ToSet(FixedRoutes), "POST", <<"admin", slug, "create">>)
    <3>1. <<"admin", slug, "create">>[3]
            \notin {"favicon.svg", "admin.css", "clear", "done", "reload"}
      OBVIOUS
    <3>2. QED
      BY <2>1, <3>1, FixedAnswers
  <2>3. \A x : x \notin Answering(ToSet(GenericRoutes), "POST", <<"admin", slug, "create">>)
    BY <2>1, GenericAnswers
  <2>4. \A s \in ToSet(Models) : \A x :
          x \in Answering(ToSet(ModelRoutes(s)), "POST", <<"admin", slug, "create">>) <=>
            s = slug /\ x = "legacy_create"
    BY <1>1, <2>1, ModelAnswers
  <2>5. QED
    BY <1>0, <2>2, <2>3, <2>4
<1> HIDE DEF One
<1>6. One(l[1], l[2], l[3])
  BY <1>2, <1>3, <1>4, <1>5 DEF ModelLinks
<1>7. QED
  BY <1>6 DEF One

\* So every link leads to the handler it was made for.
THEOREM LinksLead ==
    ASSUME NEW M, Models \in Seq(M), ToSet(Models) \cap (Taken \cup Params) = {},
           NEW l \in Links
    PROVE  Dispatch(SiteRoutes, l[1], l[2]) = l[3]
<1>1. CASE l \in ChromeLinks /\ l[2] # <<>>
  BY <1>1, ChromeLinksLead, FirstAnswer
<1>2. CASE l \in ChromeLinks /\ l[2] = <<>>
  <2>1. l[1] = "GET" /\ l[3] = "homepage"
    <3>1. ASSUME NEW a, NEW b, NEW c, NEW d
          PROVE  /\ <<a>> # <<>> /\ <<a, b>> # <<>> /\ <<a, b, c>> # <<>>
                 /\ <<a, b, c, d>> # <<>>
      OBVIOUS
    <3>2. \/ l = <<"GET", <<>>, "homepage">>
          \/ \E m, h, a : l = <<m, <<a>>, h>>
          \/ \E m, h, a, b : l = <<m, <<a, b>>, h>>
          \/ \E m, h, a, b, c : l = <<m, <<a, b, c>>, h>>
          \/ \E m, h, a, b, c, d : l = <<m, <<a, b, c, d>>, h>>
      BY <1>2, Zenon DEF ChromeLinks
    <3>3. QED
      BY <1>2, <3>1, <3>2
  <2>2. ToSet(Models) \cap Params = {}
    OBVIOUS
  <2>3. QED
    BY <1>2, <2>1, <2>2, HomeIsAnswered
<1>3. "users" \notin Taken \cup Params
  BY DEF Taken, Params
<1>4. ASSUME NEW slug, slug \notin Taken \cup Params, l \in ListLinks(slug)
      PROVE  Dispatch(SiteRoutes, l[1], l[2]) = l[3]
  BY <1>4, ListLinksLead, FirstAnswer
<1>5. ASSUME NEW slug \in ToSet(Models), l \in ModelLinks(slug)
      PROVE  Dispatch(SiteRoutes, l[1], l[2]) = l[3]
  <2>1. /\ Answering(ToSet(FixedRoutes), l[1], l[2]) = {}
        /\ Answering(ToSet(GenericRoutes), l[1], l[2]) = {}
        /\ Answering(ToSet(Mounted), l[1], l[2]) = {l[3]}
    BY <1>5, ModelLinksLead
  <2>2. QED
    BY <2>1, FirstAnswer
<1>6. \/ l \in ChromeLinks \/ l \in ListLinks("users")
      \/ \E slug \in ToSet(Models) : l \in ListLinks(slug) \/ l \in ModelLinks(slug)
  BY DEF Links
<1>7. QED
  BY <1>1, <1>2, <1>3, <1>4, <1>5, <1>6

\* What answered the last request of a slot is what the router finds for it.
VisitsAnswered ==
    /\ incoming \in DOMAIN Visits
    /\ DOMAIN visit = Requests
    /\ \A r \in Requests :
          \E method, path : visit[r] = <<method, path, Dispatch(SiteRoutes, method, path)>>

\* No model has a slug that the routes have taken.
LEMMA SlugsAreFree ==
    /\ Models \in Seq({"authors", "posts", "events"})
    /\ ToSet(Models) \cap (Taken \cup Params) = {}
<1>1. ToSet(Models) \subseteq {"authors", "posts", "events"}
  BY SiteAssumption, Elements
<1>2. QED
  BY <1>1, SiteAssumption DEF Taken, Params

\* A request is recorded with what Dispatch gives.
LEMMA VisitsAnsweredKeep ==
    VisitsAnswered /\ [SiteNext]_siteVars => VisitsAnswered'
<1> SUFFICES ASSUME VisitsAnswered, [SiteNext]_siteVars
             PROVE  VisitsAnswered'
  OBVIOUS
<1>1. CASE visit' = visit /\ incoming' = incoming
  BY <1>1 DEF VisitsAnswered
<1>2. ASSUME NEW r \in Requests, NEW q \in Visits[incoming].requests, Arrive(r, q)
      PROVE  VisitsAnswered'
  <2>1. /\ incoming' = incoming
        /\ visit' = [visit EXCEPT ![r] = <<q.method, q.path, Dispatched[<<q.method, q.path>>]>>]
    BY <1>2, Zenon DEF Arrive
  <2>2. Dispatched[<<q.method, q.path>>] = Dispatch(SiteRoutes, q.method, q.path)
    <3> DEFINE D == {<<x.method, x.path>> : x \in UNION {Visits[v].requests : v \in DOMAIN Visits}}
    <3>1. <<q.method, q.path>> \in D
      BY DEF VisitsAnswered
    <3>2. Dispatched = [x \in D |-> Dispatch(SiteRoutes, x[1], x[2])]
      BY DEF Dispatched
    <3> HIDE DEF D
    <3>3. QED
      BY <3>1, <3>2
  <2>3. QED
    BY <2>1, <2>2 DEF VisitsAnswered
<1>3. QED
  BY <1>1, <1>2 DEF SiteNext, Proceed, Terminal, Crash, siteVars

\* A link of a page is a method, a path and a handler.
LEMMA LinksAreTriples == \A l \in Links : l = <<l[1], l[2], l[3]>>
<1>1. ASSUME NEW l \in ChromeLinks PROVE \E a, b, c : l = <<a, b, c>>
  BY DEF ChromeLinks
<1>2. ASSUME NEW slug, NEW l \in ListLinks(slug) PROVE \E a, b, c : l = <<a, b, c>>
  BY DEF ListLinks
<1>3. ASSUME NEW slug, NEW l \in ModelLinks(slug) PROVE \E a, b, c : l = <<a, b, c>>
  BY DEF ModelLinks
<1>4. \A l \in Links : \E a, b, c : l = <<a, b, c>>
  BY <1>1, <1>2, <1>3 DEF Links
<1>5. QED
  BY <1>4

\* The links and forms of the pages reach the handlers they were made for, past
\* the fixed routes, the routes with parameters and the other methods, whichever
\* of the site's models are registered.
THEOREM LinksReached == SiteSpec => []LinksReach
<1>1. SiteInit => VisitsAnswered
  <2> SUFFICES ASSUME SiteInit PROVE VisitsAnswered
    OBVIOUS
  <2>1. Dispatch(SiteRoutes, "GET", <<>>) = "homepage"
    BY SlugsAreFree, HomeIsAnswered
  <2>2. incoming \in DOMAIN Visits /\ visit = [r \in Requests |-> <<"GET", <<>>, "homepage">>]
    BY DEF SiteInit
  <2>3. QED
    BY <2>1, <2>2 DEF VisitsAnswered
<1>2. VisitsAnswered => LinksReach
  <2> SUFFICES ASSUME VisitsAnswered, NEW r \in Requests,
                      <<visit[r][1], visit[r][2]>> \in Followed
               PROVE  visit[r] \in Links
    BY DEF LinksReach
  <2>1. PICK method, path : visit[r] = <<method, path, Dispatch(SiteRoutes, method, path)>>
    BY DEF VisitsAnswered
  <2>2. PICK l \in Links : <<method, path>> = <<l[1], l[2]>>
    BY <2>1 DEF Followed
  <2>3. Dispatch(SiteRoutes, l[1], l[2]) = l[3]
    BY SlugsAreFree, LinksLead
  <2>4. l = <<l[1], l[2], l[3]>>
    BY LinksAreTriples
  <2>5. QED
    BY <2>1, <2>2, <2>3, <2>4
<1>3. QED
  BY <1>1, <1>2, VisitsAnsweredKeep, PTL DEF SiteSpec
=============================================================================
