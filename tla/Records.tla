------------------------------ MODULE Records ------------------------------
(***************************************************************************)
(* The rows an admin works on and the log of what was done: the handlers   *)
(* of admin.rs step by step, over the statements of admin/persistence.rs,  *)
(* orm.rs and admin/audit.rs.                                              *)
(*                                                                         *)
(* Three tables: users (rustio_users), and two models of a project, of     *)
(* which posts refers to authors by a foreign key.  Every statement is     *)
(* atomic and checks foreign keys (Db::connect); a handler is a sequence   *)
(* of statements without a transaction around them.  Of a row the model    *)
(* keeps one column: the author of a post, the role of a user.             *)
(***************************************************************************)
EXTENDS Requests, Naturals, Sequences, SequencesExt, FiniteSets, FiniteSetsExt

CONSTANTS
    Empty,         \* an input of a form that was left empty
    FirstRows,     \* the rows there may be at the start, of each table
    Policies,      \* what the foreign key may do when an author is deleted
    MaxId,         \* bound: the highest id handed out
    MaxLogFaults   \* bound: insertions into the log that fail by themselves

Tables == {"users", "authors", "posts"}

\* The rows at the start are such as the schema allows.
ASSUME RecordsAssumption ==
    /\ MaxId \in Nat /\ MaxLogFaults \in Nat
    /\ Policies \subseteq {"restrict", "cascade", "set_null"}
    /\ \A f \in FirstRows :
        /\ DOMAIN f = Tables
        /\ \A t \in Tables : DOMAIN f[t] \subseteq 1..MaxId
        /\ \A p \in DOMAIN f["posts"] : f["posts"][p] \in {None} \cup DOMAIN f["authors"]

VARIABLES
    rows,       \* each table: its rows by id
    seq,        \* each table: the highest id ever used (sqlite_sequence)
    log,        \* rustio_admin_actions
    policy,     \* the policy the project has declared
    task,       \* what each request is doing
    bulked,     \* history: rows a bulk action has deleted
    unlogged,   \* history: rows it deleted without an entry, for a known reason
    logFaults

recordVars == <<rows, seq, log, policy, task, bulked, unlogged, logFaults>>

NoTask == [phase |-> "idle", kind |-> "none", table |-> "posts", ids |-> <<>>,
           user |-> None, token |-> TRUE, value |-> Empty]
Replied(t, reply) == [NoTask EXCEPT !.phase = reply, !.kind = t.kind]
Replies == {"idle", "saved", "form", "missing", "failed", "refused", "shown"}
Busy(r) == task[r].phase \notin Replies

LogEntry(t, action, id) == [user |-> t.user, action |-> action, table |-> t.table, id |-> id]

RecordsInit ==
    /\ rows \in FirstRows
    /\ seq \in [Tables -> 0..MaxId]
    /\ \A t \in Tables : DOMAIN rows[t] \subseteq 1..seq[t]
                        /\ (seq[t] # 0 => seq[t] \in DOMAIN rows[t])
    /\ log = {}
    /\ policy \in Policies
    /\ task = [r \in Requests |-> NoTask]
    /\ bulked = {}
    /\ unlogged = {}
    /\ logFaults = 0

-----------------------------------------------------------------------------
\* Statements.

Lookup(t, id) == id \in DOMAIN rows[t]
Without(f, ids) == [x \in DOMAIN f \ ids |-> f[x]]
With(f, id, value) == [x \in DOMAIN f \cup {id} |-> IF x = id THEN value ELSE f[x]]

\* Mutant: the id of a new row is one above the highest that is there.
NextIdOfRows(t) == Max(DOMAIN rows[t] \cup {0}) + 1

\* INTEGER PRIMARY KEY AUTOINCREMENT: an id is never handed out again.
NextId(t) == seq[t] + 1

\* Mutant: a connection that does not turn foreign keys on.
AdmitsAny(t, value) == TRUE

\* Foreign keys are on for every connection: a post refers to an author that
\* is there, or to none.  The templated forms bind an empty input as the
\* empty text, which is no author; the legacy forms bind it as NULL.
Admits(t, value) == t = "posts" => value \in {None} \cup DOMAIN rows["authors"]

Posts(ids) == {p \in DOMAIN rows["posts"] : rows["posts"][p] \in ids}

\* A deletion of an author does with the posts what their foreign key says.
Deletable(t, ids) == t = "authors" /\ policy = "restrict" => Posts(ids) = {}

Deleted(t, ids) ==
    LET hit == IF t = "authors" THEN Posts(ids) ELSE {}
        posts == IF policy = "cascade" THEN Without(rows["posts"], hit)
                 ELSE [p \in DOMAIN rows["posts"] |-> IF p \in hit THEN None ELSE rows["posts"][p]]
    IN IF t = "posts" THEN [rows EXCEPT !["posts"] = Without(@, ids)]
       ELSE [rows EXCEPT ![t] = Without(@, ids), !["posts"] = posts]

\* The log refers to its users ON DELETE CASCADE.
LogWithout(t, ids) == IF t = "users" THEN {e \in log : e.user \notin ids} ELSE log

-----------------------------------------------------------------------------
\* The start of each handler: what it was asked, by whom.

Begin(r, kind, phase, table, ids, user, value) ==
    /\ task' = [task EXCEPT ![r] = [NoTask EXCEPT
          !.phase = phase, !.kind = kind, !.table = table, !.ids = ids,
          !.user = user, !.value = value]]
    /\ UNCHANGED <<rows, seq, log, policy, bulked, unlogged, logFaults>>

\* A reply that needed no statement.
Reply(r, kind, reply) ==
    /\ task' = [task EXCEPT ![r] = [NoTask EXCEPT !.phase = reply, !.kind = kind]]
    /\ UNCHANGED <<rows, seq, log, policy, bulked, unlogged, logFaults>>

\* admin_model_create_post: a model that refuses creation refuses it here.
StartCreate(r, table, user, value) ==
    IF table = "users" THEN Reply(r, "create", "refused")
    ELSE Begin(r, "create", "insert", table, <<>>, user, value)

\* POST <model>/create: from_form refuses a form it cannot parse.
StartLegacyCreate(r, table, user, value) ==
    Begin(r, "legacy_create", "insert", table, <<>>, user,
          IF value = Empty THEN None ELSE value)

StartUpdate(r, table, id, user, value, token) ==
    /\ task' = [task EXCEPT ![r] = [NoTask EXCEPT
          !.phase = "exists", !.kind = "update", !.table = table, !.ids = <<id>>,
          !.user = user, !.value = value, !.token = token]]
    /\ UNCHANGED <<rows, seq, log, policy, bulked, unlogged, logFaults>>

StartDelete(r, table, id, user) ==
    Begin(r, "delete", "delete", table, <<id>>, user, Empty)

\* POST <model>/bulk_action: nothing selected is a redirect, another action a
\* refusal, an unconfirmed deletion a page that lists what is selected.
StartBulk(r, table, ids, user, action, confirmed) ==
    IF ids = <<>> \/ action = None THEN Reply(r, "bulk", "saved")
    ELSE IF action # "delete" THEN Reply(r, "bulk", "refused")
    ELSE IF ~confirmed THEN Reply(r, "bulk", "shown")
    ELSE Begin(r, "bulk", "find", table, ids, user, Empty)

\* GET <model>/:id/history, and the edit form: the row must be there.
StartRead(r, table, id, user) ==
    Begin(r, "read", "read", table, <<id>>, user, Empty)

-----------------------------------------------------------------------------
\* The statements of the handlers.

At(r, phase) == task[r].phase = phase
Head1(r) == Head(task[r].ids)
Answer(r, reply) == [task EXCEPT ![r] = Replied(task[r], reply)]

\* insert_record, Model::create.
InsertRow(r) ==
    LET t == task[r] IN
    /\ At(r, "insert")
    /\ Admits(t.table, t.value)
    /\ NextId(t.table) <= MaxId
    /\ rows' = [rows EXCEPT ![t.table] = With(@, NextId(t.table), t.value)]
    /\ seq' = [seq EXCEPT ![t.table] = NextId(t.table)]
    /\ task' = IF t.kind = "create" THEN Answer(r, "saved")
               ELSE [task EXCEPT ![r].phase = "record", ![r].ids = <<NextId(t.table)>>]
    /\ UNCHANGED <<log, policy, bulked, unlogged, logFaults>>

\* The templated handler answers with the form again, the legacy one fails.
InsertRefused(r) ==
    /\ At(r, "insert")
    /\ ~Admits(task[r].table, task[r].value)
    /\ task' = Answer(r, IF task[r].kind = "create" THEN "form" ELSE "failed")
    /\ UNCHANGED <<rows, seq, log, policy, bulked, unlogged, logFaults>>

\* admin_model_update_post: record_exists first, since an UPDATE of no row
\* succeeds; only then the form is read and its token verified.
CheckExists(r) ==
    /\ At(r, "exists")
    /\ task' = IF ~Lookup(task[r].table, Head1(r)) THEN Answer(r, "missing")
               ELSE IF ~task[r].token THEN Answer(r, "refused")
               ELSE [task EXCEPT ![r].phase = "update"]
    /\ UNCHANGED <<rows, seq, log, policy, bulked, unlogged, logFaults>>

\* Mutant: an update that replaces the row, which the log's foreign key takes
\* for the deletion of the old one.
UpdateByReplace(r) ==
    LET t == task[r] IN
    /\ At(r, "update")
    /\ Lookup(t.table, Head1(r)) => Admits(t.table, t.value)
    /\ rows' = IF Lookup(t.table, Head1(r))
                 THEN [rows EXCEPT ![t.table][Head1(r)] = t.value] ELSE rows
    /\ log' = LogWithout(t.table, {Head1(r)})
    /\ task' = Answer(r, "saved")
    /\ UNCHANGED <<seq, policy, bulked, unlogged, logFaults>>

\* update_record: every field of the form is written, an absent one as blank;
\* a row that has gone since it was looked up is none to write, and no error.
UpdateRow(r) ==
    LET t == task[r] IN
    /\ At(r, "update")
    /\ Lookup(t.table, Head1(r)) => Admits(t.table, t.value)
    /\ rows' = IF Lookup(t.table, Head1(r))
                 THEN [rows EXCEPT ![t.table][Head1(r)] = t.value] ELSE rows
    /\ task' = Answer(r, "saved")
    /\ UNCHANGED <<seq, log, policy, bulked, unlogged, logFaults>>

UpdateRefused(r) ==
    /\ At(r, "update")
    /\ Lookup(task[r].table, Head1(r)) /\ ~Admits(task[r].table, task[r].value)
    /\ task' = Answer(r, "form")
    /\ UNCHANGED <<rows, seq, log, policy, bulked, unlogged, logFaults>>

\* The bulk action looks a row up for its name; one that is gone is skipped.
FindRow(r) ==
    LET t == task[r] IN
    /\ At(r, "find")
    /\ task' = IF t.ids = <<>> THEN Answer(r, "saved")
               ELSE IF Lookup(t.table, Head1(r)) THEN [task EXCEPT ![r].phase = "delete"]
               ELSE [task EXCEPT ![r].ids = Tail(@)]
    /\ UNCHANGED <<rows, seq, log, policy, bulked, unlogged, logFaults>>

\* Model::delete, bulk_delete: of a row that is gone it is no error.  Deleting
\* a user takes the user's entries in the log along.
DeleteRow(r) ==
    LET t == task[r]
        id == Head1(r)
    IN
    /\ At(r, "delete")
    /\ Deletable(t.table, {id})
    /\ rows' = Deleted(t.table, {id})
    /\ log' = LogWithout(t.table, {id})
    /\ bulked' = IF t.kind = "bulk" /\ Lookup(t.table, id)
                   THEN bulked \cup {<<t.table, id>>} ELSE bulked
    /\ unlogged' = unlogged \cup {<<e.table, e.id>> : e \in log \ log'}
    /\ task' = IF t.kind = "bulk" THEN [task EXCEPT ![r].phase = "record"]
               ELSE Answer(r, "saved")
    /\ UNCHANGED <<seq, policy, logFaults>>

\* A bulk action stops at the first row that cannot be deleted.
DeleteRefused(r) ==
    /\ At(r, "delete")
    /\ ~Deletable(task[r].table, {Head1(r)})
    /\ task' = Answer(r, "failed")
    /\ UNCHANGED <<rows, seq, log, policy, bulked, unlogged, logFaults>>

Action(t) == IF t.kind = "bulk" THEN "delete" ELSE "create"

\* audit::record, after the row was written.
RecordEntry(r) ==
    LET t == task[r] IN
    /\ At(r, "record")
    /\ Lookup("users", t.user)
    /\ log' = log \cup {LogEntry(t, Action(t), Head1(r))}
    /\ task' = IF t.kind = "bulk"
                 THEN [task EXCEPT ![r].phase = "find", ![r].ids = Tail(@)]
                 ELSE Answer(r, "saved")
    /\ UNCHANGED <<rows, seq, policy, bulked, unlogged, logFaults>>

\* It fails if its user was deleted meanwhile, or by itself: the handler fails,
\* what it wrote stays.
RecordFails(r) ==
    LET t == task[r] IN
    /\ At(r, "record")
    /\ Lookup("users", t.user) => logFaults < MaxLogFaults
    /\ logFaults' = IF Lookup("users", t.user) THEN logFaults + 1 ELSE logFaults
    /\ unlogged' = unlogged \cup {<<t.table, Head1(r)>>}
    /\ task' = Answer(r, "failed")
    /\ UNCHANGED <<rows, seq, log, policy, bulked>>

\* T::find or record_exists, then what the page shows of the row.
ReadRow(r) ==
    /\ At(r, "read")
    /\ task' = Answer(r, IF Lookup(task[r].table, Head1(r)) THEN "shown" ELSE "missing")
    /\ UNCHANGED <<rows, seq, log, policy, bulked, unlogged, logFaults>>

RecordStep(r) ==
    \/ InsertRow(r) \/ InsertRefused(r)
    \/ CheckExists(r) \/ UpdateRow(r) \/ UpdateRefused(r)
    \/ FindRow(r) \/ DeleteRow(r) \/ DeleteRefused(r)
    \/ RecordEntry(r) \/ RecordFails(r)
    \/ ReadRow(r)

\* The server stops between two statements.
RecordsCrash ==
    /\ unlogged' = unlogged \cup
          {<<task[r].table, Head1(r)>> : r \in {q \in Requests : At(q, "record")}}
    /\ task' = [r \in Requests |-> IF Busy(r) THEN Replied(task[r], "failed") ELSE task[r]]
    /\ UNCHANGED <<rows, seq, log, policy, bulked, logFaults>>

-----------------------------------------------------------------------------
\* The types of the variables.
RecordsTypeOK ==
    /\ \A t \in Tables : DOMAIN rows[t] \subseteq 1..MaxId /\ seq[t] \in 0..MaxId
    /\ \A p \in DOMAIN rows["posts"] : rows["posts"][p] \in 1..MaxId \cup {None}
    /\ \A e \in log : e.action \in {"create", "delete"} /\ e.id \in 1..MaxId
    /\ policy \in Policies
    /\ \A r \in Requests :
        /\ task[r].phase \in Replies \cup {"insert", "exists", "update", "find", "delete",
                                           "record", "read"}
        /\ task[r].table \in Tables
    /\ logFaults \in 0..MaxLogFaults

\* No interleaving of handlers leaves a post that refers to an author who is
\* gone, or an entry of the log whose user is.
NoDangling ==
    /\ \A p \in DOMAIN rows["posts"] : rows["posts"][p] \in {None} \cup DOMAIN rows["authors"]
    /\ \A e \in log : e.user \in DOMAIN rows["users"]

\* The history page of a row tells of that row alone: no entry says that a row
\* which is there was deleted, so an id is never given to a second row.
HistoryIsOwn ==
    \A e \in log : e.action = "delete" => ~Lookup(e.table, e.id)

\* A bulk action leaves no row deleted without an entry (audit entries are
\* written per record), other than the row it is just about to record and
\* those of a failure that the user was told of.
BulkAudited ==
    bulked \subseteq {<<e.table, e.id>> : e \in {d \in log : d.action = "delete"}}
        \cup unlogged
        \cup {<<task[r].table, Head1(r)>> : r \in {q \in Requests : At(q, "record")}}

\* Together: rows refer to rows, and what the log says happened to a row is
\* what happened to it.
RowsAndLogAgree == NoDangling /\ HistoryIsOwn /\ BulkAudited

\* The log loses an entry only with the user who caused it.
LogOnlyGrows ==
    [][\A e \in log : e \in log' \/ e.user \notin DOMAIN rows'["users"]]_recordVars
=============================================================================
