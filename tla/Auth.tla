------------------------------- MODULE Auth --------------------------------
(***************************************************************************)
(* One user of the admin: sessions, the login rate limiter and the         *)
(* handlers that use them (rustio-core/src/auth.rs, admin.rs).             *)
(*                                                                         *)
(* Browsers send requests that the server runs concurrently; every query   *)
(* is a step, and so is every critical section of the limiter.  The        *)
(* browsers share an address, hence one key of the limiter.                *)
(***************************************************************************)
EXTENDS Naturals, FiniteSets

CONSTANTS
    Browsers,
    Passwords,
    InitPassword,
    None,           \* no cookie, no form, no password
    MaxFailures,    \* LoginRateLimiter::MAX_FAILURES
    MaxSessions,    \* bound: the sessions ever created
    MaxChanges      \* bound: the password changes

ASSUME PasswordAssumption == InitPassword \in Passwords /\ None \notin Passwords
ASSUME BrowsersAssumption == IsFiniteSet(Browsers) /\ Browsers # {}
ASSUME FailuresAssumption == MaxFailures \in Nat \ {0}
ASSUME BoundsAssumption == {MaxSessions, MaxChanges} \subseteq Nat

Ids == 1..MaxSessions

\* A row of rustio_sessions.  Kept for the properties: after which password
\* change it was created, and which password its owner had proved to know.
Sessions == [id : Ids, made : Nat, proved : Nat]

VARIABLES
    secret,     \* rustio_users.password_hash
    active,     \* rustio_users.is_active
    sessions,   \* rustio_sessions
    expired,    \* ids whose expires_at is past
    created,    \* how many sessions were created; tokens are never reused
    changes,    \* how often the password was changed
    failures,   \* the limiter's count, 0 if it has no entry
    locked,     \* its locked_until is in the future
    pc,         \* what the request of a browser does next
    cookie,     \* the rustio_session cookie of a browser
    form,       \* the session whose csrf_token its last page carries
    typed,      \* the password typed, of a change the old one
    chosen,     \* the new password of a change
    hash,       \* the password_hash the handler has read ...
    seen,       \* ... and after how many changes it did
    who,        \* the session in the request's context
    late        \* it was revoked or expired when the request began

row == <<secret, active>>
store == <<sessions, expired, created, changes>>
limiter == <<failures, locked>>
browser == <<cookie, form>>
locals == <<typed, chosen, hash, seen, who, late>>
vars == <<row, store, limiter, pc, browser, locals>>

-----------------------------------------------------------------------------
Live == {s.id : s \in sessions}
Goto(b, label) == pc' = [pc EXCEPT ![b] = label]

\* The request is answered, whatever it knew is dropped.
Answer(b) ==
    /\ Goto(b, "idle")
    /\ typed' = [typed EXCEPT ![b] = None]
    /\ chosen' = [chosen EXCEPT ![b] = None]
    /\ hash' = [hash EXCEPT ![b] = None]
    /\ seen' = [seen EXCEPT ![b] = 0]
    /\ who' = [who EXCEPT ![b] = None]
    /\ late' = [late EXCEPT ![b] = FALSE]

\* session::create, and the Set-Cookie of the answer.
CreateSession(b, proved) ==
    /\ created < MaxSessions
    /\ created' = created + 1
    /\ sessions' = sessions \cup
            {[id |-> created + 1, made |-> changes, proved |-> proved]}
    /\ cookie' = [cookie EXCEPT ![b] = created + 1]
    /\ UNCHANGED <<expired, changes, form>>

-----------------------------------------------------------------------------
\* LoginRateLimiter.

\* Mutant: the count is compared with > instead of >=.
CheckAbove == IF failures > MaxFailures /\ locked THEN "refused"
              ELSE IF failures > MaxFailures THEN "reset" ELSE "allowed"

Check == IF failures < MaxFailures THEN "allowed"
         ELSE IF locked THEN "refused" ELSE "reset"

RecordFailure ==
    /\ failures' = failures + 1
    /\ locked' = (locked \/ failures + 1 >= MaxFailures)

RecordSuccess == failures' = 0 /\ locked' = FALSE

-----------------------------------------------------------------------------
\* handle_login.

Login(b, p) ==
    /\ pc[b] = "idle"
    /\ Check # "refused"
    /\ IF Check = "reset" THEN failures' = 0 ELSE UNCHANGED failures
    /\ typed' = [typed EXCEPT ![b] = p]
    /\ Goto(b, "find")
    /\ UNCHANGED <<row, store, locked, browser, chosen, hash, seen, who, late>>

ReadUser(b) ==
    /\ hash' = [hash EXCEPT ![b] = secret]
    /\ seen' = [seen EXCEPT ![b] = changes]

\* find_by_email.
Find(b) ==
    /\ pc[b] = "find"
    /\ ReadUser(b)
    /\ Goto(b, IF active THEN "verify" ELSE "inactive")
    /\ UNCHANGED <<row, store, limiter, browser, typed, chosen, who, late>>

WrongPassword(b) ==
    /\ pc[b] \in {"verify", "inactive"}
    /\ typed[b] # hash[b]
    /\ RecordFailure
    /\ Answer(b)
    /\ UNCHANGED <<row, store, browser>>

\* "This account is inactive": neither a failure nor a success.
Inactive(b) ==
    /\ pc[b] = "inactive"
    /\ typed[b] = hash[b]
    /\ Answer(b)
    /\ UNCHANGED <<row, store, limiter, browser>>

RightPassword(b) ==
    /\ pc[b] = "verify"
    /\ typed[b] = hash[b]
    /\ RecordSuccess
    /\ Goto(b, "sweep")
    /\ UNCHANGED <<row, store, browser, locals>>

\* sweep_expired.
Sweep(b) ==
    /\ pc[b] = "sweep"
    /\ sessions' = {s \in sessions : s.id \notin expired}
    /\ Goto(b, "create")
    /\ UNCHANGED <<row, expired, created, changes, limiter, browser, locals>>

SignIn(b) ==
    /\ pc[b] = "create"
    /\ CreateSession(b, seen[b])
    /\ Answer(b)
    /\ UNCHANGED <<row, limiter>>

-----------------------------------------------------------------------------
\* The authenticate middleware, before any handler that asks for an identity.

\* Which handler it is for does not matter before "handle".
Request(b) ==
    /\ pc[b] = "idle"
    /\ cookie[b] # None
    /\ late' = [late EXCEPT ![b] = cookie[b] \notin Live \ expired]
    /\ Goto(b, "session")
    /\ UNCHANGED <<row, store, limiter, browser, typed, chosen, hash, seen, who>>

\* Mutant: find_valid returns an expired session.
FindExpired(b) ==
    /\ pc[b] = "session"
    /\ cookie[b] \in Live
    /\ who' = [who EXCEPT ![b] = cookie[b]]
    /\ Goto(b, "user")
    /\ UNCHANGED <<row, store, limiter, browser, typed, chosen, hash, seen, late>>

\* session::find_valid.
FindSession(b) ==
    /\ pc[b] = "session"
    /\ cookie[b] \in Live \ expired
    /\ who' = [who EXCEPT ![b] = cookie[b]]
    /\ Goto(b, "user")
    /\ UNCHANGED <<row, store, limiter, browser, typed, chosen, hash, seen, late>>

\* An expired row is deleted; the login page is the answer.
NoSession(b) ==
    /\ pc[b] = "session"
    /\ cookie[b] \notin Live \ expired
    /\ sessions' = {s \in sessions : s.id # cookie[b]}
    /\ Answer(b)
    /\ UNCHANGED <<row, expired, created, changes, limiter, browser>>

\* user::find_by_id.
FindUser(b) ==
    /\ pc[b] = "user"
    /\ IF active THEN Goto(b, "handle") /\ UNCHANGED locals ELSE Answer(b)
    /\ UNCHANGED <<row, store, limiter, browser>>

\* A page renders the csrf_token of the session into its forms.
Page(b) ==
    /\ pc[b] = "handle"
    /\ form' = [form EXCEPT ![b] = who[b]]
    /\ Answer(b)
    /\ UNCHANGED <<row, store, limiter, cookie>>

\* require_csrf: every session has a token of its own.
CsrfFails(b) ==
    /\ pc[b] = "handle"
    /\ form[b] # who[b]
    /\ Answer(b)
    /\ UNCHANGED <<row, store, limiter, browser>>

Posts(b) == pc[b] = "handle" /\ form[b] = who[b]

\* Mutant: the CSRF token is not compared.
LogoutUnchecked(b) ==
    /\ pc[b] = "handle"
    /\ sessions' = {s \in sessions : s.id # who[b]}
    /\ cookie' = [cookie EXCEPT ![b] = None]
    /\ Answer(b)
    /\ UNCHANGED <<row, expired, created, changes, limiter, form>>

Logout(b) ==
    /\ Posts(b)
    /\ sessions' = {s \in sessions : s.id # who[b]}
    /\ cookie' = [cookie EXCEPT ![b] = None]
    /\ Answer(b)
    /\ UNCHANGED <<row, expired, created, changes, limiter, form>>

\* session::delete_others.
ClearOthers(b) ==
    /\ Posts(b)
    /\ sessions' = {s \in sessions : s.id = who[b]}
    /\ Answer(b)
    /\ UNCHANGED <<row, expired, created, changes, limiter, browser>>

\* Mutant: a form without a new password is taken as one.
ChangeBlank(b, old, new) ==
    /\ Posts(b)
    /\ typed' = [typed EXCEPT ![b] = old]
    /\ chosen' = [chosen EXCEPT ![b] = None]
    /\ Goto(b, "find_old")
    /\ UNCHANGED <<row, store, limiter, browser, hash, seen, who, late>>

\* handle_password_change_post, up to its first query.
Change(b, old, new) ==
    /\ Posts(b)
    /\ typed' = [typed EXCEPT ![b] = old]
    /\ chosen' = [chosen EXCEPT ![b] = new]
    /\ Goto(b, "find_old")
    /\ UNCHANGED <<row, store, limiter, browser, hash, seen, who, late>>

\* find_by_id.
FindOld(b) ==
    /\ pc[b] = "find_old"
    /\ ReadUser(b)
    /\ Goto(b, "verify_old")
    /\ UNCHANGED <<row, store, limiter, browser, typed, chosen, who, late>>

OldPasswordWrong(b) ==
    /\ pc[b] = "verify_old"
    /\ typed[b] # hash[b]
    /\ Answer(b)
    /\ UNCHANGED <<row, store, limiter, browser>>

\* Mutant: the password is replaced and no session is deleted.
SetPasswordOnly(b) ==
    /\ pc[b] = "verify_old"
    /\ typed[b] = hash[b]
    /\ changes < MaxChanges
    /\ secret' = chosen[b]
    /\ changes' = changes + 1
    /\ Goto(b, "reissue")
    /\ UNCHANGED <<active, sessions, expired, created, limiter, browser, locals>>

\* user::set_password, one transaction.
SetPassword(b) ==
    /\ pc[b] = "verify_old"
    /\ typed[b] = hash[b]
    /\ changes < MaxChanges
    /\ secret' = chosen[b]
    /\ changes' = changes + 1
    /\ sessions' = {}
    /\ Goto(b, "reissue")
    /\ UNCHANGED <<active, expired, created, limiter, browser, locals>>

\* Its author stays signed in.
Reissue(b) ==
    /\ pc[b] = "reissue"
    /\ CreateSession(b, seen[b] + 1)
    /\ Answer(b)
    /\ UNCHANGED <<row, limiter>>

-----------------------------------------------------------------------------
\* Queries that fail: the pool is exhausted, the database locked or full.

\* The handler passes the error on and has changed nothing (set_password is one
\* transaction); the middleware takes it for no session.
QueryFails(b) ==
    /\ pc[b] \in {"find", "create", "session", "user", "find_old", "verify_old", "reissue"}
    /\ pc[b] = "verify_old" => typed[b] = hash[b]
    /\ Answer(b)
    /\ UNCHANGED <<row, store, limiter, browser>>

\* A login goes on without the sweep.
SweepFails(b) ==
    /\ pc[b] = "sweep"
    /\ Goto(b, "create")
    /\ UNCHANGED <<row, store, limiter, browser, locals>>

\* Logout and clear-others answer as if they had deleted something.
SignOutFails(b) ==
    /\ Posts(b)
    /\ cookie' \in {cookie, [cookie EXCEPT ![b] = None]}
    /\ Answer(b)
    /\ UNCHANGED <<row, store, limiter, form>>

-----------------------------------------------------------------------------
\* The world around.

LockElapses ==
    /\ locked
    /\ locked' = FALSE
    /\ UNCHANGED <<row, store, failures, pc, browser, locals>>

Expire(i) ==
    /\ i \in Live \ expired
    /\ expired' = expired \cup {i}
    /\ UNCHANGED <<row, sessions, created, changes, limiter, pc, browser, locals>>

\* user::set_active.
SetActive ==
    /\ active' = ~active
    /\ UNCHANGED <<secret, store, limiter, pc, browser, locals>>

-----------------------------------------------------------------------------
Init ==
    /\ secret = InitPassword
    /\ active = TRUE
    /\ sessions = {} /\ expired = {} /\ created = 0 /\ changes = 0
    /\ failures = 0 /\ locked = FALSE
    /\ pc = [b \in Browsers |-> "idle"]
    /\ cookie = [b \in Browsers |-> None]
    /\ form = [b \in Browsers |-> None]
    /\ typed = [b \in Browsers |-> None]
    /\ chosen = [b \in Browsers |-> None]
    /\ hash = [b \in Browsers |-> None]
    /\ seen = [b \in Browsers |-> 0]
    /\ who = [b \in Browsers |-> None]
    /\ late = [b \in Browsers |-> FALSE]

Handle(b) ==
    \/ \E p \in Passwords : Login(b, p)
    \/ Find(b) \/ WrongPassword(b) \/ Inactive(b) \/ RightPassword(b)
    \/ Sweep(b) \/ SignIn(b)
    \/ Request(b)
    \/ FindSession(b) \/ NoSession(b) \/ FindUser(b)
    \/ Page(b) \/ CsrfFails(b) \/ Logout(b) \/ ClearOthers(b)
    \/ \E old, new \in Passwords : Change(b, old, new)
    \/ FindOld(b) \/ OldPasswordWrong(b) \/ SetPassword(b) \/ Reissue(b)
    \/ QueryFails(b) \/ SweepFails(b) \/ SignOutFails(b)

Next ==
    \/ \E b \in Browsers : Handle(b)
    \/ LockElapses \/ SetActive
    \/ \E i \in Ids : Expire(i)

Spec == Init /\ [][Next]_vars

-----------------------------------------------------------------------------
\* Properties.

Labels == {"idle", "find", "verify", "inactive", "sweep", "create",
           "session", "user", "handle", "find_old", "verify_old", "reissue"}

\* Every variable keeps its type.
TypeOK ==
    /\ secret \in Passwords /\ active \in BOOLEAN
    /\ sessions \subseteq Sessions
    /\ expired \subseteq Ids
    /\ created \in 0..MaxSessions /\ changes \in 0..MaxChanges
    /\ failures \in Nat /\ locked \in BOOLEAN
    /\ pc \in [Browsers -> Labels]
    /\ cookie \in [Browsers -> Ids \cup {None}]
    /\ form \in [Browsers -> Ids \cup {None}]
    /\ who \in [Browsers -> Ids \cup {None}]
    /\ typed \in [Browsers -> Passwords \cup {None}]
    /\ chosen \in [Browsers -> Passwords \cup {None}]
    /\ hash \in [Browsers -> Passwords \cup {None}]
    /\ seen \in [Browsers -> 0..MaxChanges]
    /\ late \in [Browsers -> BOOLEAN]

\* check and record_failure are two critical sections with a query and a hash
\* between them: attempts under way when the lock closes still count.  There
\* are never more than one for each other browser.
FailuresBounded ==
    failures < MaxFailures + Cardinality(Browsers)

\* "Replace a user's password hash and invalidate every live session"
\* (auth.rs:449), while others sign in, sign out and change it too: no session
\* outlives the password change it was created before.
OnlyNewSessions ==
    \A s \in sessions : s.made = changes

\* The handler of a request runs for a session that was neither revoked nor
\* expired when the request began, whatever happened to it since.
SignedInThen ==
    \A b \in Browsers :
        who[b] # None => ~late[b]

\* A form changes the sessions or the password only if it was rendered under
\* the session whose cookie came with it: one kept from before a sign-in, a
\* sign-out or a password change has no effect.
OldFormsRefused ==
    [][\A b \in Browsers :
        pc[b] = "handle" /\ pc'[b] # "handle" /\ form[b] # who[b]
            => UNCHANGED <<row, store, cookie>> /\ pc'[b] = "idle"]_vars
=============================================================================
