# A TLA+ model of RustIO

RustIO (`src/`) is a Rust web framework that generates an admin, keeps a
machine-readable schema of a project's models, and edits projects: a plan of
typed steps ("add a field", "rename a model") is validated, reviewed, simulated,
written into `models.rs` and a numbered SQL migration, and the migrations are
applied to SQLite. This directory models that core and the admin that serves it,
checks it with TLC and proves its properties, all but the one of liveness, with
TLAPS.

Contents: [the system](#the-system) ·
[the modules](#the-modules-and-the-code) · [the runs](#the-runs) ·
[bounds](#bounds) · [fairness](#fairness-and-stopping) ·
[the proofs](#the-proofs) ·
[disagreements](#where-code-and-documentation-disagree) ·
[not modelled](#not-modelled) · [plan](#plan)

## The system

Paths are below `src/`; `core` stands for `rustio-core/src`, `cli` for
`rustio-cli/src`.

| Component | State it keeps | Operations | What makes it correct |
|---|---|---|---|
| Migrations `core/migrations.rs` | the directory of `NNNN_<slug>.sql`, the table `rustio_migrations`, the database | `list`, `status`, `generate`, `apply_with` | a file takes effect whole, once, in order, and is recorded exactly then; a run that says Ok left nothing pending |
| Plan executor: commit `core/ai/executor.rs` | the project's files and their `.rustio_tmp` siblings | `execute_plan_document`, `commit_changes`, `rollback_renames` | all or nothing; no edit made by hand is overwritten |
| Plan executor: simulation `core/ai/executor.rs` | schema and source shadows of one call | `plan_execution`, `simulate_step`, one `apply_*` and one or two text patchers per primitive | the SQL makes of the database what the patched structs say; the patched text says what the plan means |
| Primitives and review `core/ai.rs`, `core/ai/review.rs` | none | `Plan::validate`, `validate_against`, `review_plan` | a valid plan can be executed; risk and personal data are noticed whatever the order of steps |
| Planner and packs `core/ai/planner.rs`, `core/ai/industry.rs` | none | `generate_plan`, one parser per form of sentence | what it plans passes the review that follows |
| AI workflow `cli/main.rs`, `core/admin.rs`, `core/admin/{suggestions,schema_cache}.rs` | `rustio.schema.json`, `rustio.context.json`, saved plans; in the server the cached schema, the context and browsers' pages | `ai plan`, `ai apply`, `change`, `schema`; review and apply of a suggestion, `refresh` | what is written is what was shown, once, and keeps personal data |
| CLI journey `cli/main.rs`, `cli/wizard.rs` | the project directory, its migrations and database | `init`, `new`, `new app`, `migrate`, `user create`, `doctor`, bare `rustio` | what a voice says to do next can be done and helps; "all checks pass" is true |
| Authentication `core/auth.rs`, `core/admin.rs` | `rustio_users`, `rustio_sessions`, the limiter's map, cookies and forms in browsers | login, logout, clear other sessions, change password, `authenticate`, CSRF, rate limit | revoked means revoked, also for requests under way; guesses are bounded |
| CRUD and audit `core/admin.rs`, `core/admin/{audit,persistence}.rs` | the tables, `rustio_admin_actions` | create, update, delete, bulk, history | references hold; the log says of a row what happened to it |
| Forms `core/admin/layout.rs`, `core/admin.rs`, macros, ORM | the pages open in browsers | draw, fill in, submit, through templates and through the older form | an edit keeps what nobody touched; the project can read its rows again |
| Lists `core/admin/layout.rs`, `core/admin/rbac.rs` | the pages and their links | search, filter, sort, page, layout | a page shows what its URL asks for, and its links lead on from it |
| View specifications `core/viewspec.rs`, `core/viewspec/render.rs`, `core/admin/layout.rs` | `<model>.view.json`, its `.tmp` | derive, load, edit, save, project | saved whole; no edit loses a field or shows a hidden one |
| Router, HTTP, server `core/{router,http,server,defaults}.rs` | the route table | register, dispatch | every link drawn reaches the handler it was made for |
| Retrofit, rendering, query building | | | see [not modelled](#not-modelled) |

**How they interact.** The CLI, and in part the admin server, call
`execute_plan_document`, which reads the schema file and the project, and writes
`models.rs` files and migrations. `migrate apply` runs those against SQLite, then
runs the compiled project with `--dump-schema`, which rewrites the schema file
the next plan is made from. So the models exist four times (schema file,
structs, migrations that wait, database), a fifth time in the server's cache,
and each copy moves at another moment. The admin server runs its handlers
concurrently on one pool; every `.await` is a point where another request, or
another process, can get in between.

**What is hard about it.** Several processes share a database, a directory and
temporary file names without a lock of their own. Runs die between two writes,
or in the middle of one. What was read (applied migrations, a schema file, a
password hash, a session, a row, the options of a form) is used after others
have changed it. A plan is a sequence of steps of which each sees the ones
before it only through a simulation, and there are three simulations.
`PROJECT.json` lists each of these hazards at its line, with the properties that
would notice it going wrong, or the reason why none does.

## The modules and the code

`PROJECT.json` maps every definition to its lines. Five groups of modules, each
with its own instance:

```
MigrationLedger <- Migrations + GeneratedSql <- MCMigrations         MigrationsProofs
CommitChanges <- MCCommitChanges                                     CommitProofs
Evolution <- MCEvolution <----- \                                     EvolutionProofs
Evolution, ModelsFile <- PlansApplied <- MCPlansApplied
Plans <- Planner <- Workspace <- Journey <- MCWorkspace              WorkspaceProofs
Auth <- MCAuth                                                       AuthProofs
Requests <- ViewSpecs <- Views \                                     ViewsProofs
Requests <- Records             > Lists \                            AdminSiteProofs
Requests <- Forms                        > AdminSite <- MCAdminSite
Router                                  /
```

On the right the module with the theorems about the group. `Induction` has what
they share: induction over numbers, and what is known of a recursive function or
a fold; `ViewsProofs` has the lemmas about views on which `AdminSiteProofs` rests.

### Migrations (`MigrationLedger`, `Migrations`, `GeneratedSql`)

`Migrations` has any number of processes in `apply_with` and in `generate`, and
people who edit, add and remove files. `apply_with` reads the tracking table
once (`ReadApplied`), lists the directory once (`ListFiles`), and then for each
pending file in byte order reads it and opens a transaction (`OpenFile`),
executes its statements (`ExecStatement`, `ExecNoop`), inserts the file's row
(`RecordFile`) and commits (`Commit`). Each of those is a step, each may fail
(`FileGone`, `StatementFails`, `AlreadyRecorded`, `Busy`, `CommitFails`), and the
process may be killed before any of them (`Kill`). SQLite is modelled by what
the code relies on: one write lock taken by the first write of a transaction,
readers that see the last commit, rollback of what was not committed, a busy
timeout, and the refusal of a nested BEGIN. A statement is what it needs, adds
and drops; a filename is a number and a slug with `Rank` for its place in the
byte order. `fs::write` is two steps, because another process may read the file
between them. Creating the core and the tracking tables is one step: the
statements are idempotent.

`MigrationLedger` is what the module's documentation promises, in one action.
`Migrations` implements it with `effects <- history` and `rows <- recorded`.

`GeneratedSql` holds the shapes of the SQL the executor writes: which tables and
columns each statement needs, adds and drops. `MCMigrations` applies them.

### Writing a plan's files (`CommitChanges`)

An executor reads the models one by one (`ReadModel`), then the migrations
(`PlanExecution`), checks every target against what it read (`Check`), writes
every sibling (`WriteTmp`), renames every sibling (`Rename`), and on a failed
rename undoes the earlier ones in reverse order (`Rollback`). Every file
operation is a step. Writes and renames may fail; a write of a rollback may fail
or be cut short, which the code passes over (`RollbackFails`); a kill in the
middle of `fs::write` leaves a truncated file, `Torn`. People edit the same files
(`Edit`) and other executors run the same code. The content of a file is the set
of edits in it, which is what the properties tell apart. Plans consist of
`add_field` steps, the primitive with one update and one creation, several of
which may share a file (`collapse_duplicate_updates`).

Three ghosts serve the properties: `late`, edits made to a file after its check;
`lost`, files that a rollback could not restore; `killed`.

### What a plan's steps do (`Evolution`, `ModelsFile`)

In `Evolution` each primitive the executor accepts is an action: its guard is
the validation against the schema (`known`), the executor's checks against its
own schema shadow (`shadow`) and against the structs (`source`); its effect moves
all three and appends a migration. The three are kept apart because the code
keeps them apart: `Plan::validate` applies a step with `ai::apply_primitive`, the
executor with `simulate_step`, and the structs change by text replacement. A
field is its name, type, nullability and foreign key. `Commit` and `Migrate` are
the two modules above in one step each. `DumpSchema` asks the compiled project,
so it needs one that compiles: `Compiles` states the part of that which the
primitives can break, an `id` that is an `i64`.

`ModelsFile` is the text itself. A model is written five times in a `models.rs`:
the struct, `COLUMNS`, `INSERT_COLUMNS`, the lines of `from_row` and those of
`insert_values`; `admin.rs` registers it. Each patcher looks for a text and
changes the first occurrence it finds, in the struct it has located or in the
first `impl` of the file, as the code does. A name is the sequence of its words,
so that one name can be found inside another. `meant` is what the plan means,
`work` what the patchers have made of the text, and `mistaken` records that a
patcher looked for a text that was there twice, or for the `self.id` that
`insert_values` does not have and found the beginning of another name.
`PlansApplied` is what a plan does looked at in both ways.

### Plans, review and the people at work (`Plans`, `Planner`, `Workspace`)

`Plans` has every primitive of `ai.rs` with its checks alone and against a
schema, the review's own shadow, the risk of a step and of a plan, and the
warnings of what a plan takes away. `Planner`
has the parsers: a sentence is the words it has (form, hint, field, type word),
and each parser yields the step it makes of it for a schema and a context, with
the type inference, the region's and the industry's packs.

`Workspace` is a project over time. In terminals `ai plan` saves a plan,
`ai apply` and `change` show a reading of the project, wait for a yes
(`Confirm`), and then read the project again and apply that. In browsers an
admin opens the review of a suggestion (`OpenReview`) and posts it (`PostApply`,
`FinishApply`); the server keeps the schema it cached (`ReadSchema`,
`StoreSchema` are the two halves of `refresh`) and the context it read when it
started. The schema file is dumped by another process (`DumpSchema`), the
context edited by hand (`EditContext`), the server stopped and started. `Execute`
makes of structs what a plan's steps make of them; writing its files is one step,
because `CommitChanges` has the steps.

### From an empty directory to a served site (`Journey`)

`init`, `new app` and their half-way states (`InitKilled`, `ModelInterrupted`),
`migrate apply` and `status`, `user create`, `run`, and with them the three
voices that say what to do next: `Doctor`, `DefaultAction` (bare `rustio`) and
the hint at the end of each command. `After(command, p)` is the set of projects a
command can lead to, empty when it is refused. `Journey` extends `Workspace`: the
plans of a project become migrations that wait.

### Authentication (`Auth`)

One user, several browsers, one key of the rate limiter. A request is a
sequence of steps, one for each query and each critical section of the
limiter's mutex: login is `Login` (limiter check), `Find`, `RightPassword` /
`WrongPassword` / `Inactive`, `Sweep`, `SignIn`; an authenticated request is
`Request`, `FindSession` / `NoSession`, `FindUser`, and then its handler
(`Page`, `Logout`, `ClearOthers`, `Change` ... `Reissue`), after
`require_csrf`. `SetPassword` is one step because the code makes it one
transaction. Passwords and their hashes are the same values: verification is
equality. A CSRF token is modelled by the session it belongs to; every session
has one of its own. The clock is `LockElapses` and `Expire`. Any query may fail
(`QueryFails`, and `SweepFails` and `SignOutFails` where the code passes over it). Two fields of a
session (`made`, `proved`) are kept for the properties only.

### The admin (`Records`, `Forms`, `ViewSpecs`, `Views`, `Lists`, `Router`, `AdminSite`)

`Records` is the database as the handlers see it: three tables, a foreign key
with each policy, `sqlite_sequence`, the log and its own foreign key to users. A
handler is the sequence of its statements without a transaction around them
(`CheckExists`, `UpdateRow`, `FindRow`, `DeleteRow`, `RecordEntry`, ...); each may
find that the row, or what it refers to, is gone.

`Forms` follows a value: what `Control` makes of a cell for a kind of field, what
a browser sends of it (`Sent`, `LegacySent`), and what `MutationData` or
`FromForm` stores of that. Tabs keep a page while rows and targets change.

`ViewSpecs` has the rules of `viewspec.rs`: the derived view, validation, and
every edit of the view editor. Its selections and sorts are recursive functions
(`Among`, `Arranged`), so that there can be lemmas about them. `Views` keeps the saved file by inodes: two saves
of one model share the temporary path, and a writer that has opened an inode
keeps it whatever the path becomes. A save is remove, open, fill, rename.

`Lists` is the list page: what a URL asks for, the queries that answer it one
after the other, and the links of the page (pager, sorter, layouts, clear,
toolbar), each of which is a URL again that a tab may follow. `Router` has the
patterns, `dispatch`, the routes of a site in the order they are registered, and
the links and forms the pages draw (`Links`).

`AdminSite` composes them: a request arrives in a slot (`Arrive`), is dispatched,
passes the guard and is handled by the steps of its module, interleaved with the
other slots, until the machine stops (`Crash`). `rustio view` (`Terminal`), which
reads and writes the saved view without the server, takes a slot as a request
does.

## The runs

| Run | Question | Properties |
|---|---|---|
| `mig_concurrent` | two processes apply one directory, a file is edited, removed or added under them, one is killed | `TypeOK`, `AtMostOnce`, `RecordedIsEffective`, `OkMeansComplete`, `DatabaseIsHistory`, `InOrder`, and the refinement `LedgerSpec` |
| `mig_one_author` | one process numbers files while two apply them, and one is killed | `NumbersAscend`, and under fairness `Returns` |
| `mig_forced_drop` | is a generated migration ever refused for its own BEGIN? | `ForcedDropApplies`, violated |
| `commit_apart` | two plans for different models at once, an edit by hand, two faults | `TypeOK`, `AllOrNothing`, `EarlyEditsSurvive`, `InstallsOwn` |
| `commit_twice` | the same plan twice at once | `ReportedIsApplied`, violated |
| `evolve_dumped` | every plan of up to two steps, then another, on a schema that is dumped in between; and on the text of four small apps | `TypeOK`, `MigrationsReachCode`, `PlansAgree`, `NothingDropped` |
| `evolve_stale` | the same when the schema was not dumped | `DriftIsCaught`, violated |
| `evolve_fk` | is a table with a foreign key ever recreated? | `ForeignKeysRefused`, violated |
| `auth_browsers` | two browsers sign in, sign out, clear sessions, change the password and are deactivated, all at once, and queries fail | `TypeOK`, `FailuresBounded`, `OnlyNewSessions`, `SignedInThen`, `OldFormsRefused` |
| `auth_change` | does every session belong to someone who proved the current password? | `SignedInAgain`, violated |
| `ai_workspace` | people plan, review and apply in terminals and browsers while schema file, cache and context go stale; and three projects begun from nothing | `ProjectTypeOK`, `AdviceHelps`, `HealthyMeansServed`, `AppliedAsShown`, `NothingLostUnseen`, `AppliedOnce`, `PlannedIsAllowed` |
| `admin_site` | two admins at a time work on rows, views, lists and forms, `rustio view` runs beside them, handlers interleave and fail, the machine stops | `SiteTypeOK`, `RowsAndLogAgree`, `LogOnlyGrows`, `RowsFit`, `EditKeepsTheRest`, `TornOnlyWhenShared`, `SavesItsOwn`, `EditsAreSound`, `HiddenNotShown`, `ListsAreSound`, `LinksReach` |

What the passing runs show, beyond the types, and what the properties except:

- **Migrations.** Nothing but the primary key of the tracking table, inserted in
  the file's own transaction, keeps two appliers from running a file twice, and
  it is enough (`AtMostOnce`). The database is at every moment exactly the replay
  of the committed files (`DatabaseIsHistory`), so nothing of a failed or killed
  run leaks. A failed file stops its run (`InOrder`), and an Ok means that
  nothing listed is pending although the table was read only once
  (`OkMeansComplete`). Numbers stay unique and files take effect in their order
  with one author (`NumbersAscend`).
- **Commit.** An executor that says Ok has its whole plan on disk; one that says
  Err has all of it or none, whatever fails, as long as nobody else runs a plan
  on the same files (`AllOrNothing`). Excepted are executors that were killed,
  for which the code has no recovery, and plans with a file in `lost`: writes of
  a rollback are the one failure the code passes over, although the module's
  doc makes no exception for them. An edit saved before the check survives both
  outcomes (`EarlyEditsSurvive`); one in `late` need not. A sibling left by a
  killed run is never installed (`InstallsOwn`).
- **Evolution.** On a dumped schema all primitives compose: the migrations that
  wait are accepted and give the database the columns of the structs
  (`MigrationsReachCode`), and no recreated table loses a column
  (`NothingDropped`). `PlansAgree` has two halves. The executor's shadow and its
  patched structs agree at every step of a plan (`ShadowIsSource`). And the text
  says what the plan means in all five places exactly as long as every text a
  patcher looked for was there once (`SourceIsMeant`, `mistaken`): the run
  contains apps with two models, names that contain one another and a name that
  begins with `id`, where it is not. `Removal` excepts plans with a forced removal, whose SQL is never accepted.
- **Workspace.** What is written is what was shown to the one who said yes, and no
  riskier, although every path reads the project once more after the yes
  (`AppliedAsShown`); a plan of one step is not written twice in a row
  (`AppliedOnce`); no field of personal data is lost or retyped by any sequence of
  steps (`PiiStays`), and whatever else the structs lose, a warning of it was on
  the screen of the one who said yes (`LossesWarned`; both make up
  `NothingLostUnseen`). A struct is followed through the renames of the plan
  (`Successors`), and a field that makes place for another of its name counts as
  changed (`Announced`). And a planner's plan always passes the review that follows
  (`PlannedIsAllowed`), whose schema shadow and idea of what is allowed differ
  from the planner's.
- **Journey.** The command the doctor names first removes its finding, and neither
  bare `rustio` nor a hint names a command that is refused (`AdviceHelps`). Excepted
  (`BeyondRepair`) are a directory or `apps/mod.rs` left half written by a kill, two
  directories for one struct or one table (a second app whose name makes the same,
  or an app added after a model was renamed to what it makes), a registered app
  whose migration was never written (`NeverMigrated`), structs that no longer
  compile because a plan changed the integer type of `id`, and a migration that is
  always refused (its own transaction, or a table renamed onto one that is there:
  `NeverAccepted`): in these the advice goes round in circles. When no check
  complains the server selects columns that exist and somebody can sign in
  (`HealthyMeansServed`); only `NeverMigrated` is excepted.
- **Auth.** The limiter overshoots by less than the number of concurrent
  attempts (`FailuresBounded`). Whatever runs at the same time, no session is
  older than the last password change (`OnlyNewSessions`), a handler only runs
  for a session that was live when its request began (`SignedInThen`), and a
  form rendered under another session has no effect (`OldFormsRefused`).
- **Rows and log.** References hold, an id is never given to a second row so that
  a history is that of one row, and every row deleted in bulk is in the log
  (`RowsAndLogAgree`) -- except `unlogged`, rows whose entry could not be written
  because the user was deleted or the insertion failed, of which the admin was
  told. Entries go only with their user (`LogOnlyGrows`).
- **Forms.** A field nobody touched is stored as it was drawn (`EditKeepsTheRest`),
  but for values the page cannot show (`CannotShow`): NULL, a time with a zone, a
  text of several lines. A relation whose row is not on offer is never replaced
  in silence. What the admin stores decodes again (`RowsFit`), except that the
  templated form stores an empty number or time as the empty text and an integer
  beyond its type as it comes.
- **Views.** The saved view is whole at every moment (`TornOnlyWhenShared`) and a
  save installs what it built (`SavesItsOwn`), unless two saves shared the
  temporary path (`shared`). The editor never produces a view that its own
  validation refuses, and loses no field (`EditsAreSound`); a field the derived
  view hides appears only when someone made it visible (`HiddenNotShown`).
- **Lists and links.** A page shows what its URL asks for when nothing changed
  while its queries ran, and following the links keeps the search and the sort and
  shows each row once (`ListsAreSound`). The pager drops the filter, and does not
  keep `table` when another layout is saved: both are excepted. Every link and
  form drawn reaches its handler past the fixed routes (`LinksReach`).

Every property has a mutant in `PROJECT.json`: a definition changed as a
plausible bug would change it (the row inserted early, a rollback that forgets
created files, a shadow that misses a rename, an id reused, a link without its
sort), under which TLC finds the property violated. The mutants stand before the
definitions they replace, marked `Mutant:`.

## Bounds

- *Migrations*: numbers up to 2 (in `mig_one_author` up to 3, beginning with a
  directory whose first file is gone, so that counting files is not numbering)
  with two slugs, so that files can collide in
  number and differ in name; three contents (a table, a column that needs it, a
  statement that can be repeated), so that order and double application are
  visible; two appliers and one edit, one merge, one removal and one kill, which
  is every pair of a process and a disturbance. All numbers are below 10000,
  where byte order and numeric order agree. Appliers are symmetric.
- *CommitChanges*: two models, a plan that updates one file twice and creates
  two, a second plan elsewhere, one edit by hand, four migration numbers. Two
  faults, each an I/O error or a kill of either executor at any operation: a
  failed rename whose rollback fails needs both.
- *Evolution*: three names and three types (`i64`, `String`, and `DateTime` which
  has no safe cast to `i64`), three models of which one does not exist yet, so
  renames have a target. Two steps in a plan and three migrations overall: all
  ordered pairs of primitives, and every one of them followed by another plan or
  another migration.
- *ModelsFile*: four apps: one model whose field names end and begin with one
  another, one with a field whose name begins with `id`, two models with a common
  field, with and without a common beginning of their names. Two patches in a plan, three in all.
- *Workspace and Journey* (`MCWorkspace`): each behaviour is one of nine days,
  which say who is at work on what: one terminal with every sentence and every
  document; two terminals with the same documents; saved plans; plans that put
  a field or a model in the place of another; two browsers; a browser and a
  terminal; three fresh directories (two app names that make one struct; two
  structs with a plan on top; a model that is renamed before another takes its new
  name or its new table). Two plans are applied
  (`MaxApplied`), one change of the context (`MaxSettings`) between Sweden with
  housing, healthcare, and none: what one plan does to another needs two.
- *Auth*: two browsers, two passwords, three sessions, one password change, a
  threshold of 2. One change while the other browser is anywhere in its own
  request is what the races need; three sessions allow both browsers a session
  at the change and one after it. `failures` is bounded by what is checked.
- *AdminSite* (`MCAdminSite`): two slots, ids up to 5, one failure of the view's
  file, one of the log, four inodes (one for each path and each slot). Each
  behaviour draws from one visit: lists and their links over three pages of two
  (three requests), the view editor (three), the view editor beside `rustio view`
  (two), bulk actions with the users deleted
  meanwhile (three), every link and every refused form (one), event forms with
  their targets deleted meanwhile (four), and rows under each foreign-key policy
  (two). A race of two handlers needs two requests, and its effect on a third
  page needs three. Slots are symmetric.

## Fairness and stopping

Only `mig_one_author` uses fairness. `FairSpec` gives each applier weak fairness
on `Step`: a process that is running goes on running, as an operating system
schedules it and as `apply_with` never waits without a timeout (`Busy`). Nobody
is obliged to start a process, to generate a file or to kill one. `Returns` does
not follow from the bounds: the mutant `TryAgain` loops for ever.

`CHECK_DEADLOCK FALSE` is set where the system may rest: in `evolve_*` when the
bound of migrations is reached and all is applied and dumped, in `ai_workspace`
when everybody has gone and the bound of plans is reached, and in `admin_site`
when the visit has sent its last request and the server waits for another. In
the other runs a state without a step is an error.

## The proofs

All proofs are for every value of the constants: any number of processes, files,
executors, people, browsers, sessions, requests, rows, fields, models and faults.
They use the named assumptions of the modules they extend, which TLC evaluates in
the runs. Theorems about the parts of the admin are stated of `SiteSpec`, the
composition: they hold while the other parts take steps.

**`MigrationsProofs`** proves `TypeOK` (`Typing`), `AtMostOnce` (`Once`),
`RecordedIsEffective` (`Recorded`), `OkMeansComplete` (`Complete`), `InOrder`
(`Ordered`) and the refinement of the ledger (`Implements`). None of the safety
properties is inductive alone. `IInv` adds

- `WholeFile`: the row is inserted after the last statement;
- `Locked`: between INSERT and COMMIT the process holds the write lock and its
  file is not recorded, so nobody else can record it;
- `Progress`: what left the to-do list is recorded, and the open file is the
  first of that list.

`Once` then comes from `Locked`: a commit appends a file that is not recorded,
and recorded files are exactly those in the history. `Complete` and `Ordered`
come from `Progress`; `Implements` from `WholeFile` and `Locked`, with every step
but `Commit` mapping to a stutter. `Rank` need only be injective, so these proofs
cover file numbers of any length in whatever order they sort.

Two more invariants stand on `IInv`. `DatabaseIsHistory` (`Replays`) needs
`Isolated`: what an applier in a transaction sees is the committed database with
the statements it has executed so far, and whoever is not the writer has
executed nothing that changes it, so a rollback restores and a commit publishes
exactly one file. `NumbersAscend` (`Ascends`) is about one author: under
`OneAuthor` (one process generates, nobody edits the directory) and `NumbersSort`
(names sort by their numbers, which `{:04}` gives up to 9999, and the files of
the start have numbers of their own) a generated number is above all there are
(`Numbered`), for any number of appliers.

**`CommitProofs`** proves all four properties of `commit_apart`: `TypeOK`
(`Typing`), and under `Apart` -- no two executors' plans name the same file, which
`commit_twice` shows to be needed -- `InstallsOwn` (`RenamesItsOwn`),
`EarlyEditsSurvive` (`EarlyEdits`) and `AllOrNothing` (`Atomic`). The argument has
layers, each inductive on top of the one before:

- `Shape`: the list of changes names each file once, only files of the plan,
  with an update that contains what it replaces and no step of the plan in it
  yet (`Proper`), and covers every step (`Complete`); `FileChanges` and
  `Patchable` give that (`AllChanges`).
- `OwnSteps`: a step touches its own files and its own variables only, which
  with `Apart` leaves the other executors' invariants alone.
- `Written`: a sibling is what its executor computed, from its write to its
  rename. `RenamesItsOwn` follows.
- `Kept`: what a checked change replaces holds every edit made before the check.
  It needs `EarlyEditsSurvive` in the state before the check, and
  `EarlyEditsSurvive` needs `Kept` when a rename or a rollback replaces the file:
  the two are inductive together.
- `Firm`: the changes renamed so far are on disk, so Ok means applied, with no
  exception at all. `Sound`: nothing else of the plan is (`ClearAfter`), so a
  rollback ends with nothing; a plan that is found half there when it is read
  again is refused because what is there has been seen (`Seen`). `Sound` holds
  for whom it is not `Excused`.

**`AuthProofs`** proves `TypeOK` (`Typing`), `OnlyNewSessions` (`NewSessions`),
`SignedInThen` (`SignedIn`), `FailuresBounded` (`Failures`) and
`OldFormsRefused` (`OldForms`). `OnlyNewSessions` is inductive by itself.
`SignedIn` needs `Issued` and `StaysLate`: an id is issued once, so a session
that was gone when the request began cannot come back before it is looked up.
`Failures` needs `Budget`: the failures plus the attempts under way are below
the threshold plus the number of browsers. The limiter's reset may set the
count to 0 with attempts in flight, which `Budget` survives because the count is
below the threshold whenever an attempt starts.

**`EvolutionProofs`** proves `TypeOK` (`Typing`), `PlansAgree` (`PlansAgreed`),
`NothingDropped` (`NothingIsDropped`) and `MigrationsReachCode`
(`MigrationsReach`), for any number of models, plans, steps
and waiting migrations. The invariant, `Consistent`, says of the list of waiting
migrations that it *leads* from the tables to the structs, through states in
which each migration is accepted and loses no column to a recreated table
(`LeadsTo`); of the list with the migrations of the plan under way that it leads
to the structs as patched so far; and that the executor's shadow dumps to what
the patched structs dump to. A step of a plan appends one migration, which a
database that fits the structs takes and which makes it fit the patched ones
(`Keeps`, one lemma for each primitive); applying one takes the head off the
list. A migration with its own transaction stops the list for ever
(`mig_forced_drop`), so beyond one nothing is claimed. Three hypotheses:

- `TablesDiffer`: no two structs have one table. Names that pluralise alike (`Post`
  and `Posts`) would share one, and the executor compares names only; Journey,
  where tables may be shared, excepts the migrations that are then refused.
- `InitDistinct`: the project begins with structs whose fields have different
  names, which is what rustc accepts.
- `AlwaysDump`: a plan is made of a schema that was dumped since the last commit.
  `evolve_stale` shows that it is needed.

`PlansAgree` has two halves. `ShadowIsSource` follows from `Consistent`
(`ShadowFollows`). `SourceIsMeant` follows from `FileInv` (`SourceMeant`): while no
step was mistaken the models are ones that rustc accepts (`WellFormed`), the text
says them (`Says`), and an `admin.rs` that was patched has a name that is not
on the disk; and a mistaken step leaves a text that says something else, whichever
of its five places it missed. The last part of the first half is what a second
`rename_model` of a plan needs, whose registration starts from the disk again. For
each patcher two lemmas say what it makes of the source of any models: that of the
models as they are meant when its texts are there once (`AddedTo`, `RemovedFrom`,
`RenamedIn`, `ChangedIn`, `StructRenamed`), and another one when they are not
(`RenamedWrong`, `ChangedWrong`). They rest on what the first place of a text in a
list is (`First`), and on where a field stands in the lists without the `id`
(`Over`, `Into`). The proof corrected the model: a rename of `id` is refused only
when no name in `insert_values` begins with it. Assumed is that names are made of
words and that an app begins as one that rustc accepts: structs with different
names, of fields with different names, with an `id` (`FilesAssumption`).

**`WorkspaceProofs`** proves the seven properties of `ai_workspace`:
`ProjectTypeOK` (`Typing`), `AppliedAsShown` (`AsShown`), `NothingLostUnseen`
(`Unseen`), `PlannedIsAllowed` (`Planned`), `HealthyMeansServed` (`Healthy`) and
`AdviceHelps` (`Advised`) of `ProjectSpec`, from an empty directory on, and `AppliedOnce` (`Once`) of `Spec`, the plans alone: `add model`
may write a struct again from its scaffold, after which a plan that was applied
can be applied once more without anything being repeated. Plans may have any
length, so the review and the dry run are folds over any number of steps; their
proofs go by induction over the steps, and follow both folds at once.

- `WorkInv` is the invariant behind `AsShown`. What a terminal shows has the risk
  of its plan, or Critical, and all its warnings (`Asked`); what a browser's page
  shows is what its suggestion leads to (`Offered`), and the plan of a request
  under way answers that suggestion, made again of another cache and perhaps of
  another context (`Answers`). So the plan that is written can be compared with
  the one that was shown, though nobody keeps the latter.
- `PlanRisk` is the risk of a plan by its steps alone. `AsShown` rests on the
  lemma that the review gives every plan this risk, whatever schema it reads; the
  order of the steps and the state of the schema do not lower it.
- `Unseen` needs `Intact`, along the dry run: after n steps each struct that no
  step has renamed holds every field of before that no warning announces, a
  renamed one does so under its new name, and each relation that the review's
  shadow knows of has a field that may go. A plan that passed
  the policy and raised no alarm only ever makes steps that keep it.
- `Once` needs that the step of the last plan, when it had only one, is done
  (`Done`: the field is there, the name is gone, the type is the new one), and
  that no step whose effect is there passes the executor's checks against the
  source. Structs have one field of a name (`Distinct`), which every step keeps.
- `Healthy` needs `Ready`: the migrations that wait lead from the tables to the
  columns that the structs select, or one of them is refused and the list never
  gets shorter. `add model` breaks this for two steps, between the registration
  and the migration; half-way the list leads to the columns of the structs as
  they were before the scaffold (`HalfWay`), and a kill there leaves a model
  registered for ever without a migration (`Lost`). The doctor says nothing only when
  nothing waits, and then the list leads nowhere: the tables *are* what is
  selected. No assumption about tables is needed here, since a rename onto a table
  that is there is refused. The doctor's other checks, of the schema file too,
  are not needed.
- `Advised` needs `Advisory`, which speaks of a project that no accident has harmed
  (`Unharmed`: no two directories for one struct, no migration that is refused for
  ever, no model without one). Then the migrations that wait are *all* accepted and
  lead to what the structs select (`Smooth`; half-way through `add model` to the
  structs before the scaffold, whose table is still free), so `migrate apply`, which
  the doctor names most often, gets to the end. When none waits, the schema file
  asks for no column that is not there (`Fits`); before the scaffold of the project
  is whole there is nothing else (`Early`); and the last hint is still of use
  (`Said`). With these every finding has its reason (`Due`), and its command takes
  the reason away, whatever other findings remain. The proof found an exception
  the instance had left out: structs that no longer compile, which
  `BeyondRepair` now has.

Their assumptions: of the naming functions only that they yield names
(`NamingAssumption`), and that a personal number is a text, as
`planner.rs` has it; that the types of the planner exist (`TypesAssumption`);
that structs start with fields of different names (`DaysAssumption`), which is
what rustc accepts; that a schema file that is missing is none of the schemas
(`MissingAssumption`); that there is a name for an app, that a project begun from
nothing begins without structs, and that scaffolds and core models have fields (`AppsAssumption`,
`CoreFieldsAssumption`).

**`AdminSiteProofs`** has five invariants, each of one part and kept by the steps
of all the others, and the types of the whole.

- `RecordsHold`, for `RowsAndLogAgree` (`RowsAgree`) and `LogOnlyGrows`
  (`LogGrows`), ties log and tables to `sqlite_sequence`: what was ever deleted
  had an id that is not above the highest one used, so no later row can be taken
  for it; and a row that a bulk action deleted is in the log, excused, or the
  head of a list about to be recorded.
- `FormsHold`, for `RowsFit` (`RowsAreRead`) and `EditKeepsTheRest` (`EditsKeep`),
  follows a value from the row to the page: what rows hold decodes, and what a
  page holds of a field is what the row held or what a control of its kind can
  send.
- `ViewsHold`, for `TornOnlyWhenShared` (`NotTorn`) and `SavesItsOwn`
  (`SavesInstall`), says that until two saves have shared a sibling, each inode
  has one writer: what is at the final path is whole, and what is at the
  temporary path belongs to the save that will rename it.
- `EditsHold`, for `EditsAreSound` (`EditsMakeViews`) and `HiddenNotShown`
  (`HiddenStays`), carries two facts along inodes and drafts, torn files and
  shared siblings included: whatever they hold is a view of the whole model
  (`Complete`), and it puts nothing of a secret shape on the page that nobody put
  there (`Put`). The second alone would not do. A member of a merge that the
  editor forgets, or that is in two places, comes back with a role the form did
  not give it; only a complete view rules that out.
- `ListsHold`, for `ListsAreSound` (`PagesShowRows`), says that a page whose queries
  saw one moment so far agrees with the rows as they are, query by query
  (`Current`), and that the page whose link was followed agrees with the same rows
  and had that link (`CameFrom`). What "next" or "clear" keeps is then a fact about
  one set of rows and two URLs: a valid sort stays what it is when it is written
  into a link and read again, and the windows of two pages in a row follow each
  other (`WindowIs`, `NextFollows`: the pages, the last of them included, have no
  gap and no overlap for any page size). `NoDangling` of `RecordsInv` gives the
  names of the authors. The proof corrected the model twice. A page was
  taken to be of one moment from its second query on, though the first reads the
  authors on offer: one of them could have lost their posts in between. And a link
  was held to its promise though the view's filters had been edited since the page
  was drawn. Small instances showed neither.
- `TypesHold`, for `SiteTypeOK`, takes most of the types from these five and adds
  the phases there are, the bounds, and that an id about to be recorded was handed
  out (`SiteTypes`). That a slot does one thing at a time (`OneThing`) spans the
  four parts: what each does to the slots is a lemma per part (`RecordSlots`,
  `SaveSlots`, `TabSlots`, `ListSlots`), and a request only arrives at a slot that
  none of them keeps busy.

`LinksReach` (`LinksReached`) is about the route table alone (`LinksLead`): for any
list of registered models whose names are neither a segment of a fixed route
(`Taken`) nor a parameter (`Params`), the first route that matches a link or form
the pages draw is the one it was made for. It goes by the places of a path: a route
registered before the right one differs from the link in some segment, in the
number of them or in the method. What a request is answered is then an invariant
of the handlers at work.

**`ViewsProofs`** has what one edit does, for any model, view and form. `Among`
keeps the elements it is asked for, in order and none twice, and `Arranged` keeps
all of them whatever the order is (`AmongIs`, `ArrangedIs`, each by induction over
the list). Hence the universe of a complete view lists every field once
(`UniverseIs`, by induction over the anchors met so far). The fields that join
an anchor and the anchors that stay divide the universe, because a target is
never merged away itself (`MergeIs`, `MergingDivides`), so that the edited view is
complete and accepted by its own validation (`MergedIs`, `EditedIs`); nothing
hidden joins, so what it puts on the page was there or had a visible role in the
form. `DerivedIs` and `ShownIs` say the same of the derived view and of the
columns of a layout.

Their assumptions: the site's models are among those it has handlers for
(`SiteAssumption`), the columns of a model have different names
(`ColumnsAssumption`), the first rows have the model's fields and no other
(`EventsAssumption`), forms speak of the model's fields and roles or of a role that
is rejected, and lists are asked for by URLs that a browser can send, or by the
links a page has (`VisitsAssumption`); a page has room for a row
(`ListsAssumption`), the bounds are natural numbers, and a view that a developer
wrote has every field of the model once, with merges that begin with their anchor
(`HandWrittenAssumption`). The last is more than `validate` asks: the editor shows
and keeps the fields of the file, so what the file leaves out no edit brings back,
and `EditsAreSound` says nothing of such files.

**`Induction`** states induction and recursion with sets and functions in place of
predicates and operators: the library's theorems take an operator as a
parameter, which no prover installed can instantiate. A set of numbers has a
least member (from `WFMin`); hence a set with 0 and every successor has all
(`SetInduction`), a recursive function and `FoldLeft` have values, of the type
their step keeps, and satisfy their equations. `DatabaseIsHistory`,
`MigrationsReachCode`, the review and the dry run are proved with these.

**Left to TLC.** Of the properties of the passing runs only `Returns`, which is
liveness under fairness and out of the prover's reach. That the hypotheses
`Apart` and `AlwaysDump` are needed, and that what a property excepts does occur,
is what the runs show: no theorem says it.

## Where code and documentation disagree

Each is a run that must find a violation; `PROJECT.json` quotes the lines.

1. `mig_forced_drop`: migrations that remove a field or a relation contain their
   own `BEGIN`/`COMMIT`, and `apply_with` runs them inside a transaction, where
   SQLite refuses that. They never apply, and block what comes after.
2. `commit_twice`: two executors of one plan share sibling names; the loser's
   rollback undoes what the winner has reported as applied.
3. `evolve_stale`: a recreated table has the columns of the schema file, so a
   column added since the last dump is dropped.
4. `evolve_fk`: the search for foreign keys misses the column constraint that
   `add_relation` itself writes, and the child's table is recreated without it.
5. `auth_change`: a login that verified the old password before a change creates
   its session after it.

Noticed while modelling, and stated by no run: each is an exception of a property
above, or outside what the modules keep.

- `rollback_renames` ignores failing writes (`executor.rs:3093`), though the
  module is all-or-nothing; the model has it as `lost`.
- Patchers change the first `impl` of a file (`executor.rs:2047`, `:2234`,
  `:2480`), though models sharing a file are first-class (`CHANGELOG.md:2088`); of
  two `rename_model` in a plan only the last is registered (`executor.rs:1367`).
- Three schema shadows (`ai.rs`, `review.rs`, `executor.rs`) differ in small ways,
  though `review.rs:752` asks to keep them in sync.
- `industry.rs:65` says sequential integer patient ids are refused; the planner
  plans `patient_id` as an `i32` (`planner.rs:884`).
- The templated handlers write no audit row for a create, update or delete
  (`admin.rs:4818`, `:4869`, `:4933`), though `audit.rs:1` says every one is
  logged. Deleting a user erases their entries (`auth.rs:885`).
- The pager drops filters and `layout=table` (`layout.rs:3000`); the form that
  saves a layout as default is nested in the toolbar's form, so that a browser
  submits the outer one.
- The comment above `write_to` (`viewspec.rs:520`) excludes readers of a
  half-written view; two saves that share the temporary file do not.
- `rustio view --save` "never" overwrites (`main.rs:2337`), but it looks for the
  file before it writes: a view saved by the editor in between is replaced by the
  derived one.
- The warning that an operation "rewrites the entire table" (`review.rs:556`) is
  not given for a field that becomes optional, whose table is recreated as well
  (`executor.rs:1235`).
- A model whose slug is a segment of a fixed route (`actions`, `suggestions`,
  `login`, `logout`, `profile`, `password_change`) has no pages under that path: the
  comment keeps the fixed routes first on purpose (`admin.rs:734`), and nothing
  refuses such a model. `LinksReach` is stated of models with other names.
- After a plan changed the integer type of `id` the project does not compile, the
  dump at the end of `migrate apply` fails, and the doctor's advice for the mismatch
  is `migrate apply` again.
- Renaming `id` is refused only because `insert_values` has no `self.id`
  (`executor.rs:2585`): beside a field whose name begins with `id` it goes through,
  and the other field's line is changed.
- `PermissionSet` is "consulted by handlers before they act" (`rbac.rs:78`); no
  handler does. List cells link to `/admin/<target>/<id>` (`layout.rs:2804`), which
  is no route. Labels of relations show values that cells mask (`layout.rs:2625`).

## Not modelled

- *Rendering*: markup, labels, wording, translations, dashboards. Where a page
  decides what is stored later, `Forms`, `Lists` and `Views` have it.
- *ORM and macros*: query text and code generation. `Forms` has what they do to a
  value, `ModelsFile` what the executor expects of the code around them; the pool
  matters as SQLite's lock, which `Migrations` has.
- *Foreign-key retrofit*: the SQL it writes has the shape `mig_forced_drop` shows
  to be refused, so no later state exists.
- *CLI*: interactive prompts, and how a view is printed.
- In *Evolution*: `has_many` relations and the primary-key attribute of `id`. In
  *CommitChanges*: steps other than `add_field`. In *Planner*: how a sentence is
  split into words. In *Auth*: several users and addresses, the age of
  failures. In *Records*: columns other than the two that matter for
  references and roles. In *Views*: more than one model's file.

## Plan

What is left, in the order of what it would add:

1. `CommitChanges` with a plan that renames: two updates of one kind of file and
   no creation that depends on it.
2. Several users in `Auth`, composed with `Records`: the last admin, and requests
   of a user who is deleted while they run.
3. An abstract specification of `Workspace`, plans as atomic changes of one
   description of the models, and the refinement for behaviours in which the
   schema is dumped before it is read.
